------------------------------- MODULE GitEnv -------------------------------
(***************************************************************************)
(* What src/gitenv.rs does to the environment of a git child, and what git *)
(* and gettext (external) make of what is left: the language git speaks,   *)
(* and whether the directory it runs in is what chooses its repository.    *)
(***************************************************************************)
EXTENDS Naturals

RepoLocatingVars ==
  {"GIT_DIR", "GIT_WORK_TREE", "GIT_COMMON_DIR", "GIT_INDEX_FILE", "GIT_OBJECT_DIRECTORY",
   "GIT_ALTERNATE_OBJECT_DIRECTORIES", "GIT_CEILING_DIRECTORIES"}

LocaleAction == [LC_ALL |-> "Pin", LC_MESSAGES |-> "Pin", LANG |-> "Pin", LANGUAGE |-> "Drop"]

Vars == RepoLocatingVars \union DOMAIN LocaleAction

Unset == "unset"
Other == "other"    \* another directory, or another language
Values == {Unset, "C", Other}

Insulated(env) == [v \in Vars |-> IF v \in RepoLocatingVars THEN Unset ELSE env[v]]

\* mutant: the variables that can be set are not, the others are dropped
Pinned_Dropped(env) ==
  [v \in Vars |-> IF v \in {"LC_MESSAGES", "LANG"} THEN Unset ELSE env[v]]

Pinned(env) ==
  [v \in Vars |-> IF v \notin DOMAIN LocaleAction THEN env[v]
                  ELSE IF LocaleAction[v] = "Pin" THEN "C" ELSE Unset]

\* validate_with_git
ChildEnv(env) == Pinned(Insulated(env))

-----------------------------------------------------------------------------
\* LANGUAGE counts only while the locale is not C
Locale(env) ==
  CASE env["LC_ALL"] # Unset                                     -> env["LC_ALL"]
    [] env["LC_ALL"] = Unset /\ env["LC_MESSAGES"] # Unset         -> env["LC_MESSAGES"]
    [] env["LC_ALL"] = Unset /\ env["LC_MESSAGES"] = Unset
         /\ env["LANG"] # Unset                                   -> env["LANG"]
    [] OTHER                                                      -> "C"

SpeaksEnglish(env) == Locale(env) = "C"
ActsOnItsDirectory(env) == \A v \in RepoLocatingVars : env[v] = Unset

\* what the program is started with: any locale, and one pointer at another
\* repository at most
Environments ==
  {[v \in Vars |-> IF v \in DOMAIN LocaleAction THEN locale[v]
                   ELSE IF v = pointer THEN Other ELSE Unset] :
     locale \in [DOMAIN LocaleAction -> Values], pointer \in RepoLocatingVars \union {"none"}}
=============================================================================

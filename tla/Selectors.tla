----------------------------- MODULE Selectors ------------------------------
(***************************************************************************)
(* What the three commands address and how they are told: the entries of a *)
(* parsed patch as far as addressing goes, and the arguments of            *)
(* src/select.rs parse_selectors.                                          *)
(*                                                                         *)
(* An argument is what stands after its last ':' (all of it, if there is   *)
(* none) and the path before that.  Numbers are numbers already; NaN is a  *)
(* text that is none, among them one that leaves usize.  Of an entry's     *)
(* sub-hunks only the bodies matter; how a hunk is split into them is      *)
(* SelectFile's subject.                                                   *)
(***************************************************************************)
EXTENDS Hunks

CONSTANTS
  Paths,        \* paths in diffs and arguments, "/dev/null" among them
  DevNull,      \* "/dev/null", one of them
  NoPath,       \* None: a side without a path, an argument without ':'
  EmptyPath,    \* an argument that begins with its only ':'
  Ids,          \* content ids
  Hash(_),      \* FNV-1a of what is fed to it: any function into Ids
  MaxIndices    \* MAX_SELECTOR_INDICES

ASSUME SelectorsAssumption ==
  /\ DevNull \in Paths
  /\ NoPath \notin Paths /\ EmptyPath \notin Paths /\ NoPath # EmptyPath
  /\ MaxIndices \in Nat

-----------------------------------------------------------------------------
(* Entries.                                                                  *)

Body  == Seq(Line)
Entry == [old : Paths \union {NoPath}, new : Paths \union {NoPath},
          binary : BOOLEAN,
          deletes : BOOLEAN,     \* its headers delete the file as a whole
          tail : BOOLEAN,        \* trailer lines follow its last hunk
          hunks : Nat,           \* how many hunks the diff has for it
          subs : Seq(Body)]      \* what auto-split makes of them
\* a binary entry has a payload instead
Patch == [files : Seq({f \in Entry : f.binary => f.subs = <<>>}), cropped : BOOLEAN]

Sides(f) == {f.old, f.new} \ {NoPath}

\* the changed lines of a sub-hunk in body order; their numbers are what @L takes
ChangedLines(body) == SelectSeq(body, LAMBDA l : l.kind \in Changes)
ChangedCount(body) == Count(body, Changes)

\* the number of a changed line, or of the last one above a context line
NumberOf(body, l) == CountIn(body, Changes, 1, l)

\* taking only some changed lines: an addition left out disappears, a deletion
\* left out stays as context
Survives(body, taken, l) == body[l].kind = "add" => NumberOf(body, l) \in taken
IsContext(body, taken, l) ==
  \/ body[l].kind = "ctx"
  \/ body[l].kind = "del" /\ NumberOf(body, l) \notin taken

\* a context line without its newline, above another line, does not stay one:
\* it is deleted and added back with one
LeavesContext(body, taken) ==
  \E l \in DOMAIN body :
    /\ IsContext(body, taken, l)
    /\ body[l].nonl => \A k \in DOMAIN body : k > l => ~Survives(body, taken, k)

\* what an id is made of: a path that is absent is fed as an empty one
Fed(f, body) ==
  <<IF f.new = NoPath THEN EmptyPath ELSE f.new,
    IF f.old = NoPath THEN EmptyPath ELSE f.old,
    ChangedLines(body)>>
IdOf(f, body) == Hash(Fed(f, body))

\* what all_same_content compares
Content(f, body) == <<f.new, f.old, ChangedLines(body)>>

\* every sub-hunk of a patch that has this id: IdIndex
Carrying(files, id) ==
  UNION {{fi} \X {si \in DOMAIN files[fi].subs : IdOf(files[fi], files[fi].subs[si]) = id} :
         fi \in {i \in DOMAIN files : ~files[i].binary}}

-----------------------------------------------------------------------------
(* Arguments and what they are read into.                                    *)

NaN == -1
Num == {n \in Int : n >= NaN}
\* `n` or `lo-hi`, between commas
Part == {p \in Seq(Num) : Len(p) \in {1, 2}}

Argument ==
  [path : Paths \union {NoPath, EmptyPath},
   form : {"*",      \* *
           "list",   \* 1,3-5
           "cut",    \* 2@L1,3-5
           "range",  \* 2@1-3, no longer a form
           "id",     \* @ and hexadecimal digits
           "other"}, \* anything else: a path that holds a ':', a misspelt set
   index : Num,      \* of a cut or a range
   parts : Seq(Part),
   id : Ids]

Selector ==
  [path : Paths \union {NoPath}, form : {"*", "list", "cut", "id"},
   index : Nat, indices : Seq(Nat), id : Ids]

Commands == {"select", "list", "split"}
\* split takes one argument
Request  == {r \in [command : Commands, args : Seq(Argument)] :
               r.command = "split" => Len(r.args) = 1}
=============================================================================

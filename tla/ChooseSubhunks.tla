--------------------------- MODULE ChooseSubhunks ---------------------------
(***************************************************************************)
(* Abstract: what a user of select, list --only and split may rely on      *)
(* (README.md, "Selectors"; the help texts of src/cli.rs).  Every argument *)
(* means a set of sub-hunks or entries by itself.  The command answers     *)
(* with exactly what all of them mean together, however often, in whatever *)
(* order and in which form each is named, or it refuses.                   *)
(***************************************************************************)
EXTENDS Selectors

VARIABLES patch, request, answer

files == patch.files
Files == DOMAIN files
TextFiles == {fi \in Files : ~files[fi].binary}
Subs(fi) == DOMAIN files[fi].subs
Sub(p) == files[p[1]].subs[p[2]]

Args == request.args
Listing == request.command = "list"

-----------------------------------------------------------------------------
(* One argument.                                                             *)

NumbersOf(part) == IF Len(part) = 1 THEN {part[1]} ELSE part[1]..part[2]
Numbers(arg) == UNION {NumbersOf(arg.parts[j]) : j \in DOMAIN arg.parts}

PartReads(part) == part[1] >= 1 /\ (Len(part) = 2 => part[2] >= part[1])
Reads(arg) ==
  /\ arg.path # EmptyPath
  /\ \/ arg.form = "*"
     \/ arg.form = "id" /\ arg.path = NoPath
     \/ /\ arg.form \in {"list", "cut"}
        /\ arg.form = "cut" => arg.index >= 1
        /\ arg.parts # <<>>
        /\ \A j \in DOMAIN arg.parts : PartReads(arg.parts[j])

\* the one entry an argument is about
Meant(path) ==
  IF path = NoPath THEN {fi \in Files : Len(files) = 1}
  ELSE {fi \in Files : path \in Sides(files[fi])}
Target(arg) == CHOOSE fi \in Meant(arg.path) : TRUE

\* everything the changes of one id may be: the same change of the same file
SameChange(ps) ==
  \A p, q \in ps : Content(files[p[1]], Sub(p)) = Content(files[q[1]], Sub(q))
ById(id) == {p \in UNION {{fi} \X Subs(fi) : fi \in TextFiles} : IdOf(files[p[1]], Sub(p)) = id}

Known(arg) ==
  IF arg.form = "id" THEN ById(arg.id) # {} /\ SameChange(ById(arg.id))
  ELSE /\ Cardinality(Meant(arg.path)) = 1
       /\ LET fi == Target(arg)
          IN  IF files[fi].binary
              THEN arg.form = "*" \/ (arg.form = "list" /\ ~Listing)
              ELSE /\ arg.form = "list" => Numbers(arg) \subseteq Subs(fi)
                   /\ arg.form = "cut"  => arg.index \in Subs(fi)

EntriesOf(arg) == IF arg.form = "id" THEN {p[1] : p \in ById(arg.id)} ELSE {Target(arg)}

\* the sub-hunks an argument names, whole or cut
Named(arg) ==
  IF arg.form = "id" THEN ById(arg.id)
  ELSE LET fi == Target(arg)
       IN  CASE files[fi].binary -> {}
             [] ~files[fi].binary /\ arg.form = "*"    -> {fi} \X Subs(fi)
             [] ~files[fi].binary /\ arg.form = "list" -> {fi} \X Numbers(arg)
             [] ~files[fi].binary /\ arg.form = "cut"  -> {<<fi, arg.index>>}

\* the changed lines it takes of each of them
LinesOf(arg, p) == IF arg.form = "cut" THEN Numbers(arg) ELSE 1..ChangedCount(Sub(p))

-----------------------------------------------------------------------------
(* All of them.                                                              *)

\* what an argument asks for: each number as often as it is listed
Asked(arg) ==
  IF arg.form \in {"list", "cut"}
  THEN UNION {{j} \X NumbersOf(arg.parts[j]) : j \in DOMAIN arg.parts} ELSE {}

Affordable == Cardinality(UNION {{i} \X Asked(Args[i]) : i \in DOMAIN Args}) <= MaxIndices

\* a sub-hunk that is cut is named once
Compatible ==
  \A i, j \in DOMAIN Args :
    i # j /\ Args[i].form = "cut" => Named(Args[i]) \intersect Named(Args[j]) = {}

CutsFit ==
  \A i \in DOMAIN Args : Args[i].form = "cut" =>
    \A p \in Named(Args[i]) : Numbers(Args[i]) \subseteq 1..ChangedCount(Sub(p))

Picks == UNION {{<<p, LinesOf(Args[i], p)>> : p \in Named(Args[i])} : i \in DOMAIN Args}

\* an entry that deletes its file is taken so that nothing of the file remains
DeletionsStand ==
  \A pick \in Picks : files[pick[1][1]].deletes => ~LeavesContext(Sub(pick[1]), pick[2])

Understood ==
  /\ Args # <<>>
  /\ \A i \in DOMAIN Args : Reads(Args[i]) /\ Known(Args[i])
  /\ Affordable

Entries == UNION {EntriesOf(Args[i]) : i \in DOMAIN Args}

Open    == [kind |-> "open"]
Refusal == [kind |-> "refused"]
Selection == [kind |-> "selected", entries |-> Entries, picks |-> Picks]
Shown     == [kind |-> "listed", entries |-> Entries,
              subs |-> UNION {Named(Args[i]) : i \in DOMAIN Args}]
Everything == [kind |-> "listed", entries |-> Files,
               subs |-> UNION {{fi} \X Subs(fi) : fi \in TextFiles}]
Addressing(fi, n) == [kind |-> "target", entry |-> fi, hunk |-> n]

\* split takes one number, of the entry's hunks and not of its sub-hunks
Addressed(arg) ==
  /\ arg.path # EmptyPath /\ arg.form = "list"
  /\ Len(arg.parts) = 1 /\ Len(arg.parts[1]) = 1
  /\ Cardinality(Meant(arg.path)) = 1
  /\ ~files[Target(arg)].binary
  /\ arg.parts[1][1] \in 1..files[Target(arg)].hunks

Answer ==
  CASE request.command = "select" ->
         IF Understood /\ Compatible /\ CutsFit /\ DeletionsStand THEN Selection ELSE Refusal
    [] request.command = "list" ->
         IF Args = <<>> THEN Everything
         ELSE IF Understood /\ \A i \in DOMAIN Args : Args[i].form # "cut"
              THEN Shown ELSE Refusal
    [] request.command = "split" ->
         IF Addressed(Args[1]) THEN Addressing(Target(Args[1]), Args[1].parts[1][1])
         ELSE Refusal

Init == answer = Open
Next == answer = Open /\ answer' = Answer /\ UNCHANGED <<patch, request>>
Spec == Init /\ [][Next]_<<patch, request, answer>>
=============================================================================

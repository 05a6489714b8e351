-------------------------- MODULE ResolveSelectors --------------------------
(***************************************************************************)
(* From the arguments of a command to what it acts on (src/select.rs, the  *)
(* listings of src/list.rs): parse_selectors with its index budget,        *)
(* resolve_selectors with the split cache and the id index,                *)
(* emit_selection file by file and pick by pick, the rows of a listing,    *)
(* and resolve_hunk.  The patch is parsed and screened already.            *)
(***************************************************************************)
EXTENDS Selectors

CONSTANTS
  Patches,      \* the patches tried
  Requests(_)   \* and what is asked of each

ASSUME InputsAssumption ==
  Patches \subseteq Patch /\ \A p \in Patches : Requests(p) \subseteq Request

VARIABLES
  patch, request,
  phase, why,      \* where the command is, and the SelectError it ended with
  at,              \* the argument, selector or file entry the phase has come to
  part, list,      \* parse_index_list: parts passed, numbers listed so far
  left,            \* IndexBudget
  sels,            \* the selectors read
  cache,           \* subs_cache: the entries that are split
  resolved,        \* the ids resolved
  named,           \* chosen: its keys,
  whole, cuts,     \*   FilePicks.whole and FilePicks.lines of every entry
  todo, picks,     \* the picks of an entry still to materialise, and those done
  out,             \* the entries emitted
  crop,            \* the result ends without a newline
  rows             \* the entries listed

input     == <<patch, request>>
parsing   == <<part, list, left, sels>>
resolving == <<cache, resolved, named, whole, cuts>>
emitting  == <<todo, picks, out, crop>>
vars == <<input, phase, why, at, parsing, resolving, emitting, rows>>

Phases == {"parse", "set", "resolve", "emit", "pick", "list", "address", "done", "refused"}
Errors == {"BadSelector", "UnknownPath", "AmbiguousPath", "NoIndex", "UnknownId",
           "IdCollision", "EmptySelection", "RemovedRangeForm", "LineSelect"}

files     == patch.files
Files     == DOMAIN files
TextFiles == {fi \in Files : ~files[fi].binary}
Subs(fi)  == files[fi].subs
Listing   == request.command = "list"

Pick    == [index : Nat, whole : BOOLEAN, lines : SUBSET Nat]
LineSet == [index : Nat, lines : Seq(Nat)]
Output  == [entry : Files, ends : BOOLEAN, picks : Seq(Pick)]

\* split takes one address; a listing without a filter has no selectors
Begins ==
  IF request.command = "split" THEN "address"
  ELSE IF Listing /\ request.args = <<>> THEN "list" ELSE "parse"

Init ==
  /\ patch \in Patches /\ request \in Requests(patch)
  /\ phase = Begins
  /\ why = "none" /\ at = 1
  /\ part = 1 /\ list = <<>> /\ left = MaxIndices /\ sels = <<>>
  /\ cache = {} /\ resolved = {} /\ named = {}
  /\ whole = [fi \in Files |-> {}]
  /\ cuts = [fi \in Files |-> <<>>]
  /\ todo = {} /\ picks = <<>> /\ out = <<>> /\ crop = FALSE
  /\ rows = <<>>

Refuse(error) ==
  /\ phase' = "refused"
  /\ why' = error
  /\ UNCHANGED <<input, at, parsing, resolving, emitting, rows>>

-----------------------------------------------------------------------------
(* parse_selectors.  What is left of a form that does not parse is read as  *)
(* a bare set; with a ':' in it, that never is one.                          *)

Arg == request.args[at]
Parsing == phase = "parse" /\ at <= Len(request.args)

Takes(selector) ==
  /\ sels' = Append(sels, selector)
  /\ at' = at + 1

HasSet(arg) ==
  /\ arg.form \in {"list", "cut"} /\ arg.path # EmptyPath
  /\ arg.form = "cut" => arg.index >= 1
  /\ arg.parts # <<>>

ReadStar ==
  /\ Parsing /\ Arg.form = "*" /\ Arg.path # EmptyPath
  /\ Takes([path |-> Arg.path, form |-> "*", index |-> 0, indices |-> <<>>, id |-> Arg.id])
  /\ UNCHANGED <<input, phase, why, part, list, left, resolving, emitting, rows>>

ReadId ==
  /\ Parsing /\ Arg.form = "id" /\ Arg.path = NoPath
  /\ Takes([path |-> NoPath, form |-> "id", index |-> 0, indices |-> <<>>, id |-> Arg.id])
  /\ UNCHANGED <<input, phase, why, part, list, left, resolving, emitting, rows>>

OpenSet ==
  /\ Parsing /\ HasSet(Arg)
  /\ phase' = "set"
  /\ UNCHANGED <<input, why, at, parsing, resolving, emitting, rows>>

RefuseArg ==
  /\ Parsing /\ ~HasSet(Arg)
  /\ Arg.form = "*"  => Arg.path = EmptyPath
  /\ Arg.form = "id" => Arg.path # NoPath
  /\ Refuse(IF Arg.form = "range" /\ Arg.index >= 1 /\ Arg.path # EmptyPath
            THEN "RemovedRangeForm" ELSE "BadSelector")

Span(lo, hi) == [i \in 1..(hi - lo + 1) |-> lo + i - 1]
Ordered(p)   == p[1] >= 1 /\ (Len(p) = 2 => p[2] >= p[1])
NumbersIn(p) == IF Len(p) = 2 THEN Span(p[1], p[2]) ELSE <<p[1]>>
SizeOf(p)    == IF Len(p) = 2 THEN p[2] - p[1] + 1 ELSE 1

ReadingSet == phase = "set" /\ part <= Len(Arg.parts)

\* mutant: charged, but not refused
TakePart_NoCeiling ==
  /\ ReadingSet /\ Ordered(Arg.parts[part])
  /\ left' = left - SizeOf(Arg.parts[part])
  /\ list' = list \o NumbersIn(Arg.parts[part])
  /\ part' = part + 1
  /\ UNCHANGED <<input, phase, why, at, sels, resolving, emitting, rows>>

TakePart ==
  /\ ReadingSet /\ Ordered(Arg.parts[part]) /\ SizeOf(Arg.parts[part]) <= left
  /\ left' = left - SizeOf(Arg.parts[part])
  /\ list' = list \o NumbersIn(Arg.parts[part])
  /\ part' = part + 1
  /\ UNCHANGED <<input, phase, why, at, sels, resolving, emitting, rows>>

RefusePart ==
  /\ ReadingSet
  /\ Ordered(Arg.parts[part]) => SizeOf(Arg.parts[part]) > left
  /\ Refuse("BadSelector")

\* mutant: every selector has an allowance of its own
CloseSet_OwnBudget ==
  /\ phase = "set" /\ part > Len(Arg.parts)
  /\ Takes([path |-> Arg.path, form |-> Arg.form, indices |-> list, id |-> Arg.id,
            index |-> IF Arg.form = "cut" THEN Arg.index ELSE 0])
  /\ phase' = "parse" /\ part' = 1 /\ list' = <<>> /\ left' = MaxIndices
  /\ UNCHANGED <<input, why, resolving, emitting, rows>>

CloseSet ==
  /\ phase = "set" /\ part > Len(Arg.parts)
  /\ Takes([path |-> Arg.path, form |-> Arg.form, indices |-> list, id |-> Arg.id,
            index |-> IF Arg.form = "cut" THEN Arg.index ELSE 0])
  /\ phase' = "parse" /\ part' = 1 /\ list' = <<>>
  /\ UNCHANGED <<input, why, left, resolving, emitting, rows>>

\* a listing takes no @L, whatever else is wrong with the selectors
AddressesLines == Listing /\ \E i \in DOMAIN sels : sels[i].form = "cut"

EndParse ==
  /\ phase = "parse" /\ at > Len(request.args) /\ ~AddressesLines
  /\ phase' = "resolve" /\ at' = 1
  /\ UNCHANGED <<input, why, parsing, resolving, emitting, rows>>

RefuseCutToList ==
  /\ phase = "parse" /\ at > Len(request.args) /\ AddressesLines
  /\ Refuse("LineSelect")

-----------------------------------------------------------------------------
(* resolve_selectors.                                                        *)

Sel == sels[at]
Resolving(form) == phase = "resolve" /\ at <= Len(sels) /\ Sel.form = form

\* PathIndex: the entries that carry a path on either side; no path is the
\* one entry of a diff that has one
Owners(path) ==
  IF path = NoPath THEN {fi \in Files : Len(files) = 1}
  ELSE {fi \in Files : path \in Sides(files[fi])}

Owned(path) == Cardinality(Owners(path)) = 1
Owner(path) == CHOOSE fi \in Files : Owners(path) = {fi}

RefusePath(path) ==
  /\ ~Owned(path)
  /\ Refuse(IF path # NoPath /\ Owners(path) = {} THEN "UnknownPath" ELSE "AmbiguousPath")

OfPath == phase = "resolve" /\ at <= Len(sels) /\ Sel.form # "id"
RefuseOwner == OfPath /\ RefusePath(Sel.path)

\* an entry that is named without a sub-hunk of it
TakeBinary ==
  /\ OfPath /\ Owned(Sel.path)
  /\ LET fi == Owner(Sel.path)
     IN  /\ files[fi].binary
         /\ Sel.form = "*" \/ (Sel.form = "list" /\ ~Listing)
         /\ named' = named \union {fi}
  /\ at' = at + 1
  /\ UNCHANGED <<input, phase, why, parsing, cache, resolved, whole, cuts, emitting, rows>>

RefuseBinary ==
  /\ OfPath /\ Owned(Sel.path) /\ files[Owner(Sel.path)].binary
  /\ Sel.form = "cut" \/ (Sel.form = "list" /\ Listing)
  /\ Refuse(IF Sel.form = "cut" THEN "LineSelect" ELSE "NoIndex")

\* split on demand, once per entry
Splits(fi) == cache' = cache \union {fi}

TakeAll ==
  /\ Resolving("*") /\ Owned(Sel.path)
  /\ LET fi == Owner(Sel.path)
     IN  /\ ~files[fi].binary
         /\ Splits(fi)
         /\ named' = named \union {fi}
         /\ whole' = [whole EXCEPT ![fi] = @ \union DOMAIN Subs(fi)]
  /\ at' = at + 1
  /\ UNCHANGED <<input, phase, why, parsing, resolved, cuts, emitting, rows>>

TakeIndices ==
  /\ Resolving("list") /\ Owned(Sel.path)
  /\ LET fi == Owner(Sel.path)
     IN  /\ ~files[fi].binary
         /\ \A j \in DOMAIN Sel.indices : Sel.indices[j] <= Len(Subs(fi))
         /\ Splits(fi)
         /\ named' = named \union {fi}
         /\ whole' = [whole EXCEPT ![fi] = @ \union {Sel.indices[j] : j \in DOMAIN Sel.indices}]
  /\ at' = at + 1
  /\ UNCHANGED <<input, phase, why, parsing, resolved, cuts, emitting, rows>>

\* which changed lines the sub-hunk has is not looked at before emission
TakeCut ==
  /\ Resolving("cut") /\ Owned(Sel.path)
  /\ LET fi == Owner(Sel.path)
     IN  /\ ~files[fi].binary
         /\ Sel.index <= Len(Subs(fi))
         /\ Splits(fi)
         /\ named' = named \union {fi}
         /\ cuts' = [cuts EXCEPT ![fi] =
                       Append(@, [index |-> Sel.index, lines |-> Sel.indices])]
  /\ at' = at + 1
  /\ UNCHANGED <<input, phase, why, parsing, resolved, whole, emitting, rows>>

RefuseIndex ==
  /\ OfPath /\ Sel.form # "*" /\ Owned(Sel.path)
  /\ LET fi == Owner(Sel.path)
     IN  /\ ~files[fi].binary
         /\ \/ Sel.form = "cut" /\ Sel.index > Len(Subs(fi))
            \/ Sel.form = "list" /\ \E j \in DOMAIN Sel.indices : Sel.indices[j] > Len(Subs(fi))
  /\ Refuse("NoIndex")

\* IdIndex::lookup; the index is built, and every text entry split, on first use
Matched == Carrying(files, Sel.id)

\* mutant: the same lines in another file are the same change
SameContent_AnyFile(ps) ==
  \E first \in ps : \A p \in ps :
    ChangedLines(Subs(p[1])[p[2]]) = ChangedLines(Subs(first[1])[first[2]])

\* all_same_content: everything is compared with the first match
SameContent(ps) ==
  \E first \in ps : \A p \in ps :
    Content(files[p[1]], Subs(p[1])[p[2]]) = Content(files[first[1]], Subs(first[1])[first[2]])

\* mutant: the splits of the id index are not kept for emission
ResolveId_SplitsNothing ==
  /\ Resolving("id") /\ Sel.id \notin resolved
  /\ Matched # {} /\ SameContent(Matched)
  /\ named' = named \union {p[1] : p \in Matched}
  /\ whole' = [fi \in Files |-> whole[fi] \union {i \in DOMAIN Subs(fi) : <<fi, i>> \in Matched}]
  /\ resolved' = resolved \union {Sel.id}
  /\ at' = at + 1
  /\ UNCHANGED <<input, phase, why, parsing, cache, cuts, emitting, rows>>

ResolveId ==
  /\ Resolving("id") /\ Sel.id \notin resolved
  /\ cache' = cache \union TextFiles
  /\ Matched # {} /\ SameContent(Matched)
  /\ named' = named \union {p[1] : p \in Matched}
  /\ whole' = [fi \in Files |-> whole[fi] \union {i \in DOMAIN Subs(fi) : <<fi, i>> \in Matched}]
  /\ resolved' = resolved \union {Sel.id}
  /\ at' = at + 1
  /\ UNCHANGED <<input, phase, why, parsing, cuts, emitting, rows>>

RepeatId ==
  /\ Resolving("id") /\ Sel.id \in resolved
  /\ at' = at + 1
  /\ UNCHANGED <<input, phase, why, parsing, resolving, emitting, rows>>

RefuseId ==
  /\ Resolving("id") /\ Sel.id \notin resolved
  /\ Matched # {} => ~SameContent(Matched)
  /\ Refuse(IF Matched = {} THEN "UnknownId" ELSE "IdCollision")

EndResolve ==
  /\ phase = "resolve" /\ at > Len(sels) /\ named # {}
  /\ phase' = IF Listing THEN "list" ELSE "emit"
  /\ at' = 1
  /\ UNCHANGED <<input, why, parsing, resolving, emitting, rows>>

\* mutant: an entry without sub-hunks does not count
RefuseEmpty_NothingPicked ==
  /\ phase = "resolve" /\ at > Len(sels)
  /\ \A fi \in Files : whole[fi] = {} /\ cuts[fi] = <<>>
  /\ Refuse("EmptySelection")

RefuseEmpty ==
  /\ phase = "resolve" /\ at > Len(sels) /\ named = {}
  /\ Refuse("EmptySelection")

-----------------------------------------------------------------------------
(* emit_selection: over the entries in the order of the diff (the map is    *)
(* ordered), over the picks of an entry in the order of its sub-hunks.       *)

Emitting == phase = "emit" /\ at <= Len(files)

PassEntry ==
  /\ Emitting /\ at \notin named
  /\ at' = at + 1
  /\ UNCHANGED <<input, phase, why, parsing, resolving, emitting, rows>>

EmitBinary ==
  /\ Emitting /\ at \in named /\ files[at].binary
  /\ out' = Append(out, [entry |-> at, picks |-> <<>>, ends |-> TRUE])
  /\ at' = at + 1
  /\ UNCHANGED <<input, phase, why, parsing, resolving, todo, picks, crop, rows>>

WholePick(fi, i) == [index |-> i, whole |-> TRUE, lines |-> 1..ChangedCount(Subs(fi)[i])]
CutPick(c) == [index |-> c.index, whole |-> FALSE,
               lines |-> {c.lines[j] : j \in DOMAIN c.lines}]

\* mutant: two cuts of a sub-hunk are let through
Conflicting_WholeOnly(fi) ==
  \E c \in DOMAIN cuts[fi] : cuts[fi][c].index \in whole[fi]

\* reject_conflicting_line_set_picks
Conflicting(fi) ==
  \E c \in DOMAIN cuts[fi] :
    \/ cuts[fi][c].index \in whole[fi]
    \/ \E d \in DOMAIN cuts[fi] : d # c /\ cuts[fi][d].index = cuts[fi][c].index

BeginEntry ==
  /\ Emitting /\ at \in named /\ ~files[at].binary /\ ~Conflicting(at)
  /\ phase' = "pick"
  /\ todo' = {WholePick(at, i) : i \in whole[at]}
             \union {CutPick(cuts[at][c]) : c \in DOMAIN cuts[at]}
  /\ picks' = <<>>
  /\ UNCHANGED <<input, why, at, parsing, resolving, out, crop, rows>>

RefuseConflict ==
  /\ Emitting /\ at \in named /\ ~files[at].binary /\ Conflicting(at)
  /\ Refuse("LineSelect")

NextPick(p) == p \in todo /\ \A q \in todo : p.index <= q.index
Fits(p) == p.lines \subseteq 1..ChangedCount(Subs(at)[p.index])

TakePick ==
  /\ phase = "pick"
  /\ \E p \in todo :
       /\ NextPick(p) /\ Fits(p)
       /\ todo' = todo \ {p}
       /\ picks' = Append(picks, p)
  /\ UNCHANGED <<input, phase, why, at, parsing, resolving, out, crop, rows>>

RefuseLines ==
  /\ phase = "pick"
  /\ \E p \in todo : NextPick(p) /\ ~Fits(p)
  /\ Refuse("LineSelect")

PartialDeletion ==
  /\ files[at].deletes
  /\ \E i \in DOMAIN picks : LeavesContext(Subs(at)[picks[i].index], picks[i].lines)

EndsOnItsLastLine ==
  \/ Subs(at) = <<>>
  \/ picks # <<>> /\ picks[Len(picks)].whole /\ picks[Len(picks)].index = Len(Subs(at))
  \/ files[at].tail

EndEntry ==
  /\ phase = "pick" /\ todo = {} /\ ~PartialDeletion
  /\ out' = Append(out, [entry |-> at, picks |-> picks, ends |-> EndsOnItsLastLine])
  /\ phase' = "emit" /\ at' = at + 1 /\ picks' = <<>>
  /\ UNCHANGED <<input, why, parsing, resolving, todo, crop, rows>>

RefuseDeletion ==
  /\ phase = "pick" /\ todo = {} /\ PartialDeletion
  /\ Refuse("LineSelect")

\* mutant: whichever entry is the last of the result
EndEmit_AnyEntry ==
  /\ phase = "emit" /\ at > Len(files)
  /\ crop' = (patch.cropped /\ out # <<>> /\ out[Len(out)].ends)
  /\ phase' = "done"
  /\ UNCHANGED <<input, why, at, parsing, resolving, todo, picks, out, rows>>

EndEmit ==
  /\ phase = "emit" /\ at > Len(files)
  /\ crop' = (/\ patch.cropped /\ out # <<>>
              /\ out[Len(out)].entry = Len(files) /\ out[Len(out)].ends)
  /\ phase' = "done"
  /\ UNCHANGED <<input, why, at, parsing, resolving, todo, picks, out, rows>>

-----------------------------------------------------------------------------
(* The listings: every entry, or those the filter holds, and of an entry    *)
(* the sub-hunks the filter holds.                                           *)

Filtered == request.args # <<>>
ShowsFile(fi)       == Filtered => fi \in named
ShowsSubHunk(fi, i) == Filtered => i \in whole[fi]

\* mutant: the sub-hunks shown are numbered from one
Row_Renumbered(fi, i) ==
  [index |-> Cardinality({j \in 1..i : ShowsSubHunk(fi, j)}),
   id |-> IdOf(files[fi], Subs(fi)[i]),
   id_count |-> Cardinality(Carrying(files, IdOf(files[fi], Subs(fi)[i]))),
   changed_lines |-> ChangedLines(Subs(fi)[i])]

\* what a listing says of a sub-hunk; an id is counted over the whole patch
Row(fi, i) ==
  [index |-> i,
   id |-> IdOf(files[fi], Subs(fi)[i]),
   id_count |-> Cardinality(Carrying(files, IdOf(files[fi], Subs(fi)[i]))),
   changed_lines |-> ChangedLines(Subs(fi)[i])]

\* the new path, or the old one where that says nothing
DisplayPath(f) ==
  IF f.new \notin {NoPath, DevNull} THEN f.new
  ELSE IF f.old \notin {NoPath, DevNull} THEN f.old ELSE EmptyPath

Shown(fi) == {i \in DOMAIN Subs(fi) : ShowsSubHunk(fi, i)}

\* a row for each sub-hunk shown, by its number among all of the entry
EntryRow(fi) ==
  [entry |-> fi, path |-> DisplayPath(files[fi]), hunks |-> [i \in Shown(fi) |-> Row(fi, i)]]

ListEntry ==
  /\ phase = "list" /\ at <= Len(files) /\ ShowsFile(at)
  /\ rows' = Append(rows, EntryRow(at))
  /\ at' = at + 1
  /\ UNCHANGED <<input, phase, why, parsing, resolving, emitting>>

SkipEntry ==
  /\ phase = "list" /\ at <= Len(files) /\ ~ShowsFile(at)
  /\ at' = at + 1
  /\ UNCHANGED <<input, phase, why, parsing, resolving, emitting, rows>>

EndList ==
  /\ phase = "list" /\ at > Len(files)
  /\ phase' = "done"
  /\ UNCHANGED <<input, why, at, parsing, resolving, emitting, rows>>

-----------------------------------------------------------------------------
(* resolve_hunk: one index, of the entry's hunks as the diff has them.       *)

Address == request.args[1]
Position == Address.parts[1][1]
IsAddress ==
  /\ Address.form = "list" /\ Address.path # EmptyPath
  /\ Len(Address.parts) = 1 /\ Len(Address.parts[1]) = 1
  /\ Position >= 1
InItsEntry ==
  /\ ~files[Owner(Address.path)].binary
  /\ Position <= files[Owner(Address.path)].hunks

FindHunk ==
  /\ phase = "address" /\ IsAddress /\ Owned(Address.path) /\ InItsEntry
  /\ phase' = "done" /\ at' = Owner(Address.path)
  /\ UNCHANGED <<input, why, parsing, resolving, emitting, rows>>

RefuseAddress ==
  /\ phase = "address"
  /\ \/ ~IsAddress /\ Refuse("BadSelector")
     \/ IsAddress /\ RefusePath(Address.path)
     \/ /\ IsAddress /\ Owned(Address.path) /\ ~InItsEntry
        /\ Refuse(IF files[Owner(Address.path)].binary THEN "BadSelector" ELSE "NoIndex")

-----------------------------------------------------------------------------
Parse   == ReadStar \/ ReadId \/ OpenSet \/ RefuseArg \/ TakePart \/ RefusePart \/ CloseSet
           \/ EndParse \/ RefuseCutToList
Resolve == RefuseOwner \/ TakeBinary \/ RefuseBinary \/ TakeAll \/ TakeIndices \/ TakeCut
           \/ RefuseIndex \/ ResolveId \/ RepeatId \/ RefuseId \/ EndResolve \/ RefuseEmpty
Emit    == PassEntry \/ EmitBinary \/ BeginEntry \/ RefuseConflict \/ TakePick \/ RefuseLines
           \/ EndEntry \/ RefuseDeletion \/ EndEmit
Show    == ListEntry \/ SkipEntry \/ EndList

Ended == phase \in {"done", "refused"} /\ UNCHANGED vars

Next == Parse \/ Resolve \/ Emit \/ Show \/ FindHunk \/ RefuseAddress \/ Ended

Spec == Init /\ [][Next]_vars

-----------------------------------------------------------------------------
(* Properties.                                                               *)

\* the refinement mapping: what the command answered with
Answered ==
  CASE phase = "refused" -> [kind |-> "refused"]
    [] phase = "done" /\ request.command = "select" ->
         [kind |-> "selected", entries |-> {out[i].entry : i \in DOMAIN out},
          picks |-> UNION {{<<<<out[i].entry, out[i].picks[j].index>>, out[i].picks[j].lines>> :
                             j \in DOMAIN out[i].picks} : i \in DOMAIN out}]
    [] phase = "done" /\ Listing ->
         [kind |-> "listed", entries |-> {rows[i].entry : i \in DOMAIN rows},
          subs |-> UNION {{<<rows[i].entry, rows[i].hunks[j].index>> :
                             j \in DOMAIN rows[i].hunks} : i \in DOMAIN rows}]
    [] phase = "done" /\ request.command = "split" ->
         [kind |-> "target", entry |-> at, hunk |-> Position]
    [] phase \notin {"done", "refused"} -> [kind |-> "open"]

Choice == INSTANCE ChooseSubhunks WITH answer <- Answered

\* The selectors, however they are interleaved, repeated or spelled, come down
\* to what each of them means on its own (src/select.rs, select,
\* resolve_subhunk_filter, resolve_hunk).
Chooses == Choice!Spec

\* Every variable keeps to its type; the allowance does not go below nothing
\* (src/select.rs, IndexBudget::take).
TypeOK ==
  /\ patch \in Patch /\ request \in Request
  /\ phase \in Phases /\ why \in Errors \union {"none"}
  /\ at \in Nat \ {0} /\ part \in Nat \ {0}
  /\ list \in Seq(Nat) /\ left \in 0..MaxIndices /\ sels \in Seq(Selector)
  /\ cache \subseteq Files /\ named \subseteq Files /\ resolved \subseteq Ids
  /\ whole \in [Files -> SUBSET Nat] /\ cuts \in [Files -> Seq(LineSet)]
  /\ todo \subseteq Pick /\ picks \in Seq(Pick)
  /\ out \in Seq(Output) /\ crop \in BOOLEAN

\* Emission indexes the cache by entry and an entry's splits by number and
\* would panic on either if resolution had let one through that is not there
\* (select.rs:805, 743).
LookupsHold ==
  phase \in {"emit", "pick"} =>
    \A fi \in named : ~files[fi].binary =>
      /\ fi \in cache
      /\ whole[fi] \subseteq DOMAIN Subs(fi)
      /\ \A c \in DOMAIN cuts[fi] : cuts[fi][c].index \in DOMAIN Subs(fi)

\* Whatever the arguments, no more numbers are held than the constant allows,
\* and what is left is what was not spent (select.rs:326).
Held == UNION {{i} \X DOMAIN sels[i].indices : i \in DOMAIN sels}
BudgetKept == Cardinality(Held) + Len(list) + left = MaxIndices

\* The result has the entries and their sub-hunks in the order of the diff, and
\* each at most once, also when it was named twice, whole and in part
\* (select.rs:690).
EachSubHunkOnce ==
  /\ \A i, j \in DOMAIN out : i < j => out[i].entry < out[j].entry
  /\ \A i \in DOMAIN out : \A j, k \in DOMAIN out[i].picks :
       j < k => out[i].picks[j].index < out[i].picks[k].index

\* the place a result or an entry ends on: in its tail, in a line of a
\* sub-hunk, or in what it has instead of sub-hunks
LastLine(body, taken) ==
  LET kept == {l \in DOMAIN body : Survives(body, taken, l)}
  IN  IF kept = {} THEN 0 ELSE Max(kept)
EndOf(fi, ps) ==
  CASE files[fi].tail -> <<fi, "tail">>
    [] ~files[fi].tail /\ ps = <<>> -> <<fi, "entry">>
    [] ~files[fi].tail /\ ps # <<>> ->
         LET p == ps[Len(ps)] IN <<fi, p.index, LastLine(Subs(fi)[p.index], p.lines)>>
EndOfInput ==
  LET fi == Len(files)
      n  == Len(Subs(fi))
  IN  EndOf(fi, IF n = 0 THEN <<>> ELSE <<WholePick(fi, n)>>)

\* A result ends without a newline only if it ends on the line of the input
\* that had none, and it does so wherever that line is not in a cut
\* (select.rs:788).
CropsOnlyTheLastLine ==
  phase = "done" /\ out # <<>> =>
    LET last == out[Len(out)]
    IN  /\ crop => patch.cropped /\ EndOf(last.entry, last.picks) = EndOfInput
        /\ /\ patch.cropped /\ EndOf(last.entry, last.picks) = EndOfInput
           /\ \A i \in DOMAIN last.picks : last.picks[i].whole
           => crop

\* Every number and id of a listing, narrowed or not, selects what it stands
\* beside: `path:index` that sub-hunk (where one entry has the path), `@id` all
\* the sub-hunks it is counted for, or nothing if they are not the same change
\* (list.rs:149, select.rs:858).
ListedIsSelectable ==
  \A r \in DOMAIN rows : \A h \in DOMAIN rows[r].hunks :
    LET row  == rows[r].hunks[h]
        byId == {p \in UNION {{fi} \X DOMAIN Subs(fi) : fi \in TextFiles} :
                   IdOf(files[p[1]], Subs(p[1])[p[2]]) = row.id}
    IN  /\ rows[r].path # EmptyPath /\ Owned(rows[r].path) =>
             row.changed_lines = ChangedLines(Subs(Owner(rows[r].path))[row.index])
        /\ <<rows[r].entry, row.index>> \in byId
        /\ Cardinality(byId) = row.id_count

\* what must be so if a request is refused with an error
HasCause(error) ==
  LET given == {request.args[i] : i \in DOMAIN request.args}
  IN  /\ error = "EmptySelection" => request.args = <<>>
      /\ error = "UnknownPath" => \E a \in given : a.path # NoPath /\ Owners(a.path) = {}
      /\ error = "AmbiguousPath" =>
           \E a \in given : IF a.path = NoPath THEN Len(files) # 1
                            ELSE \E fi, fj \in Owners(a.path) : fi # fj
      /\ error = "NoIndex" =>
           \E a \in given : \E fi \in Owners(a.path) :
             \/ files[fi].binary
             \/ a.form = "cut" /\ a.index \notin DOMAIN Subs(fi)
             \/ a.form = "list" /\ \E j \in DOMAIN a.parts :
                  LET p == a.parts[j] IN p[Len(p)] \notin 1..(IF request.command = "split"
                                                             THEN files[fi].hunks
                                                             ELSE Len(Subs(fi)))
      /\ error = "UnknownId" => \E a \in given : a.form = "id" /\ Carrying(files, a.id) = {}
      /\ error = "IdCollision" =>
           \E a \in given : a.form = "id" /\ \E p, q \in Carrying(files, a.id) :
             Content(files[p[1]], Subs(p[1])[p[2]]) # Content(files[q[1]], Subs(q[1])[q[2]])

\* A refusal is put down to what is the matter (the comments of SelectError,
\* select.rs:48).
RefusalNamesItsCause == HasCause(why)
=============================================================================

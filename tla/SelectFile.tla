----------------------------- MODULE SelectFile -----------------------------
(***************************************************************************)
(* `hunkpick select` on one text entry, from the parsed diff to the exit   *)
(* code: validate_input, auto-split into sub-hunks, the picks turned into  *)
(* hunks (whole, or cut down to chosen changed lines), the refusal of a    *)
(* partial deletion, renumber_new_side and the internal check             *)
(* (src/split.rs, src/select.rs and ResultDiff).                           *)
(*                                                                         *)
(* The picks are what the selectors came down to: a subset of the          *)
(* sub-hunks, each taken whole or with a set of 1-based changed-line       *)
(* numbers.  How selectors are resolved to picks is not this module's      *)
(* question.  materialise_picks walks the picks in sub-hunk order; here    *)
(* the walk goes over all sub-hunks and decides, for each, whether it is   *)
(* picked and how, which visits the same picks in the same order.          *)
(***************************************************************************)
EXTENDS ResultDiff

CONSTANT Entries   \* the text entries tried: records of hunks and deletes, deletes
                   \* if the entry deletes its file

ASSUME EntriesAssumption ==
  \A e \in Entries : e.hunks \in Seq(Hunk) /\ e.deletes \in BOOLEAN

VARIABLES
  step,    \* inside phase "cut": which loop runs
  hi, run, \* auto_split_hunk: the hunk, and the run its next piece begins at
  subs,    \* the sub-hunks of the entry
  k,       \* the next sub-hunk of the pick loop
  lineSet, \* the changed lines an @L pick names, {} between slices
  li,      \* the next body line of the slice loops
  body,    \* slice_changed_lines: the body it is building
  fixed,   \* fix_mid_hunk_no_newline: the same, repaired
  out,     \* the hunks picked so far
  picked   \* the pick of every sub-hunk passed: its changed lines taken

cutting == <<step, hi, run, subs, k, lineSet, li, body, fixed, out, picked>>
vars == <<loop, entry, cutting>>

Steps == {"split", "pick", "slice", "fix"}

Init ==
  /\ entry \in Entries
  /\ LoopInit
  /\ step = "split"
  /\ hi = 1 /\ run = 0
  /\ k = 1 /\ li = 1
  /\ lineSet = {}
  /\ subs = <<>> /\ body = <<>> /\ fixed = <<>> /\ out = <<>> /\ picked = <<>>

-----------------------------------------------------------------------------
(* auto_split_hunk, over every hunk of the entry (build_file_subs).  A piece *)
(* begins at a run (the first one at the hunk's first line) and ends just    *)
(* before the next run, or with the hunk.                                    *)

At(s) == phase = "cut" /\ step = s

KeepHunk ==
  /\ At("split") /\ hi <= Len(hunks)
  /\ Cardinality(RunStarts(hunks[hi].lines)) <= 1
  /\ subs' = Append(subs, hunks[hi])
  /\ hi' = hi + 1
  /\ UNCHANGED <<loop, entry, step, run, k, lineSet, li, body, fixed, out, picked>>

\* the run the next piece holds, and the runs after it
ThisRun  == IF run = 0 THEN Min(RunStarts(hunks[hi].lines)) ELSE run
LaterRuns == {r \in RunStarts(hunks[hi].lines) : r > ThisRun}
PieceFrom == IF run = 0 THEN 1 ELSE run

\* mutant: the piece reaches into the next run
SplitInner_Overlaps ==
  /\ At("split") /\ hi <= Len(hunks)
  /\ Cardinality(RunStarts(hunks[hi].lines)) > 1
  /\ LaterRuns # {}
  /\ subs' = Append(subs, RebuildSubhunk(hunks[hi], PieceFrom, Min(LaterRuns)))
  /\ run' = Min(LaterRuns)
  /\ UNCHANGED <<loop, entry, step, hi, k, lineSet, li, body, fixed, out, picked>>

SplitInner ==
  /\ At("split") /\ hi <= Len(hunks)
  /\ Cardinality(RunStarts(hunks[hi].lines)) > 1
  /\ LaterRuns # {}
  /\ subs' = Append(subs, RebuildSubhunk(hunks[hi], PieceFrom, Min(LaterRuns) - 1))
  /\ run' = Min(LaterRuns)
  /\ UNCHANGED <<loop, entry, step, hi, k, lineSet, li, body, fixed, out, picked>>

SplitLast ==
  /\ At("split") /\ hi <= Len(hunks)
  /\ Cardinality(RunStarts(hunks[hi].lines)) > 1
  /\ LaterRuns = {}
  /\ subs' = Append(subs, RebuildSubhunk(hunks[hi], PieceFrom, Len(hunks[hi].lines)))
  /\ hi' = hi + 1
  /\ run' = 0
  /\ UNCHANGED <<loop, entry, step, k, lineSet, li, body, fixed, out, picked>>

EndSplit ==
  /\ At("split") /\ hi > Len(hunks)
  /\ step' = "pick"
  /\ UNCHANGED <<loop, entry, hi, run, subs, k, lineSet, li, body, fixed, out, picked>>

-----------------------------------------------------------------------------
(* The pick loop.                                                            *)

ChangedLines(h) == 1..Count(h.lines, Changes)

PassBy ==
  /\ At("pick") /\ k <= Len(subs)
  /\ picked' = Append(picked, {})
  /\ k' = k + 1
  /\ UNCHANGED <<loop, entry, step, hi, run, subs, lineSet, li, body, fixed, out>>

TakeWhole ==
  /\ At("pick") /\ k <= Len(subs)
  /\ out' = Append(out, subs[k])
  /\ picked' = Append(picked, ChangedLines(subs[k]))
  /\ k' = k + 1
  /\ UNCHANGED <<loop, entry, step, hi, run, subs, lineSet, li, body, fixed>>

\* slice_changed_lines; the selector grammar admits no empty set and no 0
BeginSlice(set) ==
  /\ At("pick") /\ k <= Len(subs)
  /\ set \subseteq ChangedLines(subs[k])
  /\ lineSet' = set
  /\ step' = "slice"
  /\ li' = 1
  /\ body' = <<>>
  /\ UNCHANGED <<loop, entry, hi, run, subs, k, fixed, out, picked>>

\* ChangedLineOutOfRange
RefuseSlice(set) ==
  /\ At("pick") /\ k <= Len(subs)
  /\ ~(set \subseteq ChangedLines(subs[k]))
  /\ Refuse
  /\ UNCHANGED <<entry, cutting>>

\* what becomes of a body line: an addition left out disappears, a deletion
\* left out stays in the file
Retained(l, chosen) ==
  IF l.kind = "ctx" \/ chosen THEN <<l>>
  ELSE IF l.kind = "del" THEN <<[l EXCEPT !.kind = "ctx"]>>
  ELSE <<>>

\* mutant: the line's own change is not counted yet
SliceLine_CountsBelow ==
  /\ At("slice") /\ li <= Len(subs[k].lines)
  /\ LET l  == subs[k].lines[li]
         ci == CountIn(subs[k].lines, Changes, 1, li - 1)
     IN  body' = body \o Retained(l, ci \in lineSet)
  /\ li' = li + 1
  /\ UNCHANGED <<loop, entry, step, hi, run, subs, k, lineSet, fixed, out, picked>>

SliceLine ==
  /\ At("slice") /\ li <= Len(subs[k].lines)
  /\ LET l  == subs[k].lines[li]
         ci == CountIn(subs[k].lines, Changes, 1, li)
     IN  body' = body \o Retained(l, ci \in lineSet)
  /\ li' = li + 1
  /\ UNCHANGED <<loop, entry, step, hi, run, subs, k, lineSet, fixed, out, picked>>

EndSlice ==
  /\ At("slice") /\ li > Len(subs[k].lines)
  /\ step' = "fix"
  /\ li' = 1
  /\ fixed' = <<>>
  /\ UNCHANGED <<loop, entry, hi, run, subs, k, lineSet, body, out, picked>>

\* a context line without its newline, above another line: delete it and add
\* it back with one
Repaired(l, isLast) ==
  IF l.kind = "ctx" /\ l.nonl /\ ~isLast
  THEN <<[l EXCEPT !.kind = "del"], [l EXCEPT !.kind = "add", !.nonl = FALSE]>>
  ELSE <<l>>

FixLine ==
  /\ At("fix") /\ li <= Len(body)
  /\ fixed' = fixed \o Repaired(body[li], li = Len(body))
  /\ li' = li + 1
  /\ UNCHANGED <<loop, entry, step, hi, run, subs, k, lineSet, body, out, picked>>

TakeSlice ==
  /\ At("fix") /\ li > Len(body)
  /\ out' = Append(out, WithBody(subs[k], fixed))
  /\ picked' = Append(picked, lineSet)
  /\ lineSet' = {}
  /\ k' = k + 1
  /\ step' = "pick"
  /\ UNCHANGED <<loop, entry, hi, run, subs, li, body, fixed>>

-----------------------------------------------------------------------------
(* The end of the pick loop.                                                 *)

\* mutant: no such refusal
PartialDeletion_Allowed == FALSE

\* reject_partial_selection_of_a_deleted_file
PartialDeletion ==
  /\ entry.deletes
  /\ \E i \in DOMAIN out : Count(out[i].lines, {"ctx"}) > 0

\* EmptySelection, unless `*` asked for an entry that has nothing to pick
NothingPicked == out = <<>> /\ subs # <<>>

RefuseSelection ==
  /\ At("pick") /\ k > Len(subs)
  /\ NothingPicked \/ PartialDeletion
  /\ Refuse
  /\ UNCHANGED <<entry, cutting>>

EmitSelection ==
  /\ At("pick") /\ k > Len(subs)
  /\ ~NothingPicked /\ ~PartialDeletion
  /\ StartRenumber(out)
  /\ UNCHANGED <<entry, cutting>>

-----------------------------------------------------------------------------
\* line sets reach one past the changed lines, enough to be out of range
LineSets(h) == (SUBSET (1..(Count(h.lines, Changes) + 1))) \ {{}}

CutNext ==
  \/ KeepHunk \/ SplitInner \/ SplitLast \/ EndSplit
  \/ PassBy \/ TakeWhole
  \/ /\ At("pick") /\ k <= Len(subs)
     /\ \E set \in LineSets(subs[k]) : BeginSlice(set) \/ RefuseSlice(set)
  \/ SliceLine \/ EndSlice \/ FixLine \/ TakeSlice
  \/ RefuseSelection \/ EmitSelection

\* the process has exited
Exited == phase \in {"emitted", "usage", "verify"} /\ UNCHANGED vars

Next == (LoopNext /\ UNCHANGED <<entry, cutting>>) \/ CutNext \/ Exited

Spec == Init /\ [][Next]_vars

-----------------------------------------------------------------------------
TypeOK ==
  /\ LoopTypeOK
  /\ entry.hunks \in Seq(Hunk) /\ entry.deletes \in BOOLEAN
  /\ step \in Steps
  /\ subs \in Seq(Hunk) /\ out \in Seq(Hunk)
  /\ hi \in Nat \ {0} /\ k \in Nat \ {0} /\ li \in Nat \ {0}
  /\ run \in Nat
  /\ body \in Seq(Line) /\ fixed \in Seq(Line)
  /\ lineSet \in SUBSET Nat
  /\ picked \in Seq(SUBSET Nat)

(* "A defect of the input diff is a usage error (exit 2), not a             *)
(* verification failure of hunkpick's own result (exit 70)" (src/main.rs,   *)
(* load_and_parse): the same as OwnResultAccepted for every input, whether  *)
(* or not its headers are those of real files.                              *)
InputDefectsAreUsageErrors ==
  phase = "verify" => OutOfPositions(hunks)

(* Distinct sub-hunks are disjoint: they stand in old-file order and no two *)
(* claim the same old line, so the hunks of any selection do too.  That is  *)
(* why select needs no overlap check of its own (src/select.rs,             *)
(* select_from_file).                                                       *)
SubHunksAreDisjoint ==
  GitShaped(entry.hunks) /\ phase = "cut" => Tidy(subs) /\ Tidy(out)
=============================================================================

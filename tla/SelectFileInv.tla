--------------------------- MODULE SelectFileInv ---------------------------
(***************************************************************************)
(* The inductive invariant of SelectFile: what each loop has established   *)
(* about the part it has passed, beside what ResultDiff's loops have.       *)
(***************************************************************************)
EXTENDS SelectFile, ResultDiffInv

\* nothing is cut before the whole input is checked
UntouchedInv ==
  phase = "input" =>
    step = "split" /\ hi = 1 /\ run = 0 /\ k = 1 /\ subs = <<>> /\ out = <<>>

CutInv ==
  phase = "cut" =>
    /\ AllSound(subs) /\ AllSound(out)
    /\ Real => Tidy(subs) /\ Tidy(out)

\* the sub-hunks end where the next piece begins, or above it
SplitInv ==
  At("split") =>
    /\ hi <= Len(hunks) + 1
    /\ k = 1 /\ out = <<>>
    /\ run # 0 => /\ hi <= Len(hunks) /\ run > 1
                  /\ run \in RunStarts(hunks[hi].lines)
                  /\ Cardinality(RunStarts(hunks[hi].lines)) > 1
    /\ Real /\ subs # <<>> /\ hi <= Len(hunks) =>
         OldEnd(subs[Len(subs)])
           <= OldAt(hunks[hi]) + CountIn(hunks[hi].lines, OldSide, 1, PieceFrom - 1)

\* the hunks picked end where the last sub-hunk passed does, or above
PickInv ==
  phase = "cut" /\ step # "split" =>
    /\ k <= Len(subs) + 1
    /\ step # "pick" => k <= Len(subs)
    /\ Real /\ out # <<>> => k > 1 /\ OldEnd(out[Len(out)]) <= OldEnd(subs[k - 1])

\* a slice keeps the old side line for line, and the first line it was asked
\* for puts a change in it
SliceInv ==
  At("slice") =>
    /\ lineSet # {} /\ lineSet \subseteq ChangedLines(subs[k])
    /\ li <= Len(subs[k].lines) + 1
    /\ Count(body, OldSide) = CountIn(subs[k].lines, OldSide, 1, li - 1)
    /\ (\E c \in lineSet : c <= CountIn(subs[k].lines, Changes, 1, li - 1))
         => Count(body, Changes) > 0

FixInv ==
  At("fix") =>
    /\ li <= Len(body) + 1
    /\ Count(body, OldSide) = subs[k].old_lines
    /\ Count(body, Changes) > 0
    /\ Count(fixed, OldSide) = CountIn(body, OldSide, 1, li - 1)
    /\ CountIn(body, Changes, 1, li - 1) > 0 => Count(fixed, Changes) > 0

(* What every reachable state satisfies: the strengthening that the proofs *)
(* of OwnResultAccepted, OnlyOrderCanFail, PositionsStayPositive and       *)
(* SubHunksAreDisjoint rest on.                                            *)
IInv ==
  /\ TypeOK /\ LoopInv
  /\ UntouchedInv /\ CutInv
  /\ SplitInv /\ PickInv /\ SliceInv /\ FixInv
=============================================================================

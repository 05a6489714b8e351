---------------------------- MODULE SplitMeaning ----------------------------
(***************************************************************************)
(* What SplitFile's result does to the file it is applied to.              *)
(***************************************************************************)
EXTENDS SplitFileInv, GitApply

(* An entry says here whether it is the diff of two real files.  If it is,  *)
(* it says of which (`full`) and where in them its hunks stand (`tops`).    *)
ASSUME RealAssumption ==
  \A e \in Entries : e.real => GitShaped(e.hunks) /\ IsDiffOf(e.full, e.tops, e.hunks)

RealDiff == entry.real
Full == entry.full

(* Cutting a hunk changes nothing of what the diff does: the result takes   *)
(* the old file to the same new file, each piece found at the very line its *)
(* header names, whichever pieces were left out (src/split.rs               *)
(* rebuild_pieces and side_start, src/renumber.rs).  At the last position   *)
(* of u32 a start may stand for any position past it.                       *)
SplitAppliesTheSame ==
  phase = "emitted" /\ RealDiff /\ ~OutOfPositions(hunks) =>
    Apply(OldFile(Full), hunks) = FileWith(Full, 1..Count(Full, Changes))

-----------------------------------------------------------------------------
(* What the loops have established about the files.                         *)

\* every hunk stands where its lines do, and every piece of the one being cut;
\* no change is lost
HunksStand ==
  /\ Standing(Full, hunks, 0)
  /\ ChangedTo(hunks, Len(hunks)) = Count(Full, Changes)

PiecesStand ==
  At("build") => Standing(Full, pieces, ChangedTo(hunks, target - 1))

(* What every reachable state satisfies: the strengthening that the proof  *)
(* of SplitAppliesTheSame rests on.                                        *)
MInv == IInv /\ (RealDiff => HunksStand /\ PiecesStand)
=============================================================================

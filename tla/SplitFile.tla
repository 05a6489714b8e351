----------------------------- MODULE SplitFile ------------------------------
(***************************************************************************)
(* `hunkpick split --at`: one hunk of one text entry replaced by pieces of *)
(* itself, cut at context lines given by their new-file numbers            *)
(* (src/split.rs split_patch_hunk and what it calls, src/main.rs           *)
(* run_split).  The loops before and after are ResultDiff's.               *)
(*                                                                         *)
(* Beside the hunks an entry has trailer lines, each known by the number   *)
(* of hunks above it, and may be the patch's last, whose final newline may *)
(* be missing: cutting must keep both where they were.                     *)
(***************************************************************************)
EXTENDS ResultDiff

CONSTANTS
  Entries,   \* the entries tried
  CutSets    \* the sets of new-file lines --at is given

IsEntry(e) ==
  /\ e.hunks \in Seq(Hunk) /\ e.trailer \in Seq(Nat)
  /\ e.last \in BOOLEAN      \* the last file of the patch
  /\ e.cropped \in BOOLEAN   \* the input ended without a line ending

ASSUME SplitAssumption ==
  /\ \A e \in Entries : IsEntry(e)
  /\ CutSets \subseteq SUBSET U32

VARIABLES
  target,  \* the hunk to cut, 1-based
  step,    \* inside phase "cut": which loop runs
  li,      \* split_hunk_at: the next body line
  newNo,   \*   its number in the new file
  cuts,    \*   the new-file lines --at names
  wanted,  \*   those of them not met yet
  ends,    \*   where the pieces end, so far
  pieces,  \* rebuild_pieces: the pieces so far
  seen,    \*   how many of `ends` are done
  trailer, \* the trailer positions
  cropped  \* Patch::no_trailing_newline

cutting == <<target, step, li, newNo, cuts, wanted, ends, pieces, seen, trailer, cropped>>
vars == <<loop, entry, cutting>>

Steps == {"resolve", "scan", "build"}

Init ==
  /\ entry \in Entries
  /\ LoopInit
  /\ target \in 1..(Len(entry.hunks) + 1)
  /\ cuts \in CutSets \ {{}}   \* --at is a required option
  /\ wanted = cuts
  /\ step = "resolve"
  /\ li = 1 /\ newNo = 0 /\ seen = 0
  /\ ends = <<>> /\ pieces = <<>>
  /\ trailer = entry.trailer
  /\ cropped = entry.cropped

-----------------------------------------------------------------------------
At(s) == phase = "cut" /\ step = s

\* resolve_hunk
RefuseTarget ==
  /\ At("resolve") /\ target > Len(hunks)
  /\ Refuse
  /\ UNCHANGED <<entry, cutting>>

BeginScan ==
  /\ At("resolve") /\ target <= Len(hunks)
  /\ step' = "scan"
  /\ newNo' = hunks[target].new_start
  /\ UNCHANGED <<loop, entry, target, li, cuts, wanted, ends, pieces, seen, trailer, cropped>>

Lines == hunks[target].lines
Scanning == At("scan") /\ li <= Len(Lines)

\* mutant: deletions are counted too
Advance_EveryLine ==
  /\ li' = li + 1
  /\ newNo' = (newNo + 1) % (MaxU32 + 1)

\* new_no is a u32; release builds, which is what is shipped, let it wrap
Advance ==
  /\ li' = li + 1
  /\ newNo' = IF Lines[li].kind = "del" THEN newNo ELSE (newNo + 1) % (MaxU32 + 1)

WantedHere == Lines[li].kind # "del" /\ newNo \in wanted

PassLine ==
  /\ Scanning /\ ~WantedHere
  /\ Advance
  /\ UNCHANGED <<loop, entry, target, step, cuts, wanted, ends, pieces, seen, trailer, cropped>>

CutBelow ==
  /\ Scanning /\ WantedHere /\ Lines[li].kind = "ctx"
  /\ wanted' = wanted \ {newNo}
  /\ ends' = Append(ends, li)
  /\ Advance
  /\ UNCHANGED <<loop, entry, target, step, cuts, pieces, seen, trailer, cropped>>

\* NotAContextLine
RefuseCut ==
  /\ Scanning /\ WantedHere /\ Lines[li].kind # "ctx"
  /\ Refuse
  /\ UNCHANGED <<entry, cutting>>

\* OutOfRange
RefuseMissing ==
  /\ At("scan") /\ li > Len(Lines)
  /\ wanted # {}
  /\ Refuse
  /\ UNCHANGED <<entry, cutting>>

EndScan ==
  /\ At("scan") /\ li > Len(Lines)
  /\ wanted = {}
  /\ ends' = Append(ends, Len(Lines))
  /\ step' = "build"
  /\ UNCHANGED <<loop, entry, target, li, newNo, cuts, wanted, pieces, seen, trailer, cropped>>

-----------------------------------------------------------------------------
(* rebuild_pieces.                                                           *)

PieceFrom == IF seen = 0 THEN 1 ELSE ends[seen] + 1
PieceTo   == ends[seen + 1]

\* mutant: only the empty piece is left out
WorthKeeping_NotEmpty == PieceFrom <= PieceTo

\* nothing below a cut on the last line, nothing to stage in context alone
WorthKeeping == CountIn(Lines, Changes, PieceFrom, PieceTo) > 0

DropPiece ==
  /\ At("build") /\ seen < Len(ends)
  /\ ~WorthKeeping
  /\ seen' = seen + 1
  /\ UNCHANGED <<loop, entry, target, step, li, newNo, cuts, wanted, ends, pieces, trailer, cropped>>

KeepPiece ==
  /\ At("build") /\ seen < Len(ends)
  /\ WorthKeeping
  /\ pieces' = Append(pieces, RebuildSubhunk(hunks[target], PieceFrom, PieceTo))
  /\ seen' = seen + 1
  /\ UNCHANGED <<loop, entry, target, step, li, newNo, cuts, wanted, ends, trailer, cropped>>

-----------------------------------------------------------------------------
(* split_file_hunk and split_patch_hunk, once the pieces are there.          *)

WithPieces ==
  SubSeq(hunks, 1, target - 1) \o pieces \o SubSeq(hunks, target + 1, Len(hunks))

\* mutant: the lines below later hunks stay where they were
Shifted_TargetOnly(at_) == IF at_ = target THEN at_ + Len(pieces) - 1 ELSE at_

\* where a trailer line goes: below the last piece, or as far below as before
Shifted(at_) == IF at_ >= target THEN at_ + Len(pieces) - 1 ELSE at_

HasTail(positions, hs) == \E i \in DOMAIN positions : positions[i] >= Len(hs)

\* last_hunk_old_end: the recorded start, not the anchor
LastOldEnd(hs) == hs[Len(hs)].old_start + hs[Len(hs)].old_lines

\* mutant: the flag is left as it was
StillThere_Assumed(positions) == TRUE

\* whether the entry still ends on the line it ended on
StillThere(positions) ==
  \/ ~entry.last \/ target # Len(hunks)
  \/ HasTail(positions, WithPieces)
  \/ LastOldEnd(WithPieces) = LastOldEnd(hunks)

Splice ==
  /\ At("build") /\ seen = Len(ends)
  /\ trailer' = [i \in DOMAIN trailer |-> Shifted(trailer[i])]
  /\ cropped' = (cropped /\ StillThere(trailer'))
  /\ StartRenumber(WithPieces)
  /\ UNCHANGED <<entry, target, step, li, newNo, cuts, wanted, ends, pieces, seen>>

-----------------------------------------------------------------------------
CutNext ==
  \/ RefuseTarget \/ BeginScan
  \/ PassLine \/ CutBelow \/ RefuseCut \/ RefuseMissing \/ EndScan
  \/ DropPiece \/ KeepPiece \/ Splice

\* the process has exited
Exited == phase \in {"emitted", "usage", "verify"} /\ UNCHANGED vars

Next == (LoopNext /\ UNCHANGED <<entry, cutting>>) \/ CutNext \/ Exited

Spec == Init /\ [][Next]_vars

-----------------------------------------------------------------------------
TypeOK ==
  /\ LoopTypeOK
  /\ IsEntry(entry)
  /\ step \in Steps
  /\ pieces \in Seq(Hunk)
  /\ li \in Nat \ {0} /\ target \in Nat \ {0}
  /\ newNo \in U32 /\ cuts \in SUBSET U32 /\ wanted \in SUBSET U32
  /\ ends \in Seq(Nat) /\ seen \in Nat
  /\ trailer \in Seq(Nat) /\ cropped \in BOOLEAN

Done == phase = "emitted"

(* Every trailer line stays below the changes it stood below, however many  *)
(* pieces the hunk above it became and however many were left out: moved up *)
(* between two pieces it would read as a patch fragment without a header    *)
(* (src/split.rs, split_file_hunk).                                         *)
TrailerStaysPut ==
  Done => \A i \in DOMAIN trailer :
            /\ ChangedTo(hunks, trailer[i]) = ChangedTo(entry.hunks, entry.trailer[i])
            /\ entry.trailer[i] >= Len(entry.hunks) <=> trailer[i] >= Len(hunks)

\* the line the entry's diff ends on, the lines of the input being distinct
EndsOn(hs) == hs[Len(hs)].lines[Len(hs[Len(hs)].lines)]
EndsOnTheInputsLastLine ==
  \/ HasTail(trailer, hunks)
  \/ EndsOn(hunks) = EndsOn(entry.hunks)

(* The newline left off the end of the output is one the input's last line  *)
(* lacked: dropped from another line, it would truncate a line nobody asked *)
(* to change (src/split.rs, split_patch_hunk).                              *)
CropsOnlyTheInputsLastLine ==
  Done /\ entry.last /\ cropped => entry.cropped /\ EndsOnTheInputsLastLine

(* "Split hunk `hi` of file `fi` and keep the patch's own trailing-newline  *)
(* flag honest" (src/split.rs, split_patch_hunk): the flag survives exactly *)
(* when the result ends on the line it is about.                            *)
CropIsHonest ==
  Done /\ entry.last =>
    (cropped <=> entry.cropped /\ EndsOnTheInputsLastLine)

(* "split does not renumber.  It replaces one hunk with pieces of itself    *)
(* and leaves the other hunks of the input in place" (docs/ADR/0010).       *)
OtherHunksAreLeftInPlace ==
  Done => \A j \in DOMAIN entry.hunks :
            j # target => \E i \in DOMAIN hunks : hunks[i] = entry.hunks[j]
=============================================================================

---------------------------- MODULE SplitFileInv ----------------------------
(***************************************************************************)
(* The inductive invariant of SplitFile: what scanning for the cuts and    *)
(* building the pieces have established, beside what ResultDiff's loops    *)
(* have.                                                                   *)
(***************************************************************************)
EXTENDS SplitFile, ResultDiffInv

\* nothing is cut before the whole input is checked and the hunk is found
UntouchedInv ==
  phase = "input" \/ At("resolve") =>
    /\ step = "resolve" /\ li = 1 /\ seen = 0
    /\ ends = <<>> /\ pieces = <<>> /\ wanted # {}

\* trailer and crop wait for the result
PlacesInv ==
  phase \in {"input", "cut"} => trailer = entry.trailer /\ cropped = entry.cropped

\* the hunk being cut is one of the entry's
TargetInv == phase = "cut" /\ step # "resolve" => target <= Len(hunks)

OnContext(i) == ends[i] \in DOMAIN Lines /\ Lines[ends[i]].kind = "ctx"

\* the cuts met lie above the next line, each below the one before
ScanInv ==
  At("scan") =>
    /\ li <= Len(Lines) + 1
    /\ seen = 0 /\ pieces = <<>>
    /\ wanted # {} \/ ends # <<>>
    /\ \A i \in DOMAIN ends : OnContext(i) /\ ends[i] < li
    /\ \A i, j \in DOMAIN ends : i < j => ends[i] < ends[j]

\* the number body line i has in the new file, in u32
NumberOf(i) ==
  (hunks[target].new_start + CountIn(Lines, NewSide, 1, i - 1)) % (MaxU32 + 1)

CutNumbers(n) == {NumberOf(ends[i]) : i \in 1..n}

\* the cuts are made on the lines whose numbers --at names and on no others,
\* each number counted from the header's start however far that reaches
AskedInv ==
  /\ phase = "input" \/ At("resolve") => wanted = cuts
  /\ At("scan") => newNo = NumberOf(li) /\ cuts = wanted \union CutNumbers(Len(ends))
  /\ At("build") => cuts = CutNumbers(Len(ends) - 1)

\* there are two pieces or more, all but the last ending on a context line
BuildInv ==
  At("build") =>
    /\ seen <= Len(ends) /\ Len(ends) > 1 /\ ends[Len(ends)] = Len(Lines)
    /\ \A i \in 1..(Len(ends) - 1) : OnContext(i)
    /\ \A i, j \in DOMAIN ends : i < j => ends[i] <= ends[j]

\* the pieces kept hold every change passed, the last of them ends where the
\* changes passed do, and they stand in order between the hunk's two ends
PiecesInv ==
  At("build") =>
    /\ AllSound(pieces)
    /\ ChangedTo(pieces, Len(pieces)) = CountIn(Lines, Changes, 1, PieceFrom - 1)
    /\ pieces # <<>> =>
         \E from, to \in DOMAIN Lines :
           /\ from <= to /\ to < PieceFrom
           /\ pieces[Len(pieces)] = RebuildSubhunk(hunks[target], from, to)
           /\ CountIn(Lines, Changes, to + 1, PieceFrom - 1) = 0
    /\ Real =>
         /\ Tidy(pieces)
         /\ pieces # <<>> =>
              /\ OldAt(hunks[target]) <= OldAt(pieces[1])
              /\ OldEnd(pieces[Len(pieces)])
                   <= OldAt(hunks[target]) + CountIn(Lines, OldSide, 1, PieceFrom - 1)

\* renumbering and the check move nothing that was put in place
SplicedInv ==
  phase \in {"renumber", "result", "emitted"} =>
    /\ DOMAIN trailer = DOMAIN entry.trailer
    /\ \A i \in DOMAIN trailer :
         /\ ChangedTo(hunks, trailer[i]) = ChangedTo(entry.hunks, entry.trailer[i])
         /\ entry.trailer[i] >= Len(entry.hunks) <=> trailer[i] >= Len(hunks)
    /\ entry.last /\ cropped => entry.cropped /\ EndsOnTheInputsLastLine

(* What every reachable state satisfies: the strengthening that the proofs *)
(* of OwnResultAccepted, TrailerStaysPut and CropsOnlyTheInputsLastLine    *)
(* rest on.                                                                *)
IInv ==
  /\ TypeOK /\ LoopInv
  /\ UntouchedInv /\ PlacesInv /\ TargetInv
  /\ ScanInv /\ AskedInv /\ BuildInv /\ PiecesInv /\ SplicedInv
=============================================================================

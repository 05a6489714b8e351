---------------------------- MODULE ResultDiffInv -----------------------------
(***************************************************************************)
(* The inductive invariant of ResultDiff's loops, whatever the command     *)
(* makes its result of: what each loop has established about the hunks it  *)
(* has passed.  A command that hands over sound hunks, in order if the     *)
(* input is the diff of real files, keeps it.                              *)
(***************************************************************************)
EXTENDS ResultDiff

Real == GitShaped(entry.hunks)

AllSound(hs) == \A j \in DOMAIN hs : Sound(hs[j])

\* check_hunks on the input: sound and in order as far as it has come
InputInv ==
  phase = "input" =>
    /\ hunks = entry.hunks
    /\ at <= Len(hunks) + 1
    /\ \A j \in 1..(at - 1) : Sound(hunks[j])
    /\ \A j \in 2..(at - 1) : OldEnd(hunks[j - 1]) <= OldAt(hunks[j])
    /\ oldEnd = IF at = 1 THEN 0 ELSE OldEnd(hunks[at - 1])

\* what the command works on is what was checked
AcceptedInv ==
  phase = "cut" =>
    /\ hunks = entry.hunks
    /\ AllSound(hunks)
    /\ Real => Tidy(hunks)

\* the net growth above hunk n of the result
ShiftAt(n) == IF n = 1 THEN 0 ELSE shifts[n - 1] + Net(hunks[n - 1].lines)

Numbered(j) ==
  /\ hunks[j].new_start = ExpectedNewStart(hunks[j], shifts[j])
  /\ shifts[j] = ShiftAt(j)
  /\ Real => OldAt(hunks[j]) + shifts[j] >= 1

RenumberInv ==
  /\ phase \in {"input", "cut"} => shifts = <<>>
  /\ phase \in {"renumber", "result", "emitted"} =>
       /\ AllSound(hunks)
       /\ Real => Tidy(hunks)
       /\ Len(shifts) <= Len(hunks)
       /\ phase = "renumber" => at = Len(shifts) + 1
       /\ phase # "renumber" => Len(shifts) = Len(hunks)
       /\ \A j \in 1..Len(shifts) : Numbered(j)
  /\ phase \in {"renumber", "result"} => at <= Len(hunks) + 1 /\ delta = ShiftAt(at)

\* check_hunks on the result
ResultInv ==
  /\ phase = "result" =>
       /\ oldEnd = IF at = 1 THEN 0 ELSE OldEnd(hunks[at - 1])
       /\ newEnd = IF at = 1 THEN 0 ELSE NewEnd(hunks[at - 1])
  /\ phase = "verify" => /\ fault = "OverlappingHunks"
                         /\ Real => OutOfPositions(hunks)

LoopInv == LoopTypeOK /\ InputInv /\ AcceptedInv /\ RenumberInv /\ ResultInv
=============================================================================

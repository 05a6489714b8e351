----------------------------- MODULE ResultDiff -----------------------------
(***************************************************************************)
(* The two loops every result diff goes through, over the hunks of one     *)
(* text entry: check_hunks (src/validate.rs), run on the input diff        *)
(* without the new-start check and on the result diff with it, and         *)
(* renumber_new_side (src/renumber.rs) in between.  One action is one      *)
(* iteration.  Both loops start afresh for every file, so one file shows   *)
(* everything they can do; SelectFile and SplitFile put between them what  *)
(* the two commands do to the hunks.                                       *)
(***************************************************************************)
EXTENDS Hunks

VARIABLES
  entry,    \* the input; entry.hunks are its hunks
  phase,    \* where the command is; the last three are its ends
  hunks,    \* the hunks the current loop walks over
  at,       \* the next of them, 1-based
  delta,    \* added - deleted of the hunks already passed
  oldEnd,   \* where the previous hunk ends on each side.  The code starts
  newEnd,   \*   with None; 0 refuses as little, no position being below it
  fault,    \* the ValidationError that ended the run, "none" otherwise
  shifts    \* history: the delta each hunk of the result was numbered with

loop == <<phase, hunks, at, delta, oldEnd, newEnd, fault, shifts>>

Phases == {"input",      \* validate_input
           "cut",        \* the command makes its result out of the hunks
           "renumber",   \* renumber_new_side
           "result",     \* validate_internal
           "emitted",    \* exit 0: the result went to stdout
           "usage",      \* exit 2: the input or the request was refused
           "verify"}     \* exit 70: hunkpick refused its own result

LoopInit ==
  /\ phase = "input"
  /\ hunks = entry.hunks
  /\ at = 1 /\ delta = 0 /\ oldEnd = 0 /\ newEnd = 0
  /\ fault = "none"
  /\ shifts = <<>>

Checking == phase \in {"input", "result"}

\* check_one_hunk first, the overlap with the previous hunk after it
FaultHere ==
  LET h   == hunks[at]
      own == Fault(h, phase = "result", delta)
  IN  IF own # "none" THEN own
      ELSE IF OldAt(h) < oldEnd \/ NewAt(h) < newEnd THEN "OverlappingHunks"
      ELSE "none"

AcceptHunk ==
  /\ Checking /\ at <= Len(hunks)
  /\ FaultHere = "none"
  /\ delta'  = delta + Net(hunks[at].lines)
  /\ oldEnd' = OldEnd(hunks[at])
  /\ newEnd' = NewEnd(hunks[at])
  /\ at' = at + 1
  /\ UNCHANGED <<phase, hunks, fault, shifts>>

\* a command refuses the request
Refuse ==
  /\ phase' = "usage"
  /\ UNCHANGED <<hunks, at, delta, oldEnd, newEnd, fault, shifts>>

\* a fault of the input is a usage error, a fault of the result is not
RejectHunk ==
  /\ Checking /\ at <= Len(hunks)
  /\ FaultHere # "none"
  /\ fault' = FaultHere
  /\ phase' = IF phase = "input" THEN "usage" ELSE "verify"
  /\ UNCHANGED <<hunks, at, delta, oldEnd, newEnd, shifts>>

EndCheck ==
  /\ Checking /\ at > Len(hunks)
  /\ phase' = IF phase = "input" THEN "cut" ELSE "emitted"
  /\ UNCHANGED <<hunks, at, delta, oldEnd, newEnd, fault, shifts>>

\* mutant: the delta of the check before is carried into renumbering
StartRenumber_DeltaKept(result) ==
  /\ phase' = "renumber"
  /\ hunks' = result
  /\ at' = 1 /\ delta' = delta
  /\ UNCHANGED <<oldEnd, newEnd, fault, shifts>>

\* the command hands its result over to renumber_new_side
StartRenumber(result) ==
  /\ phase' = "renumber"
  /\ hunks' = result
  /\ at' = 1 /\ delta' = 0
  /\ UNCHANGED <<oldEnd, newEnd, fault, shifts>>

RenumberHunk ==
  /\ phase = "renumber" /\ at <= Len(hunks)
  /\ hunks' = [hunks EXCEPT ![at].new_start = ExpectedNewStart(hunks[at], delta)]
  /\ delta' = delta + Net(hunks[at].lines)
  /\ at' = at + 1
  /\ shifts' = Append(shifts, delta)
  /\ UNCHANGED <<phase, oldEnd, newEnd, fault>>

\* mutant: the delta of renumbering is carried into the check
EndRenumber_DeltaKept ==
  /\ phase = "renumber" /\ at > Len(hunks)
  /\ phase' = "result"
  /\ at' = 1 /\ oldEnd' = 0 /\ newEnd' = 0
  /\ UNCHANGED <<hunks, delta, fault, shifts>>

\* emit_verified: the internal check, which the caller has not switched off
EndRenumber ==
  /\ phase = "renumber" /\ at > Len(hunks)
  /\ phase' = "result"
  /\ at' = 1 /\ delta' = 0 /\ oldEnd' = 0 /\ newEnd' = 0
  /\ UNCHANGED <<hunks, fault, shifts>>

LoopNext == AcceptHunk \/ RejectHunk \/ EndCheck \/ RenumberHunk \/ EndRenumber

-----------------------------------------------------------------------------
(* What the properties of both commands speak about.                         *)

\* the hunks are in old-side order, inside the file, and none is empty
Tidy(hs) ==
  /\ \A k \in DOMAIN hs : /\ OldAt(hs[k]) >= 1
                          /\ OldEnd(hs[k]) <= MaxU32
                          /\ Sound(hs[k])
  /\ \A k \in DOMAIN hs : k > 1 => OldEnd(hs[k - 1]) <= OldAt(hs[k])

\* the starts a diff of real files has: a side with lines starts at line 1 or
\* later, and the file ends before the positions run out
GitShaped(hs) ==
  \A k \in DOMAIN hs : OldAt(hs[k]) >= 1 /\ OldEnd(hs[k]) <= MaxU32

\* the result reaches the last position a header can name
OutOfPositions(hs) == \E k \in DOMAIN hs : hs[k].new_start = MaxU32

LoopTypeOK ==
  /\ phase \in Phases
  /\ hunks \in Seq(Hunk)
  /\ at \in Nat \ {0}
  /\ delta \in Int /\ oldEnd \in Int /\ newEnd \in Int
  /\ shifts \in Seq(Int)

(* hunkpick never refuses what select or split made of a diff it accepted: *)
(* exit 70 is reached only when the result runs past the last u32 position *)
(* (src/main.rs, emit_verified).                                           *)
OwnResultAccepted ==
  GitShaped(entry.hunks) /\ phase = "verify" => OutOfPositions(hunks)

(* Whatever headers the input carries, once it is accepted the result can  *)
(* fail on the order of its hunks only: no selection, split or slice       *)
(* produces an empty or change-free hunk, a header that disagrees with its *)
(* body, or a new-side start that renumbering did not bring up to date.    *)
OnlyOrderCanFail ==
  phase = "verify" => fault = "OverlappingHunks"

(* "A well-formed result never drives this negative" (src/renumber.rs,     *)
(* expected_new_start): every renumbered hunk starts at line 1 or later,   *)
(* whatever was left out above it, so the clamp at 0 is never needed.      *)
PositionsStayPositive ==
  /\ GitShaped(entry.hunks)
  /\ phase \in {"renumber", "result", "emitted"}
  => \A j \in DOMAIN hunks : (phase = "renumber" /\ j >= at) \/ NewAt(hunks[j]) >= 1
=============================================================================

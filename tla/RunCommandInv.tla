---------------------------- MODULE RunCommandInv ----------------------------
(***************************************************************************)
(* The inductive invariant of RunCommand: what has been read and refused,  *)
(* which checks are behind the command and what is on its way out, by how  *)
(* far it has come.                                                        *)
(***************************************************************************)
EXTENDS RunCommand

Loads == {"open", "read", "screen", "parse", "validate", "loaded", "given"}
Answers == {"none", "io", "too large", "UTF-32LE", "UTF-32BE", "UTF-16LE", "UTF-16BE",
            "binary", "no diff", "parse", "input", "selectors"}

\* the stages of select and split, and of list
Checking == {"internal", "dir", "git"}
Sending  == {"list", "newline", "write", "flush"}

RequestTypeOK ==
  /\ opts \in [internal : BOOLEAN, git : BOOLEAN]
  /\ verdict \in {"none", "consistent", "inconsistent"}
  /\ dir \in {"dir", "file", "missing"}

OutputTypeOK ==
  /\ stage \in {"idle", "exited"} \union Checking \union Sending
  /\ buffered \in Nat /\ delivered \in Nat
  /\ reader \in {"there", "gone"}
  /\ exitCode \in {Running, 0, 2, 70, 74, 101}
  /\ exitCode # Running <=> stage = "exited"

InputTypeOK ==
  /\ load \in Loads
  /\ source \in {Dropped} \union Sources
  /\ buf \in Nat
  /\ answer \in Answers
  /\ command \in {"none", "human", "json", "nothing", "result"}

RunTypeOK == RequestTypeOK /\ OutputTypeOK /\ InputTypeOK

\* a call of feed_and_wait that came back says how it went, and blames a
\* helper thread only for a panic of one
FaultsAreReal ==
  /\ F!Over => result.kind # "pending"
  /\ result.kind \in {"WriterPanicked", "ReaderPanicked"} => HelperPanicked

-----------------------------------------------------------------------------
(* The input.                                                                *)

\* as much is read as is allowed before it is looked at, and a blank or
\* unreadable one gets no further
LoadInv ==
  /\ load \in {"loaded", "given"} <=> source = Dropped
  /\ buf <= Allowed
  /\ load = "open" => buf = 0
  /\ load \in {"screen", "parse", "validate"} => buf = Allowed /\ ~TooLarge
  /\ load \in {"parse", "validate"} => ~WholeBlank /\ Unreadable(bytes) = "none"

Undecided == answer = "none" /\ command = "none"

\* nothing of the rest has begun
Untouched ==
  /\ opts = [internal |-> FALSE, git |-> FALSE] /\ verdict = "none"
  /\ main = "idle"
  /\ delivered + buffered = 0

StageInv ==
  /\ stage = "idle" => load # "given" /\ Undecided
  /\ stage \in Checking \union Sending => load = "given"
  /\ load = "given" => stage # "idle" /\ answer = "none" /\ command # "none"
  /\ load # "given" => Untouched

Refused(why, code) == answer = why /\ exitCode = ExitCode[code]

\* why a command that never got its patch has ended
RefusalInv ==
  stage = "exited" =>
    \/ load = "open"     /\ Refused("io", "Io")
    \/ load = "read"     /\ \/ Refused("io", "Io")
                            \/ Refused("too large", "Usage") /\ buf = Allowed /\ TooLarge
    \/ load = "screen"   /\ \/ Refused("none", "Applies") /\ WholeBlank
                            \/ /\ Refused(Unreadable(bytes), "Usage") /\ answer # "none"
                               /\ ~WholeBlank
    \/ load = "parse"    /\ Refused("parse", "Usage")
    \/ load = "validate" /\ Refused("input", "Usage")
    \/ load = "loaded"   /\ Refused("selectors", "Usage")
    \/ load = "given"

-----------------------------------------------------------------------------
(* The checks.                                                               *)

GitDone == F!Over /\ GitAccepts

Passed ==
  /\ opts.internal => verdict = "consistent"
  /\ opts.git => GitDone

CheckInv ==
  /\ git = [english |-> TRUE, here |-> TRUE]
  /\ stage = "internal" => verdict = "none"
  /\ stage \in {"internal", "dir"} => main = "idle"
  /\ stage \in {"dir", "git"} => opts.git /\ (opts.internal => verdict = "consistent")
  /\ main # "idle" => opts.git
  /\ stage \in Sending => Passed
  /\ verdict = "inconsistent" => exitCode = 70
  /\ main # "idle" /\ stage = "exited" =>
       F!Over /\ (~GitAccepts => exitCode = ExitCode[Blame])
  /\ exitCode = 70 =>
       \/ verdict = "inconsistent"
       \/ opts.git /\ F!Over /\ ~GitAccepts /\ Blame \in {"Verify", "Internal"}

-----------------------------------------------------------------------------
(* The output.                                                               *)

OutputInv ==
  /\ stage \in Checking => delivered + buffered = 0
  /\ stage \in Checking \union {"write"} => command = "result"
  /\ stage \in {"list", "newline"} => command \in {"human", "json", "nothing"}
  /\ stage \in {"list", "write"} => buffered = 0
  /\ stage = "list" => delivered <= ListLines
  /\ stage = "write" => delivered <= ResultLines
  /\ stage = "newline" => AfterList = "newline"
  /\ stage = "newline" /\ reader = "there" => delivered = ListLines /\ buffered = ListTail
  /\ stage = "flush" /\ reader = "there" => delivered + buffered = WholeOutput
  /\ delivered + buffered > 0 => Passed
  /\ SuccessIsDelivered

(* By how far it has come, the command has read all it was allowed to and   *)
(* nothing it must refuse, has every check behind it that was asked for, or *)
(* has ended for the reason it gives, and has sent the lines it counts      *)
(* (src/main.rs, run; src/validate.rs, validate_with_git).                  *)
IInv ==
  /\ F!FeedInv /\ FaultsAreReal
  /\ RunTypeOK /\ LoadInv /\ StageInv /\ RefusalInv /\ CheckInv /\ OutputInv
=============================================================================

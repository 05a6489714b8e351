---------------------------- MODULE EmitVerified ----------------------------
(***************************************************************************)
(* The end of select and split: the result diff is checked by hunkpick     *)
(* itself (src/main.rs emit_verified), by `git apply --check` if asked     *)
(* (src/validate.rs validate_with_git, on FeedAndWait), and only then      *)
(* written; main turns what happened into an exit code (ADR 0013).         *)
(*                                                                         *)
(* stdout is a LineWriter: whole lines go out as they are written, what    *)
(* follows the last newline waits in a buffer for flush_out.               *)
(***************************************************************************)
EXTENDS Integers, Sequences, GitEnv

CONSTANTS InputSize, Capacity, MaxSaid, Words,   \* FeedAndWait's
          ResultLines,  \* whole lines in the result
          ResultTail    \* 1 when it goes on after its last newline, otherwise 0

ASSUME EmitAssumption == ResultLines \in Nat /\ ResultTail \in {0, 1}

VARIABLES main, thread, sent, pipe, got, waited, result, child, doing, stdin, fed, said
feed == <<main, thread, sent, pipe, got, waited, result, child, doing, stdin, fed, said>>

F == INSTANCE FeedAndWait

ASSUME GitAssumption == F!FeedAssumption

VARIABLES
  stage,       \* where the command is
  opts,        \* the checks asked for: [internal, git]
  verdict,     \* validate_internal's: "none", "consistent" or "inconsistent"
  dir,         \* what -C names, or "dir" without it
  git,         \* the git that is run: [english, here], here when -C alone
               \*   chooses its repository
  buffered,    \* units in stdout's buffer
  delivered,   \* units written to stdout
  reader,      \* whoever reads our stdout: "there" or "gone"
  exitCode

request == <<opts, verdict, dir, git>>
output  == <<buffered, delivered, reader>>
vars    == <<feed, stage, request, output, exitCode>>

Running  == -1   \* no exit code yet
ExitCode == [Applies |-> 0, Usage |-> 2, Verify |-> 70, Internal |-> 70, Io |-> 74, Panic |-> 101]

\* before emit_verified is called; a listing goes by the stages "list" and
\* "newline" instead (RunCommand)
EmitInit ==
  /\ F!FeedInit("idle")
  /\ stage = "idle"
  /\ opts = [internal |-> FALSE, git |-> FALSE]
  /\ verdict = "none"
  /\ dir = "dir"
  /\ git = [english |-> TRUE, here |-> TRUE]
  /\ buffered = 0 /\ delivered = 0
  /\ reader = "there"
  /\ exitCode = Running

Exit(why) ==
  /\ stage' = "exited"
  /\ exitCode' = ExitCode[why]

-----------------------------------------------------------------------------
(* emit_verified                                                             *)

\* the call: the options of the command line, and what the directory is
Call ==
  /\ stage = "idle"
  /\ stage' = "internal"
  /\ opts' \in [internal : BOOLEAN, git : BOOLEAN]
  /\ dir' \in {"dir", "file", "missing"}
  /\ UNCHANGED <<feed, verdict, git, output, exitCode>>

InternalFails ==
  /\ stage = "internal"
  /\ opts.internal
  /\ verdict' = "inconsistent"
  /\ Exit("Verify")
  /\ UNCHANGED <<feed, opts, dir, git, output>>

\* mutant: one check is taken for enough
InternalPasses_EitherCheck ==
  /\ stage = "internal"
  /\ verdict' = IF opts.internal THEN "consistent" ELSE "none"
  /\ stage' = IF opts.git /\ ~opts.internal THEN "dir" ELSE "write"
  /\ UNCHANGED <<feed, opts, dir, git, output, exitCode>>

InternalPasses ==
  /\ stage = "internal"
  /\ verdict' = IF opts.internal THEN "consistent" ELSE "none"
  /\ stage' = IF opts.git THEN "dir" ELSE "write"
  /\ UNCHANGED <<feed, opts, dir, git, output, exitCode>>

\* check_dir
NotADirectory ==
  /\ stage = "dir" /\ dir # "dir"
  /\ Exit("Usage")
  /\ UNCHANGED <<feed, request, output>>

CallGit ==
  /\ stage = "dir" /\ dir = "dir"
  /\ stage' = "git"
  /\ main' = "spawn"
  /\ \E env \in {ChildEnv(e) : e \in Environments} :
       git' = [english |-> SpeaksEnglish(env), here |-> ActsOnItsDirectory(env)]
  /\ UNCHANGED <<thread, sent, pipe, got, waited, result, child, doing, stdin, fed, said,
                 opts, verdict, dir, output, exitCode>>

\* feed_and_wait runs; a directory that has vanished since is a failing spawn
Feeding == stage = "git" /\ F!FeedNext /\ UNCHANGED <<stage, request, output, exitCode>>

\* mutant: any error line makes it a verdict
IsParseVerdict_AnyError(lines) == \E i \in DOMAIN lines : lines[i] = "error"

\* an error: line and no fatal: one
IsParseVerdict(lines) ==
  /\ \A i \in DOMAIN lines : lines[i] # "fatal"
  /\ \E i \in DOMAIN lines : lines[i] = "error"

\* mutant: an end by signal is not looked at
Applies_UnlessRefused(answer) == answer.status \notin {"1", "128", "other"}

Applies(answer) == answer.status = "0"

\* the heads of its lines are other words in another language
Read(lines) == IF git.english THEN lines ELSE [i \in DOMAIN lines |-> Other]

Rejects(answer) ==
  \/ answer.status = "1"
  \/ answer.status = "128" /\ IsParseVerdict(Read(answer.said["stderr"]))

\* what validate_with_git returns: GitCheckError
CheckResult ==
  CASE result.kind = "output"                          -> IF Applies(result) THEN "Ok"
                                                          ELSE IF Rejects(result) THEN "Rejected"
                                                          ELSE "Failed"
    [] result.kind \in {"Write", "Wait"}               -> "Io"
    [] result.kind \in {"Spawn", "WriterPanicked", "ReaderPanicked", "Panic"} -> result.kind

\* and what emit_verified makes of it
Blame ==
  CASE CheckResult = "Rejected"                            -> "Verify"
    [] CheckResult \in {"WriterPanicked", "ReaderPanicked"} -> "Internal"
    [] CheckResult \in {"Spawn", "Io", "Failed"}            -> "Io"
    [] CheckResult = "Panic"                               -> "Panic"

GitAccepts == CheckResult = "Ok"

GitPasses ==
  /\ stage = "git" /\ F!Over /\ GitAccepts
  /\ stage' = "write"
  /\ UNCHANGED <<feed, request, output, exitCode>>

GitFails ==
  /\ stage = "git" /\ F!Over /\ ~GitAccepts
  /\ Exit(Blame)
  /\ UNCHANGED <<feed, request, output>>

-----------------------------------------------------------------------------
(* write_out, called at a stage with so many lines and a tail after the last *)
(* newline; flush_out                                                        *)

WriteLine(at, lines) ==
  /\ stage = at /\ delivered < lines
  /\ reader = "there"
  /\ delivered' = delivered + 1
  /\ UNCHANGED <<feed, stage, request, buffered, reader, exitCode>>

\* what follows the last newline stays in the buffer
BufferTail(at, lines, tail, next) ==
  /\ stage = at /\ delivered = lines
  /\ buffered' = tail
  /\ stage' = next
  /\ UNCHANGED <<feed, request, delivered, reader, exitCode>>

\* EPIPE: the reader left, a normal end
WriteIsBroken(at, lines, next) ==
  /\ stage = at /\ delivered < lines
  /\ reader = "gone"
  /\ stage' = next
  /\ UNCHANGED <<feed, request, output, exitCode>>

WriteFails(at, lines) ==
  /\ stage = at /\ delivered < lines
  /\ Exit("Io")
  /\ UNCHANGED <<feed, request, output>>

\* mutant: the buffer is left to the end of the process
Flush_AtExit ==
  /\ stage = "flush"
  /\ Exit("Applies")
  /\ UNCHANGED <<feed, request, output>>

Flush ==
  /\ stage = "flush"
  /\ buffered > 0 => reader = "there"
  /\ delivered' = delivered + buffered
  /\ buffered' = 0
  /\ Exit("Applies")
  /\ UNCHANGED <<feed, request, reader>>

FlushIsBroken ==
  /\ stage = "flush"
  /\ buffered > 0 /\ reader = "gone"
  /\ Exit("Applies")
  /\ UNCHANGED <<feed, request, output>>

FlushFails ==
  /\ stage = "flush" /\ buffered > 0
  /\ Exit("Io")
  /\ UNCHANGED <<feed, request, output>>

\* it is only noticed by a write, so it need not leave before the writing starts
ReaderLeaves ==
  /\ stage \in {"list", "newline", "write", "flush"} /\ reader = "there"
  /\ reader' = "gone"
  /\ UNCHANGED <<feed, stage, request, buffered, delivered, exitCode>>

-----------------------------------------------------------------------------
Steps ==
  \/ InternalFails \/ InternalPasses \/ NotADirectory \/ CallGit \/ GitPasses \/ GitFails
  \/ WriteLine("write", ResultLines) \/ BufferTail("write", ResultLines, ResultTail, "flush")
  \/ WriteIsBroken("write", ResultLines, "flush") \/ Flush \/ FlushIsBroken

EmitNext ==
  Steps \/ Feeding \/ WriteFails("write", ResultLines) \/ FlushFails \/ ReaderLeaves

InGit(step) == stage = "git" /\ step /\ UNCHANGED <<stage, request, output, exitCode>>

-----------------------------------------------------------------------------
HelperPanicked == \E t \in F!Threads : thread[t] = "panicked"

\* what git said and how it ended is a verdict on the diff
GitRefused ==
  \/ child = "1"
  \/ child = "128" /\ {said["stderr"][i] : i \in DOMAIN said["stderr"]}
                        \intersect {"error", "fatal"} = {"error"}

(* "Exit 70 is reserved for a result hunkpick itself produced" (docs/ADR/   *)
(* 0013): it needs the internal check's verdict, git's own, or a fault of   *)
(* hunkpick's threads.  A git that does not start, dies, gives up or cannot *)
(* be talked to never turns into one.                                       *)
SeventyIsEarned ==
  exitCode = 70 =>
    \/ verdict = "inconsistent"
    \/ opts.git /\ (GitRefused \/ HelperPanicked)

(* A verdict is not lost on the way to the exit code: git's refusal of the  *)
(* diff it was given is exit 70 in every locale, though on exit 128 it is   *)
(* known only by the English head of its lines (src/gitenv.rs,              *)
(* pin_message_locale; src/validate.rs, is_parse_verdict).                  *)
RefusalIsSeventy ==
  stage = "exited" /\ opts.git /\ result.kind = "output" /\ GitRefused => exitCode = 70

(* Nothing reaches stdout before every check that was asked for has passed: *)
(* `hunkpick ... | git apply` must not be fed a prefix of a refused diff    *)
(* (src/main.rs, emit_verified), and git's check was made in the directory  *)
(* asked for (src/gitenv.rs, insulate_repo_location).                       *)
OnlyCheckedBytesLeave ==
  delivered + buffered > 0 =>
    /\ opts.internal => verdict = "consistent"
    /\ opts.git => child = "0" /\ git.here
=============================================================================

---------------------------- MODULE FeedAndWait -----------------------------
(***************************************************************************)
(* src/gitenv.rs feed_and_wait: a child process is fed a diff through a    *)
(* pipe by one thread, while two more drain its stdout and stderr and the  *)
(* calling thread waits for it.  Pipes hold Capacity units; whoever writes *)
(* to a full one, or reads from an empty one that can still be written to, *)
(* blocks.                                                                 *)
(*                                                                         *)
(* The child (git, external) decides what to do next and then does it or   *)
(* blocks in it: it reads, closes its stdin, speaks or exits, in any       *)
(* order, and it may be killed at any moment.                              *)
(***************************************************************************)
EXTENDS Integers, Sequences

Streams == {"stdout", "stderr"}

CONSTANTS InputSize,   \* units of diff to feed
          Capacity,    \* units a pipe holds
          MaxSaid,     \* bound: units the child says on each stream
          Words        \* what a unit of its answer can be

ASSUME FeedAssumption ==
  /\ InputSize \in Nat
  /\ Capacity \in Nat \ {0}
  /\ MaxSaid \in [Streams -> Nat]

Threads == Streams \union {"writer"}
Endings == {"0", "1", "128", "other", "signal"}

VARIABLES
  main,    \* the calling thread: the thread it starts next, or where it is
  thread,  \* the three helper threads: "unborn", "running", how they ended,
           \*   or "dropped" with their pipe end before they were started
  sent,    \* units of the input written
  pipe,    \* stdout and stderr, said by the child and not read yet
  got,     \* what the reading threads have
  waited,  \* what child.wait() returned: "no", "ok" or "failed"
  result,  \* what feed_and_wait returned
  child,   \* "unborn", "running" or how it ended
  doing,   \* what the child is about to do, or blocked in
  stdin,   \* the child's end of its stdin: "open", "closed" by it, or read
           \*   to the "end"
  fed,     \* units of the input the child has read
  said     \* what the child has said on each stream

ours   == <<main, thread, sent, got, waited, result>>
childs == <<child, doing, stdin, fed, said>>
vars   == <<ours, pipe, childs>>

Pending == [kind |-> "pending"]

FeedInit(start) ==
  /\ main = start
  /\ thread = [t \in Threads |-> "unborn"]
  /\ sent = 0 /\ fed = 0
  /\ pipe = [s \in Streams |-> <<>>]
  /\ got  = [s \in Streams |-> <<>>]
  /\ said = [s \in Streams |-> <<>>]
  /\ waited = "no"
  /\ result = Pending
  /\ child = "unborn" /\ doing = "nothing" /\ stdin = "open"

Init == FeedInit("spawn")

-----------------------------------------------------------------------------
(* Who holds which end of a pipe.                                            *)

Running    == child = "running"
ChildEnded == child \in Endings
Open(t)    == thread[t] \in {"unborn", "running"}   \* its end of the pipe
InputBuffered == sent - fed
InputRead  == Running /\ stdin = "open"                      \* somebody may read it

-----------------------------------------------------------------------------
(* The calling thread.                                                       *)

Spawn ==
  /\ main = "spawn"
  /\ child' = "running"
  /\ main' = "writer"
  /\ UNCHANGED <<thread, sent, got, waited, result, pipe, doing, stdin, fed, said>>

SpawnFails ==
  /\ main = "spawn"
  /\ result' = [kind |-> "Spawn"]
  /\ main' = "returned"
  /\ UNCHANGED <<thread, sent, got, waited, pipe, childs>>

\* mutant: the input is written before anything is read
MayStart_AfterWriting(t) ==
  main = t /\ (t = "stdout" => thread["writer"] \notin {"unborn", "running"})

MayStart(t) == main = t

StartThread(t) ==
  /\ MayStart(t)
  /\ thread' = [thread EXCEPT ![t] = "running"]
  /\ main' = CASE t = "writer" -> "stdout"
               [] t = "stdout" -> "stderr"
               [] t = "stderr" -> "wait"
  /\ UNCHANGED <<sent, got, waited, result, pipe, childs>>

\* scope.spawn panics when the system has no thread left; unwinding drops the
\* pipe ends of the threads not started, then the scope waits for the others
StartThreadFails(t) ==
  /\ MayStart(t)
  /\ thread' = [u \in Threads |-> IF thread[u] = "unborn" THEN "dropped" ELSE thread[u]]
  /\ main' = "unwinding"
  /\ UNCHANGED <<sent, got, waited, result, pipe, childs>>

Wait ==
  /\ main = "wait" /\ ChildEnded
  /\ waited' = "ok"
  /\ main' = "join"
  /\ UNCHANGED <<thread, sent, got, result, pipe, childs>>

WaitFails ==
  /\ main = "wait"
  /\ waited' = "failed"
  /\ main' = "kill"
  /\ UNCHANGED <<thread, sent, got, result, pipe, childs>>

\* mutant: the failure of the wait is left at that
Kill_Skipped ==
  /\ main = "kill"
  /\ main' = "join"
  /\ UNCHANGED <<thread, sent, got, waited, result, pipe, childs>>

\* wait_or_kill: a child that has ended already is not hurt
Kill ==
  /\ main = "kill"
  /\ main' = "join"
  /\ child' = IF Running THEN "signal" ELSE child
  /\ UNCHANGED <<thread, sent, got, waited, result, pipe, doing, stdin, fed, said>>

\* mutant: an input that could not be written is no error
Assemble_WriteErrorIgnored ==
  CASE thread["writer"] = "panicked"                      -> [kind |-> "WriterPanicked"]
    [] \E s \in Streams : thread[s] = "panicked"          -> [kind |-> "ReaderPanicked"]
    [] waited = "failed"
       \/ \E s \in Streams : thread[s] = "failed"         -> [kind |-> "Wait"]
    [] OTHER -> [kind |-> "output", status |-> child, said |-> got]

\* mutant: what was read before a reader failed is passed on
Assemble_ReadErrorIgnored ==
  CASE thread["writer"] = "failed"                        -> [kind |-> "Write"]
    [] thread["writer"] = "panicked"                      -> [kind |-> "WriterPanicked"]
    [] \E s \in Streams : thread[s] = "panicked"          -> [kind |-> "ReaderPanicked"]
    [] waited = "failed"                                  -> [kind |-> "Wait"]
    [] OTHER -> [kind |-> "output", status |-> child, said |-> got]

\* mutant: the two streams the wrong way round
Assemble_StreamsExchanged ==
  CASE thread["writer"] = "failed"                        -> [kind |-> "Write"]
    [] thread["writer"] = "panicked"                      -> [kind |-> "WriterPanicked"]
    [] \E s \in Streams : thread[s] = "panicked"          -> [kind |-> "ReaderPanicked"]
    [] waited = "failed"
       \/ \E s \in Streams : thread[s] = "failed"         -> [kind |-> "Wait"]
    [] OTHER -> [kind |-> "output", status |-> child,
                 said |-> [stdout |-> got["stderr"], stderr |-> got["stdout"]]]

\* a pipe the child closed is no error: its answer came early
Assemble ==
  CASE thread["writer"] = "failed"                        -> [kind |-> "Write"]
    [] thread["writer"] = "panicked"                      -> [kind |-> "WriterPanicked"]
    [] \E s \in Streams : thread[s] = "panicked"          -> [kind |-> "ReaderPanicked"]
    [] waited = "failed"
       \/ \E s \in Streams : thread[s] = "failed"         -> [kind |-> "Wait"]
    [] OTHER -> [kind |-> "output", status |-> child, said |-> got]

NoneRunning == \A t \in Threads : thread[t] # "running"

Join ==
  /\ main = "join" /\ NoneRunning
  /\ result' = Assemble
  /\ main' = "returned"
  /\ UNCHANGED <<thread, sent, got, waited, pipe, childs>>

Unwind ==
  /\ main = "unwinding" /\ NoneRunning
  /\ result' = [kind |-> "Panic"]
  /\ main' = "panicked"
  /\ UNCHANGED <<thread, sent, got, waited, pipe, childs>>

MainStep ==
  \/ Spawn \/ (\E t \in Threads : StartThread(t))
  \/ Wait \/ Kill \/ Join \/ Unwind

-----------------------------------------------------------------------------
(* The helper threads.  One that ends drops its end of the pipe.             *)

Ends(t, how) ==
  /\ thread[t] = "running"
  /\ thread' = [thread EXCEPT ![t] = how]
  /\ UNCHANGED <<main, sent, got, waited, result, pipe, childs>>

WriteSome ==
  /\ thread["writer"] = "running"
  /\ sent < InputSize
  /\ InputRead /\ InputBuffered < Capacity
  /\ sent' = sent + 1
  /\ UNCHANGED <<main, thread, got, waited, result, pipe, childs>>

WriteEnds   == sent = InputSize /\ Ends("writer", "done")
WriteBroken == sent < InputSize /\ ~InputRead /\ Ends("writer", "broken")
WriteFails  == sent < InputSize /\ Ends("writer", "failed")

WriterStep == WriteSome \/ WriteEnds \/ WriteBroken

ReadSome(s) ==
  /\ thread[s] = "running"
  /\ pipe[s] # <<>>
  /\ got'  = [got EXCEPT ![s] = Append(@, Head(pipe[s]))]
  /\ pipe' = [pipe EXCEPT ![s] = Tail(@)]
  /\ UNCHANGED <<main, thread, sent, waited, result, childs>>

\* mutant: an empty pipe is taken for the end of the stream
AtEnd_WhenEmpty(s) == pipe[s] = <<>>

AtEnd(s) == pipe[s] = <<>> /\ ~Running

ReadEnds(s)  == AtEnd(s) /\ Ends(s, "done")
ReadFails(s) == Ends(s, "failed")

ReaderStep(s) == ReadSome(s) \/ ReadEnds(s)

Panics(t) == Ends(t, "panicked")

-----------------------------------------------------------------------------
(* The child.                                                                *)

\* it does not go back to a stream it has seen the end of
Decides ==
  /\ Running /\ doing = "nothing"
  /\ doing' \in {"exit"}
        \union (IF stdin = "open" THEN {"read", "close"} ELSE {})
        \union {s \in Streams : Len(said[s]) < MaxSaid[s]}
  /\ UNCHANGED <<ours, pipe, child, stdin, fed, said>>

Reads ==
  /\ Running /\ doing = "read"
  /\ InputBuffered > 0
  /\ fed' = fed + 1
  /\ doing' = "nothing"
  /\ UNCHANGED <<ours, pipe, child, stdin, said>>

SeesTheEnd ==
  /\ Running /\ doing = "read"
  /\ InputBuffered = 0 /\ ~Open("writer")
  /\ stdin' = "end"
  /\ doing' = "nothing"
  /\ UNCHANGED <<ours, pipe, child, fed, said>>

ClosesInput ==
  /\ Running /\ doing = "close"
  /\ stdin' = "closed"
  /\ doing' = "nothing"
  /\ UNCHANGED <<ours, pipe, child, fed, said>>

Says(s) ==
  /\ Running /\ doing = s
  /\ Open(s) /\ Len(pipe[s]) < Capacity
  /\ \E w \in Words : /\ said' = [said EXCEPT ![s] = Append(@, w)]
                      /\ pipe' = [pipe EXCEPT ![s] = Append(@, w)]
  /\ doing' = "nothing"
  /\ UNCHANGED <<ours, child, stdin, fed>>

EndsAs(how) ==
  /\ child' = how
  /\ doing' = "nothing"
  /\ UNCHANGED <<ours, pipe, stdin, fed, said>>

\* SIGPIPE
SpeaksToNobody(s) == Running /\ doing = s /\ ~Open(s) /\ EndsAs("signal")
Exits  == Running /\ doing = "exit" /\ \E c \in Endings \ {"signal"} : EndsAs(c)
Killed == Running /\ EndsAs("signal")

ChildStep ==
  \/ Decides \/ Reads \/ SeesTheEnd \/ ClosesInput \/ Exits
  \/ \E s \in Streams : Says(s) \/ SpeaksToNobody(s)

-----------------------------------------------------------------------------
Faults ==
  \/ SpawnFails \/ WaitFails \/ WriteFails \/ Killed
  \/ \E t \in Threads : StartThreadFails(t)
  \/ \E s \in Streams : ReadFails(s)
  \/ \E t \in Threads : Panics(t)

FeedNext ==
  \/ MainStep \/ WriterStep \/ (\E s \in Streams : ReaderStep(s))
  \/ ChildStep \/ Faults

Over == main \in {"returned", "panicked"}
Ended == Over /\ UNCHANGED vars

Next == FeedNext \/ Ended

\* the threads of hunkpick are scheduled
OursFair ==
  /\ WF_vars(MainStep) /\ WF_vars(WriterStep)
  /\ \A s \in Streams : WF_vars(ReaderStep(s))

\* no child is assumed to get anywhere: git may hang
Spec == Init /\ [][Next]_vars /\ OursFair

-----------------------------------------------------------------------------
TypeOK ==
  /\ main \in Threads \union {"idle", "spawn", "wait", "kill", "join", "unwinding",
                              "returned", "panicked"}
  /\ thread \in [Threads -> {"unborn", "running", "dropped", "done", "broken",
                             "failed", "panicked"}]
  /\ sent \in 0..InputSize /\ fed \in 0..sent
  /\ pipe \in [Streams -> Seq(Words)]
  /\ got \in [Streams -> Seq(Words)] /\ said \in [Streams -> Seq(Words)]
  /\ waited \in {"no", "ok", "failed"}
  /\ result \in [kind : {"pending", "Spawn", "Write", "WriterPanicked", "ReaderPanicked",
                         "Wait", "Panic"}]
        \union [kind : {"output"}, status : Endings, said : [Streams -> Seq(Words)]]
  /\ child \in {"unborn", "running"} \union Endings
  /\ doing \in {"nothing", "read", "close", "exit"} \union Streams
  /\ stdin \in {"open", "closed", "end"}

(* An answer is passed on whole and only from a child that ended by itself  *)
(* or was ended by others: what it said on each stream, to the last unit,   *)
(* in the field named for that stream (src/gitenv.rs, FeedOutcome and       *)
(* assemble).                                                               *)
AnswersAreWhole ==
  result.kind = "output" => ChildEnded /\ result.status = child /\ result.said = said

(* A child that read its input to the end and is believed read the whole    *)
(* diff: an answer to the part of it that could be written is no verdict    *)
(* on the diff (src/gitenv.rs, assemble: a closed pipe alone is no error).  *)
AnswersAreToTheWholeInput ==
  result.kind = "output" /\ stdin = "end" => fed = InputSize

-----------------------------------------------------------------------------
(* The inductive invariant behind the two.                                   *)

\* the threads are started in order, and dropped only by unwinding
StartedInOrder ==
  /\ main \in {"idle", "spawn", "writer"} => \A t \in Threads : thread[t] = "unborn"
  /\ main = "stdout" => /\ thread["writer"] # "unborn"
                        /\ \A s \in Streams : thread[s] = "unborn"
  /\ main = "stderr" => \A t \in Threads : thread[t] = "unborn" <=> t = "stderr"
  /\ main \in {"wait", "kill", "join"} => \A t \in Threads : thread[t] # "unborn"
  /\ \A t \in Threads : thread[t] = "dropped" => main \in {"unwinding", "panicked"}

\* no thread runs without a child
ChildFirst ==
  /\ main \in {"idle", "spawn"} => child = "unborn"
  /\ main \in Threads \union {"wait", "kill", "join"} => child # "unborn"
  /\ \A t \in Threads : thread[t] = "running" => child # "unborn"

\* nothing gets lost between the child and the thread that listens
NothingLost ==
  \A s \in Streams : thread[s] \in {"unborn", "running", "done"} => said[s] = got[s] \o pipe[s]

\* a stream is read to its end, and ends with the child; only writing breaks
ReadToTheEnd ==
  \A s \in Streams : /\ thread[s] = "done" => pipe[s] = <<>> /\ ChildEnded
                     /\ thread[s] # "broken"

\* what the ends of the input pipe know of each other
InputEnds ==
  /\ doing \in {"read", "close"} => stdin = "open"
  /\ thread["writer"] = "done" => sent = InputSize
  /\ thread["writer"] = "broken" => ~InputRead
  /\ stdin = "end" => /\ fed = sent
                      /\ thread["writer"] \notin {"unborn", "running", "broken"}

\* the caller has nothing before the end
StillPending == main \notin {"returned", "panicked"} => result = Pending

\* what a returned answer was made of
AnswerIsAssembled ==
  result.kind = "output" =>
    /\ main = "returned"
    /\ thread["writer"] \in {"done", "broken"}
    /\ \A s \in Streams : thread[s] = "done"
    /\ result.status = child /\ result.said = got

FeedInv ==
  TypeOK /\ StartedInOrder /\ ChildFirst /\ NothingLost /\ ReadToTheEnd /\ InputEnds
         /\ StillPending /\ AnswerIsAssembled

-----------------------------------------------------------------------------
R == INSTANCE RunChild WITH Errors <- {"Spawn", "Write", "WriterPanicked", "ReaderPanicked",
                                       "Wait", "Panic"}

(* Threads and pipes implement "run a program, get its whole answer or an   *)
(* error", and keep nobody waiting once the program has ended.              *)
RunsAChild == R!Spec

(* "Without the kill, a failure there would hang instead of being reported" *)
(* (src/gitenv.rs, feed_and_wait): with it a failed wait is reported even   *)
(* when the child hangs and the writer is blocked on it.                    *)
FailedWaitIsReported == (waited = "failed") ~> (main = "returned")

(* "Writing the whole input first would deadlock as soon as the child       *)
(* filled a pipe of its own before reading the input to the end"            *)
(* (src/gitenv.rs, feed_and_wait): with any child that goes on as long as   *)
(* nothing blocks it, whatever it reads and says first, the call comes back.*)
CallEnds == WF_vars(ChildStep) => <>Over
=============================================================================

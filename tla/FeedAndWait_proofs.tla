------------------------ MODULE FeedAndWait_proofs --------------------------
(***************************************************************************)
(* FeedAndWait: the inductive invariant FeedInv, for every size of input,  *)
(* pipe and answer; that an answer is whole and is to the whole input; and *)
(* that threads and pipes implement RunChild, step by step.                *)
(***************************************************************************)
EXTENDS FeedAndWait, SequenceTheorems, TLAPS

USE FeedAssumption
USE DEF Streams, Threads, Endings, Running, ChildEnded, InputRead, InputBuffered, Open, Pending,
        ours, childs

LEMMA InitFeedInv == Init => FeedInv
  BY DEF Init, FeedInit, FeedInv, TypeOK, StartedInOrder, ChildFirst, NothingLost, ReadToTheEnd,
         InputEnds, AnswerIsAssembled, StillPending

-----------------------------------------------------------------------------
(* Collecting the result: once all three threads have ended well, every     *)
(* stream has been read to its end.                                         *)

LEMMA AssembleIsAnswerOrError ==
  ASSUME FeedInv, main = "join", NoneRunning
  PROVE  \/ /\ Assemble = [kind |-> "output", status |-> child, said |-> got]
            /\ thread["writer"] \in {"done", "broken"}
            /\ \A s \in Streams : thread[s] = "done"
            /\ child \in Endings
         \/ Assemble \in [kind : {"Write", "WriterPanicked", "ReaderPanicked", "Wait"}]
  <1> USE DEF FeedInv, TypeOK, StartedInOrder, ReadToTheEnd, NoneRunning
  <1>1. CASE thread["writer"] \in {"failed", "panicked"}
    BY <1>1 DEF Assemble
  <1>2. CASE \E s \in Streams : thread[s] = "panicked"
    BY <1>2 DEF Assemble
  <1>3. CASE waited = "failed" \/ \E s \in Streams : thread[s] = "failed"
    BY <1>3 DEF Assemble
  <1>4. CASE /\ thread["writer"] \notin {"failed", "panicked"}
             /\ \A s \in Streams : thread[s] \notin {"failed", "panicked"}
             /\ waited # "failed"
    <2>1. thread["writer"] \in {"done", "broken"}
      BY <1>4
    <2>2. \A s \in Streams : thread[s] = "done"
      BY <1>4
    <2>3. Assemble = [kind |-> "output", status |-> child, said |-> got]
      BY <1>4 DEF Assemble
    <2> QED BY <2>1, <2>2, <2>3
  <1> QED BY <1>1, <1>2, <1>3, <1>4

LEMMA JoinKeepsInv == ASSUME FeedInv, Join PROVE FeedInv'
  <1>1. PICK r : result' = r /\ r = Assemble
    BY DEF Join
  <1>2. CASE Assemble \in [kind : {"Write", "WriterPanicked", "ReaderPanicked", "Wait"}]
    BY <1>2 DEF Join, FeedInv, TypeOK, StartedInOrder, ChildFirst, NothingLost, ReadToTheEnd,
                InputEnds, AnswerIsAssembled, StillPending
  <1>3. CASE /\ Assemble = [kind |-> "output", status |-> child, said |-> got]
             /\ thread["writer"] \in {"done", "broken"}
             /\ \A s \in Streams : thread[s] = "done"
             /\ child \in Endings
    BY <1>3 DEF Join, FeedInv, TypeOK, StartedInOrder, ChildFirst, NothingLost, ReadToTheEnd,
                InputEnds, AnswerIsAssembled, StillPending
  <1> QED BY <1>2, <1>3, AssembleIsAnswerOrError DEF Join

-----------------------------------------------------------------------------
(* Moving one unit from the child to the thread that listens.               *)

LEMMA MoveOne ==
  ASSUME NEW S, NEW g \in Seq(S), NEW p \in Seq(S), p # <<>>
  PROVE  /\ Head(p) \in S /\ Tail(p) \in Seq(S)
         /\ Append(g, Head(p)) \o Tail(p) = g \o p
  OBVIOUS

LEMMA AppendAtTheEnd ==
  ASSUME NEW g \in Seq(Words), NEW p \in Seq(Words), NEW w \in Words
  PROVE  Append(g \o p, w) = g \o Append(p, w)
  OBVIOUS

LEMMA NothingToAppend == ASSUME NEW S, NEW g \in Seq(S) PROVE g \o <<>> = g
  OBVIOUS

LEMMA ReadSomeKeepsInv == ASSUME FeedInv, NEW s \in Streams, ReadSome(s) PROVE FeedInv'
  <1>1. TypeOK'
    BY MoveOne DEF ReadSome, FeedInv, TypeOK
  <1>2. NothingLost'
    <2> SUFFICES ASSUME NEW r \in Streams, thread[r] \in {"unborn", "running", "done"}
                 PROVE  said[r] = got'[r] \o pipe'[r]
      BY DEF NothingLost, ReadSome
    <2>1. said[r] = got[r] \o pipe[r] /\ got[r] \in Seq(Words) /\ pipe[r] \in Seq(Words)
      BY DEF FeedInv, NothingLost, TypeOK
    <2>2. CASE r = s
      <3>1. got'[s] = Append(got[s], Head(pipe[s])) /\ pipe'[s] = Tail(pipe[s]) /\ pipe[s] # <<>>
        BY DEF ReadSome, FeedInv, TypeOK
      <3>2. Append(got[s], Head(pipe[s])) \o Tail(pipe[s]) = got[s] \o pipe[s]
        <4>1. \A g, p \in Seq(Words) : p # <<>> => Append(g, Head(p)) \o Tail(p) = g \o p
          BY MoveOne
        <4> QED BY <2>1, <2>2, <3>1, <4>1
      <3> QED BY <2>1, <2>2, <3>1, <3>2
    <2>3. CASE r # s
      BY <2>1, <2>3 DEF ReadSome, FeedInv, TypeOK
    <2> QED BY <2>2, <2>3
  <1>3. /\ StartedInOrder' /\ ChildFirst' /\ ReadToTheEnd' /\ InputEnds'
        /\ AnswerIsAssembled' /\ StillPending'
    BY DEF ReadSome, FeedInv, TypeOK, StartedInOrder, ChildFirst, ReadToTheEnd, InputEnds,
           AnswerIsAssembled, StillPending
  <1> QED BY <1>1, <1>2, <1>3 DEF FeedInv

LEMMA SaysKeepsInv == ASSUME FeedInv, NEW s \in Streams, Says(s) PROVE FeedInv'
  <1>1. PICK w \in Words : /\ said' = [said EXCEPT ![s] = Append(@, w)]
                           /\ pipe' = [pipe EXCEPT ![s] = Append(@, w)]
    BY DEF Says
  <1>2. TypeOK'
    BY <1>1 DEF Says, FeedInv, TypeOK
  <1>3. NothingLost'
    <2> SUFFICES ASSUME NEW r \in Streams, thread[r] \in {"unborn", "running", "done"}
                 PROVE  said'[r] = got[r] \o pipe'[r]
      BY DEF NothingLost, Says
    <2>1. said[r] = got[r] \o pipe[r] /\ got[r] \in Seq(Words) /\ pipe[r] \in Seq(Words)
      BY DEF FeedInv, NothingLost, TypeOK
    <2>2. CASE r = s
      <3>1. said'[s] = Append(said[s], w) /\ pipe'[s] = Append(pipe[s], w)
        BY <1>1 DEF FeedInv, TypeOK
      <3>2. Append(got[s] \o pipe[s], w) = got[s] \o Append(pipe[s], w)
        BY <1>1, <2>1, <2>2, AppendAtTheEnd
      <3>3. said'[s] = Append(got[s] \o pipe[s], w)
        BY <2>1, <2>2, <3>1
      <3> QED BY <2>2, <3>1, <3>2, <3>3
    <2>3. CASE r # s
      BY <1>1, <2>1, <2>3 DEF FeedInv, TypeOK
    <2> QED BY <2>2, <2>3
  <1>4. /\ StartedInOrder' /\ ChildFirst' /\ ReadToTheEnd' /\ InputEnds'
        /\ AnswerIsAssembled' /\ StillPending'
    BY <1>1 DEF Says, FeedInv, TypeOK, StartedInOrder, ChildFirst, ReadToTheEnd, InputEnds,
                AnswerIsAssembled, StillPending
  <1> QED BY <1>2, <1>3, <1>4 DEF FeedInv

-----------------------------------------------------------------------------
LEMMA NextKeepsInv == FeedInv /\ [Next]_vars => FeedInv'
  <1> SUFFICES ASSUME FeedInv, [Next]_vars PROVE FeedInv'
    OBVIOUS
  <1> USE DEF FeedInv, TypeOK, StartedInOrder, ChildFirst, NothingLost, ReadToTheEnd, InputEnds,
              AnswerIsAssembled, StillPending
  <1>1. CASE Spawn
    BY <1>1, SMTT(60) DEF Spawn
  <1>2. CASE SpawnFails
    BY <1>2, SMTT(60) DEF SpawnFails
  <1>3. ASSUME NEW t \in Threads, StartThread(t) PROVE FeedInv'
    <2>1. TypeOK'
      BY <1>3, SMTT(60) DEF StartThread, MayStart
    <2>2. StartedInOrder' /\ ChildFirst'
      BY <1>3, SMTT(60) DEF StartThread, MayStart
    <2>3. NothingLost' /\ ReadToTheEnd'
      BY <1>3, SMTT(60) DEF StartThread, MayStart
    <2>4. InputEnds' /\ AnswerIsAssembled' /\ StillPending'
      BY <1>3, SMTT(60) DEF StartThread, MayStart
    <2> QED BY <2>1, <2>2, <2>3, <2>4
  <1>4. ASSUME NEW t \in Threads, StartThreadFails(t) PROVE FeedInv'
    BY <1>4, SMTT(60) DEF StartThreadFails, MayStart
  <1>5. CASE Wait
    BY <1>5, SMTT(60) DEF Wait
  <1>6. CASE WaitFails
    BY <1>6, SMTT(60) DEF WaitFails
  <1>7. CASE Kill
    BY <1>7, SMTT(60) DEF Kill
  <1>8. CASE Join
    BY <1>8, JoinKeepsInv
  <1>9. CASE Unwind
    BY <1>9, SMTT(60) DEF Unwind, NoneRunning
  <1>10. CASE WriteSome
    BY <1>10, SMTT(60) DEF WriteSome
  <1>11. CASE WriteEnds
    BY <1>11, SMTT(60) DEF WriteEnds, Ends
  <1>12. CASE WriteBroken
    BY <1>12, SMTT(60) DEF WriteBroken, Ends
  <1>13. CASE WriteFails
    BY <1>13, SMTT(60) DEF WriteFails, Ends
  <1>14. ASSUME NEW s \in Streams, ReadSome(s) PROVE FeedInv'
    BY <1>14, ReadSomeKeepsInv
  <1>15. ASSUME NEW s \in Streams, ReadEnds(s) PROVE FeedInv'
    BY <1>15, SMTT(60) DEF ReadEnds, AtEnd, Ends
  <1>16. ASSUME NEW s \in Streams, ReadFails(s) PROVE FeedInv'
    BY <1>16, SMTT(60) DEF ReadFails, Ends
  <1>17. ASSUME NEW t \in Threads, Panics(t) PROVE FeedInv'
    <2>1. TypeOK' /\ StartedInOrder' /\ ChildFirst'
      BY <1>17, SMTT(60) DEF Panics, Ends
    <2>2. NothingLost' /\ ReadToTheEnd'
      BY <1>17, SMTT(60) DEF Panics, Ends
    <2>3. InputEnds' /\ AnswerIsAssembled' /\ StillPending'
      BY <1>17, SMTT(60) DEF Panics, Ends
    <2> QED BY <2>1, <2>2, <2>3
  <1>18. CASE Decides
    BY <1>18, SMTT(60) DEF Decides
  <1>19. CASE Reads
    BY <1>19, SMTT(60) DEF Reads
  <1>20. CASE SeesTheEnd
    BY <1>20, SMTT(60) DEF SeesTheEnd
  <1>21. CASE ClosesInput
    BY <1>21, SMTT(60) DEF ClosesInput
  <1>22. ASSUME NEW s \in Streams, Says(s) PROVE FeedInv'
    BY <1>22, SaysKeepsInv
  <1>23. ASSUME NEW s \in Streams, SpeaksToNobody(s) PROVE FeedInv'
    BY <1>23, SMTT(60) DEF SpeaksToNobody, EndsAs
  <1>24. CASE Exits
    BY <1>24, SMTT(60) DEF Exits, EndsAs
  <1>25. CASE Killed
    BY <1>25, SMTT(60) DEF Killed, EndsAs
  <1>26. CASE UNCHANGED vars
    BY <1>26, SMTT(60) DEF vars
  <1> QED
    BY <1>1, <1>2, <1>3, <1>4, <1>5, <1>6, <1>7, <1>8, <1>9, <1>10, <1>11, <1>12, <1>13,
       <1>14, <1>15, <1>16, <1>17, <1>18, <1>19, <1>20, <1>21, <1>22, <1>23, <1>24, <1>25, <1>26
    DEF Next, FeedNext, MainStep, WriterStep, ReaderStep, ChildStep, Faults, Ended, vars

(* FeedInv holds in every state of feed_and_wait, whatever the sizes.       *)
THEOREM FeedInvariance == Spec => []FeedInv
  BY InitFeedInv, NextKeepsInv, PTL DEF Spec

(* Every variable keeps to its type.                                        *)
THEOREM FeedTypeCorrect == Spec => []TypeOK
  <1>1. FeedInv => TypeOK BY DEF FeedInv
  <1> QED BY <1>1, FeedInvariance, PTL

LEMMA ReadOutIsSaid ==
  ASSUME FeedInv, \A s \in Streams : thread[s] = "done"
  PROVE  said = got
  <1>1. \A s \in Streams : said[s] = got[s]
    <2> SUFFICES ASSUME NEW s \in Streams PROVE said[s] = got[s]
      OBVIOUS
    <2>1. got[s] \in Seq(Words) /\ pipe[s] = <<>> /\ said[s] = got[s] \o pipe[s]
      BY DEF FeedInv, TypeOK, ReadToTheEnd, NothingLost
    <2> QED BY <2>1, NothingToAppend
  <1>2. /\ said = [s \in Streams |-> said[s]]
        /\ got = [s \in Streams |-> got[s]]
    BY DEF FeedInv, TypeOK
  <1> QED BY <1>1, <1>2, Zenon

(* An answer handed to the caller is how the child ended and all it said,   *)
(* on the stream it said it (src/gitenv.rs, feed_and_wait and assemble).    *)
THEOREM WholeAnswers == Spec => []AnswersAreWhole
  <1>1. FeedInv => AnswersAreWhole
    <2> SUFFICES ASSUME FeedInv, result.kind = "output"
                 PROVE  ChildEnded /\ result.status = child /\ result.said = said
      BY DEF AnswersAreWhole
    <2>1. /\ \A s \in Streams : thread[s] = "done"
          /\ result.status = child /\ result.said = got
      BY DEF FeedInv, AnswerIsAssembled
    <2>2. ChildEnded
      BY <2>1 DEF FeedInv, ReadToTheEnd
    <2>3. said = got
      BY <2>1, ReadOutIsSaid
    <2> QED BY <2>1, <2>2, <2>3
  <1> QED BY <1>1, FeedInvariance, PTL

(* A child that read its input to the end and is believed was given all of  *)
(* it (src/gitenv.rs, assemble: only a closed pipe is no error).            *)
THEOREM WholeInput == Spec => []AnswersAreToTheWholeInput
  <1>1. FeedInv => AnswersAreToTheWholeInput
    BY DEF FeedInv, InputEnds, AnswerIsAssembled, AnswersAreToTheWholeInput
  <1> QED BY <1>1, FeedInvariance, PTL

-----------------------------------------------------------------------------
(* Refinement: what the threads do to pipes is invisible in RunChild, what  *)
(* the child does is a step of its own, the join is its Answer or its Fail. *)

LEMMA JoinMaps == ASSUME FeedInv, Join PROVE R!Answer \/ R!Fail
  <1>1. /\ result = Pending /\ main = "join" /\ NoneRunning
        /\ result' = Assemble /\ UNCHANGED <<child, said>>
    BY DEF FeedInv, TypeOK, AnswerIsAssembled, StillPending, Join
  <1>2. CASE Assemble \in [kind : {"Write", "WriterPanicked", "ReaderPanicked", "Wait"}]
    BY <1>1, <1>2 DEF R!Fail, R!Pending
  <1>3. CASE /\ Assemble = [kind |-> "output", status |-> child, said |-> got]
             /\ \A s \in Streams : thread[s] = "done"
             /\ child \in Endings
    <2>1. said = got
      BY <1>3, ReadOutIsSaid
    <2> QED BY <1>1, <1>3, <2>1 DEF R!Answer, R!Pending
  <1> QED BY <1>1, <1>2, <1>3, AssembleIsAnswerOrError

LEMMA NextMaps == FeedInv /\ FeedInv' /\ [Next]_vars => [R!Next]_(R!vars)
  <1> SUFFICES ASSUME FeedInv, [Next]_vars PROVE R!Next \/ UNCHANGED <<child, said, result>>
    BY DEF R!vars
  <1>1. CASE Spawn
    BY <1>1 DEF Spawn, R!Next, R!Start, R!Pending, FeedInv, StillPending, TypeOK, ChildFirst
  <1>2. CASE SpawnFails \/ Unwind
    BY <1>2 DEF SpawnFails, Unwind, R!Next, R!Fail, R!Pending, FeedInv, StillPending
  <1>3. CASE Join
    BY <1>3, JoinMaps DEF R!Next
  <1>4. CASE Kill
    BY <1>4 DEF Kill, R!Next, R!End
  <1>5. ASSUME NEW s \in Streams, Says(s) PROVE R!Next
    BY <1>5 DEF Says, R!Next, R!Say
  <1>6. CASE Exits \/ Killed
    BY <1>6 DEF Exits, Killed, EndsAs, R!Next, R!End
  <1>7. ASSUME NEW s \in Streams, SpeaksToNobody(s) PROVE R!Next
    BY <1>7 DEF SpeaksToNobody, EndsAs, R!Next, R!End
  <1>8. CASE Wait \/ WaitFails
    BY <1>8 DEF Wait, WaitFails
  <1>9. ASSUME NEW t \in Threads, StartThread(t) \/ StartThreadFails(t) \/ Panics(t)
        PROVE  UNCHANGED <<child, said, result>>
    BY <1>9 DEF StartThread, StartThreadFails, Panics, Ends
  <1>10. CASE WriterStep \/ WriteFails
    BY <1>10 DEF WriterStep, WriteSome, WriteEnds, WriteBroken, WriteFails, Ends
  <1>11. ASSUME NEW s \in Streams, ReaderStep(s) \/ ReadFails(s)
         PROVE  UNCHANGED <<child, said, result>>
    BY <1>11 DEF ReaderStep, ReadSome, ReadEnds, ReadFails, Ends
  <1>12. CASE Decides \/ Reads \/ SeesTheEnd \/ ClosesInput
    BY <1>12 DEF Decides, Reads, SeesTheEnd, ClosesInput
  <1>13. CASE UNCHANGED vars
    BY <1>13 DEF vars
  <1> QED
    BY <1>1, <1>2, <1>3, <1>4, <1>5, <1>6, <1>7, <1>8, <1>9, <1>10, <1>11, <1>12, <1>13
    DEF Next, FeedNext, MainStep, ChildStep, Faults, Ended, vars

(* feed_and_wait's threads, pipes and joins implement "run a program and    *)
(* get its whole answer, or an error": the safety part of RunsAChild.       *)
THEOREM RunsAChildSafely == Spec => R!Safety
  <1>1. Init => R!Init
    BY DEF Init, FeedInit, R!Init, R!Pending
  <1> QED BY <1>1, NextMaps, FeedInvariance, PTL DEF Spec, R!Safety
=============================================================================

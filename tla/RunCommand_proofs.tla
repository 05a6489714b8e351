-------------------------- MODULE RunCommand_proofs ---------------------------
(***************************************************************************)
(* Proofs about RunCommand, for every set of inputs and limits, every      *)
(* window, every size of result and everything git may do: IInv is         *)
(* inductive, and what a run promises follows from it.  That the call of   *)
(* feed_and_wait keeps its own invariant is FeedAndWait_proofs'.           *)
(***************************************************************************)
EXTENDS RunCommandInv, FiniteSetTheorems, SequenceTheorems, WellFoundedInduction, TLAPS

P == INSTANCE FeedAndWait_proofs

-----------------------------------------------------------------------------
(* The call of feed_and_wait.  F and P are the same module of the same      *)
(* variables, which the provers are told.                                   *)
LEMMA SameInv == (F!FeedInv <=> P!FeedInv) /\ (F!FeedInv' <=> P!FeedInv')
  BY DEF F!FeedInv, P!FeedInv, F!TypeOK, P!TypeOK, F!StartedInOrder, P!StartedInOrder,
         F!ChildFirst, P!ChildFirst, F!NothingLost, P!NothingLost, F!ReadToTheEnd,
         P!ReadToTheEnd, F!InputEnds, P!InputEnds, F!StillPending, P!StillPending,
         F!AnswerIsAssembled, P!AnswerIsAssembled, F!Threads, P!Threads, F!Streams,
         P!Streams, F!Endings, P!Endings, F!Running, P!Running, F!ChildEnded,
         P!ChildEnded, F!Open, P!Open, F!InputRead, P!InputRead, F!InputBuffered,
         P!InputBuffered, F!Pending, P!Pending

LEMMA SameNext == F!FeedNext => P!Next
  BY DEF P!Next, F!FeedNext, P!FeedNext, F!MainStep, P!MainStep, F!WriterStep,
         P!WriterStep, F!ReaderStep, P!ReaderStep, F!ChildStep, P!ChildStep, F!Faults,
         P!Faults, F!Spawn, P!Spawn, F!SpawnFails, P!SpawnFails, F!StartThread,
         P!StartThread, F!MayStart, P!MayStart, F!StartThreadFails, P!StartThreadFails,
         F!Wait, P!Wait, F!WaitFails, P!WaitFails, F!Kill, P!Kill, F!Join, P!Join,
         F!Unwind, P!Unwind, F!NoneRunning, P!NoneRunning, F!Assemble, P!Assemble,
         F!WriteSome, P!WriteSome, F!WriteEnds, P!WriteEnds, F!WriteBroken,
         P!WriteBroken, F!WriteFails, P!WriteFails, F!Ends, P!Ends, F!ReadSome,
         P!ReadSome, F!ReadEnds, P!ReadEnds, F!ReadFails, P!ReadFails, F!AtEnd, P!AtEnd,
         F!Panics, P!Panics, F!Decides, P!Decides, F!Reads, P!Reads, F!SeesTheEnd,
         P!SeesTheEnd, F!ClosesInput, P!ClosesInput, F!Says, P!Says, F!SpeaksToNobody,
         P!SpeaksToNobody, F!EndsAs, P!EndsAs, F!Exits, P!Exits, F!Killed, P!Killed,
         F!Threads, P!Threads, F!Streams, P!Streams, F!Endings, P!Endings, F!Running,
         P!Running, F!ChildEnded, P!ChildEnded, F!Open, P!Open, F!InputRead,
         P!InputRead, F!InputBuffered, P!InputBuffered, F!Pending, P!Pending, F!ours,
         P!ours, F!childs, P!childs

LEMMA FeedKeepsInv == F!FeedInv /\ F!FeedNext => F!FeedInv'
  <1>1. P!FeedAssumption
    BY GitAssumption DEF P!FeedAssumption, F!FeedAssumption, P!Streams, F!Streams
  <1>2. P!FeedInv /\ [P!Next]_(P!vars) => P!FeedInv'
    BY <1>1, P!NextKeepsInv
  <1> QED BY <1>2, SameInv, SameNext

-----------------------------------------------------------------------------
\* a thread that has panicked does not come back
LEMMA PanicsLast ==
  ASSUME F!FeedInv, F!FeedNext, HelperPanicked
  PROVE  HelperPanicked'
  <1> USE DEF HelperPanicked, F!FeedInv, F!TypeOK, F!Threads, F!Streams
  <1>1. PICK t \in F!Threads : thread[t] = "panicked"
    OBVIOUS
  <1>2. \/ UNCHANGED thread
        \/ \E u \in F!Threads : \/ F!StartThread(u) \/ F!StartThreadFails(u)
                               \/ \E how \in {"done", "broken", "failed", "panicked"} : F!Ends(u, how)
    BY SMTT(30)
    DEF F!FeedNext, F!MainStep, F!WriterStep, F!ReaderStep, F!ChildStep, F!Faults,
        F!Spawn, F!SpawnFails, F!Wait, F!WaitFails, F!Kill, F!Join, F!Unwind,
        F!WriteSome, F!WriteEnds, F!WriteBroken, F!WriteFails, F!ReadSome, F!ReadEnds,
        F!ReadFails, F!Decides, F!Reads, F!SeesTheEnd, F!ClosesInput, F!Says,
        F!SpeaksToNobody, F!EndsAs, F!Exits, F!Killed, F!Panics, F!ours
  <1>3. ASSUME NEW u \in F!Threads, F!StartThread(u) PROVE HelperPanicked'
    BY <1>1, <1>3 DEF F!StartThread, F!MayStart, F!StartedInOrder
  <1>4. ASSUME NEW u \in F!Threads, F!StartThreadFails(u) PROVE HelperPanicked'
    BY <1>1, <1>4 DEF F!StartThreadFails
  <1>5. ASSUME NEW u \in F!Threads, NEW how, F!Ends(u, how) PROVE HelperPanicked'
    BY <1>1, <1>5 DEF F!Ends
  <1> QED BY <1>1, <1>2, <1>3, <1>4, <1>5

\* the caller has its result when it is back, and only then
LEMMA ResultIsLast ==
  ASSUME F!FeedInv, F!FeedNext
  PROVE  \/ UNCHANGED result /\ (F!Over' => F!Over)
         \/ result' = [kind |-> "Spawn"] \/ result' = [kind |-> "Panic"]
         \/ F!Join
  BY SMTT(30)
  DEF F!FeedNext, F!MainStep, F!WriterStep, F!ReaderStep, F!ChildStep, F!Faults,
      F!Spawn, F!SpawnFails, F!Wait, F!WaitFails, F!Kill, F!Unwind, F!WriteSome,
      F!WriteEnds, F!WriteBroken, F!WriteFails, F!ReadSome, F!ReadEnds, F!ReadFails,
      F!Decides, F!Reads, F!SeesTheEnd, F!ClosesInput, F!Says, F!SpeaksToNobody,
      F!EndsAs, F!Exits, F!Killed, F!ours, F!StartThread, F!MayStart,
      F!StartThreadFails, F!Panics, F!Ends, F!Over, F!Threads, F!Streams

LEMMA JoinBlamesRightly == F!FeedInv /\ F!Join => FaultsAreReal'
  BY DEF F!FeedInv, F!TypeOK, F!Join, F!Assemble, FaultsAreReal, HelperPanicked, F!Over,
         F!Threads, F!Streams

LEMMA FeedKeepsFaults == F!FeedInv /\ FaultsAreReal /\ F!FeedNext => FaultsAreReal'
  BY PanicsLast, ResultIsLast, JoinBlamesRightly DEF FaultsAreReal

LEMMA FeedStays ==
  ASSUME UNCHANGED <<feed, git>>
  PROVE  /\ F!FeedInv => F!FeedInv'
         /\ FaultsAreReal => FaultsAreReal'
         /\ (F!Over <=> F!Over') /\ (GitAccepts <=> GitAccepts') /\ Blame' = Blame
  <1>1. F!FeedInv => F!FeedInv'
    BY DEF feed, F!FeedInv, F!TypeOK, F!StartedInOrder, F!ChildFirst, F!NothingLost,
           F!ReadToTheEnd, F!InputEnds, F!StillPending, F!AnswerIsAssembled, F!Threads,
           F!Streams, F!Running, F!ChildEnded, F!Open, F!InputRead, F!InputBuffered,
           F!Pending
  <1>2. FaultsAreReal => FaultsAreReal'
    BY DEF feed, FaultsAreReal, HelperPanicked, F!Over
  <1>3. CheckResult' = CheckResult
    BY DEF feed, CheckResult, Applies, Rejects, Read, IsParseVerdict
  <1>4. F!Over <=> F!Over'
    BY DEF feed, F!Over
  <1> QED BY <1>1, <1>2, <1>3, <1>4 DEF GitAccepts, Blame

LEMMA InputStays ==
  ASSUME UNCHANGED input
  PROVE  /\ Allowed' = Allowed /\ (TooLarge <=> TooLarge') /\ (WholeBlank <=> WholeBlank')
         /\ Unreadable(bytes)' = Unreadable(bytes)
  BY DEF input, Allowed, TooLarge, WholeBlank, bytes

-----------------------------------------------------------------------------
(* What is read.                                                             *)

Symbols == Ascii \union {Nul, Foreign}
Units   == Symbols \union {MarkFE, MarkFF}

LEMMA TuplesAreSequences ==
  ASSUME NEW S, NEW a \in S, NEW b \in S, NEW c \in S, NEW d \in S
  PROVE  /\ <<a>> \in Seq(S) /\ Len(<<a>>) = 1
         /\ <<a, b>> \in Seq(S) /\ Len(<<a, b>>) = 2
         /\ <<a, b, c, d>> \in Seq(S) /\ Len(<<a, b, c, d>>) = 4
  OBVIOUS

LEMMA WidthIs ==
  ASSUME NEW e \in Encodings \union Marked
  PROVE  Width(e) = CASE e = "UTF-8" -> 1
                      [] e \in {"UTF-16LE", "UTF-16LE BOM", "UTF-16BE", "UTF-16BE BOM"} -> 2
                      [] e \in {"UTF-32LE BOM", "UTF-32BE BOM"} -> 4
  BY DEF Encodings, Marked, Encoded, Width

LEMMA EncodedIsSymbols ==
  ASSUME NEW symbol \in Symbols, NEW e \in Encodings \union Marked
  PROVE  /\ Encoded(symbol, e) \in Seq(Symbols)
         /\ Len(Encoded(symbol, e)) = Width(e)
         /\ Width(e) \in {1, 2, 4}
  <1> DEFINE other == IF symbol = Foreign THEN Foreign ELSE Nul
  <1>1. symbol \in Symbols /\ Nul \in Symbols /\ other \in Symbols
    BY DEF Symbols
  <1>2. CASE e = "UTF-8"
    <2>1. Encoded(symbol, e) = <<symbol>>
      BY <1>2 DEF Encoded
    <2> QED BY <1>1, <1>2, <2>1, WidthIs, TuplesAreSequences
  <1>3. CASE e \in {"UTF-16LE", "UTF-16LE BOM"}
    <2>1. Encoded(symbol, e) = <<symbol, other>>
      BY <1>3 DEF Encoded
    <2> HIDE DEF other
    <2> QED BY <1>1, <1>3, <2>1, WidthIs, TuplesAreSequences
  <1>4. CASE e \in {"UTF-16BE", "UTF-16BE BOM"}
    <2>1. Encoded(symbol, e) = <<other, symbol>>
      BY <1>4 DEF Encoded
    <2> HIDE DEF other
    <2> QED BY <1>1, <1>4, <2>1, WidthIs, TuplesAreSequences
  <1>5. CASE e \in {"UTF-32LE BOM", "UTF-32BE BOM"}
    <2>1. Encoded(symbol, e) = IF e = "UTF-32LE BOM" THEN <<symbol, Nul, Nul, Nul>>
                                                     ELSE <<Nul, Nul, Nul, symbol>>
      BY <1>5 DEF Encoded
    <2>2. /\ <<symbol, Nul, Nul, Nul>> \in Seq(Symbols) /\ Len(<<symbol, Nul, Nul, Nul>>) = 4
          /\ <<Nul, Nul, Nul, symbol>> \in Seq(Symbols) /\ Len(<<Nul, Nul, Nul, symbol>>) = 4
      BY <1>1, TuplesAreSequences
    <2>3. Width(e) = 4
      BY <1>5, WidthIs
    <2> QED BY <2>1, <2>2, <2>3
  <1> QED BY <1>2, <1>3, <1>4, <1>5 DEF Encodings, Marked

\* symbols and units, both in bounds
LEMMA PlaceOfUnit ==
  ASSUME NEW w \in {1, 2, 4}, NEW n \in Nat, NEW i \in 1..(w * n)
  PROVE  /\ ((i - 1) \div w) + 1 \in 1..n
         /\ ((i - 1) % w) + 1 \in 1..w
  <1>1. CASE w = 1 BY <1>1
  <1>2. CASE w = 2 BY <1>2
  <1>3. CASE w = 4 BY <1>3
  <1> QED BY <1>1, <1>2, <1>3

LEMMA MarkIsUnits == ASSUME NEW e PROVE Mark(e) \in Seq(Units)
  <1>1. MarkFE \in Units /\ MarkFF \in Units /\ Nul \in Units
    BY DEF Units, Symbols
  <1>2. /\ <<MarkFF, MarkFE>> \in Seq(Units) /\ <<MarkFE, MarkFF>> \in Seq(Units)
        /\ <<MarkFF, MarkFE, Nul, Nul>> \in Seq(Units) /\ <<Nul, Nul, MarkFE, MarkFF>> \in Seq(Units)
        /\ <<>> \in Seq(Units)
    BY <1>1, TuplesAreSequences
  <1> QED BY <1>2 DEF Mark

\* the units after the mark
Body(text, e) ==
  [i \in 1..(Width(e) * Len(text)) |->
     Encoded(text[((i - 1) \div Width(e)) + 1], e)[((i - 1) % Width(e)) + 1]]

LEMMA BodyIsSymbols ==
  ASSUME NEW text \in Seq(Symbols), NEW e \in Encodings \union Marked
  PROVE  Body(text, e) \in Seq(Symbols) /\ Len(Body(text, e)) = Width(e) * Len(text)
  <1> DEFINE w == Width(e)
             n == Len(text)
  <1>1. Nul \in Symbols
    BY DEF Symbols
  <1>2. w \in {1, 2, 4} /\ n \in Nat /\ w * n \in Nat
    BY <1>1, EncodedIsSymbols
  <1>3. ASSUME NEW i \in 1..(w * n)
        PROVE  Encoded(text[((i - 1) \div w) + 1], e)[((i - 1) % w) + 1] \in Symbols
    <2>1. ((i - 1) \div w) + 1 \in 1..n /\ ((i - 1) % w) + 1 \in 1..w
      BY <1>2, PlaceOfUnit
    <2> DEFINE symbol == text[((i - 1) \div w) + 1]
    <2>2. symbol \in Symbols
      BY <2>1
    <2>3. Encoded(symbol, e) \in Seq(Symbols) /\ Len(Encoded(symbol, e)) = w
      BY <2>2, EncodedIsSymbols
    <2> HIDE DEF symbol, w
    <2>4. Encoded(symbol, e)[((i - 1) % w) + 1] \in Symbols
      BY <2>1, <2>3
    <2> QED BY <2>4 DEF symbol
  <1>4. Body(text, e) = [i \in 1..(w * n) |-> Encoded(text[((i - 1) \div w) + 1], e)[((i - 1) % w) + 1]]
    BY DEF Body
  <1> HIDE DEF w, n
  <1>5. Body(text, e) \in [1..(w * n) -> Symbols]
    BY <1>3, <1>4
  <1>6. Body(text, e) \in Seq(Symbols) /\ Len(Body(text, e)) = w * n
    BY <1>2, <1>5
  <1> QED BY <1>6 DEF w, n

LEMMA BytesAreUnits ==
  ASSUME NEW text \in Seq(Symbols), NEW e \in Encodings \union Marked
  PROVE  /\ Bytes(text, e) = Mark(e) \o Body(text, e)
         /\ Bytes(text, e) \in Seq(Units)
  <1>1. Bytes(text, e) = Mark(e) \o Body(text, e)
    BY DEF Bytes, Body
  <1> QED BY <1>1, MarkIsUnits, BodyIsSymbols DEF Units

LEMMA SourceIs ==
  ASSUME NEW s \in Sources
  PROVE  /\ s.text \in Seq(Symbols) /\ s.encoding \in Encodings \union Marked
         /\ s.limit \in 0..MaxU64
         /\ s.bytes = Bytes(s.text, s.encoding)
         /\ s.bytes \in Seq(Units) /\ Len(s.bytes) \in 0..MaxU64
         /\ s # Dropped
  <1>1. PICK i \in Inputs : s = [text |-> i.text, encoding |-> i.encoding, limit |-> i.limit,
                                 bytes |-> Bytes(i.text, i.encoding)]
    BY DEF Sources
  <1>2. /\ i.text \in Seq(Symbols) /\ i.encoding \in Encodings \union Marked
        /\ i.limit \in 0..MaxU64 /\ Len(Bytes(i.text, i.encoding)) <= MaxU64
        /\ MaxU64 \in Nat
    BY SourcesAssumption DEF Symbols
  <1>3. Bytes(i.text, i.encoding) \in Seq(Units)
    BY <1>2, BytesAreUnits
  <1>4. s.encoding # Dropped.encoding
    BY <1>1, <1>2 DEF Dropped, Encodings, Marked
  <1> QED BY <1>1, <1>2, <1>3, <1>4

LEMMA MinOfTwo ==
  ASSUME NEW a \in Int, NEW b \in Int
  PROVE  Min({a, b}) = IF a <= b THEN a ELSE b
  <1>1. \E x \in {a, b} : \A y \in {a, b} : x <= y
    OBVIOUS
  <1>2. Min({a, b}) \in {a, b} /\ \A y \in {a, b} : Min({a, b}) <= y
    BY <1>1 DEF Min
  <1> QED BY <1>2

\* under a limit no more is read than one unit past it, and the whole of
\* what is not too large
LEMMA AllowedIs ==
  ASSUME source \in {Dropped} \union Sources
  PROVE  /\ Allowed \in Nat /\ Allowed <= Len(bytes)
         /\ source.limit \in Nat /\ Len(bytes) \in Nat
         /\ source.limit # 0 => Allowed <= source.limit + 1
         /\ buf = Allowed /\ ~TooLarge => buf = Len(bytes)
         /\ buf = Allowed /\ TooLarge => source.limit # 0 /\ Len(bytes) > source.limit
         /\ source = Dropped => Allowed = 0 /\ ~TooLarge
  <1>1. CASE source = Dropped
    BY <1>1 DEF Dropped, Allowed, TooLarge, bytes
  <1>2. CASE source \in Sources
    <2>1. /\ source.limit \in 0..MaxU64 /\ Len(bytes) \in 0..MaxU64 /\ MaxU64 \in Nat
          /\ source # Dropped
      BY <1>2, SourceIs, SourcesAssumption DEF bytes
    <2> DEFINE top == Min({source.limit + 1, MaxU64})
    <2>2. top = IF source.limit + 1 <= MaxU64 THEN source.limit + 1 ELSE MaxU64
      BY <2>1, MinOfTwo
    <2>3. top \in Nat
      BY <2>1, <2>2
    <2>4. Allowed = IF source.limit = 0 THEN Len(bytes) ELSE Min({Len(bytes), top})
      BY DEF Allowed
    <2> HIDE DEF top
    <2>5. Min({Len(bytes), top}) = IF Len(bytes) <= top THEN Len(bytes) ELSE top
      BY <2>1, <2>3, MinOfTwo
    <2> QED BY <2>1, <2>2, <2>3, <2>4, <2>5 DEF TooLarge
  <1> QED BY <1>1, <1>2

LEMMA Codes ==
  /\ ExitCode["Applies"] = 0 /\ ExitCode["Usage"] = 2 /\ ExitCode["Io"] = 74
  /\ ExitCode["Verify"] = 70 /\ ExitCode["Internal"] = 70 /\ ExitCode["Panic"] = 101
  BY DEF ExitCode

-----------------------------------------------------------------------------
(* The beginning.                                                            *)

LEMMA InitIInv == Init => IInv
  <1> SUFFICES ASSUME Init PROVE IInv
    OBVIOUS
  <1>1. F!FeedInv /\ FaultsAreReal
    BY GitAssumption
    DEF F!FeedAssumption, Init, EmitInit, F!FeedInit, F!FeedInv, F!TypeOK,
        F!StartedInOrder, F!ChildFirst, F!NothingLost, F!ReadToTheEnd, F!InputEnds,
        F!StillPending, F!AnswerIsAssembled, F!Threads, F!Streams, F!Endings, F!Running,
        F!ChildEnded, F!Open, F!InputRead, F!InputBuffered, F!Pending, F!Over,
        FaultsAreReal
  <1>2. RunTypeOK
    BY DEF Init, EmitInit, RunTypeOK, RequestTypeOK, OutputTypeOK, InputTypeOK, Answers,
           Running, Loads, Checking, Sending
  <1>3. LoadInv
    BY AllowedIs, SourceIs DEF Init, LoadInv
  <1>4. StageInv /\ RefusalInv
    BY DEF Init, EmitInit, F!FeedInit, StageInv, RefusalInv, Undecided, Untouched,
           Checking, Sending
  <1>5. CheckInv /\ OutputInv
    BY DEF Init, EmitInit, F!FeedInit, CheckInv, OutputInv, Checking, Sending, Running,
           SuccessIsDelivered
  <1> QED BY <1>1, <1>2, <1>3, <1>4, <1>5 DEF IInv

-----------------------------------------------------------------------------
(* Reading.  A step of the loader touches neither git nor the output.        *)

LEMMA UnreadableIs ==
  ASSUME NEW s
  PROVE  Unreadable(s) \in Answers
  BY DEF Unreadable, Utf16Or32Bom, Utf16WithoutBom, Answers

LEMMA WholeIsRead ==
  ASSUME IInv, load = "screen"
  PROVE  SubSeq(bytes, 1, buf) = bytes
  <1>1. source \in Sources /\ buf = Allowed /\ ~TooLarge
    BY DEF IInv, RunTypeOK, InputTypeOK, LoadInv
  <1>2. buf = Len(bytes) /\ bytes \in Seq(Units)
    BY <1>1, AllowedIs, SourceIs DEF bytes
  <1> QED BY <1>2

LEMMA LoadingKeepsInv ==
  ASSUME IInv, NEW from, NEW to \in Loads \ {"given"}, Loading(from, to), LoadInv',
         source' \in {Dropped} \union Sources, buf' \in Nat
  PROVE  IInv'
  <1> USE DEF IInv, Loading, vars, request, output
  <1>1. F!FeedInv' /\ FaultsAreReal' /\ (F!Over <=> F!Over') /\ (GitAccepts <=> GitAccepts')
        /\ Blame' = Blame
    BY FeedStays
  <1>2. RequestTypeOK' /\ OutputTypeOK'
    BY DEF RunTypeOK, RequestTypeOK, OutputTypeOK
  <1>3. InputTypeOK'
    BY DEF RunTypeOK, InputTypeOK
  <1>4. StageInv' /\ RefusalInv'
    BY DEF RunTypeOK, RequestTypeOK, OutputTypeOK, InputTypeOK, StageInv, RefusalInv,
           Undecided, Untouched, Checking, Sending, feed
  <1>5. CheckInv'
    BY <1>1 DEF RunTypeOK, RequestTypeOK, OutputTypeOK, CheckInv, Passed, GitDone,
                Checking, Sending, feed
  <1>6. OutputInv'
    BY <1>1 DEF RunTypeOK, RequestTypeOK, OutputTypeOK, InputTypeOK, StageInv,
                Untouched, OutputInv, Passed, GitDone, Checking, Sending,
                SuccessIsDelivered, Running
  <1> QED BY <1>1, <1>2, <1>3, <1>4, <1>5, <1>6 DEF RunTypeOK

LEMMA ExitTypes ==
  ASSUME OutputTypeOK, stage' = "exited", exitCode' \in {0, 2, 70, 74, 101},
         UNCHANGED reader, buffered' \in Nat, delivered' \in Nat
  PROVE  OutputTypeOK'
  BY DEF OutputTypeOK, Running

\* the command ends before it has a patch
LEMMA EndKeepsInv ==
  ASSUME IInv, stage = "idle", stage' = "exited", exitCode' \in {0, 2, 74}, answer' \in Answers,
         UNCHANGED <<feed, opts, verdict, dir, git, buffered, delivered, reader, load,
         source,
                     buf, command>>,
         RefusalInv'
  PROVE  IInv'
  <1> USE DEF IInv
  <1>1. F!FeedInv' /\ FaultsAreReal' /\ (F!Over <=> F!Over') /\ (GitAccepts <=> GitAccepts')
        /\ Blame' = Blame
    BY FeedStays
  <1>2. OutputTypeOK'
    BY ExitTypes DEF RunTypeOK, OutputTypeOK
  <1>3. RequestTypeOK' /\ InputTypeOK'
    BY DEF RunTypeOK, RequestTypeOK, InputTypeOK
  <1>4. LoadInv'
    BY InputStays DEF LoadInv, input
  <1>5. Untouched /\ load # "given" /\ command = "none"
    BY DEF StageInv, Undecided
  <1>6. StageInv'
    BY <1>5 DEF StageInv, Undecided, Untouched, Checking, Sending, feed
  <1>7. CheckInv'
    <2>1. verdict' = "none" /\ main' = "idle" /\ opts' = [internal |-> FALSE, git |-> FALSE]
      BY <1>5 DEF Untouched, feed
    <2>2. git' = [english |-> TRUE, here |-> TRUE]
      BY DEF CheckInv
    <2>3. ~opts'.internal /\ ~opts'.git /\ exitCode' # 70 /\ stage' \notin Checking \union Sending
      BY <2>1 DEF Checking, Sending
    <2> QED BY <2>1, <2>2, <2>3 DEF CheckInv, Checking, Sending
  <1>8. OutputInv'
    <2>1. delivered' + buffered' = 0 /\ load' # "given" /\ stage' \notin Checking \union Sending
      BY <1>5 DEF Untouched, Checking, Sending
    <2> QED BY <2>1 DEF OutputInv, SuccessIsDelivered, Checking, Sending
  <1> QED BY <1>1, <1>2, <1>3, <1>4, <1>6, <1>7, <1>8 DEF RunTypeOK

LEMMA RefuseKeepsInv ==
  ASSUME IInv, stage = "idle", NEW why \in Answers \ {"none"}, NEW code \in {"Io", "Usage"},
         Refuse(why, code), RefusalInv'
  PROVE  IInv'
  BY Codes, EndKeepsInv DEF Refuse, Exit, request, output, input

LEMMA SourceStays ==
  ASSUME UNCHANGED source
  PROVE  /\ Allowed' = Allowed /\ (WholeBlank <=> WholeBlank')
         /\ Unreadable(bytes)' = Unreadable(bytes)
         /\ buf' = buf => (TooLarge <=> TooLarge')
  BY DEF Allowed, TooLarge, WholeBlank, bytes

LEMMA ReadKeepsInv ==
  ASSUME IInv, Open \/ ReadSome \/ ReadEnds
  PROVE  IInv'
  <1>1. PICK to \in {"read", "screen"} : Loading(load, to) /\ load' = to /\ UNCHANGED source
    BY DEF Open, ReadSome, ReadEnds, Loading
  <1>2. source \in {Dropped} \union Sources /\ buf \in Nat /\ load \in {"open", "read"}
    BY DEF IInv, RunTypeOK, InputTypeOK, Open, ReadSome, ReadEnds, Loading
  <1>3. Allowed' = Allowed /\ Allowed \in Nat /\ (buf' = buf => (TooLarge <=> TooLarge'))
    BY <1>1, <1>2, SourceStays, AllowedIs
  <1>4. buf <= Allowed /\ source # Dropped
    BY <1>2 DEF IInv, LoadInv
  <1>5. buf' \in Nat /\ buf' <= Allowed
    <2>1. CASE Open \/ ReadEnds
      BY <1>2, <1>4, <2>1 DEF Open, ReadEnds
    <2>2. CASE ReadSome
      BY <1>2, <1>3, <2>2 DEF ReadSome
    <2> QED BY <2>1, <2>2
  <1>6. load' = "screen" => buf' = Allowed /\ ~TooLarge'
    BY <1>1, <1>3 DEF Open, ReadSome, ReadEnds, Loading
  <1>7. LoadInv'
    BY <1>1, <1>3, <1>4, <1>5, <1>6 DEF LoadInv
  <1>8. to \in Loads \ {"given"}
    BY <1>1 DEF Loads
  <1> QED BY <1>1, <1>2, <1>5, <1>7, <1>8, LoadingKeepsInv

\* nothing is read or refused any more
LEMMA PassKeepsInv ==
  ASSUME IInv, Parsed \/ Validated \/ (load = "screen" /\ PassScreen(bytes))
  PROVE  IInv'
  <1>1. PICK to \in {"parse", "validate", "loaded"} : Loading(load, to) /\ load' = to
    BY DEF Parsed, Validated, PassScreen, Loading
  <1>2. source \in {Dropped} \union Sources /\ buf \in Nat /\ load \in {"screen", "parse", "validate"}
    BY DEF IInv, RunTypeOK, InputTypeOK, Parsed, Validated, PassScreen, Loading
  <1>3. CASE Validated
    <2>1. load' = "loaded" /\ source' = Dropped /\ buf' = 0
      BY <1>3 DEF Validated, Loading
    <2>2. Allowed' = 0
      BY <2>1 DEF Dropped, Allowed, bytes
    <2>3. LoadInv'
      BY <2>1, <2>2 DEF LoadInv
    <2> QED BY <1>1, <2>1, <2>3, LoadingKeepsInv DEF Loads
  <1>4. CASE Parsed \/ PassScreen(bytes)
    <2>1. UNCHANGED <<source, buf>> /\ load' \in {"parse", "validate"}
      BY <1>4 DEF Parsed, PassScreen, Loading
    <2>2. ~WholeBlank /\ Unreadable(bytes) = "none"
      BY <1>4 DEF IInv, LoadInv, Parsed, PassScreen, Loading, Blank, WholeBlank
    <2>3. LoadInv'
      BY <1>2, <2>1, <2>2, SourceStays DEF IInv, LoadInv
    <2> QED BY <1>1, <1>2, <2>1, <2>3, LoadingKeepsInv DEF Loads
  <1> QED BY <1>3, <1>4, Zenon DEF Loading

LEMMA LoadRefusalKeepsInv ==
  ASSUME IInv, LoadFails \/ RefuseSize \/ (stage = "idle" /\ load = "screen" /\ RefuseNonDiff(bytes))
  PROVE  IInv'
  <1>1. CASE LoadFails
    <2>1. PICK why \in Answers \ {"none"}, code \in {"Io", "Usage"} :
            stage = "idle" /\ Refuse(why, code)
      BY <1>1 DEF LoadFails, OpenFails, ReadFails, ParseFails, ValidateFails,
                  RefuseSelectors, Answers
    <2>2. RefusalInv'
      BY <1>1 DEF LoadFails, OpenFails, ReadFails, ParseFails, ValidateFails,
                  RefuseSelectors, Refuse, Exit, input, RefusalInv, Refused
    <2> QED BY <2>1, <2>2, RefuseKeepsInv
  <1>2. CASE RefuseSize
    <2>1. stage = "idle" /\ Refuse("too large", "Usage") /\ "too large" \in Answers \ {"none"}
      BY <1>2 DEF RefuseSize, Answers
    <2>2. buf' = buf /\ Allowed' = Allowed /\ (TooLarge <=> TooLarge') /\ load' = load
      BY <2>1, SourceStays DEF Refuse, input
    <2>3. RefusalInv'
      BY <1>2, <2>1, <2>2 DEF RefuseSize, Refuse, Exit, RefusalInv, Refused
    <2> QED BY <2>1, <2>3, RefuseKeepsInv
  <1>3. CASE stage = "idle" /\ load = "screen" /\ RefuseNonDiff(bytes)
    <2> DEFINE why == Unreadable(bytes)
    <2>1. Refuse(why, "Usage") /\ why \in Answers \ {"none"} /\ ~WholeBlank
      BY <1>3, UnreadableIs DEF RefuseNonDiff, Blank, WholeBlank
    <2>2. load' = load /\ (WholeBlank <=> WholeBlank') /\ Unreadable(bytes)' = why
      BY <2>1, SourceStays DEF Refuse, input
    <2> HIDE DEF why
    <2>3. RefusalInv'
      BY <1>3, <2>1, <2>2 DEF Refuse, Exit, RefusalInv, Refused
    <2> QED BY <1>3, <2>1, <2>3, RefuseKeepsInv
  <1> QED BY <1>1, <1>2, <1>3

LEMMA NoOpKeepsInv ==
  ASSUME IInv, stage = "idle", load = "screen", NoOp(bytes)
  PROVE  IInv'
  <1>1. WholeBlank /\ answer = "none" /\ answer \in Answers
    BY DEF NoOp, Blank, WholeBlank, IInv, StageInv, Undecided, Answers
  <1>2. stage' = "exited" /\ exitCode' = ExitCode["Applies"] /\ answer' = "none" /\ load' = "screen"
    BY <1>1 DEF NoOp, Exit, input
  <1>3. WholeBlank'
    BY <1>1, SourceStays DEF NoOp, input
  <1>4. RefusalInv'
    BY <1>2, <1>3 DEF RefusalInv, Refused
  <1> QED BY <1>1, <1>2, <1>4, Codes, EndKeepsInv DEF NoOp, request, output, input

LEMMA ScreenKeepsInv == ASSUME IInv, Screen PROVE IInv'
  <1>1. stage = "idle" /\ load = "screen" /\ SubSeq(bytes, 1, buf) = bytes
    BY WholeIsRead DEF Screen
  <1>2. NoOp(bytes) \/ RefuseNonDiff(bytes) \/ PassScreen(bytes)
    BY <1>1 DEF Screen
  <1> QED BY <1>1, <1>2, NoOpKeepsInv, LoadRefusalKeepsInv, PassKeepsInv

\* the patch is handed to `list`, or to select and split
LEMMA RunKeepsInv == ASSUME IInv, RunResult \/ RunList PROVE IInv'
  <1>1. /\ stage = "idle" /\ load = "loaded" /\ load' = "given"
        /\ UNCHANGED <<feed, verdict, git, buffered, delivered, reader, exitCode, source, buf, answer>>
    BY DEF RunResult, RunList, Call, output, request
  <1>2. F!FeedInv' /\ FaultsAreReal' /\ (F!Over <=> F!Over') /\ (GitAccepts <=> GitAccepts')
        /\ Blame' = Blame
    BY <1>1, FeedStays DEF IInv
  <1>3. Untouched /\ Undecided /\ exitCode = Running /\ buffered = 0 /\ delivered = 0
    BY <1>1 DEF IInv, StageInv, RunTypeOK, OutputTypeOK, Untouched
  <1>4. \/ stage' = "internal" /\ command' = "result" /\ opts' \in [internal : BOOLEAN, git : BOOLEAN]
           /\ dir' \in {"dir", "file", "missing"}
        \/ stage' = "list" /\ command' \in {"human", "json", "nothing"} /\ UNCHANGED <<opts, dir>>
    BY DEF RunResult, RunList, Call, request
  <1>5. RequestTypeOK'
    BY <1>1, <1>4 DEF IInv, RunTypeOK, RequestTypeOK
  <1>6. OutputTypeOK'
    BY <1>1, <1>3, <1>4 DEF OutputTypeOK, IInv, RunTypeOK, Checking, Sending
  <1>7. InputTypeOK'
    BY <1>1, <1>4 DEF IInv, RunTypeOK, InputTypeOK, Loads
  <1>8. LoadInv'
    BY <1>1, SourceStays DEF IInv, LoadInv
  <1>9. StageInv' /\ RefusalInv'
    BY <1>1, <1>3, <1>4 DEF StageInv, RefusalInv, Undecided, Untouched, Checking, Sending
  <1>10. CheckInv'
    <2>1. main' = "idle" /\ verdict' = "none" /\ git' = [english |-> TRUE, here |-> TRUE]
          /\ exitCode' # 70
      BY <1>1, <1>3 DEF Untouched, feed, IInv, CheckInv, Running
    <2>2. stage' = "list" => ~opts'.internal /\ ~opts'.git
      BY <1>3, <1>4 DEF Untouched
    <2> QED BY <1>4, <2>1, <2>2 DEF CheckInv, Passed, Checking, Sending
  <1>11. OutputInv'
    <2>1. delivered' = 0 /\ buffered' = 0 /\ exitCode' # 0
      BY <1>1, <1>3 DEF Running
    <2>2. 0 <= ListLines' /\ 0 <= ResultLines
      BY EmitAssumption DEF ListLines
    <2> QED BY <1>4, <2>1, <2>2 DEF OutputInv, Checking, SuccessIsDelivered
  <1> QED BY <1>2, <1>5, <1>6, <1>7, <1>8, <1>9, <1>10, <1>11 DEF IInv, RunTypeOK

-----------------------------------------------------------------------------
(* From the patch on.                                                        *)

LEMMA PatchIsGiven ==
  ASSUME IInv, stage \in Checking \union Sending, stage' # "idle",
         UNCHANGED <<input, answer, command>>
  PROVE  load = "given" /\ InputTypeOK' /\ LoadInv' /\ StageInv' /\ RefusalInv'
  <1>1. load = "given" /\ load' = "given" /\ answer = "none" /\ command # "none"
    BY DEF IInv, StageInv, input
  <1>2. InputTypeOK'
    BY DEF IInv, RunTypeOK, InputTypeOK, input
  <1>3. LoadInv'
    BY InputStays DEF IInv, LoadInv, input
  <1>4. StageInv' /\ RefusalInv'
    BY <1>1 DEF StageInv, RefusalInv
  <1> QED BY <1>1, <1>2, <1>3, <1>4

\* the command goes on, or ends
LEMMA StepTypes ==
  ASSUME IInv, stage \in Checking \union Sending,
         \/ stage' \in Checking \union Sending /\ UNCHANGED exitCode
         \/ stage' = "exited" /\ exitCode' \in {0, 2, 70, 74, 101},
         reader' \in {"there", "gone"}, buffered' \in Nat, delivered' \in Nat
  PROVE  OutputTypeOK' /\ stage' # "idle"
  <1>1. exitCode = Running
    BY DEF IInv, RunTypeOK, OutputTypeOK, Checking, Sending
  <1> QED BY <1>1 DEF OutputTypeOK, Running, Checking, Sending

-----------------------------------------------------------------------------
(* The checks: nothing has been written yet.                                 *)

LEMMA NothingWritten ==
  ASSUME IInv, stage \in Checking
  PROVE  /\ delivered = 0 /\ buffered = 0 /\ command = "result" /\ exitCode = Running
         /\ reader \in {"there", "gone"} /\ load = "given" /\ opts.internal \in BOOLEAN
         /\ opts.git \in BOOLEAN
  BY DEF IInv, RunTypeOK, RequestTypeOK, OutputTypeOK, OutputInv, StageInv, Checking,
         Sending

LEMMA ResultStays ==
  ASSUME IInv, stage \in Checking, UNCHANGED <<output, command>>,
         stage' \in Checking \union {"write", "exited"}, exitCode' # 0
  PROVE  OutputInv'
  <1>1. delivered' = 0 /\ buffered' = 0 /\ command' = "result"
    BY NothingWritten DEF output
  <1> QED BY <1>1, EmitAssumption DEF OutputInv, Checking, SuccessIsDelivered

LEMMA InternalKeepsInv ==
  ASSUME IInv, InternalFails \/ InternalPasses, UNCHANGED <<input, answer, command>>
  PROVE  IInv'
  <1>1. /\ stage = "internal" /\ UNCHANGED <<feed, opts, dir, git, output>> /\ stage \in Checking
        /\ verdict = "none" /\ main = "idle" /\ opts.internal \in BOOLEAN /\ opts.git \in BOOLEAN
        /\ exitCode = Running /\ git = [english |-> TRUE, here |-> TRUE]
    BY NothingWritten DEF InternalFails, InternalPasses, IInv, CheckInv, Checking
  <1>2. \/ stage' = "exited" /\ exitCode' = 70 /\ verdict' = "inconsistent"
        \/ /\ stage' = IF opts.git THEN "dir" ELSE "write"
           /\ verdict' = (IF opts.internal THEN "consistent" ELSE "none")
           /\ exitCode' = Running
    BY <1>1, Codes DEF InternalFails, InternalPasses, Exit
  <1>3. F!FeedInv' /\ FaultsAreReal' /\ main' = "idle" /\ git' = git /\ opts' = opts
    BY <1>1, FeedStays DEF IInv, feed
  <1>4. RequestTypeOK'
    BY <1>1, <1>2 DEF IInv, RunTypeOK, RequestTypeOK
  <1>5. OutputTypeOK' /\ stage' # "idle"
    BY <1>1, <1>2, NothingWritten, StepTypes DEF output, Checking, Sending
  <1>6. InputTypeOK' /\ LoadInv' /\ StageInv' /\ RefusalInv'
    BY <1>1, <1>5, PatchIsGiven
  <1>7. CheckInv'
    BY <1>1, <1>2, <1>3 DEF CheckInv, Passed, Sending, Running
  <1>8. OutputInv'
    BY <1>1, <1>2, ResultStays DEF Checking, Running
  <1> QED BY <1>3, <1>4, <1>5, <1>6, <1>7, <1>8 DEF IInv, RunTypeOK

LEMMA NotADirectoryKeepsInv ==
  ASSUME IInv, NotADirectory, UNCHANGED <<input, answer, command>>
  PROVE  IInv'
  <1>1. /\ stage = "dir" /\ UNCHANGED <<feed, opts, verdict, dir, git, output>> /\ stage \in Checking
        /\ main = "idle" /\ stage' = "exited" /\ exitCode' = 2
        /\ exitCode = Running /\ git = [english |-> TRUE, here |-> TRUE]
        /\ (opts.internal => verdict = "consistent")
    BY NothingWritten, Codes DEF NotADirectory, Exit, request, IInv, CheckInv, Checking
  <1>2. F!FeedInv' /\ FaultsAreReal' /\ main' = "idle" /\ git' = git /\ opts' = opts
    BY <1>1, FeedStays DEF IInv, feed
  <1>3. verdict' # "inconsistent"
    BY <1>1 DEF IInv, CheckInv, Running
  <1>4. RequestTypeOK'
    BY <1>1 DEF IInv, RunTypeOK, RequestTypeOK
  <1>5. OutputTypeOK' /\ stage' # "idle"
    BY <1>1, NothingWritten, StepTypes DEF output
  <1>6. InputTypeOK' /\ LoadInv' /\ StageInv' /\ RefusalInv'
    BY <1>1, <1>5, PatchIsGiven
  <1>7. CheckInv'
    BY <1>1, <1>2, <1>3 DEF CheckInv, Sending
  <1>8. OutputInv'
    BY <1>1, ResultStays
  <1> QED BY <1>2, <1>4, <1>5, <1>6, <1>7, <1>8 DEF IInv, RunTypeOK

\* whatever hunkpick is started with, the git it runs speaks English and acts
\* on the directory it was given
LEMMA EnvironmentIsSet ==
  ASSUME NEW env \in {ChildEnv(e) : e \in Environments}
  PROVE  SpeaksEnglish(env) /\ ActsOnItsDirectory(env)
  <1>1. PICK e \in Environments : env = ChildEnv(e)
    OBVIOUS
  <1>2. env["LC_ALL"] = "C"
    BY <1>1 DEF ChildEnv, Pinned, Vars, LocaleAction
  <1>3. SpeaksEnglish(env)
    BY <1>2 DEF SpeaksEnglish, Locale, Unset
  <1>4. ASSUME NEW v \in RepoLocatingVars PROVE env[v] = Unset
    <2>1. v \notin DOMAIN LocaleAction /\ v \in Vars
      BY DEF RepoLocatingVars, LocaleAction, Vars
    <2> QED BY <1>1, <2>1 DEF ChildEnv, Pinned, Insulated
  <1> QED BY <1>3, <1>4 DEF ActsOnItsDirectory

LEMMA CallGitKeepsInv ==
  ASSUME IInv, CallGit, UNCHANGED <<input, answer, command>>
  PROVE  IInv'
  <1>1. /\ stage = "dir" /\ stage \in Checking /\ stage' = "git" /\ main = "idle" /\ main' = "spawn"
        /\ UNCHANGED <<thread, sent, pipe, got, waited, result, child, doing, stdin, fed, said,
                       opts, verdict, dir, output, exitCode>>
        /\ exitCode = Running /\ opts.git /\ (opts.internal => verdict = "consistent")
    BY NothingWritten DEF CallGit, IInv, CheckInv, Checking
  <1>2. git' = [english |-> TRUE, here |-> TRUE]
    <2>1. PICK env \in {ChildEnv(e) : e \in Environments} :
            git' = [english |-> SpeaksEnglish(env), here |-> ActsOnItsDirectory(env)]
      BY DEF CallGit
    <2>2. SpeaksEnglish(env) = TRUE /\ ActsOnItsDirectory(env) = TRUE
      BY EnvironmentIsSet DEF SpeaksEnglish, ActsOnItsDirectory
    <2> QED BY <2>1, <2>2
  <1>3. F!FeedInv'
    BY <1>1 DEF IInv, F!FeedInv, F!TypeOK, F!StartedInOrder, F!ChildFirst,
                F!NothingLost, F!ReadToTheEnd, F!InputEnds, F!StillPending,
                F!AnswerIsAssembled, F!Threads, F!Streams, F!Running, F!ChildEnded,
                F!Open, F!InputRead, F!InputBuffered, F!Pending
  <1>4. FaultsAreReal'
    BY <1>1 DEF IInv, FaultsAreReal, F!Over, HelperPanicked
  <1>5. RequestTypeOK'
    BY <1>1 DEF IInv, RunTypeOK, RequestTypeOK
  <1>6. OutputTypeOK' /\ stage' # "idle"
    BY <1>1, NothingWritten, StepTypes DEF output, Checking
  <1>7. InputTypeOK' /\ LoadInv' /\ StageInv' /\ RefusalInv'
    BY <1>1, <1>6, PatchIsGiven
  <1>8. CheckInv'
    BY <1>1, <1>2 DEF IInv, CheckInv, Sending, Running
  <1>9. OutputInv'
    BY <1>1, ResultStays DEF Checking, Running
  <1> QED BY <1>3, <1>4, <1>5, <1>6, <1>7, <1>8, <1>9 DEF IInv, RunTypeOK

LEMMA FeedingKeepsInv ==
  ASSUME IInv, Feeding, UNCHANGED <<input, answer, command>>
  PROVE  IInv'
  <1>1. /\ stage = "git" /\ stage \in Checking /\ F!FeedNext
        /\ UNCHANGED <<stage, opts, verdict, dir, git, output, exitCode>>
        /\ exitCode = Running /\ opts.git /\ (opts.internal => verdict = "consistent")
        /\ git = [english |-> TRUE, here |-> TRUE]
    BY NothingWritten DEF Feeding, request, IInv, CheckInv, Checking
  <1>2. F!FeedInv' /\ FaultsAreReal'
    BY <1>1, FeedKeepsInv, FeedKeepsFaults DEF IInv
  <1>3. RequestTypeOK'
    BY <1>1 DEF IInv, RunTypeOK, RequestTypeOK
  <1>4. OutputTypeOK' /\ stage' # "idle"
    BY <1>1, NothingWritten, StepTypes DEF output, Checking
  <1>5. InputTypeOK' /\ LoadInv' /\ StageInv' /\ RefusalInv'
    BY <1>1, <1>4, PatchIsGiven
  <1>6. CheckInv'
    BY <1>1 DEF IInv, CheckInv, Sending, Running
  <1>7. OutputInv'
    BY <1>1, ResultStays DEF Checking, Running
  <1> QED BY <1>2, <1>3, <1>4, <1>5, <1>6, <1>7 DEF IInv, RunTypeOK

\* what is blamed on whom
LEMMA BlameIs ==
  ASSUME F!FeedInv, FaultsAreReal, F!Over, ~GitAccepts
  PROVE  /\ Blame \in {"Verify", "Internal", "Io", "Panic"}
         /\ Blame = "Verify" => CheckResult = "Rejected"
         /\ Blame = "Internal" => CheckResult \in {"WriterPanicked", "ReaderPanicked"}
         /\ CheckResult = "Rejected" => Blame = "Verify"
  <1>1. result.kind \in {"output", "Spawn", "Write", "WriterPanicked", "ReaderPanicked", "Wait", "Panic"}
    BY DEF F!FeedInv, F!TypeOK, FaultsAreReal
  <1>2. CheckResult \in {"Rejected", "Failed", "Io", "Spawn", "WriterPanicked", "ReaderPanicked", "Panic"}
    BY <1>1 DEF GitAccepts, CheckResult
  <1> QED BY <1>2 DEF Blame

LEMMA GitIsOverKeepsInv ==
  ASSUME IInv, GitPasses \/ GitFails, UNCHANGED <<input, answer, command>>
  PROVE  IInv'
  <1>1. /\ stage = "git" /\ stage \in Checking /\ F!Over
        /\ UNCHANGED <<feed, opts, verdict, dir, git, output>>
        /\ exitCode = Running /\ opts.git /\ (opts.internal => verdict = "consistent")
        /\ git = [english |-> TRUE, here |-> TRUE] /\ verdict # "inconsistent"
    BY NothingWritten DEF GitPasses, GitFails, request, IInv, CheckInv, Checking, Running
  <1>2. F!FeedInv' /\ FaultsAreReal' /\ F!Over' /\ (GitAccepts <=> GitAccepts') /\ Blame' = Blame
    BY <1>1, FeedStays DEF IInv
  <1>3. \/ stage' = "write" /\ GitAccepts /\ exitCode' = Running
        \/ /\ stage' = "exited" /\ ~GitAccepts /\ exitCode' = ExitCode[Blame]
           /\ Blame \in {"Verify", "Internal", "Io", "Panic"}
    BY <1>1, BlameIs DEF GitPasses, GitFails, Exit, IInv
  <1>4. stage' = "exited" => /\ exitCode' \in {70, 74, 101}
                             /\ exitCode' = 70 => Blame \in {"Verify", "Internal"}
    BY <1>3, Codes
  <1>5. RequestTypeOK'
    BY <1>1 DEF IInv, RunTypeOK, RequestTypeOK
  <1>6. OutputTypeOK' /\ stage' # "idle"
    BY <1>1, <1>3, <1>4, NothingWritten, StepTypes DEF output, Sending
  <1>7. InputTypeOK' /\ LoadInv' /\ StageInv' /\ RefusalInv'
    BY <1>1, <1>6, PatchIsGiven
  <1>8. CheckInv'
    <2>1. CASE stage' = "write"
      BY <1>1, <1>2, <1>3, <2>1 DEF CheckInv, Passed, GitDone, Running
    <2>2. CASE stage' = "exited"
      BY <1>1, <1>2, <1>3, <1>4, <2>2 DEF CheckInv, Sending
    <2> QED BY <1>3, <2>1, <2>2
  <1>9. OutputInv'
    BY <1>1, <1>3, <1>4, ResultStays DEF Running
  <1> QED BY <1>2, <1>5, <1>6, <1>7, <1>8, <1>9 DEF IInv, RunTypeOK

-----------------------------------------------------------------------------
(* The writing: every check that was asked for has been passed.              *)

LEMMA Sends ==
  ASSUME IInv, stage \in Sending
  PROVE  /\ Passed /\ exitCode = Running /\ load = "given" /\ answer = "none"
         /\ delivered \in Nat /\ buffered \in Nat /\ reader \in {"there", "gone"}
         /\ verdict # "inconsistent" /\ ResultLines \in Nat /\ ResultTail \in {0, 1}
         /\ command \in {"human", "json", "nothing", "result"}
         /\ stage = "write" => command = "result"
         /\ stage \in {"list", "newline"} => command \in {"human", "json", "nothing"}
  BY EmitAssumption DEF IInv, RunTypeOK, OutputTypeOK, InputTypeOK, CheckInv, OutputInv,
                        StageInv, Sending, Checking, Running

\* a listing is whole after its lines and its tail, or one newline later
LEMMA ListingIs ==
  /\ ListLines \in Nat /\ ListTail \in {0, 1} /\ AfterList \in {"flush", "newline"}
  /\ command \in {"human", "json", "nothing"} =>
       WholeOutput = ListLines + ListTail + (IF AfterList = "newline" THEN 1 ELSE 0)
  BY EmitAssumption DEF ListLines, ListTail, AfterList, WholeOutput

LEMMA OutputStays ==
  ASSUME UNCHANGED command
  PROVE  /\ ListLines' = ListLines /\ ListTail' = ListTail /\ AfterList' = AfterList
         /\ WholeOutput' = WholeOutput
  BY DEF ListLines, ListTail, AfterList, WholeOutput

\* a step of the writing keeps all but the count of what is sent
LEMMA SendingKeeps ==
  ASSUME IInv, stage \in Sending, UNCHANGED <<feed, request, input, answer, command>>,
         \/ stage' \in Sending /\ UNCHANGED exitCode
         \/ stage' = "exited" /\ exitCode' \in {0, 74},
         reader' \in {"there", "gone"}, buffered' \in Nat, delivered' \in Nat
  PROVE  /\ F!FeedInv' /\ FaultsAreReal' /\ RunTypeOK' /\ LoadInv' /\ StageInv' /\ RefusalInv'
         /\ CheckInv' /\ Passed'
  <1>1. /\ F!FeedInv' /\ FaultsAreReal' /\ (F!Over <=> F!Over') /\ (GitAccepts <=> GitAccepts')
        /\ Blame' = Blame
    BY FeedStays DEF IInv, request
  <1>2. Passed'
    BY <1>1, Sends DEF Passed, GitDone, request
  <1>3. RequestTypeOK'
    BY DEF IInv, RunTypeOK, RequestTypeOK, request
  <1>4. OutputTypeOK' /\ stage' # "idle"
    BY StepTypes
  <1>5. InputTypeOK' /\ LoadInv' /\ StageInv' /\ RefusalInv'
    BY <1>4, PatchIsGiven
  <1>6. CheckInv'
    <2>1. git' = [english |-> TRUE, here |-> TRUE] /\ verdict' # "inconsistent" /\ exitCode' # 70
      BY Sends DEF IInv, CheckInv, request, Running
    <2>2. main' # "idle" => opts'.git /\ F!Over' /\ GitAccepts'
      BY <1>1, Sends DEF IInv, CheckInv, Passed, GitDone, request, feed
    <2>3. stage' \notin Checking
      BY DEF Sending, Checking
    <2> QED BY <1>2, <2>1, <2>2, <2>3 DEF CheckInv, Checking
  <1> QED BY <1>1, <1>2, <1>3, <1>4, <1>5, <1>6 DEF RunTypeOK

LEMMA WriteLineKeepsInv ==
  ASSUME IInv, WriteLine("write", ResultLines) \/ WriteLine("list", ListLines),
         UNCHANGED <<input, answer, command>>
  PROVE  IInv'
  <1>1. /\ stage \in Sending /\ stage' = stage /\ delivered' = delivered + 1
        /\ \/ stage = "write" /\ delivered < ResultLines
           \/ stage = "list" /\ delivered < ListLines
        /\ buffered = 0
        /\ UNCHANGED <<feed, request, buffered, reader, exitCode>>
    BY DEF WriteLine, Sending, IInv, OutputInv
  <1>2. /\ F!FeedInv' /\ FaultsAreReal' /\ RunTypeOK' /\ LoadInv' /\ StageInv' /\ RefusalInv'
        /\ CheckInv' /\ Passed'
    BY <1>1, Sends, SendingKeeps
  <1>3. OutputInv'
    BY <1>1, <1>2, Sends, ListingIs, OutputStays DEF OutputInv, Checking, SuccessIsDelivered, Running
  <1> QED BY <1>2, <1>3 DEF IInv

LEMMA WriteFailsKeepsInv ==
  ASSUME IInv, \/ WriteFails("list", ListLines) \/ WriteFails("write", ResultLines)
               \/ NewlineFails \/ FlushFails,
         UNCHANGED <<input, answer, command>>
  PROVE  IInv'
  <1>1. /\ stage \in Sending /\ stage' = "exited" /\ exitCode' = 74
        /\ UNCHANGED <<feed, request, output>>
    BY Codes DEF WriteFails, NewlineFails, FlushFails, Exit, Sending
  <1>2. /\ F!FeedInv' /\ FaultsAreReal' /\ RunTypeOK' /\ LoadInv' /\ StageInv' /\ RefusalInv'
        /\ CheckInv' /\ Passed'
    BY <1>1, Sends, SendingKeeps DEF output
  <1>3. OutputInv'
    BY <1>1, <1>2 DEF OutputInv, Checking, SuccessIsDelivered
  <1> QED BY <1>2, <1>3 DEF IInv

LEMMA BufferTailKeepsInv ==
  ASSUME IInv, \/ BufferTail("write", ResultLines, ResultTail, "flush")
               \/ BufferTail("list", ListLines, ListTail, AfterList),
         UNCHANGED <<input, answer, command>>
  PROVE  IInv'
  <1>1. /\ stage \in Sending
        /\ UNCHANGED <<feed, request, delivered, reader, exitCode>>
    BY DEF BufferTail, Sending
  <1>2. \/ /\ command = "result" /\ delivered = ResultLines
           /\ stage' = "flush" /\ buffered' = ResultTail
        \/ /\ command \in {"human", "json", "nothing"} /\ delivered = ListLines
           /\ stage' = AfterList /\ buffered' = ListTail
    BY <1>1, Sends DEF BufferTail
  <1>3. buffered' \in Nat /\ stage' \in Sending
    BY <1>2, EmitAssumption, ListingIs DEF Sending
  <1>4. /\ F!FeedInv' /\ FaultsAreReal' /\ RunTypeOK' /\ LoadInv' /\ StageInv' /\ RefusalInv'
        /\ CheckInv' /\ Passed'
    BY <1>1, <1>3, Sends, SendingKeeps
  <1>5. OutputInv'
    <2>1. SuccessIsDelivered' /\ (delivered + buffered > 0 => Passed)'
      BY <1>1, <1>4, Sends DEF SuccessIsDelivered, Running
    <2>2. CASE command = "result"
      <3>1. delivered' + buffered' = WholeOutput' /\ stage' = "flush"
        BY <1>1, <1>2, <2>2, OutputStays DEF WholeOutput
      <3> QED BY <2>1, <3>1 DEF OutputInv, Checking
    <2>3. CASE command # "result"
      <3>1. /\ delivered' = ListLines' /\ buffered' = ListTail' /\ stage' = AfterList'
            /\ command' \in {"human", "json", "nothing"} /\ stage' \in {"flush", "newline"}
        BY <1>1, <1>2, <2>3, OutputStays, ListingIs
      <3>2. AfterList = "flush" => delivered' + buffered' = WholeOutput'
        BY <1>1, <1>2, <2>3, OutputStays, ListingIs
      <3> QED BY <2>1, <3>1, <3>2, OutputStays DEF OutputInv, Checking
    <2> QED BY <2>2, <2>3
  <1> QED BY <1>4, <1>5 DEF IInv

LEMMA WriteIsBrokenKeepsInv ==
  ASSUME IInv, \/ WriteIsBroken("write", ResultLines, "flush")
               \/ WriteIsBroken("list", ListLines, AfterList) \/ NewlineIsBroken,
         UNCHANGED <<input, answer, command>>
  PROVE  IInv'
  <1>1. /\ stage \in Sending /\ reader = "gone" /\ UNCHANGED <<feed, request, output, exitCode>>
        /\ \/ stage' = "flush"
           \/ /\ stage' = "newline" /\ AfterList = "newline"
              /\ command \in {"human", "json", "nothing"}
    BY ListingIs, Sends DEF WriteIsBroken, NewlineIsBroken, Sending
  <1>2. stage' \in Sending
    BY <1>1 DEF Sending
  <1>3. /\ F!FeedInv' /\ FaultsAreReal' /\ RunTypeOK' /\ LoadInv' /\ StageInv' /\ RefusalInv'
        /\ CheckInv' /\ Passed'
    BY <1>1, <1>2, Sends, SendingKeeps DEF output
  <1>4. OutputInv'
    BY <1>1, <1>3, Sends, OutputStays DEF OutputInv, Checking, SuccessIsDelivered, Running, output
  <1> QED BY <1>3, <1>4 DEF IInv

LEMMA WriteNewlineKeepsInv ==
  ASSUME IInv, WriteNewline, UNCHANGED <<input, answer, command>>
  PROVE  IInv'
  <1>1. /\ stage \in Sending /\ command \in {"human", "json", "nothing"}
        /\ AfterList = "newline" /\ delivered = ListLines /\ buffered = ListTail
        /\ delivered' = delivered + buffered + 1 /\ buffered' = 0 /\ stage' = "flush"
        /\ UNCHANGED <<feed, request, reader, exitCode>>
    BY DEF WriteNewline, IInv, OutputInv, Sending
  <1>2. /\ F!FeedInv' /\ FaultsAreReal' /\ RunTypeOK' /\ LoadInv' /\ StageInv' /\ RefusalInv'
        /\ CheckInv' /\ Passed'
    BY <1>1, Sends, SendingKeeps DEF Sending
  <1>3. OutputInv'
    <2>1. delivered' + buffered' = WholeOutput'
      BY <1>1, Sends, ListingIs, OutputStays
    <2> QED BY <1>1, <1>2, <2>1, Sends DEF OutputInv, Checking, SuccessIsDelivered, Running
  <1> QED BY <1>2, <1>3 DEF IInv

LEMMA FlushKeepsInv ==
  ASSUME IInv, Flush \/ FlushIsBroken, UNCHANGED <<input, answer, command>>
  PROVE  IInv'
  <1>1. /\ stage \in Sending /\ stage' = "exited" /\ exitCode' = 0
        /\ UNCHANGED <<feed, request, reader>>
        /\ reader = "there" => delivered + buffered = WholeOutput
        /\ \/ delivered' = delivered + buffered /\ buffered' = 0
           \/ reader = "gone" /\ UNCHANGED <<delivered, buffered>>
    BY Codes DEF Flush, FlushIsBroken, Exit, IInv, OutputInv, Sending, output
  <1>2. /\ F!FeedInv' /\ FaultsAreReal' /\ RunTypeOK' /\ LoadInv' /\ StageInv' /\ RefusalInv'
        /\ CheckInv' /\ Passed'
    BY <1>1, Sends, SendingKeeps
  <1>3. reader = "there" => delivered' = WholeOutput'
    BY <1>1, Sends, OutputStays
  <1>4. SuccessIsDelivered'
    BY <1>1, <1>3, Sends DEF SuccessIsDelivered
  <1>5. OutputInv'
    BY <1>1, <1>2, <1>4 DEF OutputInv, Checking
  <1> QED BY <1>2, <1>5 DEF IInv

LEMMA ReaderLeavesKeepsInv ==
  ASSUME IInv, ReaderLeaves, UNCHANGED <<input, answer, command>>
  PROVE  IInv'
  <1>1. /\ stage \in Sending /\ reader' = "gone"
        /\ UNCHANGED <<feed, stage, request, buffered, delivered, exitCode>>
    BY DEF ReaderLeaves, Sending
  <1>2. /\ F!FeedInv' /\ FaultsAreReal' /\ RunTypeOK' /\ LoadInv' /\ StageInv' /\ RefusalInv'
        /\ CheckInv' /\ Passed'
    BY <1>1, Sends, SendingKeeps
  <1>3. OutputInv'
    BY <1>1, <1>2, Sends, OutputStays DEF IInv, OutputInv, Checking, SuccessIsDelivered
  <1> QED BY <1>2, <1>3 DEF IInv

-----------------------------------------------------------------------------
LEMMA StandingKeepsInv == ASSUME IInv, UNCHANGED runVars PROVE IInv'
  <1>1. UNCHANGED <<feed, stage, opts, verdict, dir, git, buffered, delivered, reader,
  exitCode,
                    load, source, buf, answer, command>>
    BY DEF runVars, vars, request, output, input
  <1>2. /\ F!FeedInv' /\ FaultsAreReal' /\ (F!Over <=> F!Over') /\ (GitAccepts <=> GitAccepts')
        /\ Blame' = Blame
    BY <1>1, FeedStays DEF IInv
  <1>3. RequestTypeOK'
    BY <1>1 DEF IInv, RunTypeOK, RequestTypeOK
  <1>4. OutputTypeOK'
    BY <1>1 DEF IInv, RunTypeOK, OutputTypeOK
  <1>5. InputTypeOK'
    BY <1>1 DEF IInv, RunTypeOK, InputTypeOK
  <1>6. /\ LoadInv' /\ Allowed' = Allowed /\ (TooLarge <=> TooLarge') /\ (WholeBlank <=> WholeBlank')
        /\ Unreadable(bytes)' = Unreadable(bytes)
    BY <1>1, InputStays DEF IInv, LoadInv, input
  <1>7. StageInv'
    BY <1>1 DEF IInv, StageInv, Undecided, Untouched, feed
  <1>8. RefusalInv'
    BY <1>1, <1>6 DEF IInv, RefusalInv, Refused
  <1>9. CheckInv'
    BY <1>1, <1>2 DEF IInv, CheckInv, Passed, GitDone, feed
  <1>10. OutputInv'
    BY <1>1, <1>2, OutputStays DEF IInv, OutputInv, Passed, GitDone, SuccessIsDelivered
  <1> QED BY <1>2, <1>3, <1>4, <1>5, <1>6, <1>7, <1>8, <1>9, <1>10 DEF IInv, RunTypeOK

LEMMA NextKeepsIInv == IInv /\ [Next]_runVars => IInv'
  <1> SUFFICES ASSUME IInv, [Next]_runVars PROVE IInv'
    OBVIOUS
  <1>1. CASE Load
    BY <1>1, ReadKeepsInv, PassKeepsInv, LoadRefusalKeepsInv, ScreenKeepsInv,
         RunKeepsInv DEF Load
  <1>2. CASE LoadFails
    BY <1>2, LoadRefusalKeepsInv
  <1>3. CASE Writing(EmitNext)
    BY <1>3, InternalKeepsInv, NotADirectoryKeepsInv, CallGitKeepsInv, FeedingKeepsInv,
       GitIsOverKeepsInv, WriteLineKeepsInv, WriteFailsKeepsInv, BufferTailKeepsInv,
       WriteIsBrokenKeepsInv, FlushKeepsInv, ReaderLeavesKeepsInv
    DEF Writing, EmitNext, Steps
  <1>4. CASE Writing(ListSteps) \/ Writing(WriteFails("list", ListLines)) \/ Writing(NewlineFails)
    BY <1>4, WriteLineKeepsInv, WriteFailsKeepsInv, BufferTailKeepsInv,
    WriteIsBrokenKeepsInv,
       WriteNewlineKeepsInv
    DEF Writing, ListSteps
  <1>5. CASE UNCHANGED runVars
    BY <1>5, StandingKeepsInv
  <1> QED BY <1>1, <1>2, <1>3, <1>4, <1>5 DEF Next, Exited

(* IInv holds in every state of a run, whatever its input, its limit, the   *)
(* size of the result and of the pipes, and whatever git says.              *)
THEOREM Invariance == Spec => []IInv
  BY InitIInv, NextKeepsIInv, PTL DEF Spec

-----------------------------------------------------------------------------
LEMMA RefusalIsRead ==
  ASSUME IInv, result.kind = "output"
  PROVE  /\ result.status = child /\ result.said = said /\ F!Over
         /\ CheckResult = "Rejected" <=> GitRefused
         /\ CheckResult = "Ok" <=> child = "0"
  <1>1. /\ \A s \in F!Streams : thread[s] = "done"
        /\ result.status = child /\ result.said = got /\ main = "returned"
    BY DEF IInv, F!FeedInv, F!AnswerIsAssembled
  <1>2. said = got
    <2>1. P!FeedAssumption
      BY GitAssumption DEF P!FeedAssumption, F!FeedAssumption, P!Streams, F!Streams
    <2>2. P!FeedInv /\ \A s \in P!Streams : thread[s] = "done"
      BY <1>1, SameInv DEF IInv, P!Streams, F!Streams
    <2> QED BY <2>1, <2>2, P!ReadOutIsSaid
  <1>3. Read(result.said["stderr"]) = said["stderr"]
    BY <1>1, <1>2 DEF Read, IInv, CheckInv
  <1>4. IsParseVerdict(said["stderr"])
          <=> {said["stderr"][i] : i \in DOMAIN said["stderr"]} \intersect {"error", "fatal"} = {"error"}
    BY DEF IsParseVerdict
  <1>5. Rejects(result) <=> GitRefused
    BY <1>1, <1>3, <1>4 DEF Rejects, GitRefused
  <1>6. CheckResult = IF child = "0" THEN "Ok" ELSE IF GitRefused THEN "Rejected" ELSE "Failed"
    BY <1>1, <1>5 DEF CheckResult, Applies
  <1>7. GitRefused => child # "0"
    BY DEF GitRefused
  <1> QED BY <1>1, <1>2, <1>6, <1>7 DEF F!Over

(* Exit 70 takes the internal check's verdict, git's, or a panic of a       *)
(* helper thread, for every answer git can give (src/main.rs, emit_verified;*)
(* docs/ADR/0013).                                                          *)
THEOREM SeventyMeansAFault == Spec => []SeventyIsEarned
  <1>1. IInv => SeventyIsEarned
    <2> SUFFICES ASSUME IInv, exitCode = 70, verdict # "inconsistent"
                 PROVE  opts.git /\ (GitRefused \/ HelperPanicked)
      BY DEF SeventyIsEarned
    <2>1. opts.git /\ F!Over /\ ~GitAccepts /\ Blame \in {"Verify", "Internal"}
      BY DEF IInv, CheckInv
    <2>2. CASE Blame = "Verify"
      <3>1. CheckResult = "Rejected"
        BY <2>1, <2>2, BlameIs DEF IInv
      <3>2. result.kind = "output"
        BY <2>1, <3>1 DEF CheckResult, IInv, F!FeedInv, F!TypeOK, FaultsAreReal
      <3> QED BY <2>1, <3>1, <3>2, RefusalIsRead
    <2>3. CASE Blame = "Internal"
      <3>1. CheckResult \in {"WriterPanicked", "ReaderPanicked"}
        BY <2>1, <2>3, BlameIs DEF IInv
      <3>2. result.kind \in {"WriterPanicked", "ReaderPanicked"}
        BY <2>1, <3>1 DEF CheckResult, IInv, F!FeedInv, F!TypeOK, FaultsAreReal
      <3> QED BY <2>1, <3>2 DEF IInv, FaultsAreReal
    <2> QED BY <2>1, <2>2, <2>3
  <1> QED BY <1>1, Invariance, PTL

(* And git's refusal is exit 70, in every locale hunkpick is started in     *)
(* (src/gitenv.rs, pin_message_locale; src/validate.rs, is_parse_verdict).  *)
THEOREM RefusalMeansSeventy == Spec => []RefusalIsSeventy
  <1>1. IInv => RefusalIsSeventy
    <2> SUFFICES ASSUME IInv, stage = "exited", opts.git, result.kind = "output",
    GitRefused
                 PROVE  exitCode = 70
      BY DEF RefusalIsSeventy
    <2>1. main # "idle"
      BY DEF IInv, F!FeedInv, F!StillPending, F!Pending
    <2>2. CheckResult = "Rejected" /\ F!Over
      BY RefusalIsRead
    <2>3. ~GitAccepts
      BY <2>2 DEF GitAccepts
    <2>4. exitCode = ExitCode[Blame]
      BY <2>1, <2>3 DEF IInv, CheckInv
    <2>5. Blame = "Verify"
      BY <2>2, <2>3, BlameIs DEF IInv
    <2> QED BY <2>4, <2>5, Codes
  <1> QED BY <1>1, Invariance, PTL

(* Nothing leaves before every check that was asked for has passed, git's   *)
(* in the directory it was asked for (src/main.rs, emit_verified;           *)
(* src/gitenv.rs, insulate_repo_location).                                  *)
THEOREM CheckedBytesLeave == Spec => []OnlyCheckedBytesLeave
  <1>1. IInv => OnlyCheckedBytesLeave
    <2> SUFFICES ASSUME IInv, delivered + buffered > 0
                 PROVE  /\ opts.internal => verdict = "consistent"
                        /\ opts.git => child = "0" /\ git.here
      BY DEF OnlyCheckedBytesLeave
    <2>1. Passed
      BY DEF IInv, OutputInv
    <2>2. git.here
      BY DEF IInv, CheckInv
    <2>3. ASSUME opts.git PROVE child = "0"
      <3>1. F!Over /\ CheckResult = "Ok"
        BY <2>1, <2>3 DEF Passed, GitDone, GitAccepts
      <3>2. result.kind = "output"
        BY <3>1 DEF CheckResult, IInv, F!FeedInv, F!TypeOK, FaultsAreReal
      <3> QED BY <3>1, <3>2, RefusalIsRead
    <2> QED BY <2>1, <2>2, <2>3 DEF Passed
  <1> QED BY <1>1, Invariance, PTL

(* The limit is exact for every stream and every limit, the largest         *)
(* included (src/main.rs, read_limited).                                    *)
THEOREM TheLimitIsExact == Spec => []LimitIsExact
  <1>1. IInv => LimitIsExact
    <2> SUFFICES ASSUME IInv PROVE LimitIsExact
      OBVIOUS
    <2>1. source \in {Dropped} \union Sources /\ buf <= Allowed /\ buf \in Nat
      BY DEF IInv, RunTypeOK, InputTypeOK, LoadInv
    <2>2. answer = "too large" => buf = Allowed /\ TooLarge
      <3> SUFFICES ASSUME answer = "too large" PROVE buf = Allowed /\ TooLarge
        OBVIOUS
      <3>1. stage = "exited" /\ load # "given"
        BY DEF IInv, RunTypeOK, OutputTypeOK, StageInv, Undecided, Checking, Sending
      <3>2. Unreadable(bytes) # "too large"
        BY DEF Unreadable, Utf16Or32Bom, Utf16WithoutBom
      <3> QED BY <3>1, <3>2 DEF IInv, RefusalInv, Refused
    <2>3. load \in {"screen", "parse", "validate"} => buf = Allowed /\ ~TooLarge
      BY DEF IInv, LoadInv
    <2>4. answer = "too large" => source.limit # 0 /\ Len(bytes) > source.limit
      BY <2>1, <2>2, AllowedIs
    <2>5. load \in {"screen", "parse", "validate"} =>
            buf = Len(bytes) /\ (source.limit # 0 => buf <= source.limit)
      BY <2>1, <2>3, AllowedIs DEF TooLarge
    <2>6. source.limit # 0 => buf <= source.limit + 1
      BY <2>1, AllowedIs
    <2> QED BY <2>4, <2>5, <2>6 DEF LimitIsExact
  <1> QED BY <1>1, Invariance, PTL

(* Blank input, and no other that was looked at, ends in success            *)
(* (src/main.rs, load_and_parse).                                           *)
THEOREM BlankIsNoOp == Spec => []NoOpNeverFails
  <1>1. IInv => NoOpNeverFails
    <2> SUFFICES ASSUME IInv, stage = "exited", load \in {"screen", "parse", "validate"}
                 PROVE  exitCode = 0 <=> WholeBlank
      BY DEF NoOpNeverFails, JudgedByIt
    <2>1. CASE load = "screen"
      BY <2>1, Codes DEF IInv, RefusalInv, Refused
    <2>2. CASE load \in {"parse", "validate"}
      <3>1. ~WholeBlank
        BY <2>2 DEF IInv, LoadInv
      <3>2. exitCode = ExitCode["Usage"]
        BY <2>2 DEF IInv, RefusalInv, Refused
      <3> QED BY <3>1, <3>2, Codes
    <2> QED BY <2>1, <2>2
  <1> QED BY <1>1, Invariance, PTL

(* Success means everything was delivered (src/main.rs, main and flush_out).*)
THEOREM DeliveredInFull == Spec => []SuccessIsDelivered
  <1>1. IInv => SuccessIsDelivered
    BY DEF IInv, OutputInv
  <1> QED BY <1>1, Invariance, PTL

-----------------------------------------------------------------------------
(* What the input is taken for: the lines that count as evidence.           *)

\* the text of a window as it is read: foreign units and NULs are one
Heads == Markers \union PathHeads \union AsciiHeads
Text  == Ascii \union {Foreign}

LEMMA HeadFacts ==
  /\ HunkHead \in Markers
  /\ Markers \intersect PathHeads = {} /\ Markers \intersect AsciiHeads = {}
  /\ PathHeads \intersect AsciiHeads = {}
  /\ Heads \intersect {Newline, " ", Foreign, Nul} = {}
  /\ Space = {" ", Newline} /\ Newline # Foreign
  /\ Ranges \notin {Newline, " ", Foreign, Nul}
  /\ Heads \subseteq Ascii /\ Space \subseteq Ascii /\ Ranges \in Ascii
  /\ Nul \notin Ascii /\ Foreign \notin Ascii /\ Nul # Foreign
  BY DEF Heads, HunkHead, Markers, Ordinary, Combined, PathHeads, AsciiHeads, Newline,
         Foreign, Nul, Space, Ranges, Ascii

\* the least of a set of indices
LEMMA LeastIs ==
  ASSUME NEW S, S \subseteq Nat, S # {}
  PROVE  Min(S) \in S /\ \A x \in S : Min(S) <= x
  <1>1. \E m \in S : \A x \in S : ~ (<<x, m>> \in OpToRel(<, Nat))
    BY NatLessThanWellFounded, WFMin
  <1>2. PICK m \in S : \A x \in S : ~ (<<x, m>> \in OpToRel(<, Nat))
    BY <1>1
  <1>3. \A x \in S : m <= x
    <2>1. TAKE x \in S
    <2>2. ~ (x < m)
      BY <1>2 DEF OpToRel
    <2> QED BY <2>2
  <1> QED BY <1>3 DEF Min

\* a stretch from a place on ends where what is looked for stands, or at the end
Stretch(s, from, to, stop) ==
  /\ to \in (from - 1)..Len(s)
  /\ \A j \in from..to : s[j] # stop
  /\ to = Len(s) \/ s[to + 1] = stop

LEMMA StretchIs ==
  ASSUME NEW s \in Seq(Text), NEW from \in 1..(Len(s) + 1), NEW stop
  PROVE  LET S == {j \in from..Len(s) : s[j] = stop}
             e == IF S = {} THEN Len(s) ELSE Min(S) - 1
         IN  Stretch(s, from, e, stop)
  <1> DEFINE S == {j \in from..Len(s) : s[j] = stop}
  <1>1. CASE S = {}
    BY <1>1 DEF Stretch
  <1>2. CASE S # {}
    <2>1. S \subseteq Nat
      OBVIOUS
    <2>2. Min(S) \in S /\ \A x \in S : Min(S) <= x
      BY <1>2, <2>1, LeastIs
    <2>3. PICK m \in S : m = Min(S) /\ \A x \in S : m <= x
      BY <2>2
    <2>4. /\ m \in from..Len(s) /\ s[m] = stop
          /\ \A j \in from..Len(s) : s[j] = stop => m <= j
      BY <2>3
    <2>5. Stretch(s, from, m - 1, stop)
      BY <2>4 DEF Stretch
    <2> QED BY <1>2, <2>3, <2>5
  <1> QED BY <1>1, <1>2

LEMMA LineIs ==
  ASSUME NEW s \in Seq(Text), NEW i \in DOMAIN s
  PROVE  \E e : Stretch(s, i, e, Newline) /\ LineAt(s, i) = SubSeq(s, i, e)
  <1> DEFINE S == {j \in i..Len(s) : s[j] = Newline}
             e == IF S = {} THEN Len(s) ELSE Min(S) - 1
  <1>1. i \in 1..(Len(s) + 1)
    OBVIOUS
  <1>2. Stretch(s, i, e, Newline)
    BY <1>1, StretchIs
  <1> QED BY <1>2 DEF LineAt

LEMMA AsciiIs ==
  ASSUME NEW line \in Seq(Text)
  PROVE  \E d : Stretch(line, 1, d, Foreign) /\ ReadAsAscii(line) = SubSeq(line, 1, d)
  <1> DEFINE S == {j \in 1..Len(line) : line[j] = Foreign}
             d == IF S = {} THEN Len(line) ELSE Min(S) - 1
  <1>1. 1 \in 1..(Len(line) + 1)
    OBVIOUS
  <1>2. Stretch(line, 1, d, Foreign)
    BY <1>1, StretchIs
  <1>3. SubSeq(line, 1, Len(line)) = line
    OBVIOUS
  <1>4. DOMAIN line = 1..Len(line)
    OBVIOUS
  <1>5. ReadAsAscii(line) = IF S = {} THEN line ELSE SubSeq(line, 1, Min(S) - 1)
    BY <1>4 DEF ReadAsAscii
  <1> QED BY <1>2, <1>3, <1>5

\* a stretch says more than its first symbol if more than space stands before
\* what it stops at
LEMMA MoreIs ==
  ASSUME NEW s \in Seq(Text), NEW i \in DOMAIN s, NEW f \in i..Len(s), NEW Stops,
         NEW part \in Seq(Text), Len(part) = f - i + 1,
         \A j \in 1..(f - i + 1) : part[j] = s[i + j - 1],
         \A j \in (i + 1)..f : s[j] \notin Stops,
         f = Len(s) \/ s[f + 1] \in Stops
  PROVE  SaysMore(part)
           <=> \E k \in (i + 1)..Len(s) : /\ s[k] \notin Space
                                          /\ \A j \in (i + 1)..k : s[j] \notin Stops
  <1>1. i \in Nat /\ f \in Nat /\ i <= f /\ f <= Len(s)
    OBVIOUS
  <1>2. ASSUME SaysMore(part)
        PROVE  \E k \in (i + 1)..Len(s) : /\ s[k] \notin Space
                                          /\ \A j \in (i + 1)..k : s[j] \notin Stops
    <2>1. PICK j \in 2..Len(part) : part[j] \notin Space
      BY <1>2 DEF SaysMore
    <2> DEFINE k == i + j - 1
    <2>2. k \in (i + 1)..f /\ k \in (i + 1)..Len(s) /\ s[k] \notin Space
      BY <1>1, <2>1
    <2>3. \A l \in (i + 1)..k : l \in (i + 1)..f
      BY <1>1, <2>2
    <2> HIDE DEF k
    <2> QED BY <2>2, <2>3
  <1>3. ASSUME NEW k \in (i + 1)..Len(s), s[k] \notin Space,
               \A j \in (i + 1)..k : s[j] \notin Stops
        PROVE  SaysMore(part)
    <2>1. k <= f
      BY <1>3
    <2>2. k - i + 1 \in 2..Len(part) /\ k - i + 1 \in 1..(f - i + 1) /\ i + (k - i + 1) - 1 = k
      BY <1>1, <2>1
    <2>3. part[k - i + 1] = s[k]
      BY <2>2
    <2> QED BY <1>3, <2>2, <2>3 DEF SaysMore
  <1> QED BY <1>2, <1>3

\* a line counts exactly when it is a whole one
LEMMA CountsIs ==
  ASSUME NEW s \in Seq(Text), NEW i \in DOMAIN s
  PROVE  Whole(s, i) <=> (i = 1 \/ s[i - 1] = Newline) /\ CountsAsADiffLine(LineAt(s, i))
  <1> DEFINE line == LineAt(s, i)
             read == ReadAsAscii(line)
             More(Stops) == \E k \in (i + 1)..Len(s) :
                              /\ s[k] \notin Space
                              /\ \A j \in (i + 1)..k : s[j] \notin Stops
  <1>1. PICK e : Stretch(s, i, e, Newline) /\ line = SubSeq(s, i, e)
    BY LineIs
  <1>2. e \in (i - 1)..Len(s) /\ i \in 1..Len(s)
    BY <1>1 DEF Stretch
  <1>3. line \in Seq(Text) /\ Len(line) = e - i + 1
        /\ \A j \in 1..(e - i + 1) : line[j] = s[i + j - 1]
    BY <1>1, <1>2
  <1>4. PICK d : Stretch(line, 1, d, Foreign) /\ read = SubSeq(line, 1, d)
    BY <1>3, AsciiIs
  <1>5. d \in 0..(e - i + 1)
    BY <1>3, <1>4 DEF Stretch
  <1>6. read \in Seq(Text) /\ Len(read) = d /\ \A j \in 1..d : read[j] = s[i + j - 1]
    BY <1>3, <1>4, <1>5
  <1> HIDE DEF line, read
  <1>8. s[i] # Newline => e >= i
    BY <1>1, <1>2 DEF Stretch
  <1>9. CASE s[i] \notin Heads
    <2>1. ~Whole(s, i)
      BY <1>9 DEF Whole, Heads
    <2>2. OpensWith(read, Heads) => s[i] \in Heads
      BY <1>5, <1>6 DEF OpensWith
    <2>3. ReadsAsADiffLine(read) => OpensWith(read, Heads)
      BY HeadFacts DEF ReadsAsADiffLine, SaysWhatItsMarkerPromises, OpensWith, Heads, IsHunkHeader
    <2> QED BY <1>9, <2>1, <2>2, <2>3 DEF CountsAsADiffLine, line, read
  <1>10. CASE s[i] \in Heads
    <2>1. s[i] # Newline /\ s[i] # Foreign
      BY <1>10, HeadFacts
    <2>2. e \in i..Len(s) /\ Len(line) >= 1 /\ line # <<>> /\ line[1] = s[i]
      BY <1>2, <1>3, <1>8, <2>1
    <2>3. d >= 1
      BY <1>3, <1>4, <1>5, <2>1, <2>2 DEF Stretch
    <2>4. read # <<>> /\ read[1] = s[i]
      BY <1>6, <2>3
    <2>5. \A H : (OpensWith(line, H) <=> s[i] \in H) /\ (OpensWith(read, H) <=> s[i] \in H)
      BY <2>2, <2>4 DEF OpensWith
    <2>6. SaysMore(line) <=> More({Newline})
      <3>1. \A j \in (i + 1)..e : s[j] \notin {Newline}
        BY <1>1 DEF Stretch
      <3>2. e = Len(s) \/ s[e + 1] \in {Newline}
        BY <1>1 DEF Stretch
      <3> QED BY <1>3, <2>2, <3>1, <3>2, MoreIs
    <2>7. SaysMore(read) <=> More({Newline, Foreign})
      <3> DEFINE f == i + d - 1
      <3>1. f \in i..Len(s) /\ f <= e
        BY <1>2, <1>5, <2>3
      <3>2. \A j \in (i + 1)..f : s[j] \notin {Newline, Foreign}
        <4>1. \A j \in i..e : s[j] # Newline
          BY <1>1 DEF Stretch
        <4>2. \A j \in 1..d : line[j] # Foreign
          BY <1>4 DEF Stretch
        <4>3. ASSUME NEW j \in (i + 1)..f PROVE s[j] # Foreign
          <5>1. j - i + 1 \in 1..d /\ j - i + 1 \in 1..(e - i + 1) /\ i + (j - i + 1) - 1 = j
            BY <1>5, <1>2
          <5> QED BY <5>1, <4>2, <1>3
        <4>4. \A j \in (i + 1)..f : j \in i..e
          BY <1>2, <3>1
        <4> HIDE DEF f
        <4> QED BY <4>1, <4>3, <4>4
      <3>3. f = Len(s) \/ s[f + 1] \in {Newline, Foreign}
        <4>1. CASE d = Len(line)
          <5>1. f = e
            BY <4>1, <1>3, <1>2
          <5> QED BY <1>1, <5>1 DEF Stretch
        <4>2. CASE d # Len(line)
          <5>1. line[d + 1] = Foreign /\ d + 1 \in 1..(e - i + 1)
            BY <1>3, <1>4, <1>5, <4>2, <1>2 DEF Stretch
          <5>2. line[d + 1] = s[i + (d + 1) - 1]
            BY <1>3, <5>1
          <5>3. i + (d + 1) - 1 = f + 1
            BY <1>2, <1>5
          <5> QED BY <5>1, <5>2, <5>3
        <4> QED BY <4>1, <4>2
      <3>4. i \in Nat /\ d \in Nat
        BY <1>2, <1>5
      <3>5. f - i + 1 = d
        BY <3>4
      <3> HIDE DEF f
      <3> QED BY <1>6, <3>1, <3>2, <3>3, <3>5, MoreIs
    <2>8. CountsAsADiffLine(line) <=>
            /\ ReadsAsADiffLine(read)
            /\ s[i] \in PathHeads => More({Newline})
      BY <2>5, <2>6 DEF CountsAsADiffLine, read
    <2>9. Nul \notin Text
      BY HeadFacts DEF Text
    <2>10. \A j \in (i + 1)..Len(s) : s[j] # Nul
      BY <1>2, <2>9
    <2>11. Whole(s, i) <=>
            /\ i = 1 \/ s[i - 1] = Newline
            /\ IF s[i] \in PathHeads THEN More({Newline}) ELSE More({Newline, Foreign})
            /\ s[i] = HunkHead => s[i + 1] = Ranges
      BY <1>10, <2>10 DEF Whole, Heads
    <2>12. CASE s[i] \in PathHeads
      <3>1. s[i] # HunkHead
        BY <2>12, HeadFacts
      <3>2. ReadsAsADiffLine(read)
        BY <2>5, <2>12 DEF ReadsAsADiffLine
      <3> QED BY <2>8, <2>11, <2>12, <3>1, <3>2 DEF line
    <2>13. CASE s[i] = HunkHead
      <3>1. s[i] \in Markers /\ s[i] \notin PathHeads /\ s[i] \notin AsciiHeads
        BY <2>13, HeadFacts
      <3>2. ReadsAsADiffLine(read) <=> Len(read) >= 2 /\ read[2] = Ranges
        BY <2>4, <2>5, <2>13, <3>1
        DEF ReadsAsADiffLine, SaysWhatItsMarkerPromises, IsHunkHeader
      <3>3. ASSUME More({Newline, Foreign}), s[i + 1] = Ranges
            PROVE  Len(read) >= 2 /\ read[2] = Ranges
        <4>1. PICK k \in (i + 1)..Len(s) : TRUE
          BY <3>3
        <4>2. i + 1 \in 1..Len(s)
          BY <1>2, <4>1
        <4>3. Ranges # Newline /\ Ranges # Foreign
          BY HeadFacts
        <4>4. s[i + 1] # Newline /\ s[i + 1] # Foreign
          BY <3>3, <4>3
        <4>5. ASSUME e = i PROVE FALSE
          <5>1. i = Len(s) \/ s[i + 1] = Newline
            BY <1>1, <4>5 DEF Stretch
          <5> QED BY <1>2, <4>2, <4>4, <5>1
        <4>6. e >= i + 1
          BY <1>2, <2>2, <4>5
        <4>7. line[2] = s[i + 1] /\ Len(line) >= 2
          BY <1>3, <4>6, <1>2
        <4>8. d >= 2
          BY <1>3, <1>4, <1>5, <2>3, <4>4, <4>7 DEF Stretch
        <4> QED BY <1>6, <4>8, <3>3, <1>2
      <3>4. ASSUME Len(read) >= 2, read[2] = Ranges
            PROVE  More({Newline, Foreign}) /\ s[i + 1] = Ranges
        <4>1. s[i + 1] = Ranges
          BY <1>6, <3>4, <1>2
        <4>2. Ranges \notin Space
          BY HeadFacts
        <4>3. 2 \in 2..Len(read)
          BY <1>5, <1>6, <3>4
        <4>4. SaysMore(read)
          BY <3>4, <4>2, <4>3 DEF SaysMore
        <4> QED BY <2>7, <4>1, <4>4
      <3> QED BY <2>8, <2>11, <2>13, <3>1, <3>2, <3>3, <3>4 DEF line
    <2>14. CASE s[i] \notin PathHeads /\ s[i] # HunkHead
      <3>1. s[i] \in Markers \/ s[i] \in AsciiHeads
        BY <1>10, <2>14 DEF Heads
      <3>2. ReadsAsADiffLine(read) <=> SaysMore(read)
        BY <2>5, <2>14, <3>1 DEF ReadsAsADiffLine, SaysWhatItsMarkerPromises
      <3> QED BY <2>7, <2>8, <2>11, <2>14, <3>2 DEF line
    <2> QED BY <2>12, <2>13, <2>14
  <1> QED BY <1>9, <1>10

\* a text as it is read: what is not ASCII is foreign
AsRead(seen) == [i \in DOMAIN seen |-> IF seen[i] \in Ascii THEN seen[i] ELSE Foreign]

LEMMA AsReadIs ==
  ASSUME NEW seen \in Seq(Symbols)
  PROVE  /\ AsRead(seen) \in Seq(Text) /\ Len(AsRead(seen)) = Len(seen)
         /\ DOMAIN AsRead(seen) = 1..Len(seen)
         /\ \A i \in 1..Len(seen) :
              AsRead(seen)[i] = IF seen[i] \in Ascii THEN seen[i] ELSE Foreign
  BY DEF AsRead, Text

LEMMA WholeAsRead ==
  ASSUME NEW seen \in Seq(Symbols), NEW i \in 1..Len(seen)
  PROVE  Whole(seen, i) <=> Whole(AsRead(seen), i)
  <1> DEFINE v == AsRead(seen)
  <1>1. Len(v) = Len(seen) /\ Len(seen) \in Nat
    BY AsReadIs
  <1>2. ASSUME NEW j \in 1..Len(seen)
        PROVE  /\ seen[j] \in Ascii => v[j] = seen[j]
               /\ seen[j] \in {Foreign, Nul} => v[j] = Foreign
               /\ seen[j] \in Ascii \union {Foreign, Nul}
    <2>1. v[j] = IF seen[j] \in Ascii THEN seen[j] ELSE Foreign
      BY AsReadIs
    <2>2. seen[j] \in Symbols
      OBVIOUS
    <2>3. Nul \notin Ascii /\ Foreign \notin Ascii
      BY HeadFacts
    <2> HIDE DEF v
    <2> QED BY <2>1, <2>2, <2>3 DEF Symbols
  <1> HIDE DEF v
  <1>3. ASSUME NEW j \in 1..Len(seen)
        PROVE  /\ seen[j] \in Heads <=> v[j] \in Heads
               /\ \A H \in SUBSET Ascii : seen[j] \in H <=> v[j] \in H
               /\ \A c \in Ascii : seen[j] = c <=> v[j] = c
               /\ seen[j] \in {Foreign, Nul} <=> v[j] \in {Foreign, Nul}
    BY <1>2, HeadFacts
  <1>4. /\ Markers \union PathHeads \union AsciiHeads \subseteq Ascii /\ PathHeads \subseteq Ascii
        /\ Space \subseteq Ascii /\ Newline \in Ascii /\ HunkHead \in Ascii /\ Ranges \in Ascii
    BY HeadFacts DEF Heads
  <1>5. /\ seen[i] \in Markers \union PathHeads \union AsciiHeads
             <=> v[i] \in Markers \union PathHeads \union AsciiHeads
        /\ seen[i] \in PathHeads <=> v[i] \in PathHeads
        /\ seen[i] = HunkHead <=> v[i] = HunkHead
    BY <1>3, <1>4
  <1>6. i # 1 => (seen[i - 1] = Newline <=> v[i - 1] = Newline)
    <2>1. i # 1 => i - 1 \in 1..Len(seen)
      OBVIOUS
    <2> QED BY <2>1, <1>3, <1>4
  <1>7. ASSUME NEW k \in (i + 1)..Len(seen)
        PROVE  /\ seen[k] \in Space <=> v[k] \in Space
               /\ seen[k] = Newline <=> v[k] = Newline
               /\ seen[k] \in {Foreign, Nul} <=> v[k] \in {Foreign, Nul}
    <2>1. k \in 1..Len(seen)
      OBVIOUS
    <2> QED BY <2>1, <1>3, <1>4
  <1>8. ASSUME NEW k \in (i + 1)..Len(seen), NEW j \in (i + 1)..k
        PROVE  j \in (i + 1)..Len(seen)
    OBVIOUS
  <1>9. ASSUME NEW k \in (i + 1)..Len(seen) PROVE seen[i + 1] = Ranges <=> v[i + 1] = Ranges
    <2>1. i + 1 \in 1..Len(seen)
      OBVIOUS
    <2> QED BY <2>1, <1>3, <1>4
  <1>10. Whole(seen, i) <=> Whole(v, i)
    BY <1>1, <1>5, <1>6, <1>7, <1>8, <1>9 DEF Whole
  <1> QED BY <1>10 DEF v

\* behind the last newline there may be no line
LEMMA NoLineCounts ==
  ASSUME NEW s \in Seq(Text), NEW from \in 1..(Len(s) + 1), from \notin DOMAIN s
  PROVE  ~CountsAsADiffLine(LineAt(s, from))
  <1>1. from = Len(s) + 1 /\ from..Len(s) = {}
    OBVIOUS
  <1>2. LineAt(s, from) = <<>>
    BY <1>1 DEF LineAt
  <1>3. ReadAsAscii(<<>>) = <<>>
    BY DEF ReadAsAscii
  <1>4. ~ReadsAsADiffLine(<<>>)
    BY DEF ReadsAsADiffLine, SaysWhatItsMarkerPromises, OpensWith
  <1> QED BY <1>2, <1>3, <1>4 DEF CountsAsADiffLine

LEMMA StartIs ==
  ASSUME NEW s \in Seq(Text), NEW i \in DOMAIN s
  PROVE  i \in LineStarts(s) <=> i = 1 \/ s[i - 1] = Newline
  <1>1. ASSUME i \in LineStarts(s), i # 1 PROVE s[i - 1] = Newline
    BY <1>1 DEF LineStarts
  <1>2. ASSUME i # 1, s[i - 1] = Newline PROVE i \in LineStarts(s)
    <2>1. i - 1 \in DOMAIN s /\ (i - 1) + 1 = i
      BY <1>2
    <2> QED BY <1>2, <2>1 DEF LineStarts
  <1> QED BY <1>1, <1>2 DEF LineStarts

LEMMA EvidenceIs ==
  ASSUME NEW text \in Seq(Symbols)
  PROVE  /\ Seen(text) \in Seq(Symbols)
         /\ ReadsLikeAPatch(AsRead(Seen(text))) <=> Evidence(text) >= 2
  <1> DEFINE seen == Seen(text)
             v == AsRead(seen)
             A == {from \in LineStarts(v) : CountsAsADiffLine(LineAt(v, from))}
             B == {i \in DOMAIN seen : Whole(seen, i)}
  <1>1. Min({Len(text), Window}) \in 0..Len(text)
    BY WindowAssumption, MinOfTwo
  <1>2. seen \in Seq(Symbols)
    BY <1>1 DEF Seen
  <1>3. v \in Seq(Text) /\ Len(v) = Len(seen) /\ DOMAIN v = DOMAIN seen /\ DOMAIN v = 1..Len(seen)
    BY <1>2, AsReadIs
  <1> HIDE DEF seen
  <1>4. \A i \in DOMAIN seen : Whole(seen, i) <=> Whole(v, i)
    BY <1>2, <1>3, WholeAsRead
  <1> HIDE DEF v
  <1>5. ASSUME NEW i \in DOMAIN v PROVE i \in A <=> i \in B
    BY <1>3, <1>4, <1>5, StartIs, CountsIs
  <1>6. A \subseteq DOMAIN v
    <2>1. ASSUME NEW from \in LineStarts(v), from \notin DOMAIN v PROVE from \notin A
      <3>1. from \in 1..(Len(v) + 1)
        BY <1>3, <2>1 DEF LineStarts
      <3> QED BY <1>3, <2>1, <3>1, NoLineCounts
    <2> QED BY <2>1
  <1>7. A = B
    BY <1>3, <1>5, <1>6
  <1> QED BY <1>2, <1>7 DEF ReadsLikeAPatch, Evidence, seen, v

-----------------------------------------------------------------------------
(* Encoded in two units a symbol.                                            *)

\* the units of a text, one by one
LEMMA UnitsAre ==
  ASSUME NEW text \in Seq(Symbols), NEW e \in Encodings \union Marked, Width(e) = 2,
         NEW i \in 1..Len(text)
  PROVE  /\ Body(text, e)[2 * i - 1] = Encoded(text[i], e)[1]
         /\ Body(text, e)[2 * i] = Encoded(text[i], e)[2]
  <1> DEFINE n == Len(text)
  <1>1. n \in Nat /\ i \in Nat /\ i >= 1 /\ i <= n
    OBVIOUS
  <1>2. Body(text, e) =
          [j \in 1..(2 * n) |-> Encoded(text[((j - 1) \div 2) + 1], e)[((j - 1) % 2) + 1]]
    BY DEF Body
  <1> HIDE DEF n
  <1>3. /\ 2 * i - 1 \in 1..(2 * n) /\ 2 * i \in 1..(2 * n)
        /\ ((2 * i - 1 - 1) \div 2) + 1 = i /\ ((2 * i - 1 - 1) % 2) + 1 = 1
        /\ ((2 * i - 1) \div 2) + 1 = i /\ ((2 * i - 1) % 2) + 1 = 2
    BY <1>1
  <1> QED BY <1>2, <1>3

LEMMA PairIs ==
  ASSUME NEW a, NEW b, NEW p, p = <<a, b>>
  PROVE  p[1] = a /\ p[2] = b
  OBVIOUS

LEMMA UnitsOf16 ==
  ASSUME NEW text \in Seq(Symbols), NEW i \in 1..Len(text)
  PROVE  LET other == IF text[i] = Foreign THEN Foreign ELSE Nul
         IN  /\ \A e \in {"UTF-16LE", "UTF-16LE BOM"} :
                  Body(text, e)[2 * i - 1] = text[i] /\ Body(text, e)[2 * i] = other
             /\ \A e \in {"UTF-16BE", "UTF-16BE BOM"} :
                  Body(text, e)[2 * i - 1] = other /\ Body(text, e)[2 * i] = text[i]
  <1> DEFINE other == IF text[i] = Foreign THEN Foreign ELSE Nul
  <1>1. ASSUME NEW e \in {"UTF-16LE", "UTF-16LE BOM"}
        PROVE  Body(text, e)[2 * i - 1] = text[i] /\ Body(text, e)[2 * i] = other
    <2>1. e \in Encodings \union Marked
      BY DEF Encodings, Marked
    <2>3. Width(e) = 2
      BY DEF Width, Encoded
    <2>2. Encoded(text[i], e) = <<text[i], other>>
      BY DEF Encoded
    <2>4. /\ Body(text, e)[2 * i - 1] = Encoded(text[i], e)[1]
          /\ Body(text, e)[2 * i] = Encoded(text[i], e)[2]
      BY <2>1, <2>3, UnitsAre
    <2>5. Encoded(text[i], e)[1] = text[i] /\ Encoded(text[i], e)[2] = other
      <3> HIDE DEF other
      <3> QED BY <2>2, PairIs
    <2> QED BY <2>4, <2>5
  <1>2. ASSUME NEW e \in {"UTF-16BE", "UTF-16BE BOM"}
        PROVE  Body(text, e)[2 * i - 1] = other /\ Body(text, e)[2 * i] = text[i]
    <2>1. e \in Encodings \union Marked
      BY DEF Encodings, Marked
    <2>3. Width(e) = 2
      BY DEF Width, Encoded
    <2>2. Encoded(text[i], e) = <<other, text[i]>>
      BY DEF Encoded
    <2>4. /\ Body(text, e)[2 * i - 1] = Encoded(text[i], e)[1]
          /\ Body(text, e)[2 * i] = Encoded(text[i], e)[2]
      BY <2>1, <2>3, UnitsAre
    <2>5. Encoded(text[i], e)[1] = other /\ Encoded(text[i], e)[2] = text[i]
      <3> HIDE DEF other
      <3> DEFINE p == Encoded(text[i], e)
                 b == text[i]
      <3>1. p = <<other, b>>
        BY <2>2
      <3> HIDE DEF p, b
      <3>2. p[1] = other /\ p[2] = b
        BY <3>1, PairIs
      <3> QED BY <3>2 DEF p, b
    <2> QED BY <2>4, <2>5
  <1> QED BY <1>1, <1>2

\* how much of a stream is looked at, in units
LEMMA SniffedIs ==
  ASSUME NEW s \in Seq(Units)
  PROVE  Sniffed(s) \in Nat /\ 2 * Sniffed(s) <= Len(s)
  <1>1. Len(s) \div 2 \in Nat /\ 2 * (Len(s) \div 2) <= Len(s)
    OBVIOUS
  <1>2. Sniffed(s) = IF Len(s) \div 2 <= Window THEN Len(s) \div 2 ELSE Window
    BY <1>1, MinOfTwo, WindowAssumption DEF Sniffed
  <1> QED BY <1>1, <1>2, WindowAssumption

LEMMA TextOfIs ==
  ASSUME NEW s \in Seq(Units), NEW textAt \in {0, 1}
  PROVE  /\ TextOf(s, textAt) \in Seq(Text)
         /\ Len(TextOf(s, textAt)) = Sniffed(s)
         /\ \A i \in 1..Sniffed(s) :
              TextOf(s, textAt)[i] =
                IF s[2 * i - textAt] = Nul /\ s[2 * i - 1 + textAt] \in Ascii
                THEN s[2 * i - 1 + textAt] ELSE Foreign
  <1> DEFINE m == Sniffed(s)
             Unit(i) == IF s[2 * i - textAt] = Nul /\ s[2 * i - 1 + textAt] \in Ascii
                        THEN s[2 * i - 1 + textAt] ELSE Foreign
             t == [i \in 1..m |-> Unit(i)]
  <1>1. m \in Nat
    BY SniffedIs
  <1>2. TextOf(s, textAt) = SubSeq(t, 1, m)
    BY DEF TextOf
  <1>3. \A i \in 1..m : Unit(i) \in Text
    BY DEF Text
  <1> HIDE DEF m, Unit
  <1>4. t \in [1..m -> Text] /\ \A i \in 1..m : t[i] = Unit(i)
    BY <1>3
  <1>6. t \in Seq(Text) /\ Len(t) = m
    BY <1>1, <1>4
  <1> HIDE DEF t
  <1>5. SubSeq(t, 1, m) = t
    BY <1>6
  <1> QED BY <1>2, <1>4, <1>5, <1>6 DEF m, Unit

\* without ASCII at its place there is no text
LEMMA NoTextNoPatch ==
  ASSUME NEW s \in Seq(Units), NEW textAt \in {0, 1},
         \A i \in 1..Sniffed(s) : s[2 * i - textAt] # Nul \/ s[2 * i - 1 + textAt] \notin Ascii
  PROVE  ~ReadsLikeAPatch(TextOf(s, textAt))
  <1> DEFINE t == TextOf(s, textAt)
             A == {from \in LineStarts(t) : CountsAsADiffLine(LineAt(t, from))}
  <1>1. DOMAIN t = 1..Sniffed(s) /\ \A i \in 1..Sniffed(s) : t[i] = Foreign
    <2>1. /\ t \in Seq(Text) /\ Len(t) = Sniffed(s)
          /\ \A i \in 1..Sniffed(s) :
               t[i] = IF s[2 * i - textAt] = Nul /\ s[2 * i - 1 + textAt] \in Ascii
                      THEN s[2 * i - 1 + textAt] ELSE Foreign
      BY TextOfIs
    <2> HIDE DEF t
    <2>2. \A i \in 1..Sniffed(s) : t[i] = Foreign
      BY <2>1
    <2> QED BY <2>1, <2>2
  <1>2. Newline # Foreign
    BY HeadFacts
  <1> HIDE DEF t
  <1>3. A \in SUBSET {1}
    BY <1>1, <1>2 DEF LineStarts
  <1>4. Cardinality(A) <= 1 /\ Cardinality(A) \in Nat
    <2>1. IsFiniteSet({1}) /\ Cardinality({1}) = 1
      BY FS_Singleton
    <2> HIDE DEF A
    <2>2. IsFiniteSet(A) /\ Cardinality(A) <= Cardinality({1})
      BY <1>3, <2>1, FS_Subset
    <2> QED BY <2>1, <2>2, FS_CardinalityType
  <1> QED BY <1>4 DEF ReadsLikeAPatch, t

-----------------------------------------------------------------------------
(* Byte-order marks.                                                         *)

LEMMA BeginsIs ==
  ASSUME NEW s \in Seq(Units), NEW m \in Seq(Units)
  PROVE  BeginsWith(s, m) <=> Len(s) >= Len(m) /\ \A j \in 1..Len(m) : s[j] = m[j]
  <1>1. ASSUME Len(s) >= Len(m)
        PROVE  /\ SubSeq(s, 1, Len(m)) \in Seq(Units) /\ Len(SubSeq(s, 1, Len(m))) = Len(m)
               /\ \A j \in 1..Len(m) : SubSeq(s, 1, Len(m))[j] = s[j]
    BY <1>1
  <1>2. ASSUME Len(s) >= Len(m), \A j \in 1..Len(m) : s[j] = m[j]
        PROVE  SubSeq(s, 1, Len(m)) = m
    BY <1>1, <1>2, SeqEqual
  <1> QED BY <1>1, <1>2 DEF BeginsWith

LEMMA BeginsWithOne ==
  ASSUME NEW s \in Seq(Units), NEW a \in Units
  PROVE  BeginsWith(s, <<a>>) <=> Len(s) >= 1 /\ s[1] = a
  <1>1. <<a>> \in Seq(Units) /\ Len(<<a>>) = 1
    BY TuplesAreSequences
  <1>2. (\A j \in 1..1 : s[j] = <<a>>[j]) <=> s[1] = a
    OBVIOUS
  <1> QED BY <1>1, <1>2, BeginsIs

LEMMA BeginsWithTwo ==
  ASSUME NEW s \in Seq(Units), NEW a \in Units, NEW b \in Units
  PROVE  BeginsWith(s, <<a, b>>) <=> Len(s) >= 2 /\ s[1] = a /\ s[2] = b
  <1>1. <<a, b>> \in Seq(Units) /\ Len(<<a, b>>) = 2
    BY TuplesAreSequences
  <1>2. (\A j \in 1..2 : s[j] = <<a, b>>[j]) <=> s[1] = a /\ s[2] = b
    OBVIOUS
  <1> QED BY <1>1, <1>2, BeginsIs

LEMMA BeginsWithFour ==
  ASSUME NEW s \in Seq(Units), NEW a \in Units, NEW b \in Units, NEW c \in Units, NEW d \in Units
  PROVE  BeginsWith(s, <<a, b, c, d>>)
           <=> Len(s) >= 4 /\ s[1] = a /\ s[2] = b /\ s[3] = c /\ s[4] = d
  <1>1. <<a, b, c, d>> \in Seq(Units) /\ Len(<<a, b, c, d>>) = 4
    BY TuplesAreSequences
  <1>2. (\A j \in 1..4 : s[j] = <<a, b, c, d>>[j])
           <=> s[1] = a /\ s[2] = b /\ s[3] = c /\ s[4] = d
    OBVIOUS
  <1> QED BY <1>1, <1>2, BeginsIs

LEMMA MarkFacts ==
  /\ MarkFE \notin Symbols /\ MarkFF \notin Symbols /\ MarkFE # MarkFF
  /\ Nul \in Symbols /\ Foreign \in Symbols
  /\ MarkFE \in Units /\ MarkFF \in Units /\ Nul \in Units
  BY DEF Units, MarkFE, MarkFF, Symbols, Ascii, Heads, Markers, Ordinary, Combined, HunkHead,
         PathHeads, AsciiHeads, Space, Newline, Ranges, Nul, Foreign

LEMMA BomIs ==
  ASSUME NEW s \in Seq(Units)
  PROVE  /\ BeginsWith(s, <<MarkFF, MarkFE, Nul, Nul>>) => Utf16Or32Bom(s) = "UTF-32LE"
         /\ BeginsWith(s, <<Nul, Nul, MarkFE, MarkFF>>) => Utf16Or32Bom(s) = "UTF-32BE"
         /\ /\ BeginsWith(s, <<MarkFF, MarkFE>>)
            /\ ~BeginsWith(s, <<MarkFF, MarkFE, Nul, Nul>>)
            => Utf16Or32Bom(s) = "UTF-16LE"
         /\ BeginsWith(s, <<MarkFE, MarkFF>>) => Utf16Or32Bom(s) = "UTF-16BE"
         /\ s \in Seq(Symbols) => Utf16Or32Bom(s) = "none"
  <1> DEFINE A == BeginsWith(s, <<MarkFF, MarkFE, Nul, Nul>>)
             B == BeginsWith(s, <<Nul, Nul, MarkFE, MarkFF>>)
             C == BeginsWith(s, <<MarkFF, MarkFE>>)
             D == BeginsWith(s, <<MarkFE, MarkFF>>)
  <1>1. Utf16Or32Bom(s) = CASE A -> "UTF-32LE" [] B -> "UTF-32BE" [] C /\ ~A -> "UTF-16LE"
                            [] D -> "UTF-16BE" [] OTHER -> "none"
    BY DEF Utf16Or32Bom
  <1>2. /\ A => Len(s) >= 4 /\ s[1] = MarkFF
        /\ B => Len(s) >= 4 /\ s[1] = Nul /\ s[4] = MarkFF
        /\ C => Len(s) >= 2 /\ s[1] = MarkFF
        /\ D => Len(s) >= 2 /\ s[1] = MarkFE
    BY BeginsWithTwo, BeginsWithFour, MarkFacts
  <1>3. MarkFE # MarkFF /\ MarkFE # Nul /\ MarkFF # Nul
    BY MarkFacts
  <1>4. ~(A /\ B) /\ ~(A /\ D) /\ ~(B /\ C) /\ ~(B /\ D) /\ ~(C /\ D)
    BY <1>2, <1>3
  <1>5. s \in Seq(Symbols) => ~A /\ ~B /\ ~C /\ ~D
    <2>1. ASSUME s \in Seq(Symbols), Len(s) >= 1 PROVE s[1] \in Symbols
      BY <2>1
    <2>2. ASSUME s \in Seq(Symbols), Len(s) >= 4 PROVE s[4] \in Symbols
      BY <2>2
    <2>3. Len(s) \in Nat
      OBVIOUS
    <2> HIDE DEF A, B, C, D
    <2> QED BY <1>2, <2>1, <2>2, <2>3, MarkFacts
  <1> HIDE DEF A, B, C, D
  <1>6. /\ A => Utf16Or32Bom(s) = "UTF-32LE"
        /\ B => Utf16Or32Bom(s) = "UTF-32BE"
        /\ C /\ ~A => Utf16Or32Bom(s) = "UTF-16LE"
        /\ D => Utf16Or32Bom(s) = "UTF-16BE"
        /\ ~A /\ ~B /\ ~C /\ ~D => Utf16Or32Bom(s) = "none"
    BY <1>1, <1>4
  <1> QED BY <1>5, <1>6 DEF A, B, C, D

\* a mark is answered by its encoding
LEMMA MarkedIs ==
  ASSUME NEW text \in Seq(Symbols), NEW e \in Marked
  PROVE  LET s == Bytes(text, e)
         IN  /\ e = "UTF-32LE BOM" => Utf16Or32Bom(s) = "UTF-32LE"
             /\ e = "UTF-32BE BOM" => Utf16Or32Bom(s) = "UTF-32BE"
             /\ e = "UTF-16BE BOM" => Utf16Or32Bom(s) = "UTF-16BE"
             /\ e = "UTF-16LE BOM" =>
                  Utf16Or32Bom(s) =
                    IF BeginsWith(text, <<Nul>>) THEN "UTF-32LE" ELSE "UTF-16LE"
  <1> DEFINE s == Bytes(text, e)
             m == Mark(e)
             b == Body(text, e)
  <1>1. s = m \o b /\ s \in Seq(Units) /\ m \in Seq(Units) /\ b \in Seq(Units)
    <2>1. e \in Encodings \union Marked
      OBVIOUS
    <2>2. b \in Seq(Symbols)
      BY <2>1, BodyIsSymbols
    <2> QED BY <2>1, <2>2, BytesAreUnits, MarkIsUnits DEF Units
  <1>2. Len(b) = Width(e) * Len(text)
    BY BodyIsSymbols
  <1> HIDE DEF s, b
  <1>3. /\ Len(s) = Len(m) + Len(b) /\ Len(m) \in Nat /\ Len(b) \in Nat
        /\ \A j \in 1..Len(m) : s[j] = m[j]
        /\ \A j \in 1..Len(b) : s[Len(m) + j] = b[j]
    BY <1>1
  <1>4. /\ BeginsWith(s, <<MarkFF, MarkFE, Nul, Nul>>)
             <=> Len(s) >= 4 /\ s[1] = MarkFF /\ s[2] = MarkFE /\ s[3] = Nul /\ s[4] = Nul
        /\ BeginsWith(s, <<Nul, Nul, MarkFE, MarkFF>>)
             <=> Len(s) >= 4 /\ s[1] = Nul /\ s[2] = Nul /\ s[3] = MarkFE /\ s[4] = MarkFF
        /\ BeginsWith(s, <<MarkFE, MarkFF>>) <=> Len(s) >= 2 /\ s[1] = MarkFE /\ s[2] = MarkFF
        /\ BeginsWith(s, <<MarkFF, MarkFE>>) <=> Len(s) >= 2 /\ s[1] = MarkFF /\ s[2] = MarkFE
    <2>1. s \in Seq(Units)
      BY <1>1
    <2>2. MarkFE \in Units /\ MarkFF \in Units /\ Nul \in Units
      BY MarkFacts
    <2>3. BeginsWith(s, <<MarkFF, MarkFE, Nul, Nul>>)
             <=> Len(s) >= 4 /\ s[1] = MarkFF /\ s[2] = MarkFE /\ s[3] = Nul /\ s[4] = Nul
      BY <2>1, <2>2, BeginsWithFour
    <2>4. BeginsWith(s, <<Nul, Nul, MarkFE, MarkFF>>)
             <=> Len(s) >= 4 /\ s[1] = Nul /\ s[2] = Nul /\ s[3] = MarkFE /\ s[4] = MarkFF
      BY <2>1, <2>2, BeginsWithFour
    <2>5. /\ BeginsWith(s, <<MarkFE, MarkFF>>) <=> Len(s) >= 2 /\ s[1] = MarkFE /\ s[2] = MarkFF
          /\ BeginsWith(s, <<MarkFF, MarkFE>>) <=> Len(s) >= 2 /\ s[1] = MarkFF /\ s[2] = MarkFE
      BY <2>1, <2>2, BeginsWithTwo
    <2> QED BY <2>3, <2>4, <2>5
  <1>5. CASE e = "UTF-32LE BOM"
    <2>1. m = <<MarkFF, MarkFE, Nul, Nul>>
      BY <1>5 DEF Mark
    <2> HIDE DEF m
    <2>2. Len(m) = 4 /\ m[1] = MarkFF /\ m[2] = MarkFE /\ m[3] = Nul /\ m[4] = Nul
      BY <2>1
    <2>3. Len(s) >= 4 /\ s[1] = MarkFF /\ s[2] = MarkFE /\ s[3] = Nul /\ s[4] = Nul
      <3>1. 1 \in 1..Len(m) /\ 2 \in 1..Len(m) /\ 3 \in 1..Len(m) /\ 4 \in 1..Len(m)
        BY <2>2
      <3> QED BY <1>3, <2>2, <3>1
    <2>4. BeginsWith(s, <<MarkFF, MarkFE, Nul, Nul>>)
      BY <1>4, <2>3
    <2>5. Utf16Or32Bom(s) = "UTF-32LE"
      BY <1>1, <2>4, BomIs
    <2> QED BY <1>5, <2>5 DEF s
  <1>6. CASE e = "UTF-32BE BOM"
    <2>1. m = <<Nul, Nul, MarkFE, MarkFF>>
      BY <1>6 DEF Mark
    <2> HIDE DEF m
    <2>2. Len(m) = 4 /\ m[1] = Nul /\ m[2] = Nul /\ m[3] = MarkFE /\ m[4] = MarkFF
      BY <2>1
    <2>3. Len(s) >= 4 /\ s[1] = Nul /\ s[2] = Nul /\ s[3] = MarkFE /\ s[4] = MarkFF
      <3>1. 1 \in 1..Len(m) /\ 2 \in 1..Len(m) /\ 3 \in 1..Len(m) /\ 4 \in 1..Len(m)
        BY <2>2
      <3> QED BY <1>3, <2>2, <3>1
    <2>4. BeginsWith(s, <<Nul, Nul, MarkFE, MarkFF>>)
      BY <1>4, <2>3
    <2>5. Utf16Or32Bom(s) = "UTF-32BE"
      BY <1>1, <2>4, BomIs
    <2> QED BY <1>6, <2>5 DEF s
  <1>7. CASE e = "UTF-16BE BOM"
    <2>1. m = <<MarkFE, MarkFF>>
      BY <1>7 DEF Mark
    <2> HIDE DEF m
    <2>2. Len(m) = 2 /\ m[1] = MarkFE /\ m[2] = MarkFF
      BY <2>1
    <2>3. Len(s) >= 2 /\ s[1] = MarkFE /\ s[2] = MarkFF
      <3>1. 1 \in 1..Len(m) /\ 2 \in 1..Len(m)
        BY <2>2
      <3> QED BY <1>3, <2>2, <3>1
    <2>4. BeginsWith(s, <<MarkFE, MarkFF>>)
      BY <1>4, <2>3
    <2>5. Utf16Or32Bom(s) = "UTF-16BE"
      BY <1>1, <2>4, BomIs
    <2> QED BY <1>7, <2>5 DEF s
  <1>8. CASE e = "UTF-16LE BOM"
    <2>1. m = <<MarkFF, MarkFE>>
      BY <1>8 DEF Mark
    <2>2. Width(e) = 2
      BY <1>8 DEF Width, Encoded
    <2>3. Len(b) = 2 * Len(text) /\ Len(text) \in Nat
      BY <1>2, <2>2
    <2>4. ASSUME Len(text) >= 1
          PROVE  b[1] = text[1] /\ b[2] = IF text[1] = Foreign THEN Foreign ELSE Nul
      <3>1. 1 \in 1..Len(text)
        BY <2>3, <2>4
      <3>2. e \in {"UTF-16LE", "UTF-16LE BOM"}
        BY <1>8
      <3>3. Body(text, e)[2 * 1 - 1] = text[1]
            /\ Body(text, e)[2 * 1] = IF text[1] = Foreign THEN Foreign ELSE Nul
        BY <3>1, <3>2, UnitsOf16
      <3>4. 2 * 1 - 1 = 1 /\ 2 * 1 = 2
        OBVIOUS
      <3> QED BY <3>3, <3>4 DEF b
    <2> HIDE DEF m
    <2>5. Len(m) = 2 /\ m[1] = MarkFF /\ m[2] = MarkFE
      BY <2>1
    <2>6. Len(s) >= 2 /\ s[1] = MarkFF /\ s[2] = MarkFE
      <3>1. 1 \in 1..Len(m) /\ 2 \in 1..Len(m)
        BY <2>5
      <3> QED BY <1>3, <2>5, <3>1
    <2>7. text \in Seq(Units)
      BY DEF Units
    <2>8. BeginsWith(text, <<Nul>>) <=> Len(text) >= 1 /\ text[1] = Nul
      BY <2>7, BeginsWithOne, MarkFacts
    <2>9. Len(s) >= 4 <=> Len(text) >= 1
      BY <1>3, <2>3, <2>5
    <2>10. Len(text) >= 1 => s[3] = text[1] /\ (text[1] = Nul => s[4] = Nul)
      <3>1. Nul # Foreign
        BY HeadFacts
      <3>2. Len(text) >= 1 => 1 \in 1..Len(b) /\ 2 \in 1..Len(b)
        BY <2>3
      <3>3. Len(m) + 1 = 3 /\ Len(m) + 2 = 4
        BY <2>5
      <3>4. Len(text) >= 1 => s[3] = b[1] /\ s[4] = b[2]
        BY <1>3, <3>2, <3>3
      <3> QED BY <2>4, <3>1, <3>4
    <2>11. BeginsWith(s, <<MarkFF, MarkFE, Nul, Nul>>) <=> BeginsWith(text, <<Nul>>)
      BY <1>4, <2>6, <2>8, <2>9, <2>10
    <2>12. Utf16Or32Bom(s) = IF BeginsWith(text, <<Nul>>) THEN "UTF-32LE" ELSE "UTF-16LE"
      BY <1>1, <1>4, <2>6, <2>11, BomIs
    <2> QED BY <1>8, <2>12 DEF s
  <1> QED BY <1>5, <1>6, <1>7, <1>8 DEF Marked

-----------------------------------------------------------------------------
(* UTF-16 without a mark, and text.                                          *)

\* UTF-16 without a mark reads as its text from one side and as nothing from the other
LEMMA SidesAre ==
  ASSUME NEW text \in Seq(Symbols), NEW e \in {"UTF-16LE", "UTF-16BE"},
         NEW textAt \in {0, 1}, textAt = IF e = "UTF-16LE" THEN 0 ELSE 1
  PROVE  LET s == Bytes(text, e)
         IN  /\ s \in Seq(Symbols) /\ Utf16Or32Bom(s) = "none"
             /\ ReadsLikeAPatch(TextOf(s, textAt)) <=> Evidence(text) >= 2
             /\ ~ReadsLikeAPatch(TextOf(s, 1 - textAt))
  <1> DEFINE s == Bytes(text, e)
             n == Len(text)
             seen == Seen(text)
             m == Sniffed(s)
             Rest(i) == IF text[i] = Foreign THEN Foreign ELSE Nul
  <1>1. /\ s = Body(text, e) /\ s \in Seq(Symbols) /\ s \in Seq(Units) /\ Len(s) = 2 * n
        /\ n \in Nat
    <2>1. e \in Encodings \union Marked
      BY DEF Encodings
    <2>2. Mark(e) = <<>> /\ Width(e) = 2
      BY DEF Mark, Width, Encoded
    <2>3. /\ Body(text, e) \in Seq(Symbols) /\ Len(Body(text, e)) = Width(e) * Len(text)
      BY <2>1, BodyIsSymbols
    <2>4. s = Mark(e) \o Body(text, e) /\ s \in Seq(Units)
      BY <2>1, BytesAreUnits
    <2> HIDE DEF s
    <2>5. s = Body(text, e)
      BY <2>2, <2>3, <2>4
    <2> QED BY <2>2, <2>3, <2>4, <2>5
  <1>2. m = Min({n, Window}) /\ m \in Nat /\ m <= n
    <2>1. (2 * n) \div 2 = n
      BY <1>1
    <2> QED BY <1>1, <2>1, MinOfTwo, WindowAssumption DEF Sniffed
  <1>3. /\ seen \in Seq(Symbols) /\ Len(seen) = m
        /\ \A i \in 1..m : seen[i] = text[i]
    <2> HIDE DEF m, s
    <2>1. seen = SubSeq(text, 1, m)
      BY <1>2 DEF Seen
    <2>2. n \in Nat /\ n = Len(text) /\ m \in Nat /\ m <= n
      BY <1>1, <1>2
    <2> HIDE DEF seen, n
    <2>3. SubSeq(text, 1, m) \in Seq(Symbols) /\ Len(SubSeq(text, 1, m)) = m
      BY <2>2
    <2>4. \A i \in 1..m : SubSeq(text, 1, m)[i] = text[i]
      BY <2>2
    <2> QED BY <2>1, <2>3, <2>4
  <1>4. ASSUME NEW i \in 1..m
        PROVE  s[2 * i - textAt] = Rest(i) /\ s[2 * i - 1 + textAt] = text[i]
    <2>1. i \in 1..Len(text)
      BY <1>1, <1>2
    <2>2. CASE e = "UTF-16LE"
      <3>1. Body(text, e)[2 * i - 1] = text[i] /\ Body(text, e)[2 * i] = Rest(i)
        BY <2>1, <2>2, UnitsOf16
      <3>2. 2 * i - textAt = 2 * i /\ 2 * i - 1 + textAt = 2 * i - 1
        BY <2>2
      <3> HIDE DEF s
      <3> QED BY <1>1, <3>1, <3>2
    <2>3. CASE e = "UTF-16BE"
      <3>1. Body(text, e)[2 * i - 1] = Rest(i) /\ Body(text, e)[2 * i] = text[i]
        BY <2>1, <2>3, UnitsOf16
      <3>2. 2 * i - textAt = 2 * i - 1 /\ 2 * i - 1 + textAt = 2 * i
        BY <2>3
      <3> HIDE DEF s
      <3> QED BY <1>1, <3>1, <3>2
    <2> QED BY <2>2, <2>3
  <1>5. \A i \in 1..m : text[i] \in Symbols
    BY <1>1, <1>2
  <1> HIDE DEF s, m, seen
  <1>6. TextOf(s, textAt) = AsRead(seen)
    <2>1. /\ TextOf(s, textAt) \in Seq(Text) /\ Len(TextOf(s, textAt)) = m
          /\ \A i \in 1..m :
               TextOf(s, textAt)[i] =
                 IF s[2 * i - textAt] = Nul /\ s[2 * i - 1 + textAt] \in Ascii
                 THEN s[2 * i - 1 + textAt] ELSE Foreign
      BY <1>1, TextOfIs DEF m
    <2>2. /\ AsRead(seen) \in Seq(Text) /\ Len(AsRead(seen)) = m
          /\ \A i \in 1..m :
               AsRead(seen)[i] = IF text[i] \in Ascii THEN text[i] ELSE Foreign
      BY <1>3, AsReadIs
    <2>3. ASSUME NEW i \in 1..m PROVE TextOf(s, textAt)[i] = AsRead(seen)[i]
      <3>1. text[i] \in Ascii => Rest(i) = Nul
        BY HeadFacts
      <3> HIDE DEF Rest
      <3> QED BY <1>4, <2>1, <2>2, <3>1
    <2> QED BY <2>1, <2>2, <2>3, SeqEqual
  <1>7. ReadsLikeAPatch(TextOf(s, textAt)) <=> Evidence(text) >= 2
    <2>1. ReadsLikeAPatch(AsRead(seen)) <=> Evidence(text) >= 2
      BY EvidenceIs DEF seen
    <2> QED BY <1>6, <2>1
  <1>8. ~ReadsLikeAPatch(TextOf(s, 1 - textAt))
    <2>1. 1 - textAt \in {0, 1}
      OBVIOUS
    <2>2. ASSUME NEW i \in 1..Sniffed(s)
          PROVE  \/ s[2 * i - (1 - textAt)] # Nul
                 \/ s[2 * i - 1 + (1 - textAt)] \notin Ascii
      <3>1. i \in 1..m
        BY DEF m
      <3>2. i \in Nat /\ 2 * i - 1 + (1 - textAt) = 2 * i - textAt
        BY <1>2, <3>1
      <3>3. s[2 * i - textAt] = Rest(i)
        BY <1>4, <3>1
      <3>4. Rest(i) \notin Ascii
        BY HeadFacts
      <3> HIDE DEF Rest
      <3> QED BY <3>2, <3>3, <3>4
    <2> QED BY <1>1, <2>1, <2>2, NoTextNoPatch
  <1>9. Utf16Or32Bom(s) = "none"
    BY <1>1, BomIs
  <1> QED BY <1>1, <1>7, <1>8, <1>9 DEF s

\* and that is how it is answered once it is told from text by its NULs
LEMMA UnmarkedIs ==
  ASSUME NEW text \in Seq(Symbols), NEW e \in {"UTF-16LE", "UTF-16BE"},
         Nul \in Range(Bytes(text, e))
  PROVE  Unreadable(Bytes(text, e)) = IF Evidence(text) >= 2 THEN e ELSE "binary"
  <1> DEFINE s == Bytes(text, e)
  <1>1. /\ Utf16Or32Bom(s) = "none"
        /\ e = "UTF-16LE" => /\ ReadsLikeAPatch(TextOf(s, 0)) <=> Evidence(text) >= 2
                             /\ ~ReadsLikeAPatch(TextOf(s, 1))
        /\ e = "UTF-16BE" => /\ ReadsLikeAPatch(TextOf(s, 1)) <=> Evidence(text) >= 2
                             /\ ~ReadsLikeAPatch(TextOf(s, 0))
    <2>1. CASE e = "UTF-16LE"
      <3>1. 1 - 0 = 1
        OBVIOUS
      <3> QED BY <2>1, <3>1, SidesAre
    <2>2. CASE e = "UTF-16BE"
      <3>1. 1 - 1 = 0
        OBVIOUS
      <3> QED BY <2>2, <3>1, SidesAre
    <2> QED BY <2>1, <2>2
  <1>2. \E i \in DOMAIN s : s[i] = Nul
    BY DEF Range
  <1> HIDE DEF s
  <1>3. Utf16WithoutBom(s) = IF Evidence(text) >= 2 THEN e ELSE "none"
    BY <1>1 DEF Utf16WithoutBom
  <1> QED BY <1>1, <1>2, <1>3 DEF Unreadable, s

\* without a NUL there is no text on either side
LEMMA PlainIs ==
  ASSUME NEW text \in Seq(Symbols), Nul \notin Range(Bytes(text, "UTF-8"))
  PROVE  Unreadable(Bytes(text, "UTF-8")) \in {"none", "no diff"}
  <1> DEFINE s == Bytes(text, "UTF-8")
  <1>1. s \in Seq(Symbols) /\ s \in Seq(Units)
    <2>1. "UTF-8" \in Encodings \union Marked
      BY DEF Encodings
    <2>2. Mark("UTF-8") = <<>>
      BY DEF Mark
    <2>3. Body(text, "UTF-8") \in Seq(Symbols)
      BY <2>1, BodyIsSymbols
    <2>4. s = Mark("UTF-8") \o Body(text, "UTF-8") /\ s \in Seq(Units)
      BY <2>1, BytesAreUnits
    <2> HIDE DEF s
    <2> QED BY <2>2, <2>3, <2>4
  <1>2. \A i \in 1..Len(s) : s[i] # Nul
    BY <1>1 DEF Range
  <1> HIDE DEF s
  <1>3. ASSUME NEW textAt \in {0, 1} PROVE ~ReadsLikeAPatch(TextOf(s, textAt))
    <2>1. ASSUME NEW i \in 1..Sniffed(s) PROVE s[2 * i - textAt] # Nul
      <3>1. Sniffed(s) \in Nat /\ 2 * Sniffed(s) <= Len(s)
        BY <1>1, SniffedIs
      <3>2. 2 * i - textAt \in 1..Len(s)
        BY <1>1, <3>1
      <3> QED BY <1>2, <3>2
    <2> QED BY <1>1, <2>1, NoTextNoPatch
  <1>4. Utf16WithoutBom(s) = "none"
    BY <1>3 DEF Utf16WithoutBom
  <1>5. Utf16Or32Bom(s) = "none"
    BY <1>1, BomIs
  <1>6. ~ \E i \in DOMAIN s : s[i] = Nul
    BY <1>1, <1>2
  <1> QED BY <1>4, <1>5, <1>6 DEF Unreadable, s

\* all a run can be told about its input
LEMMA UnreadableAs ==
  ASSUME NEW text \in Seq(Symbols), NEW e \in Encodings \union Marked
  PROVE  LET s == Bytes(text, e)
         IN  /\ e = "UTF-32LE BOM" => Unreadable(s) = "UTF-32LE"
             /\ e = "UTF-32BE BOM" => Unreadable(s) = "UTF-32BE"
             /\ e = "UTF-16BE BOM" => Unreadable(s) = "UTF-16BE"
             /\ e = "UTF-16LE BOM" =>
                  Unreadable(s) = IF BeginsWith(text, <<Nul>>) THEN "UTF-32LE" ELSE "UTF-16LE"
             /\ e \in {"UTF-16LE", "UTF-16BE"} /\ Nul \in Range(s) =>
                  Unreadable(s) = IF Evidence(text) >= 2 THEN e ELSE "binary"
             /\ e = "UTF-8" /\ Nul \notin Range(s) => Unreadable(s) \in {"none", "no diff"}
  <1>1. ASSUME e \in Marked, NEW name, name # "none", Utf16Or32Bom(Bytes(text, e)) = name
        PROVE  Unreadable(Bytes(text, e)) = name
    BY <1>1 DEF Unreadable
  <1>2. e = "UTF-32LE BOM" => Unreadable(Bytes(text, e)) = "UTF-32LE"
    BY <1>1, MarkedIs DEF Marked
  <1>3. e = "UTF-32BE BOM" => Unreadable(Bytes(text, e)) = "UTF-32BE"
    BY <1>1, MarkedIs DEF Marked
  <1>4. e = "UTF-16BE BOM" => Unreadable(Bytes(text, e)) = "UTF-16BE"
    BY <1>1, MarkedIs DEF Marked
  <1>5. ASSUME e = "UTF-16LE BOM"
        PROVE  Unreadable(Bytes(text, e)) =
                 IF BeginsWith(text, <<Nul>>) THEN "UTF-32LE" ELSE "UTF-16LE"
    <2>1. Utf16Or32Bom(Bytes(text, e)) =
            IF BeginsWith(text, <<Nul>>) THEN "UTF-32LE" ELSE "UTF-16LE"
      BY <1>5, MarkedIs DEF Marked
    <2> QED BY <2>1 DEF Unreadable
  <1> QED BY <1>2, <1>3, <1>4, <1>5, UnmarkedIs, PlainIs

(* The reader is sent after the right thing, whatever its input and however *)
(* long the window that is looked at (src/main.rs, reject_non_diff).        *)
THEOREM EncodingIsRight == Spec => []EncodingIsNamed
  <1>1. ASSUME IInv PROVE EncodingIsNamed
    <2> DEFINE e == source.encoding
               text == source.text
    <2>1. SUFFICES ASSUME JudgedByIt, ~WholeBlank
          PROVE  CASE e = "UTF-32LE BOM" -> answer = "UTF-32LE"
                   [] e = "UTF-32BE BOM" -> answer = "UTF-32BE"
                   [] e = "UTF-16LE BOM" ->
                        answer = IF BeginsWith(text, <<Nul>>) THEN "UTF-32LE" ELSE "UTF-16LE"
                   [] e = "UTF-16BE BOM" -> answer = "UTF-16BE"
                   [] e \in {"UTF-16LE", "UTF-16BE"} /\ Nul \in Range(bytes) ->
                        answer = IF Evidence(text) >= 2 THEN e ELSE "binary"
                   [] e = "UTF-8" /\ Nul \notin Range(bytes) ->
                        answer \in {"no diff", "parse", "input"}
                   [] OTHER -> TRUE
      BY DEF EncodingIsNamed
    <2>2. /\ text \in Seq(Symbols) /\ e \in Encodings \union Marked
          /\ bytes = Bytes(text, e)
      <3>1. source \in Sources
        BY <1>1, <2>1 DEF IInv, RunTypeOK, InputTypeOK, LoadInv, JudgedByIt
      <3> QED BY <3>1, SourceIs DEF bytes
    <2>3. \/ answer = Unreadable(bytes) /\ answer # "none"
          \/ answer \in {"parse", "input"} /\ Unreadable(bytes) = "none"
      BY <1>1, <2>1 DEF IInv, RefusalInv, Refused, LoadInv, JudgedByIt
    <2> HIDE DEF e, text
    <2>4. /\ e = "UTF-32LE BOM" => Unreadable(bytes) = "UTF-32LE"
          /\ e = "UTF-32BE BOM" => Unreadable(bytes) = "UTF-32BE"
          /\ e = "UTF-16BE BOM" => Unreadable(bytes) = "UTF-16BE"
          /\ e = "UTF-16LE BOM" =>
               Unreadable(bytes) = IF BeginsWith(text, <<Nul>>) THEN "UTF-32LE" ELSE "UTF-16LE"
          /\ e \in {"UTF-16LE", "UTF-16BE"} /\ Nul \in Range(bytes) =>
               Unreadable(bytes) = IF Evidence(text) >= 2 THEN e ELSE "binary"
          /\ e = "UTF-8" /\ Nul \notin Range(bytes) => Unreadable(bytes) \in {"none", "no diff"}
      BY <2>2, UnreadableAs
    <2> QED BY <2>3, <2>4
  <1> QED BY <1>1, Invariance, PTL
=============================================================================

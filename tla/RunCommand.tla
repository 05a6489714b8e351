----------------------------- MODULE RunCommand -----------------------------
(***************************************************************************)
(* A run of hunkpick (src/main.rs run): the input is read under its limit, *)
(* screened (DiffEvidence), parsed and validated; then `list` writes its   *)
(* text, `select` and `split` go on to emit_verified (EmitVerified).       *)
(*                                                                         *)
(* Parsing, validating and choosing are here only by their outcome; Parse, *)
(* ResolveSelectors, SelectFile and SplitFile model them.                  *)
(***************************************************************************)
EXTENDS EmitVerified, DiffEvidence, SequencesExt

CONSTANTS Inputs,    \* what may stand on the input: [text, encoding, limit]
          MaxU64     \* the largest --max-input-bytes

\* texts are encoded byte by byte below; a UTF-32 one always has its mark, for
\* a head taken for one symbol would be read whole in it
Encodings == {"UTF-8", "UTF-16LE", "UTF-16BE"}
Marked    == {"UTF-16LE BOM", "UTF-16BE BOM", "UTF-32LE BOM", "UTF-32BE BOM"}

Encoded(symbol, encoding) ==
  CASE encoding = "UTF-8"                     -> <<symbol>>
    [] encoding \in {"UTF-16LE", "UTF-16LE BOM"} ->
         <<symbol, IF symbol = Foreign THEN Foreign ELSE Nul>>
    [] encoding \in {"UTF-16BE", "UTF-16BE BOM"} ->
         <<IF symbol = Foreign THEN Foreign ELSE Nul, symbol>>
    [] encoding = "UTF-32LE BOM"              -> <<symbol, Nul, Nul, Nul>>
    [] encoding = "UTF-32BE BOM"              -> <<Nul, Nul, Nul, symbol>>

Mark(encoding) ==
  CASE encoding = "UTF-16LE BOM" -> <<MarkFF, MarkFE>>
    [] encoding = "UTF-16BE BOM" -> <<MarkFE, MarkFF>>
    [] encoding = "UTF-32LE BOM" -> <<MarkFF, MarkFE, Nul, Nul>>
    [] encoding = "UTF-32BE BOM" -> <<Nul, Nul, MarkFE, MarkFF>>
    [] OTHER                     -> <<>>

\* every symbol takes as many units
Width(encoding) == Len(Encoded(Nul, encoding))

Bytes(text, encoding) ==
  LET w == Width(encoding)
  IN  Mark(encoding) \o [i \in 1..(w * Len(text)) |->
                           Encoded(text[((i - 1) \div w) + 1], encoding)[((i - 1) % w) + 1]]

Sources == {[text |-> i.text, encoding |-> i.encoding, limit |-> i.limit,
             bytes |-> Bytes(i.text, i.encoding)] : i \in Inputs}

ASSUME SourcesAssumption ==
  /\ MaxU64 \in Nat
  /\ \A i \in Inputs :
       /\ i.text \in Seq(Ascii \union {Nul, Foreign})
       /\ i.encoding \in Encodings \union Marked
       /\ i.limit \in 0..MaxU64
       /\ Len(Bytes(i.text, i.encoding)) <= MaxU64

\* the patch is parsed: the input is of no more use
Dropped == [text |-> <<>>, encoding |-> "none", limit |-> 0, bytes |-> <<>>]

VARIABLES
  load,      \* load_and_parse: "open", "read", "screen", "parse", "validate",
             \*   "loaded", or "given" away and its buffer dropped
  source,    \* what is read
  buf,       \* bytes of it read
  answer,    \* why the input or the request was refused: "none", "io", "too large",
             \*   an encoding, "binary", "no diff", "parse", "input" or "selectors"
  command    \* "none" until it tells, then what is written: by `list` "human",
             \*   "json" or "nothing", by `select` and `split` "result"

input   == <<load, source, buf>>
runVars == <<vars, input, answer, command>>

Init ==
  /\ EmitInit
  /\ load = "open"
  /\ source \in Sources
  /\ buf = 0
  /\ answer = "none"
  /\ command = "none"

bytes == source.bytes

Refuse(why, code) ==
  /\ answer' = why
  /\ Exit(code)
  /\ UNCHANGED <<feed, request, output, input, command>>

Loading(from, to) ==
  /\ stage = "idle"
  /\ load = from /\ load' = to
  /\ UNCHANGED <<vars, answer, command>>

-----------------------------------------------------------------------------
(* read_source and read_limited                                              *)

Open == Loading("open", "read") /\ UNCHANGED <<source, buf>>

OpenFails == stage = "idle" /\ load = "open" /\ Refuse("io", "Io")

\* mutant: limit + 1 wraps at the largest limit
Allowed_Wraps == IF source.limit = 0 THEN Len(bytes)
                 ELSE Min({Len(bytes), (source.limit + 1) % (MaxU64 + 1)})

\* one byte past the limit, which tells a full input from a larger one
Allowed == IF source.limit = 0 THEN Len(bytes)
           ELSE Min({Len(bytes), Min({source.limit + 1, MaxU64})})

ReadSome ==
  /\ Loading("read", "read")
  /\ \E n \in (buf + 1)..Allowed : buf' = n
  /\ UNCHANGED source

ReadFails == stage = "idle" /\ load = "read" /\ Refuse("io", "Io")

TooLarge == source.limit # 0 /\ buf > source.limit

ReadEnds ==
  /\ buf = Allowed /\ ~TooLarge
  /\ Loading("read", "screen")
  /\ UNCHANGED <<source, buf>>

RefuseSize ==
  /\ stage = "idle" /\ load = "read"
  /\ buf = Allowed /\ TooLarge
  /\ Refuse("too large", "Usage")

-----------------------------------------------------------------------------
(* load_and_parse and reject_non_diff, of what was read                      *)

\* mutant: nothing at all is no diff
Blank_OnlySpace(read) == read # <<>> /\ Range(read) \subseteq Space

Blank(read) == Range(read) \subseteq Space

NoOp(read) ==
  /\ Blank(read)
  /\ Exit("Applies")
  /\ UNCHANGED <<feed, request, output, input, answer, command>>

RefuseNonDiff(read) ==
  /\ ~Blank(read) /\ Unreadable(read) # "none"
  /\ Refuse(Unreadable(read), "Usage")

PassScreen(read) ==
  /\ ~Blank(read) /\ Unreadable(read) = "none"
  /\ Loading("screen", "parse")
  /\ UNCHANGED <<source, buf>>

Screen ==
  /\ stage = "idle" /\ load = "screen"
  /\ \E read \in {SubSeq(bytes, 1, buf)} : NoOp(read) \/ RefuseNonDiff(read) \/ PassScreen(read)

ParseFails    == stage = "idle" /\ load = "parse" /\ Refuse("parse", "Usage")
Parsed        == Loading("parse", "validate") /\ UNCHANGED <<source, buf>>
ValidateFails == stage = "idle" /\ load = "validate" /\ Refuse("input", "Usage")

\* the patch is handed on and the buffer is dropped
Validated ==
  /\ Loading("validate", "loaded")
  /\ source' = Dropped /\ buf' = 0

-----------------------------------------------------------------------------
(* run_list, run_select and run_split, from the patch on                     *)

RefuseSelectors == stage = "idle" /\ load = "loaded" /\ Refuse("selectors", "Usage")

RunResult ==
  /\ load = "loaded"
  /\ Call
  /\ command' = "result"
  /\ load' = "given"
  /\ UNCHANGED <<source, buf, answer>>

RunList ==
  /\ stage = "idle" /\ load = "loaded"
  /\ stage' = "list"
  /\ command' \in {"human", "json", "nothing"}
  /\ load' = "given"
  /\ UNCHANGED <<feed, request, output, exitCode, source, buf, answer>>

\* the human listing ends in a newline, or is empty when there is nothing to
\* list; the JSON document has a tail
ListLines == IF command = "nothing" THEN 0 ELSE ResultLines
ListTail  == IF command = "json" THEN 1 ELSE 0

AfterList == IF ListLines > 0 /\ ListTail = 0 THEN "flush" ELSE "newline"

\* the newline sends out what waited before it, and is a unit of its own
WriteNewline ==
  /\ stage = "newline" /\ reader = "there"
  /\ delivered' = delivered + buffered + 1
  /\ buffered' = 0
  /\ stage' = "flush"
  /\ UNCHANGED <<feed, request, reader, exitCode>>

NewlineIsBroken ==
  /\ stage = "newline" /\ reader = "gone"
  /\ stage' = "flush"
  /\ UNCHANGED <<feed, request, output, exitCode>>

NewlineFails ==
  /\ stage = "newline"
  /\ Exit("Io")
  /\ UNCHANGED <<feed, request, output>>

ListSteps ==
  \/ WriteLine("list", ListLines) \/ BufferTail("list", ListLines, ListTail, AfterList)
  \/ WriteIsBroken("list", ListLines, AfterList)
  \/ WriteNewline \/ NewlineIsBroken

-----------------------------------------------------------------------------
Load ==
  \/ Open \/ ReadSome \/ ReadEnds \/ RefuseSize \/ Screen
  \/ Parsed \/ Validated \/ RunResult \/ RunList

LoadFails == OpenFails \/ ReadFails \/ ParseFails \/ ValidateFails \/ RefuseSelectors

Writing(step) == step /\ UNCHANGED <<input, answer, command>>

Exited == stage = "exited" /\ UNCHANGED runVars

Next ==
  \/ Load \/ LoadFails
  \/ Writing(EmitNext) \/ Writing(ListSteps)
  \/ Writing(WriteFails("list", ListLines)) \/ Writing(NewlineFails)
  \/ Exited

\* hunkpick's threads are scheduled, its input comes to an end, and git goes on
\* while nothing blocks it
Spec ==
  /\ Init /\ [][Next]_runVars
  /\ WF_runVars(Load) /\ WF_runVars(Writing(Steps)) /\ WF_runVars(Writing(ListSteps))
  /\ WF_runVars(Writing(InGit(F!MainStep))) /\ WF_runVars(Writing(InGit(F!WriterStep)))
  /\ WF_runVars(Writing(InGit(F!ChildStep)))
  /\ \A s \in F!Streams : WF_runVars(Writing(InGit(F!ReaderStep(s))))

-----------------------------------------------------------------------------
(* What the input is, whatever was read of it.                               *)
WholeBlank  == Range(bytes) \subseteq Space
JudgedByIt  == stage = "exited" /\ load \in {"screen", "parse", "validate"}

\* the symbols of the text that are looked at
Seen(text) == SubSeq(text, 1, Min({Len(text), Window}))

\* a whole line a diff writes begins at i: a head with what belongs to it, a
\* path in any script and the rest in ASCII
Whole(seen, i) ==
  /\ seen[i] \in Markers \union PathHeads \union AsciiHeads
  /\ i = 1 \/ seen[i - 1] = Newline
  /\ \E k \in (i + 1)..Len(seen) :
       /\ seen[k] \notin Space
       /\ \A j \in (i + 1)..k : /\ seen[j] # Newline
                                /\ seen[i] \in PathHeads \/ seen[j] \notin {Foreign, Nul}
  /\ seen[i] = HunkHead => seen[i + 1] = Ranges

Evidence(text) == Cardinality({i \in DOMAIN Seen(text) : Whole(Seen(text), i)})

(* The limit is exact: an input of just that size is read whole, one byte    *)
(* more is refused as too large, and however long the stream is no more than *)
(* that one byte is buffered past the limit, u64::MAX included (src/main.rs, *)
(* read_limited).                                                            *)
LimitIsExact ==
  /\ answer = "too large" => source.limit # 0 /\ Len(bytes) > source.limit
  /\ load \in {"screen", "parse", "validate"} =>
       buf = Len(bytes) /\ (source.limit # 0 => buf <= source.limit)
  /\ source.limit # 0 => buf <= source.limit + 1

(* "Empty / whitespace-only input is a no-op (exit 0) for every subcommand"  *)
(* (src/main.rs, load_and_parse): once read it ends in success, with nothing *)
(* written and the selectors not looked at, and no other input ends so.      *)
NoOpNeverFails ==
  JudgedByIt => (exitCode = 0 <=> WholeBlank)

(* The reader is sent after the right thing (src/main.rs, reject_non_diff):  *)
(* a mark is answered by its own encoding (before a NUL the one of UTF-16LE  *)
(* is the one of UTF-32LE), UTF-16 without one by its own                    *)
(* byte order when two whole diff lines stand in the window and as binary    *)
(* when they do not, and text that holds no NUL is never taken for either.   *)
EncodingIsNamed ==
  JudgedByIt /\ ~WholeBlank =>
    CASE source.encoding = "UTF-32LE BOM" -> answer = "UTF-32LE"
      [] source.encoding = "UTF-32BE BOM" -> answer = "UTF-32BE"
      [] source.encoding = "UTF-16LE BOM" ->
           answer = IF BeginsWith(source.text, <<Nul>>) THEN "UTF-32LE" ELSE "UTF-16LE"
      [] source.encoding = "UTF-16BE BOM" -> answer = "UTF-16BE"
      [] source.encoding \in {"UTF-16LE", "UTF-16BE"} /\ Nul \in Range(bytes) ->
           answer = IF Evidence(source.text) >= 2 THEN source.encoding ELSE "binary"
      [] source.encoding = "UTF-8" /\ Nul \notin Range(bytes) ->
           answer \in {"no diff", "parse", "input"}
      [] OTHER -> TRUE

\* a listing has a line at least, an empty one included
WholeOutput ==
  CASE command = "human"   -> IF ResultLines = 0 THEN 1 ELSE ResultLines
    [] command = "nothing" -> 1
    [] command = "json"    -> ResultLines + 2
    [] command = "result"  -> ResultLines + ResultTail

(* Exit 0 means everything was delivered, the end after the last newline     *)
(* included and, for a JSON listing and an empty one, the newline that ends  *)
(* it, unless the input was blank or the reader left of its own accord       *)
(* (src/main.rs, main: "A full disk or a closed device would then truncate   *)
(* the output while the process reported success").                          *)
SuccessIsDelivered ==
  exitCode = 0 => load # "given" \/ reader = "gone" \/ delivered = WholeOutput

(* The command ends, whatever git says before it reads.                      *)
CommandEnds == <>(stage = "exited")
=============================================================================

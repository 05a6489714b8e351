------------------------------- MODULE Parse --------------------------------
(***************************************************************************)
(* src/parser.rs parse: the automaton that reads a diff line by line.  One *)
(* action is one branch of its loop, and the branches are tried in the     *)
(* order of the code.  The next line can be anything: what the input is,   *)
(* is chosen while it is read.  Paths and the ending of the last line are  *)
(* not modelled.                                                           *)
(***************************************************************************)
EXTENDS DiffLines

CONSTANTS
  InputLines,    \* what a line of input can be
  Admits(_)      \* bound: the inputs tried

VARIABLES
  phase,         \* "reading", "parsed", or the ParseError that ended it
  input,         \* the lines read so far
  preamble, files,   \* Patch
  cur,           \* the entry being read: none or one
  inHunk,        \* FileState
  sawHunk,
  sawMarkerPair,
  remaining      \* Remaining: what the hunk header promised and has not come

st   == <<inHunk, sawHunk, sawMarkerPair, remaining>>
vars == <<phase, input, preamble, files, cur, st>>

Nothing == [old |-> 0, new |-> 0]
Exhausted == remaining = Nothing

Init ==
  /\ phase = "reading"
  /\ input = <<>> /\ preamble = <<>> /\ files = <<>> /\ cur = <<>>
  /\ inHunk = FALSE /\ sawHunk = FALSE /\ sawMarkerPair = FALSE
  /\ remaining = Nothing

-----------------------------------------------------------------------------
(* Which branch a line takes.                                                *)

IsCombined(line) == line.lead = "@@@"
IsGit(line)      == line = GitHeader

\* mutant: any hunk lets a file header in, read to its end or not
StartsPlainFile_Unguarded(line) ==
  line = OldHeader /\ (cur = <<>> \/ sawHunk \/ sawMarkerPair)

\* mutant: only the first entry is begun like this
StartsPlainFile_FirstOnly(line) == line = OldHeader /\ cur = <<>>

\* inside a body a deleted line can look like a file header
StartsPlainFile(line) ==
  line = OldHeader /\ (\/ cur = <<>>
                       \/ sawHunk /\ Exhausted
                       \/ ~sawHunk /\ sawMarkerPair)

\* a line of the entry being read, or of the preamble
Ordinary(line) ==
  /\ inHunk \/ ~IsCombined(line)
  /\ ~IsGit(line) /\ ~StartsPlainFile(line)

InEntry(line) == Ordinary(line) /\ cur # <<>>

\* a transport may have stripped the space of an empty context line
KindOf == [lead \in {" ", "", "+", "-"} |->
            CASE lead \in {" ", ""} -> "ctx" [] lead = "+" -> "add" [] lead = "-" -> "del"]

\* a hunk header is read into u32 starts and counts, or refused; no line of a
\* body has numbers, and a line without a leading character has no rest
ASSUME LinesAssumption ==
  \A line \in InputLines :
    /\ line.lead \in DOMAIN KindOf => line.text \in Texts /\ line = TextLine(line.lead, line.text)
    /\ line.lead = "" => line = Blank
    /\ line.lead = "@@" /\ line # BadHeader =>
         /\ line.range \in U32 \X Nat \X U32 \X Nat
         /\ line = HunkHeader(line.range[1], line.range[2], line.range[3], line.range[4])

\* mutant: body lines are taken whatever the header promised
IsBodyLine_Unbounded(line) == line.lead \in DOMAIN KindOf

\* a body line the counts of the header have room for
IsBodyLine(line) ==
  /\ line.lead \in DOMAIN KindOf
  /\ KindOf[line.lead] \in OldSide => remaining.old > 0
  /\ KindOf[line.lead] \in NewSide => remaining.new > 0

-----------------------------------------------------------------------------
File     == cur[1]
LastHunk == File.hunks[Len(File.hunks)]

\* mutant: every line that is not of a body is a header
PushHeader_Above(f, line) ==
  IF IsBinary(f) THEN [f EXCEPT !.payload = Append(@, line)]
  ELSE [f EXCEPT !.headers = Append(@, line)]

\* a line that is not of a body: where in the entry it is kept
PushHeader(f, line) ==
  CASE IsBinary(f)      -> [f EXCEPT !.payload = Append(@, line)]
    [] ~IsBinary(f) /\ f.hunks # <<>>
         -> [f EXCEPT !.trailer = Append(@, [at |-> Len(f.hunks), line |-> line])]
    [] ~IsBinary(f) /\ f.hunks = <<>> /\ line = BinaryTag
         -> [f EXCEPT !.payload = <<line>>]
    [] OTHER            -> [f EXCEPT !.headers = Append(@, line)]

Fail(why) ==
  /\ phase' = why
  /\ UNCHANGED <<preamble, files, cur, st>>

\* mutant: what was seen of the last entry is not forgotten
OpenFile_StateKept(f) ==
  /\ files' = files \o cur
  /\ cur' = <<f>>
  /\ UNCHANGED <<phase, preamble, st>>

\* the entry being read is complete, another begins
OpenFile(f) ==
  /\ files' = files \o cur
  /\ cur' = <<f>>
  /\ inHunk' = FALSE /\ sawHunk' = FALSE /\ sawMarkerPair' = FALSE
  /\ remaining' = Nothing
  /\ UNCHANGED <<phase, preamble>>

RefuseCombined(line) == ~inHunk /\ IsCombined(line) /\ Fail("Combined")

GitFile(line) == IsGit(line) /\ OpenFile(NewFile(<<line>>))

PlainFile(line) == StartsPlainFile(line) /\ OpenFile(PushHeader(NewFile(<<>>), line))

Preamble(line) ==
  /\ Ordinary(line) /\ cur = <<>>
  /\ preamble' = Append(preamble, line)
  /\ UNCHANGED <<phase, files, cur, st>>

BadHunk(line) ==
  /\ InEntry(line) /\ line = BadHeader
  /\ Fail("BadHunkHeader")

HunkInBinary(line) ==
  /\ InEntry(line) /\ line.lead = "@@" /\ line # BadHeader
  /\ IsBinary(File)
  /\ Fail("Unexpected")

\* a hunk that promises no line has no body to read
OpenHunk(line) ==
  /\ InEntry(line) /\ line.lead = "@@" /\ line # BadHeader
  /\ ~IsBinary(File)
  /\ LET h == [old_start |-> line.range[1], old_lines |-> line.range[2],
               new_start |-> line.range[3], new_lines |-> line.range[4], lines |-> <<>>]
     IN  /\ cur' = <<[File EXCEPT !.hunks = Append(@, h)]>>
         /\ remaining' = [old |-> h.old_lines, new |-> h.new_lines]
  /\ sawHunk' = TRUE
  /\ inHunk' = (remaining' # Nothing)
  /\ UNCHANGED <<phase, preamble, files, sawMarkerPair>>

InBody(line) == InEntry(line) /\ line.lead # "@@" /\ inHunk

WithLines(lines) == <<[File EXCEPT !.hunks[Len(File.hunks)].lines = lines]>>

BodyLine(line) ==
  /\ InBody(line) /\ IsBodyLine(line)
  /\ LET kind == KindOf[line.lead]
     IN  /\ cur' = WithLines(Append(LastHunk.lines,
                                    [kind |-> kind, text |-> line.text, nonl |-> FALSE]))
         /\ remaining' = [old |-> remaining.old - (IF kind \in OldSide THEN 1 ELSE 0),
                          new |-> remaining.new - (IF kind \in NewSide THEN 1 ELSE 0)]
  /\ UNCHANGED <<phase, preamble, files, inHunk, sawHunk, sawMarkerPair>>

\* the marker is the last line's, whatever that had before
Marker(line) ==
  /\ InBody(line) /\ line = NoNewline
  /\ LastHunk.lines # <<>>
  /\ cur' = WithLines([LastHunk.lines EXCEPT ![Len(LastHunk.lines)].nonl = TRUE])
  /\ UNCHANGED <<phase, preamble, files, st>>

EndHunk(line) ==
  /\ InBody(line)
  /\ ~IsBodyLine(line)
  /\ line = NoNewline => LastHunk.lines = <<>>
  /\ cur' = <<PushHeader(File, line)>>
  /\ inHunk' = FALSE
  /\ UNCHANGED <<phase, preamble, files, sawHunk, sawMarkerPair, remaining>>

Header(line) ==
  /\ InEntry(line) /\ line.lead # "@@" /\ ~inHunk
  /\ cur' = <<PushHeader(File, line)>>
  /\ sawMarkerPair' = (sawMarkerPair \/ line = NewHeader)
  /\ UNCHANGED <<phase, preamble, files, inHunk, sawHunk, remaining>>

Read(line) ==
  /\ phase = "reading"
  /\ input' = Append(input, line)
  /\ Admits(input')
  /\ \/ RefuseCombined(line) \/ GitFile(line) \/ PlainFile(line) \/ Preamble(line)
     \/ BadHunk(line) \/ HunkInBinary(line) \/ OpenHunk(line)
     \/ BodyLine(line) \/ Marker(line) \/ EndHunk(line) \/ Header(line)

EndOfInput ==
  /\ phase = "reading"
  /\ phase' = "parsed"
  /\ files' = files \o cur
  /\ cur' = <<>>
  /\ UNCHANGED <<input, preamble, st>>

Returned == phase # "reading" /\ UNCHANGED vars

Next == (\E line \in InputLines : Read(line)) \/ EndOfInput \/ Returned

Spec == Init /\ [][Next]_vars

-----------------------------------------------------------------------------
Patch == files \o cur

Lines == Seq(InputLines)
TrailerLine == [at : Nat \ {0}, line : InputLines]
Entry == [headers : Lines, hunks : Seq(Hunk), payload : Lines, trailer : Seq(TrailerLine)]

TypeOK ==
  /\ phase \in {"reading", "parsed", "Combined", "BadHunkHeader", "Unexpected"}
  /\ input \in Lines /\ preamble \in Lines
  /\ files \in Seq(Entry) /\ cur \in Seq(Entry) /\ Len(cur) <= 1
  /\ inHunk \in BOOLEAN /\ sawHunk \in BOOLEAN /\ sawMarkerPair \in BOOLEAN
  /\ remaining \in [old : Nat, new : Nat]

Taken(h, side) == Count(h.lines, side)
WithinCounts(h) == Taken(h, OldSide) <= h.old_lines /\ Taken(h, NewSide) <= h.new_lines
Complete(h) == Taken(h, OldSide) = h.old_lines /\ Taken(h, NewSide) = h.new_lines
AllComplete(f) == \A j \in DOMAIN f.hunks : Complete(f.hunks[j])

\* what the last hunk still lacks is what remaining says
BudgetIsTheLastHunks ==
  /\ Taken(LastHunk, OldSide) + remaining.old = LastHunk.old_lines
  /\ Taken(LastHunk, NewSide) + remaining.new = LastHunk.new_lines

(* A body never outgrows its header, and what the header still promises is  *)
(* what the guards of the next line see: the budget is the last hunk's and  *)
(* of no hunk before it (src/parser.rs, take_body_line and open_hunk).      *)
BodiesKeepToTheirCounts ==
  /\ \A i \in DOMAIN Patch : \A j \in DOMAIN Patch[i].hunks : WithinCounts(Patch[i].hunks[j])
  /\ cur # <<>> /\ sawHunk => BudgetIsTheLastHunks

HoldsFileHeader(f) == \E t \in DOMAIN f.trailer : f.trailer[t].line = OldHeader

(* An entry whose hunks are all complete, which is what validate_input asks *)
(* of it, has not swallowed the header of the next file (src/parser.rs,     *)
(* starts_plain_file; src/validate.rs, check_one_hunk).                     *)
EntriesHoldOneFile ==
  \A i \in DOMAIN Patch : AllComplete(Patch[i]) => ~HoldsFileHeader(Patch[i])

\* what validate_input goes on with
Accepted == phase = "parsed" /\ \A i \in DOMAIN Patch : AllComplete(Patch[i])
=============================================================================

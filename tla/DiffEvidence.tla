---------------------------- MODULE DiffEvidence ----------------------------
(***************************************************************************)
(* What hunkpick takes a byte stream for before it parses it: the marks    *)
(* and the UTF-16 sniffing of src/main.rs, the lines a diff writes of      *)
(* src/parser.rs.  Pure operators.                                         *)
(*                                                                         *)
(* A stream is a sequence of symbols.  The head of a line ("--- ", "index  *)
(* ") is one symbol, so no head begins another, and no window ends inside  *)
(* one; a byte that is neither ASCII nor NUL is "foreign".                 *)
(***************************************************************************)
EXTENDS Integers, Sequences, FiniteSets, FiniteSetsExt

CONSTANT Window   \* code units looked at: UTF16_SNIFF_BYTES / 2

ASSUME WindowAssumption == Window \in Nat

HunkHead    == "@@ "
Ordinary    == {"diff --git ", "--- ", "+++ ", HunkHead, "Binary files "}
Combined    == {"diff --cc ", "diff --combined ", "@@@"}
Markers     == Ordinary \union Combined
PathHeads   == {"rename from ", "rename to ", "copy from ", "copy to "}
AsciiHeads  == {"index ", "similarity index ", "dissimilarity index ", "new file mode ",
                "deleted file mode ", "old mode ", "new mode "}

Newline == "\n"
Space   == {" ", Newline}
Ranges  == "-1 +1 @@"      \* what makes a hunk header of "@@ "
Ascii   == Markers \union PathHeads \union AsciiHeads \union Space \union {Ranges, "x"}
Nul     == "nul"
Foreign == "foreign"
MarkFE  == "fe"
MarkFF  == "ff"

-----------------------------------------------------------------------------
(* Lines.                                                                    *)

LineStarts(s) == {1} \union {i + 1 : i \in {k \in DOMAIN s : s[k] = Newline}}
LineAt(s, from) ==
  LET ends == {i \in from..Len(s) : s[i] = Newline}
  IN  SubSeq(s, from, IF ends = {} THEN Len(s) ELSE Min(ends) - 1)

OpensWith(line, heads) == line # <<>> /\ line[1] \in heads

\* carries_something_past its head
SaysMore(line) == \E i \in 2..Len(line) : line[i] \notin Space

\* looks_like_a_diff
LooksLikeADiff(s) == \E from \in LineStarts(s) : OpensWith(LineAt(s, from), Markers)

IsHunkHeader(line) == Len(line) >= 2 /\ line[1] = HunkHead /\ line[2] = Ranges

SaysWhatItsMarkerPromises(line) ==
  IF OpensWith(line, {HunkHead}) THEN IsHunkHeader(line)
  ELSE OpensWith(line, Markers) /\ SaysMore(line)

\* a path may be in any script, so it is not read
ReadsAsADiffLine(line) ==
  \/ SaysWhatItsMarkerPromises(line)
  \/ OpensWith(line, PathHeads)
  \/ OpensWith(line, AsciiHeads) /\ SaysMore(line)

-----------------------------------------------------------------------------
(* UTF-16 without a byte-order mark.                                         *)

ReadAsAscii(line) ==
  LET stops == {i \in DOMAIN line : line[i] = Foreign}
  IN  IF stops = {} THEN line ELSE SubSeq(line, 1, Min(stops) - 1)

\* but it is required to be there
CountsAsADiffLine(line) ==
  /\ ReadsAsADiffLine(ReadAsAscii(line))
  /\ OpensWith(line, PathHeads) => SaysMore(line)

Sniffed(s) == Min({Len(s) \div 2, Window})

\* the text of the window if the ASCII byte of a unit is its first (0) or
\* second (1)
TextOf(s, textAt) ==
  LET Unit(i) == LET text == s[2 * i - 1 + textAt]
                     nul  == s[2 * i - textAt]
                 IN  IF nul = Nul /\ text \in Ascii THEN text ELSE Foreign
  IN  SubSeq([i \in 1..Sniffed(s) |-> Unit(i)], 1, Sniffed(s))

\* mutant: one line is evidence
ReadsLikeAPatch_OneLine(text) ==
  \E from \in LineStarts(text) : CountsAsADiffLine(LineAt(text, from))

ReadsLikeAPatch(text) ==
  Cardinality({from \in LineStarts(text) : CountsAsADiffLine(LineAt(text, from))}) >= 2

Utf16WithoutBom(s) ==
  IF ReadsLikeAPatch(TextOf(s, 0)) THEN "UTF-16LE"
  ELSE IF ReadsLikeAPatch(TextOf(s, 1)) THEN "UTF-16BE" ELSE "none"

-----------------------------------------------------------------------------
(* Byte-order marks.                                                         *)

BeginsWith(s, mark) == Len(s) >= Len(mark) /\ SubSeq(s, 1, Len(mark)) = mark

Utf16Or32Bom(s) ==
  CASE BeginsWith(s, <<MarkFF, MarkFE, Nul, Nul>>) -> "UTF-32LE"
    [] BeginsWith(s, <<Nul, Nul, MarkFE, MarkFF>>) -> "UTF-32BE"
    [] BeginsWith(s, <<MarkFF, MarkFE>>) /\ ~BeginsWith(s, <<MarkFF, MarkFE, Nul, Nul>>)
                                                   -> "UTF-16LE"
    [] BeginsWith(s, <<MarkFE, MarkFF>>)           -> "UTF-16BE"
    [] OTHER                                       -> "none"

\* reject_non_diff
Unreadable(s) ==
  CASE Utf16Or32Bom(s) # "none"                              -> Utf16Or32Bom(s)
    [] Utf16Or32Bom(s) = "none" /\ Utf16WithoutBom(s) # "none" -> Utf16WithoutBom(s)
    [] OTHER -> IF \E i \in DOMAIN s : s[i] = Nul THEN "binary"
                ELSE IF LooksLikeADiff(s) THEN "none" ELSE "no diff"
=============================================================================

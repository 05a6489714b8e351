----------------------------- MODULE DiffLines ------------------------------
(***************************************************************************)
(* The lines of a diff, and the file entries the parser makes of them      *)
(* (src/model.rs Patch, FileDiff).                                         *)
(*                                                                         *)
(* A line is its leading character, the rest of it and, for a hunk header, *)
(* the four numbers.  Paths, sections and line endings are left out.       *)
(***************************************************************************)
EXTENDS Hunks

NoRange == <<>>
TextLine(lead, text) == [lead |-> lead, text |-> text, range |-> NoRange]

GitHeader   == TextLine("d", "diff --git")
OldHeader   == TextLine("-", "-- x")
NewHeader   == TextLine("+", "++ x")
NoNewline   == TextLine("\\", "No newline")
Blank       == TextLine("", "")
BadHeader   == TextLine("@@", "")
CombinedTag == TextLine("@@@", "")
BinaryTag   == TextLine("B", "Binary files")
HunkHeader(os, ol, ns, nl) ==
  [lead |-> "@@", text |-> "", range |-> <<os, ol, ns, nl>>]

\* an entry.  payload is the body of a binary entry and empty in a text one; a
\* trailer line knows how many hunks stand above it
NewFile(headers) == [headers |-> headers, hunks |-> <<>>, payload |-> <<>>, trailer |-> <<>>]
IsBinary(f) == f.payload # <<>>
=============================================================================

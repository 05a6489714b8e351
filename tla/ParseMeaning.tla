---------------------------- MODULE ParseMeaning ----------------------------
(***************************************************************************)
(* What Parse makes of a text, compared with the text.                     *)
(***************************************************************************)
EXTENDS ParseInv, DiffText

Accepting == phase \in {"reading", "parsed"}

\* an empty context line is written with the space it may have lost
Restored(line) == IF line = TextLine(" ", "") THEN Blank ELSE line
Same(a, b) == /\ Len(a) = Len(b)
              /\ \A i \in DOMAIN a : Restored(a[i]) = Restored(b[i])

MarkersApart == \A i \in 1..(Len(input) - 1) : input[i] # NoNewline \/ input[i + 1] # NoNewline

(* "Round-trips its input byte for byte" (src/emit.rs, emit): whatever the  *)
(* lines are and in whatever order they come, the entries read so far stand *)
(* for exactly the text read so far, each line in its place, but for an     *)
(* empty context line that regains its space.                               *)
RoundTrip == Accepting /\ MarkersApart => Same(PatchText(preamble, Patch), input)

(* "preserving every byte needed to render it back unchanged" (src/parser.rs, *)
(* parse): the same without the exception.                                  *)
NoLineIsLost == Accepted => Len(PatchText(preamble, Patch)) = Len(input)
=============================================================================

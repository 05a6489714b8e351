------------------------------ MODULE MCParse -------------------------------
(***************************************************************************)
(* Inputs for Parse.  Every text of up to MaxLines lines, however          *)
(* malformed, the first file entry beginning on the second line at the     *)
(* latest.  And the texts of well-formed diffs of one or two files, git's  *)
(* and plain ones mixed, with everything these texts begin with.           *)
(***************************************************************************)
EXTENDS ParseMeaning

CONSTANT MaxLines

MCTexts == {"x", "", "-- x", "++ x", "- "}

ShortLines ==
  {GitHeader, OldHeader, NewHeader, NoNewline, Blank, BadHeader, CombinedTag, BinaryTag,
   HunkHeader(1, 1, 1, 1), HunkHeader(1, 0, 1, 2), TextLine("-", "x")}

ShortText(text) ==
  /\ Len(text) <= MaxLines
  /\ \A i \in DOMAIN text : text[i] \in ShortLines
  /\ Len(text) = 2 => text[1] \in {GitHeader, OldHeader} \/ text[2] \in {GitHeader, OldHeader}

-----------------------------------------------------------------------------
(* Well-formed diffs.                                                       *)

BodyL(kind, text, nonl) == [kind |-> kind, text |-> text, nonl |-> nonl]

\* deletions that look like file headers, additions that do, empty lines
Bodies ==
  {<<>>,
   <<BodyL("del", "-- x", FALSE), BodyL("add", "++ x", FALSE)>>,
   <<BodyL("del", "-- x", TRUE), BodyL("add", "++ x", TRUE)>>,
   <<BodyL("ctx", "", FALSE), BodyL("del", "-- x", FALSE)>>}

HunkOf(body) ==
  [old_start |-> 1, old_lines |-> Count(body, OldSide),
   new_start |-> 1, new_lines |-> Count(body, NewSide), lines |-> body]

HunkLists == {<<HunkOf(b)>> : b \in Bodies} \union {<<HunkOf(b), HunkOf(c)>> : b, c \in Bodies}

\* a separator, or the signature of a mail, below the hunks
Signature == TextLine("-", "- ")
Trailers(n) ==
  {<<>>} \union {<<[at |-> n, line |-> l]>> : l \in {Blank, Signature}}
         \union {[j \in 1..n |-> [at |-> j, line |-> Blank]]}

Extended == TextLine("i", "index")
GitHeads == {<<GitHeader, OldHeader, NewHeader>>, <<GitHeader, Extended, OldHeader, NewHeader>>}
PlainHead == <<OldHeader, NewHeader>>

TextEntries(heads) ==
  {[headers |-> head, hunks |-> hs, payload |-> <<>>, trailer |-> <<>>] : head \in heads, hs \in HunkLists}
  \union UNION {{[headers |-> head, hunks |-> hs, payload |-> <<>>, trailer |-> t] :
                   t \in Trailers(Len(hs))} : head \in heads, hs \in HunkLists}

Binaries == {[NewFile(<<GitHeader>>) EXCEPT !.payload = p] :
               p \in {<<BinaryTag>>, <<BinaryTag, OldHeader, Blank>>}}

Seconds ==
  {NewFile(PlainHead), NewFile(<<GitHeader, Extended>>)} \union Binaries
  \union {[NewFile(head) EXCEPT !.hunks = <<HunkOf(b)>>] :
            head \in GitHeads \union {PlainHead}, b \in Bodies}

\* a plain entry has no line of its own to begin with: it cannot be told from
\* the header of a git entry that has no markers yet, nor from binary payload
IsPlain(f) == f.headers = PlainHead
MayPrecedePlain(f) == ~IsBinary(f) /\ f.headers[Len(f.headers)] = NewHeader

Firsts == TextEntries(GitHeads \union {PlainHead}) \union Binaries
            \union {NewFile(PlainHead), NewFile(<<GitHeader, Extended>>)}

Patches ==
  {[preamble |-> pre, files |-> <<f>>] : pre \in {<<>>, <<Blank>>}, f \in Firsts}
  \union {[preamble |-> <<>>, files |-> <<p[1], p[2]>>] :
            p \in {q \in Firsts \X Seconds : IsPlain(q[2]) => MayPrecedePlain(q[1])}}

TextsOfPatches == {PatchText(p.preamble, p.files) : p \in Patches}
Beginnings == {SubSeq(t, 1, IF n < Len(t) THEN n ELSE Len(t)) : t \in TextsOfPatches, n \in 0..30}

PatchLines ==
  {GitHeader, OldHeader, NewHeader, NoNewline, Blank, BinaryTag, Signature, Extended,
   TextLine(" ", "")} \union {HunkText(HunkOf(b))[1] : b \in Bodies}

MCLines == ShortLines \union PatchLines
MCAdmits(text) == ShortText(text) \/ text \in Beginnings

(* A well-formed diff is read as it was written: every line gets the role   *)
(* it was written in, also a deleted line that looks like a file header, a  *)
(* signature that looks like a deleted line and a plain entry that only its *)
(* markers announce (src/parser.rs, parse, starts_plain_file,               *)
(* take_body_line).                                                         *)
Recovered ==
  phase = "parsed" /\ input \in TextsOfPatches =>
    [preamble |-> preamble, files |-> files] \in Patches
=============================================================================

------------------------------ MODULE DiffText ------------------------------
(***************************************************************************)
(* The text a parsed diff stands for, defined by where each line of an     *)
(* entry belongs.  ParseMeaning shows that it is the text that was parsed, *)
(* EmitPatch that it is the text src/emit.rs writes.                       *)
(***************************************************************************)
EXTENDS DiffLines

\* the sequences one after the other; a recursive function, which keeps the
\* texts constants that are computed once
Concat(seqs) ==
  LET upTo[n \in 0..Len(seqs)] == IF n = 0 THEN <<>> ELSE upTo[n - 1] \o seqs[n]
  IN  upTo[Len(seqs)]

\* what a hunk is written as
LeadOf == [ctx |-> " ", add |-> "+", del |-> "-"]
BodyText(l) == <<TextLine(LeadOf[l.kind], l.text)>> \o (IF l.nonl THEN <<NoNewline>> ELSE <<>>)
HunkText(h) ==
  <<HunkHeader(h.old_start, h.old_lines, h.new_start, h.new_lines)>>
    \o Concat([i \in DOMAIN h.lines |-> BodyText(h.lines[i])])

\* the lines tagged at, and those tagged from..to, by tag
TaggedAt(trailer, at) ==
  Concat([i \in DOMAIN trailer |-> IF trailer[i].at = at THEN <<trailer[i].line>> ELSE <<>>])
Tagged(trailer, from, to) ==
  Concat([n \in 1..(IF from <= to THEN to - from + 1 ELSE 0) |-> TaggedAt(trailer, from + n - 1)])
LastTag(trailer) ==
  LET tags == {trailer[i].at : i \in DOMAIN trailer}
  IN  CHOOSE m \in tags \union {0} : \A at \in tags : at <= m

\* every trailer line below the hunk it is tagged with; nothing stands above the
\* first hunk but headers, and lines tagged past the last one come at the end
EntryText(f) ==
  LET n == Len(f.hunks)
      part(j) == HunkText(f.hunks[j]) \o Tagged(f.trailer, IF j = 1 THEN 0 ELSE j, j)
  IN  f.headers \o f.payload
        \o Concat([j \in 1..n |-> part(j)])
        \o Tagged(f.trailer, IF n = 0 THEN 0 ELSE n + 1, LastTag(f.trailer))

PatchText(above, entries) ==
  above \o Concat([i \in DOMAIN entries |-> EntryText(entries[i])])
=============================================================================

------------------------------ MODULE GitApply ------------------------------
(***************************************************************************)
(* What a result diff means: `git apply`, as hunkpick relies on it         *)
(* (src/renumber.rs: "git apply searches from that position").  External:  *)
(* git is not part of the repository.  The strictest reading is modelled.  *)
(* Every hunk is looked for at the new-side position its header names, in  *)
(* the file as the hunks above it left it, and nowhere else; its old side  *)
(* must be there to the last newline, and no line without a newline may    *)
(* end up above another one.                                               *)
(***************************************************************************)
EXTENDS Hunks

\* a file is a sequence of these; Corrupt, which is not, stands for a refusal
FileLine == [text : Texts, nonl : BOOLEAN]
Corrupt == <<[text |-> <<"corrupt", 1>>, nonl |-> TRUE], [text |-> <<"corrupt", 2>>, nonl |-> TRUE]>>

FileLines(lines) ==
  [i \in DOMAIN lines |-> [text |-> lines[i].text, nonl |-> lines[i].nonl]]

\* the lines of file f numbered in S, those above a and below b + 1
Listing(f, S, a, b) ==
  LET list[i \in a..b] ==
        IF i = a THEN <<>>
        ELSE IF i \in S THEN Append(list[i - 1], f[i])
        ELSE list[i - 1]
  IN  list[b]

Side(lines, side) == {i \in DOMAIN lines : lines[i].kind \in side}

\* the lines one side of a hunk says the file has
SideOf(lines, side) == Listing(FileLines(lines), Side(lines, side), 0, Len(lines))

Terminated(file) == \A i \in DOMAIN file : i < Len(file) => ~file[i].nonl

ApplyHunk(file, h) ==
  LET from == NewAt(h)
      old  == SideOf(h.lines, OldSide)
      to   == from + Len(old) - 1
      res  == SubSeq(file, 1, from - 1) \o SideOf(h.lines, NewSide)
                \o SubSeq(file, to + 1, Len(file))
  IN  IF /\ file # Corrupt
         /\ from >= 1 /\ to <= Len(file)
         /\ SubSeq(file, from, to) = old
         /\ Terminated(res)
      THEN res ELSE Corrupt

Apply(file, hs) ==
  LET after[m \in 0..Len(hs)] ==
        IF m = 0 THEN file ELSE ApplyHunk(after[m - 1], hs[m])
  IN  after[Len(hs)]

-----------------------------------------------------------------------------
(* The two files a diff is made of, as one list of lines: the diff with all *)
(* its context.                                                             *)

OldFile(full) == SideOf(full, OldSide)

\* what is left of the lines once the changed ones numbered in `chosen` are made
Staying(lines, chosen) ==
  LET n(i) == CountIn(lines, Changes, 1, i)
  IN  {i \in DOMAIN lines : \/ lines[i].kind = "ctx"
                            \/ lines[i].kind = "del" /\ n(i) \notin chosen
                            \/ lines[i].kind = "add" /\ n(i) \in chosen}

\* a line that is no longer the last gains its newline
WithNewline(l) == [text |-> l.text, nonl |-> FALSE]
Ended(file) ==
  [i \in DOMAIN file |-> IF i = Len(file) THEN file[i] ELSE WithNewline(file[i])]

\* the file after exactly the chosen changes were made
FileWith(lines, chosen) ==
  Ended(Listing(FileLines(lines), Staying(lines, chosen), 0, Len(lines)))

\* h stands below line f of the full diff, with `above` changed lines above it
Stands(full, h, f, above) ==
  /\ f + Len(h.lines) <= Len(full)
  /\ h.lines = SubSeq(full, f + 1, f + Len(h.lines))
  /\ OldAt(h) = CountIn(full, OldSide, 1, f) + 1
  /\ CountIn(full, Changes, 1, f) = above
  /\ \A i \in 1..f : ~full[i].nonl

\* so do the hunks of hs, each with the changes of those before it and `above` more
Standing(full, hs, above) ==
  \A j \in DOMAIN hs :
    \E f \in 0..Len(full) : Stands(full, hs[j], f, above + ChangedTo(hs, j - 1))

\* h is hunk g with only the chosen changes in it
Takes(h, g, chosen) ==
  /\ OldAt(h) = OldAt(g)
  /\ SideOf(h.lines, OldSide) = SideOf(g.lines, OldSide)
  /\ SideOf(h.lines, NewSide) = FileWith(g.lines, chosen)

\* markers as a diff of two real files has them: on the last line of a side
\* only, and on a context line only where both sides end
WellMarked(full) ==
  \A i \in DOMAIN full : full[i].nonl =>
    LET below(side) == CountIn(full, side, i + 1, Len(full)) > 0
    IN  CASE full[i].kind = "ctx" -> ~below(Kinds)
          [] full[i].kind = "del" -> ~below(OldSide)
          [] full[i].kind = "add" -> ~below(NewSide)

\* no addition without its newline above another line: git writes the deletions
\* of a run before its additions
DeletionsFirst(full) ==
  \A i \in DOMAIN full : full[i].kind = "add" /\ full[i].nonl => i = Len(full)

\* the hunks stand in the full diff, in order, and hold its changes; a line
\* without a newline, both files ending there, stands below the last hunk's top
IsDiffOf(full, tops, hs) ==
  /\ full \in Seq(Line) /\ tops \in Seq(Nat) /\ Len(tops) = Len(hs)
  /\ WellMarked(full)
  /\ \A k \in DOMAIN hs :
       /\ Stands(full, hs[k], tops[k], CountIn(full, Changes, 1, tops[k]))
       /\ \A j \in 1..(k - 1) : tops[j] + Len(hs[j].lines) <= tops[k]
  /\ \A i \in DOMAIN full : full[i].kind \in Changes =>
       \E k \in DOMAIN hs : i \in (tops[k] + 1)..(tops[k] + Len(hs[k].lines))
=============================================================================

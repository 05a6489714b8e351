----------------------------- MODULE DiffScripts -----------------------------
(***************************************************************************)
(* For the MC modules: hunks, and the two files they are the diff of, as   *)
(* GitApply wants them.  Lines nobody mentions stand between the hunks,    *)
(* and one at the end unless the last hunk says where the file ends.       *)
(***************************************************************************)
EXTENDS GitApply, SequencesExt

\* a hunk whose sides begin at oldAt and newAt
MkHunk(tag, oldAt, newAt, kinds, marked) ==
  LET lines == [i \in DOMAIN kinds |-> [kind |-> kinds[i], text |-> <<tag, i>>,
                                        nonl |-> i \in marked]]
      old == Count(lines, OldSide)
      new == Count(lines, NewSide)
  IN  [old_start |-> IF old = 0 THEN oldAt - 1 ELSE oldAt, old_lines |-> old,
       new_start |-> IF new = 0 THEN newAt - 1 ELSE newAt, new_lines |-> new,
       lines |-> lines]

\* a hunk at any place, its counts off by `slip`
HunkWith(old, new, kinds, slipOld, slipNew) ==
  LET h == MkHunk("any", 1, 1, kinds, {})
  IN  [h EXCEPT !.old_start = old, !.old_lines = @ + slipOld,
                !.new_start = new, !.new_lines = @ + slipNew]

\* the lines of the body a side ends on
LastOf(b, side) ==
  LET of == {i \in DOMAIN b : b[i] \in side} IN IF of = {} THEN {} ELSE {Max(of)}

\* sets of lines that may lack their newline: the last of one side or of both,
\* a context line only where both sides end
Marks(b) ==
  LET o == LastOf(b, OldSide)
      n == LastOf(b, NewSide)
  IN  {m \in {{}, o, n, o \union n} :
         \A i \in m : b[i] = "ctx" => o = n}

-----------------------------------------------------------------------------
Gap(from, to) ==
  IF to < from THEN <<>>
  ELSE [i \in 1..(to - from + 1) |->
          [kind |-> "ctx", text |-> <<"unchanged", from + i - 1>>, nonl |-> FALSE]]

GapAbove(hs, k) == Gap(IF k = 1 THEN 1 ELSE OldEnd(hs[k - 1]), OldAt(hs[k]) - 1)

\* the first n hunks and what is above each of them
DiffTo(hs, n) == FlattenSeq([k \in 1..n |-> GapAbove(hs, k) \o hs[k].lines])

ReachesEof(hs) == \E i \in DOMAIN hs[Len(hs)].lines : hs[Len(hs)].lines[i].nonl

\* `whole`: the hunks are the whole file
FullDiff(hs, whole) ==
  LET end == IF hs = <<>> THEN 1 ELSE OldEnd(hs[Len(hs)])
      eof == whole \/ (hs # <<>> /\ ReachesEof(hs))
  IN  DiffTo(hs, Len(hs)) \o IF eof THEN <<>> ELSE Gap(end, end)

\* the lines of the full diff above each hunk
Tops(hs) ==
  [k \in DOMAIN hs |-> Len(DiffTo(hs, k - 1)) + Len(GapAbove(hs, k))]
=============================================================================

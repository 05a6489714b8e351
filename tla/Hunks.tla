------------------------------- MODULE Hunks -------------------------------
(***************************************************************************)
(* Hunks of a unified diff and the arithmetic hunkpick does on them:       *)
(* src/model.rs (what a hunk is), src/renumber.rs (new-side positions),    *)
(* src/split.rs (cutting a hunk into pieces) and the per-hunk half of      *)
(* src/validate.rs.  Pure operators, no state: the loops that walk over    *)
(* the hunks of a file are actions of the modules that extend this one.    *)
(*                                                                         *)
(* A body line is its kind, its text (only ever compared) and whether a    *)
(* "\ No newline at end of file" marker follows it.  The section text of a *)
(* hunk header is left out: nothing here depends on it.                    *)
(***************************************************************************)
EXTENDS Integers, Sequences, FiniteSets, FiniteSetsExt

CONSTANTS MaxU32,     \* the largest u32: starts are u32, sums of them i64
          Texts       \* what a line can say

ASSUME MaxU32Assumption == MaxU32 \in Nat \ {0}

U32   == 0..MaxU32
Kinds == {"ctx", "add", "del"}
Line  == [kind : Kinds, text : Texts, nonl : BOOLEAN]
\* the counts are u32 too, but a count leaves u32 only with 2^32 body lines in
\* memory, so they are left unbounded
Hunk  == [old_start : U32, old_lines : Nat, new_start : U32, new_lines : Nat,
          lines : Seq(Line)]

-----------------------------------------------------------------------------
(* Counting body lines.  The code tallies the three kinds in one pass; each *)
(* use of the tally is a count of the lines whose kind lies in a set.       *)

OldSide == {"ctx", "del"}
NewSide == {"ctx", "add"}
Changes == {"add", "del"}

CountIn(lines, kinds, from, to) ==
  Cardinality({i \in from..to : lines[i].kind \in kinds})
Count(lines, kinds) == CountIn(lines, kinds, 1, Len(lines))

\* what a hunk adds to the number of lines of its file
Net(lines) == Count(lines, {"add"}) - Count(lines, {"del"})

\* the changed lines of hunk j, and how many the first n hunks have
ChangesOf(hs, j) ==
  {<<j, i>> : i \in {i \in DOMAIN hs[j].lines : hs[j].lines[i].kind \in Changes}}
ChangedTo(hs, n) ==
  Cardinality(UNION {ChangesOf(hs, j) : j \in {j \in DOMAIN hs : j <= n}})

-----------------------------------------------------------------------------
(* Positions.  A side with no lines reports the line before its empty range. *)

Anchor(start, count) == IF count = 0 THEN start + 1 ELSE start
OldAt(h)  == Anchor(h.old_start, h.old_lines)
NewAt(h)  == Anchor(h.new_start, h.new_lines)
OldEnd(h) == OldAt(h) + h.old_lines
NewEnd(h) == NewAt(h) + h.new_lines

Clamp(n) == IF n < 0 THEN 0 ELSE IF n > MaxU32 THEN MaxU32 ELSE n

\* mutant: the recorded start taken for the anchor
ExpectedNewStart_NoAnchor(h, delta) ==
  Clamp(h.old_start + delta - (IF h.new_lines = 0 THEN 1 ELSE 0))

\* the new-side start a hunk must carry after `delta` lines of net growth
ExpectedNewStart(h, delta) ==
  Clamp(OldAt(h) + delta - (IF h.new_lines = 0 THEN 1 ELSE 0))

-----------------------------------------------------------------------------
(* One hunk on its own: the checks of check_one_hunk, in their order.        *)

Fault(h, checkNewStart, delta) ==
  CASE h.lines = <<>>                                 -> "EmptyHunk"
    [] Count(h.lines, Changes) = 0                    -> "NoChangeHunk"
    [] h.old_lines # Count(h.lines, OldSide)          -> "OldCountMismatch"
    [] h.new_lines # Count(h.lines, NewSide)          -> "NewCountMismatch"
    [] checkNewStart /\ h.new_start # ExpectedNewStart(h, delta)
                                                      -> "StaleNewStart"
    [] OTHER                                          -> "none"

\* a hunk no check finds fault with, its new-side start aside
Sound(h) == Fault(h, FALSE, 0) = "none"

-----------------------------------------------------------------------------
(* Cutting a hunk into pieces.                                               *)

\* mutant: a piece without lines on a side starts where one with lines would
SideStart_NoAnchor(parentStart, off, count) == Clamp(parentStart + off)

SideStart(parentStart, off, count) ==
  LET start == Clamp(parentStart + off)
  IN  IF count = 0 /\ off > 0 THEN start - 1 ELSE start

\* the piece of h that holds its body lines from..to
RebuildSubhunk(h, from, to) ==
  LET slice   == SubSeq(h.lines, from, to)
      before(side) == CountIn(h.lines, side, 1, from - 1)
      old     == Count(slice, OldSide)
      new     == Count(slice, NewSide)
  IN  [old_start |-> SideStart(h.old_start, before(OldSide), old),
       old_lines |-> old,
       new_start |-> SideStart(h.new_start, before(NewSide), new),
       new_lines |-> new,
       lines     |-> slice]

\* where the maximal runs of added and deleted lines begin
RunStarts(lines) ==
  {i \in DOMAIN lines : /\ lines[i].kind \in Changes
                        /\ i = 1 \/ lines[i - 1].kind \notin Changes}

\* h with another body, its counts recomputed, its starts kept
WithBody(h, body) ==
  [h EXCEPT !.old_lines = Count(body, OldSide),
            !.new_lines = Count(body, NewSide),
            !.lines     = body]
=============================================================================

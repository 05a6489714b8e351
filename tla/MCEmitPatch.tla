---------------------------- MODULE MCEmitPatch -----------------------------
(***************************************************************************)
(* Diffs for EmitPatch: entries of up to two hunks and up to MaxTrailer    *)
(* trailer lines, all different, tagged in any order up to two past the    *)
(* last hunk; alone, and above another entry.                              *)
(***************************************************************************)
EXTENDS EmitPatch

CONSTANT MaxTrailer

MCTexts == {"x"}

Change == [kind |-> "del", text |-> "x", nonl |-> TRUE]
HunkAt(start) == [old_start |-> start, old_lines |-> 1, new_start |-> start, new_lines |-> 0,
                  lines |-> <<Change>>]

Named == <<TextLine("t", "1"), TextLine("t", "2"), TextLine("t", "3"), TextLine("t", "4")>>

Trailers(n) ==
  UNION {{[j \in 1..len |-> [at |-> tags[j], line |-> Named[j]]] : tags \in [1..len -> 0..(n + 2)]} :
           len \in 0..MaxTrailer}

EntriesOf(hs, payload) ==
  {[headers |-> <<GitHeader>>, hunks |-> hs, payload |-> payload, trailer |-> t] :
     t \in Trailers(Len(hs))}

Entries == UNION {EntriesOf(hs, <<>>) : hs \in {<<>>, <<HunkAt(1)>>, <<HunkAt(1), HunkAt(3)>>}}
             \union EntriesOf(<<>>, <<BinaryTag>>)

Second == [NewFile(<<GitHeader, NewHeader>>) EXCEPT !.hunks = <<HunkAt(2)>>,
                                                    !.trailer = <<[at |-> 1, line |-> Blank]>>]

MCPatches ==
  {[preamble |-> <<>>, files |-> <<f>>, cropped |-> TRUE] : f \in Entries}
  \union {[preamble |-> <<Blank>>, files |-> <<f, Second>>, cropped |-> FALSE] : f \in Entries}
  \union {[preamble |-> <<>>, files |-> <<>>, cropped |-> FALSE]}
=============================================================================

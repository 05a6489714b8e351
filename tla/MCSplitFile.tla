---------------------------- MODULE MCSplitFile -----------------------------
(***************************************************************************)
(* Entries for SplitMeaning.  Diffs of real files: every body of up to     *)
(* MaxBody lines, alone, with or without its last newlines, or with a hunk *)
(* above or below, its new-side start right or stale, trailer lines above, *)
(* between and below the hunks.  And hunks at the edges of u32: starts of  *)
(* 0 with lines under them and starts at the last positions, on each side, *)
(* alone, above and below another.                                         *)
(***************************************************************************)
EXTENDS SplitMeaning, DiffScripts

CONSTANTS MaxBody,
          MaxCuts   \* lines --at names at most

MCTexts == {<<tag, i>> : tag \in {"first", "free", "last", "any"}, i \in 1..5}
              \union {<<"unchanged", i>> : i \in 1..MaxU32}

Bodies == {b \in UNION {[1..n -> Kinds] : n \in 1..MaxBody} :
             \E i \in DOMAIN b : b[i] # "ctx"}

Above == MkHunk("first", 1, 1, <<"add", "ctx", "add">>, {})
Below == MkHunk("last", 9, 11, <<"ctx", "del">>, {})

HunkLists ==
  UNION {{<<MkHunk("free", 1, 1, b, m)>> : m \in Marks(b)} : b \in Bodies}
  \union {<<MkHunk("free", 1, MaxU32, b, {})>> : b \in Bodies}
  \union {<<Above, MkHunk("free", 3, 5, b, {})>> : b \in Bodies}
  \union {<<MkHunk("free", 2, new, b, {}), Below>> : new \in {2, 4}, b \in Bodies}

\* no trailer line, one below each hunk, or one below the first hunk only
Trailers(hs) == {<<>>, [i \in DOMAIN hs |-> i], <<1>>}

RealEntries ==
  UNION {{[hunks |-> hs, trailer |-> t, last |-> TRUE] : t \in Trailers(hs)} : hs \in HunkLists}
  \union {[hunks |-> <<MkHunk("free", 1, 1, b, {})>>, trailer |-> <<>>, last |-> FALSE] :
             b \in Bodies}

-----------------------------------------------------------------------------
Edge == {0, 1} \union (MaxU32 - 3)..MaxU32

\* two context lines to cut at; pieces with lines on both sides, on one, and
\* without a change, at either end
EdgeHunks ==
  {HunkWith(old, new, kinds, 0, 0) : old \in Edge, new \in Edge,
     kinds \in {<<"add", "ctx", "add", "ctx", "del">>, <<"del", "ctx", "ctx", "add">>,
               <<"ctx", "add", "ctx", "add">>}}

Others == {HunkWith(n, n, <<kind>>, 0, 0) : n \in {0, MaxU32}, kind \in {"add", "del"}}

EdgeEntries ==
  {[hunks |-> hs, trailer |-> <<1>>, last |-> TRUE] :
     hs \in {<<g>> : g \in EdgeHunks} \union {<<g, h>> : g \in EdgeHunks, h \in Others}
            \union {<<h, g>> : g \in EdgeHunks, h \in Others}}

MCEntries ==
  {[hunks |-> e.hunks, trailer |-> e.trailer, last |-> e.last, cropped |-> e.last,
    real |-> TRUE, full |-> FullDiff(e.hunks, FALSE), tops |-> Tops(e.hunks)] : e \in RealEntries}
  \union
  {[hunks |-> e.hunks, trailer |-> e.trailer, last |-> e.last, cropped |-> e.last,
    real |-> FALSE, full |-> <<>>, tops |-> <<>>] : e \in EdgeEntries}

\* the positions of the real diffs' lines, by ones and twos, and the edges
MCCutSets ==
  UNION {kSubset(n, 1..8) : n \in 1..MaxCuts}
  \union {{n} : n \in Edge}
  \union {{MaxU32 - 1, MaxU32}}
=============================================================================

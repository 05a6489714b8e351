---------------------------- MODULE MCSelectFile ----------------------------
(***************************************************************************)
(* Entries for SelectMeaning.  Diffs of real files: every body of up to    *)
(* MaxBody lines, with the markers a file without a final newline puts on  *)
(* it, alone, below a hunk that grows the file and above one that does     *)
(* not.  And headers that are anything the parser lets through: starts of  *)
(* 0 with lines under them, starts at the top of u32, sides that overlap,  *)
(* counts the body does not have.                                          *)
(***************************************************************************)
EXTENDS SelectMeaning, DiffScripts

CONSTANT MaxBody

MCTexts == {<<tag, i>> : tag \in {"first", "free", "last", "any"}, i \in 1..5}
              \union {<<"unchanged", i>> : i \in 1..MaxU32}

Bodies == {b \in UNION {[1..n -> Kinds] : n \in 1..MaxBody} :
             \E i \in DOMAIN b : b[i] # "ctx"}

Above == MkHunk("first", 1, 1, <<"add", "ctx", "del", "add">>, {})
Below == MkHunk("last", 9, 11, <<"ctx", "del">>, {})

RealEntries ==
  {[hunks |-> hs, deletes |-> FALSE] :
     hs \in UNION {{<<MkHunk("free", 1, 1, b, m)>> : m \in Marks(b)} : b \in Bodies}
            \union UNION {{<<Above, MkHunk("free", 3, 4, b, m)>> : m \in Marks(b)} :
                            b \in Bodies}
            \union {<<MkHunk("free", 2, 2, b, {}), Below>> : b \in Bodies}}
  \union
  {[hunks |-> <<MkHunk("free", 1, 1, [i \in 1..n |-> "del"], {n} \intersect marks)>>,
    deletes |-> TRUE] : n \in 1..MaxBody, marks \in {{}, 1..MaxBody}}
  \union {[hunks |-> <<>>, deletes |-> FALSE]}

-----------------------------------------------------------------------------
SoundHunks ==
  {HunkWith(old, new, kinds, 0, 0) : old \in 0..3 \union (MaxU32 - 2)..MaxU32, new \in {0, 3},
     kinds \in {<<"del">>, <<"add">>, <<"add", "ctx", "add">>, <<"add", "ctx", "del">>}}

UnsoundHunks ==
  {HunkWith(5, 5, kinds, s, t) : kinds \in {<<>>, <<"ctx">>, <<"ctx", "add">>},
                                 s \in {0, 1}, t \in {0, 1}}

AnyEntries ==
  {[hunks |-> hs, deletes |-> FALSE] :
     hs \in {<<g, h>> : g \in SoundHunks, h \in SoundHunks}
            \union {<<h>> : h \in UnsoundHunks}
            \union {<<g, h>> : g \in SoundHunks, h \in UnsoundHunks}}

MCEntries ==
  {[hunks |-> e.hunks, deletes |-> e.deletes, real |-> TRUE,
    full |-> FullDiff(e.hunks, e.deletes), tops |-> Tops(e.hunks)] : e \in RealEntries}
  \union
  {[hunks |-> e.hunks, deletes |-> e.deletes, real |-> FALSE,
    full |-> <<>>, tops |-> <<>>] : e \in AnyEntries}
=============================================================================

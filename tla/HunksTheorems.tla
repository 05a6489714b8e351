--------------------------- MODULE HunksTheorems ---------------------------
(***************************************************************************)
(* Lemmas about the operators of Hunks: how counts of body lines add up,   *)
(* and where the pieces of a hunk stand.                                   *)
(***************************************************************************)
EXTENDS Hunks, TLAPS, FiniteSetTheorems, WellFoundedInduction

(* A nonempty set of positions has a least member.                         *)
LEMMA MinIsLeast ==
  ASSUME NEW S, S \subseteq Nat, S # {}
  PROVE  Min(S) \in S /\ \A x \in S : Min(S) <= x
<1>1. \E m \in S : \A x \in S : ~ (<<x, m>> \in OpToRel(<, Nat))
  BY NatLessThanWellFounded, WFMin
<1>2. PICK m \in S : \A x \in S : ~ (<<x, m>> \in OpToRel(<, Nat))
  BY <1>1
<1>3. \A x \in S : m <= x
  <2>1. TAKE x \in S
  <2>2. ~ (x < m)
    BY <1>2 DEF OpToRel
  <2>3. QED
    BY <2>2
<1>4. QED
  BY <1>3 DEF Min

(* Shifting a finite set of integers keeps its size.                       *)
LEMMA ShiftKeepsSize ==
  ASSUME NEW S, S \subseteq Int, IsFiniteSet(S), NEW d \in Int
  PROVE  /\ IsFiniteSet({i + d : i \in S})
         /\ Cardinality({i + d : i \in S}) = Cardinality(S)
<1> DEFINE T == {i + d : i \in S}
           f == [i \in S |-> i + d]
<1>1. f \in Bijection(S, T)
  <2>1. f \in [S -> T]
    OBVIOUS
  <2>2. \A a, b \in S : f[a] = f[b] => a = b
    OBVIOUS
  <2>3. \A t \in T : \E s \in S : f[s] = t
    OBVIOUS
  <2>4. QED
    BY <2>1, <2>2, <2>3 DEF Bijection, Injection, Surjection, IsInjective
<1>2. ExistsBijection(S, T)
  BY <1>1 DEF ExistsBijection
<1>3. QED
  BY <1>2, FS_Bijection

(* The lines counted are finitely many.                                    *)
LEMMA CountedAreFinite ==
  ASSUME NEW ls, NEW K, NEW a \in Int, NEW b \in Int
  PROVE  IsFiniteSet({i \in a..b : ls[i].kind \in K})
<1>1. IsFiniteSet(a..b)
  BY FS_Interval
<1>2. {i \in a..b : ls[i].kind \in K} \in SUBSET (a..b)
  OBVIOUS
<1>3. QED
  BY <1>1, <1>2, FS_Subset

(* A count is a natural number, zero over an empty range.                  *)
LEMMA CountInType ==
  ASSUME NEW ls, NEW K, NEW a \in Int, NEW b \in Int
  PROVE  /\ CountIn(ls, K, a, b) \in Nat
         /\ b < a => CountIn(ls, K, a, b) = 0
<1> DEFINE S == {i \in a..b : ls[i].kind \in K}
<1>3. IsFiniteSet(S)
  BY CountedAreFinite
<1>4. Cardinality(S) \in Nat
  BY <1>3, FS_CardinalityType
<1>5. b < a => S = {}
  OBVIOUS
<1>6. QED
  BY <1>3, <1>4, <1>5, FS_EmptySet DEF CountIn

(* A range counts as much as its two halves.                               *)
LEMMA CountInSplits ==
  ASSUME NEW ls, NEW K, NEW a \in Int, NEW b \in Int, NEW c \in Int,
         a <= b + 1, b <= c
  PROVE  CountIn(ls, K, a, c) = CountIn(ls, K, a, b) + CountIn(ls, K, b + 1, c)
<1> DEFINE S == {i \in a..b : ls[i].kind \in K}
           T == {i \in (b + 1)..c : ls[i].kind \in K}
<1>0. b + 1 \in Int
  OBVIOUS
<1>1. IsFiniteSet(S) /\ IsFiniteSet(T)
  BY <1>0, CountedAreFinite
<1>2. {i \in a..c : ls[i].kind \in K} = S \cup T
  OBVIOUS
<1>3. S \cap T = {}
  OBVIOUS
<1>4. Cardinality(S \cap T) = 0
  BY <1>3, FS_EmptySet
<1>5. Cardinality(S) \in Nat /\ Cardinality(T) \in Nat
  BY <1>1, FS_CardinalityType
<1>6. Cardinality(S \cup T) = Cardinality(S) + Cardinality(T) - Cardinality(S \cap T)
  BY <1>1, FS_Union
<1>7. /\ CountIn(ls, K, a, c) = Cardinality(S \cup T)
      /\ CountIn(ls, K, a, b) = Cardinality(S)
      /\ CountIn(ls, K, b + 1, c) = Cardinality(T)
  BY <1>2 DEF CountIn
<1> HIDE DEF S, T
<1>8. QED
  BY <1>4, <1>5, <1>6, <1>7

(* One more line counts one more when its kind is asked for.               *)
LEMMA CountInOne ==
  ASSUME NEW ls, NEW K, NEW i \in Int
  PROVE  CountIn(ls, K, i, i) = IF ls[i].kind \in K THEN 1 ELSE 0
<1>1. {j \in i..i : ls[j].kind \in K} = IF ls[i].kind \in K THEN {i} ELSE {}
  OBVIOUS
<1>2. QED
  BY <1>1, FS_Singleton, FS_EmptySet DEF CountIn

(* Disjoint sets of kinds count separately.                                *)
LEMMA CountInKinds ==
  ASSUME NEW ls, NEW J, NEW K, J \cap K = {}, NEW a \in Int, NEW b \in Int
  PROVE  CountIn(ls, J \cup K, a, b) = CountIn(ls, J, a, b) + CountIn(ls, K, a, b)
<1> DEFINE S == {i \in a..b : ls[i].kind \in J}
           T == {i \in a..b : ls[i].kind \in K}
<1>1. IsFiniteSet(S) /\ IsFiniteSet(T)
  BY CountedAreFinite
<1>2. {i \in a..b : ls[i].kind \in J \cup K} = S \cup T
  OBVIOUS
<1>3. S \cap T = {}
  OBVIOUS
<1>4. Cardinality(S \cap T) = 0
  BY <1>3, FS_EmptySet
<1>5. Cardinality(S) \in Nat /\ Cardinality(T) \in Nat
  BY <1>1, FS_CardinalityType
<1>6. Cardinality(S \cup T) = Cardinality(S) + Cardinality(T) - Cardinality(S \cap T)
  BY <1>1, FS_Union
<1>7. /\ CountIn(ls, J \cup K, a, b) = Cardinality(S \cup T)
      /\ CountIn(ls, J, a, b) = Cardinality(S)
      /\ CountIn(ls, K, a, b) = Cardinality(T)
  BY <1>2 DEF CountIn
<1> HIDE DEF S, T
<1>8. QED
  BY <1>4, <1>5, <1>6, <1>7

(* Ranges of lines of the same kinds count the same.                       *)
LEMMA CountInShifted ==
  ASSUME NEW ls, NEW ms, NEW K, NEW a \in Int, NEW b \in Int,
         NEW from \in Int, NEW to \in Int, to - from = b - a,
         \A i \in a..b : ms[i + (from - a)].kind = ls[i].kind
  PROVE  CountIn(ms, K, from, to) = CountIn(ls, K, a, b)
<1> DEFINE d == from - a
           S == {i \in a..b : ls[i].kind \in K}
           T == {i \in from..to : ms[i].kind \in K}
<1>1. S \subseteq Int /\ IsFiniteSet(S)
  <2>1. S \subseteq Int
    OBVIOUS
  <2>2. IsFiniteSet(S)
    BY CountedAreFinite
  <2>3. QED
    BY <2>1, <2>2
<1>2. T = {i + d : i \in S}
  <2>1. ASSUME NEW j \in T
        PROVE  j \in {i + d : i \in S}
    <3>1. j - d \in a..b /\ (j - d) + d = j
      OBVIOUS
    <3>2. ms[(j - d) + d].kind = ls[j - d].kind
      BY <3>1
    <3>3. j - d \in S
      BY <3>1, <3>2
    <3>4. QED
      BY <3>1, <3>3
  <2>2. ASSUME NEW i \in S
        PROVE  i + d \in T
    OBVIOUS
  <2>3. QED
    BY <2>1, <2>2
<1>3. Cardinality({i + d : i \in S}) = Cardinality(S)
  <2>1. d \in Int
    OBVIOUS
  <2> HIDE DEF d, S
  <2>2. QED
    BY <1>1, <2>1, ShiftKeepsSize
<1>4. QED
  BY <1>2, <1>3 DEF CountIn

(* The count of a slice is the count of its range.                         *)
LEMMA CountOfSlice ==
  ASSUME NEW ls \in Seq(Line), NEW K, NEW a \in Nat \ {0}, NEW b \in Nat,
         a <= b + 1, b <= Len(ls)
  PROVE  /\ SubSeq(ls, a, b) \in Seq(Line)
         /\ Len(SubSeq(ls, a, b)) = b - a + 1
         /\ Count(SubSeq(ls, a, b), K) = CountIn(ls, K, a, b)
<1> DEFINE ms == SubSeq(ls, a, b)
           n == b - a + 1
           d == a - 1
<1>1. n \in Nat /\ d \in Int /\ 1 + d = a /\ n + d = b
  OBVIOUS
<1>2. ms \in Seq(Line) /\ Len(ms) = n /\ \A i \in 1..n : ms[i] = ls[i + d]
  OBVIOUS
<1>3. CountIn(ls, K, a, b) = CountIn(ms, K, 1, n)
  <2> HIDE DEF ms, n, d
  <2>1. \A i \in 1..n : ls[i + (a - 1)].kind = ms[i].kind
    BY <1>2 DEF d
  <2>2. QED
    BY <1>1, <2>1, CountInShifted DEF d
<1>4. QED
  BY <1>1, <1>2, <1>3 DEF Count

(* The count of two bodies put together is the sum of their counts.        *)
LEMMA CountOfConcat ==
  ASSUME NEW s \in Seq(Line), NEW t \in Seq(Line), NEW K
  PROVE  /\ s \o t \in Seq(Line)
         /\ Count(s \o t, K) = Count(s, K) + Count(t, K)
<1> DEFINE m == Len(s)
           n == Len(t)
           u == s \o t
<1>1. /\ m \in Nat /\ n \in Nat
      /\ u \in Seq(Line) /\ Len(u) = m + n
      /\ \A i \in 1..m : u[i] = s[i]
      /\ \A i \in 1..n : u[i + m] = t[i]
  OBVIOUS
<1> HIDE DEF m, n, u
<1>2. CountIn(u, K, 1, m + n) = CountIn(u, K, 1, m) + CountIn(u, K, m + 1, m + n)
  BY <1>1, CountInSplits
<1>3. CountIn(u, K, 1, m) = CountIn(s, K, 1, m)
  <2>1. {i \in 1..m : u[i].kind \in K} = {i \in 1..m : s[i].kind \in K}
    BY <1>1
  <2>2. QED
    BY <2>1 DEF CountIn
<1>4. CountIn(u, K, m + 1, m + n) = CountIn(t, K, 1, n)
  <2>1. \A i \in 1..n : u[i + ((m + 1) - 1)].kind = t[i].kind
    BY <1>1
  <2>2. /\ (m + n) - (m + 1) = n - 1
        /\ n \in Int /\ m + 1 \in Int /\ m + n \in Int
    BY <1>1
  <2>3. QED
    BY <1>1, <2>1, <2>2, CountInShifted
<1>5. QED
  BY <1>1, <1>2, <1>3, <1>4 DEF Count, m, n, u

(* A count is positive exactly when a line of the range is of such a kind. *)
LEMMA CountInPositive ==
  ASSUME NEW ls, NEW K, NEW a \in Int, NEW b \in Int
  PROVE  CountIn(ls, K, a, b) > 0 <=> \E i \in a..b : ls[i].kind \in K
<1> DEFINE S == {i \in a..b : ls[i].kind \in K}
<1>1. IsFiniteSet(S) /\ CountIn(ls, K, a, b) \in Nat
  BY CountInType, CountedAreFinite
<1>2. CountIn(ls, K, a, b) = 0 <=> S = {}
  BY <1>1, FS_EmptySet DEF CountIn
<1>3. QED
  BY <1>1, <1>2

(* What a hunk adds to the file is the difference of its two sides.        *)
LEMMA NetIsSideDifference ==
  ASSUME NEW ls \in Seq(Line)
  PROVE  /\ Count(ls, OldSide) \in Nat /\ Count(ls, NewSide) \in Nat
         /\ Net(ls) = Count(ls, NewSide) - Count(ls, OldSide)
<1> DEFINE C(K) == Count(ls, K)
<1>1. \A K : C(K) \in Nat
  <2>1. Len(ls) \in Int /\ 1 \in Int
    OBVIOUS
  <2>2. QED
    BY <2>1, CountInType DEF Count
<1>2. OldSide = {"ctx"} \cup {"del"} /\ NewSide = {"ctx"} \cup {"add"}
  BY DEF OldSide, NewSide
<1>3. C({"ctx"} \cup {"del"}) = C({"ctx"}) + C({"del"})
  BY CountInKinds DEF Count
<1>4. C({"ctx"} \cup {"add"}) = C({"ctx"}) + C({"add"})
  BY CountInKinds DEF Count
<1>5. C(OldSide) = C({"ctx"}) + C({"del"}) /\ C(NewSide) = C({"ctx"}) + C({"add"})
  BY <1>2, <1>3, <1>4
<1>6. Net(ls) = C({"add"}) - C({"del"})
  BY DEF Net
<1> HIDE DEF C
<1>7. /\ C({"ctx"}) \in Nat /\ C({"add"}) \in Nat /\ C({"del"}) \in Nat
      /\ C(OldSide) \in Nat /\ C(NewSide) \in Nat
  BY <1>1
<1>8. C(OldSide) \in Nat /\ C(NewSide) \in Nat /\ Net(ls) = C(NewSide) - C(OldSide)
  BY <1>5, <1>6, <1>7
<1>9. QED
  BY <1>8 DEF C

(* A range counts no more than the whole body, and no less than nothing.   *)
LEMMA CountInBounds ==
  ASSUME NEW ls \in Seq(Line), NEW K, NEW a \in Nat \ {0}, NEW b \in Nat,
         a <= b + 1, b <= Len(ls)
  PROVE  /\ CountIn(ls, K, a, b) \in Nat /\ CountIn(ls, K, 1, a - 1) \in Nat
         /\ Count(ls, K) \in Nat /\ CountIn(ls, K, b + 1, Len(ls)) \in Nat
         /\ CountIn(ls, K, 1, b) = CountIn(ls, K, 1, a - 1) + CountIn(ls, K, a, b)
         /\ Count(ls, K) = CountIn(ls, K, 1, b) + CountIn(ls, K, b + 1, Len(ls))
         /\ CountIn(ls, K, 1, b) \in Nat
         /\ CountIn(ls, K, a, b) <= Count(ls, K) /\ CountIn(ls, K, 1, b) <= Count(ls, K)
<1> DEFINE n == Len(ls)
           c == a - 1
<1>1. n \in Nat /\ c \in Int /\ b + 1 \in Int /\ c + 1 = a /\ c <= b /\ 0 <= c /\ b <= n
  OBVIOUS
<1> HIDE DEF n, c
<1>2. /\ CountIn(ls, K, a, b) \in Nat /\ CountIn(ls, K, 1, c) \in Nat
      /\ CountIn(ls, K, 1, n) \in Nat /\ CountIn(ls, K, b + 1, n) \in Nat
  BY <1>1, CountInType
<1>3. CountIn(ls, K, 1, b) = CountIn(ls, K, 1, c) + CountIn(ls, K, c + 1, b)
  BY <1>1, CountInSplits
<1>4. CountIn(ls, K, 1, n) = CountIn(ls, K, 1, b) + CountIn(ls, K, b + 1, n)
  BY <1>1, CountInSplits
<1>5. QED
  BY <1>1, <1>2, <1>3, <1>4 DEF Count, n, c

(* Clamping is exact inside the range of u32.                              *)
LEMMA ClampInRange ==
  ASSUME NEW n \in Int
  PROVE  /\ Clamp(n) \in U32
         /\ 0 <= n /\ n <= MaxU32 => Clamp(n) = n
         /\ n >= MaxU32 => Clamp(n) = MaxU32
         /\ n >= 1 => Clamp(n) >= 1
BY MaxU32Assumption DEF Clamp, U32

(* A sound hunk is one whose header its body bears out.                    *)
LEMMA SoundMeans ==
  ASSUME NEW h
  PROVE  /\ Sound(h) <=> /\ h.lines # <<>>
                         /\ Count(h.lines, Changes) # 0
                         /\ h.old_lines = Count(h.lines, OldSide)
                         /\ h.new_lines = Count(h.lines, NewSide)
         /\ \A d : Fault(h, FALSE, d) = "none" <=> Sound(h)
         /\ \A d : Sound(h) => Fault(h, TRUE, d)
                  = IF h.new_start # ExpectedNewStart(h, d) THEN "StaleNewStart"
                                                            ELSE "none"
<1> DEFINE P == h.lines = <<>>
           Q == Count(h.lines, Changes) = 0
           R == h.old_lines # Count(h.lines, OldSide)
           S == h.new_lines # Count(h.lines, NewSide)
           T(c, d) == c /\ h.new_start # ExpectedNewStart(h, d)
<1>1. \A c, d : Fault(h, c, d) = CASE P -> "EmptyHunk"
                                   [] Q -> "NoChangeHunk"
                                   [] R -> "OldCountMismatch"
                                   [] S -> "NewCountMismatch"
                                   [] T(c, d) -> "StaleNewStart"
                                   [] OTHER -> "none"
  BY DEF Fault
<1>2. QED
  BY <1>1 DEF Sound

(* side_start never leaves u32: the decrement cannot go below 0.           *)
LEMMA SideStartInRange ==
  ASSUME NEW start \in U32, NEW off \in Nat, NEW count \in Nat
  PROVE  /\ SideStart(start, off, count) \in U32
         /\ start + off <= MaxU32 =>
              SideStart(start, off, count)
                = IF count = 0 /\ off > 0 THEN start + off - 1 ELSE start + off
<1>1. start + off \in Int /\ 0 <= start + off /\ off > 0 => start + off >= 1
  BY DEF U32
<1>2. /\ Clamp(start + off) \in U32
      /\ start + off <= MaxU32 => Clamp(start + off) = start + off
      /\ start + off >= 1 => Clamp(start + off) >= 1
  <2>1. start + off \in Int /\ 0 <= start + off
    BY DEF U32
  <2>2. QED
    BY <2>1, ClampInRange
<1>3. QED
  BY <1>2, MaxU32Assumption DEF SideStart, U32

(* A piece that holds a change is a hunk its own header describes.         *)
LEMMA PieceIsSound ==
  ASSUME NEW h \in Hunk,
         NEW from \in Nat \ {0}, NEW to \in Nat, from <= to, to <= Len(h.lines),
         CountIn(h.lines, Changes, from, to) > 0
  PROVE  /\ RebuildSubhunk(h, from, to) \in Hunk
         /\ Sound(RebuildSubhunk(h, from, to))
<1> DEFINE p == RebuildSubhunk(h, from, to)
           slice == SubSeq(h.lines, from, to)
<1>1. /\ h.lines \in Seq(Line) /\ h.old_start \in U32 /\ h.new_start \in U32
  BY DEF Hunk
<1>2. /\ slice \in Seq(Line) /\ Len(slice) = to - from + 1
      /\ \A K : Count(slice, K) = CountIn(h.lines, K, from, to)
  BY <1>1, CountOfSlice
<1>3. \A K : /\ CountIn(h.lines, K, from, to) \in Nat
             /\ CountIn(h.lines, K, 1, from - 1) \in Nat
             /\ CountIn(h.lines, K, from, to) <= Count(h.lines, K)
  <2>1. from <= to + 1
    OBVIOUS
  <2>2. QED
    BY <1>1, <2>1, CountInBounds
<1>5. Count(slice, OldSide) \in Nat /\ Count(slice, NewSide) \in Nat
  BY <1>2, <1>3
<1>6. /\ p.lines = slice
      /\ p.old_lines = Count(slice, OldSide)
      /\ p.new_lines = Count(slice, NewSide)
      /\ p.old_start = SideStart(h.old_start, CountIn(h.lines, OldSide, 1, from - 1),
                                 Count(slice, OldSide))
      /\ p.new_start = SideStart(h.new_start, CountIn(h.lines, NewSide, 1, from - 1),
                                 Count(slice, NewSide))
      /\ p = [old_start |-> p.old_start, old_lines |-> p.old_lines,
              new_start |-> p.new_start, new_lines |-> p.new_lines, lines |-> p.lines]
  BY DEF RebuildSubhunk
<1>7. p.old_start \in U32 /\ p.new_start \in U32
  <2>1. /\ CountIn(h.lines, OldSide, 1, from - 1) \in Nat
        /\ CountIn(h.lines, NewSide, 1, from - 1) \in Nat
        /\ Count(slice, OldSide) \in Nat /\ Count(slice, NewSide) \in Nat
    BY <1>2, <1>3
  <2>2. \A start \in U32, off \in Nat, count \in Nat :
          SideStart(start, off, count) \in U32
    BY SideStartInRange
  <2> HIDE DEF p, slice
  <2>3. QED
    BY <1>1, <1>6, <2>1, <2>2
<1>8. slice # <<>>
  BY <1>2
<1>9. Count(slice, Changes) # 0
  BY <1>2, <1>3
<1> HIDE DEF p, slice
<1>10. p \in Hunk
  BY <1>2, <1>5, <1>6, <1>7 DEF Hunk
<1>11. Sound(p)
  BY <1>6, <1>8, <1>9, SoundMeans
<1>12. QED
  BY <1>10, <1>11 DEF p

(* A piece stands where its lines stood in the hunk it was cut from.  The  *)
(* last assumption excludes a pure addition at the top of a hunk that has  *)
(* old lines further down: side_start would put it one line too low, and   *)
(* no split makes such a piece.                                            *)
LEMMA PieceStands ==
  ASSUME NEW h \in Hunk, Sound(h), OldAt(h) >= 1, OldEnd(h) <= MaxU32,
         NEW from \in Nat \ {0}, NEW to \in Nat, from <= to, to <= Len(h.lines),
         CountIn(h.lines, OldSide, 1, to) > 0
  PROVE  LET p == RebuildSubhunk(h, from, to)
         IN  /\ OldAt(p) = OldAt(h) + CountIn(h.lines, OldSide, 1, from - 1)
             /\ OldEnd(p) = OldAt(h) + CountIn(h.lines, OldSide, 1, to)
             /\ OldEnd(p) <= OldEnd(h)
<1> DEFINE p == RebuildSubhunk(h, from, to)
           off == CountIn(h.lines, OldSide, 1, from - 1)
           cnt == CountIn(h.lines, OldSide, from, to)
           upto == CountIn(h.lines, OldSide, 1, to)
<1>1. h.lines \in Seq(Line) /\ h.old_start \in U32 /\ h.old_lines \in Nat
  BY DEF Hunk
<1>2. Count(SubSeq(h.lines, from, to), OldSide) = cnt
  BY <1>1, CountOfSlice
<1>3. off \in Nat /\ cnt \in Nat /\ upto = off + cnt /\ upto <= Count(h.lines, OldSide)
  <2>1. from <= to + 1
    OBVIOUS
  <2>2. QED
    BY <1>1, <2>1, CountInBounds
<1>4. h.old_lines = Count(h.lines, OldSide)
  BY SoundMeans
<1>5. p.old_lines = cnt /\ p.old_start = SideStart(h.old_start, off, cnt)
  BY <1>2 DEF RebuildSubhunk
<1>6. OldAt(p) = (IF p.old_lines = 0 THEN p.old_start + 1 ELSE p.old_start)
      /\ OldEnd(p) = OldAt(p) + p.old_lines
  BY DEF OldAt, OldEnd, Anchor
<1>7. OldAt(h) = (IF h.old_lines = 0 THEN h.old_start + 1 ELSE h.old_start)
      /\ OldEnd(h) = OldAt(h) + h.old_lines
  BY DEF OldAt, OldEnd, Anchor
<1>8. upto > 0
  OBVIOUS
<1> HIDE DEF p, off, cnt, upto
<1>9. h.old_lines > 0 /\ h.old_start + off <= MaxU32
  BY <1>1, <1>3, <1>4, <1>7, <1>8, MaxU32Assumption DEF U32
<1>10. SideStart(h.old_start, off, cnt)
         = IF cnt = 0 /\ off > 0 THEN h.old_start + off - 1 ELSE h.old_start + off
  BY <1>1, <1>3, <1>9, SideStartInRange
<1>11. /\ OldAt(p) = OldAt(h) + off
       /\ OldEnd(p) = OldAt(h) + upto
       /\ OldEnd(p) <= OldEnd(h)
  BY <1>1, <1>3, <1>4, <1>5, <1>6, <1>7, <1>8, <1>9, <1>10 DEF U32
<1>12. QED
  BY <1>11 DEF p, off, upto

-----------------------------------------------------------------------------
(* Recursive functions over a range of natural numbers are defined.         *)

(* Induction along a range.                                                 *)
LEMMA Upward ==
  ASSUME NEW a \in Nat, NEW b \in Nat, a <= b, NEW G, a \in G,
         \A m \in (a + 1)..b : m - 1 \in G => m \in G
  PROVE  b \in G
<1> DEFINE C == {m \in a..b : m \notin G}
<1>1. C \subseteq Nat
  OBVIOUS
<1>2. SUFFICES ASSUME C # {} PROVE FALSE
  OBVIOUS
<1>3. PICK m \in C : \A i \in C : m <= i
  <2> HIDE DEF C
  <2>1. QED
    BY <1>1, <1>2, MinIsLeast
<1>4. m \in (a + 1)..b /\ m - 1 \in a..b /\ m - 1 \notin C
  BY <1>3
<1>5. QED
  BY <1>3, <1>4

\* g goes from x along a..b, F taking each step
IsWalk(g, D, x, a, b, F) ==
  g \in [a..b -> D] /\ g[a] = x /\ \A i \in (a + 1)..b : g[i] = F[<<g[i - 1], i>>]

(* A walk of b - a steps from x exists: what a recursive function over a    *)
(* range computes is defined.                                              *)
LEMMA WalkExists ==
  ASSUME NEW D, NEW x \in D, NEW a \in Nat, NEW b \in Nat, a <= b,
         NEW F \in [D \X ((a + 1)..b) -> D]
  PROVE  \E g : IsWalk(g, D, x, a, b, F)
<1> DEFINE Walks(n) == \E g : IsWalk(g, D, x, a, n, F)
           C == {n \in a..b : ~Walks(n)}
<1>0. C \subseteq Nat
  OBVIOUS
<1>1. CASE C = {}
  <2>1. b \in a..b
    OBVIOUS
  <2>2. Walks(b)
    <3> HIDE DEF Walks
    <3>1. QED
      BY <1>1, <2>1
  <2>3. QED
    BY <2>2
<1>2. CASE C # {}
  <2>1. PICK n \in C : \A m \in C : n <= m
    <3> HIDE DEF C
    <3>1. QED
      BY <1>0, <1>2, MinIsLeast
  <2>2. n \in a..b /\ ~ \E g : IsWalk(g, D, x, a, n, F)
    BY <2>1
  <2>3. n # a
    <3>1. IsWalk([i \in a..a |-> x], D, x, a, a, F)
      BY DEF IsWalk
    <3>2. QED
      BY <3>1, <2>2
  <2>4. n - 1 \in a..b /\ n - 1 \notin C
    BY <2>1, <2>2, <2>3
  <2>5. PICK g : IsWalk(g, D, x, a, n - 1, F)
    BY <2>4
  <2>6. n \in (a + 1)..b /\ g[n - 1] \in D
    BY <2>2, <2>3, <2>5 DEF IsWalk
  <2> DEFINE y == F[<<g[n - 1], n>>]
             h == [i \in a..n |-> IF i = n THEN y ELSE g[i]]
  <2>7. y \in D
    BY <2>6
  <2> HIDE DEF y
  <2>8. \A i \in a..(n - 1) : h[i] = g[i] /\ g[i] \in D
    BY <2>5, <2>6 DEF IsWalk
  <2>9. h \in [a..n -> D] /\ h[a] = x /\ h[n] = y
    BY <2>5, <2>6, <2>7, <2>8 DEF IsWalk
  <2>10. ASSUME NEW i \in (a + 1)..n
         PROVE  h[i] = F[<<h[i - 1], i>>]
    <3>1. h[i - 1] = g[i - 1]
      BY <2>8, <2>6
    <3>2. CASE i = n
      BY <3>1, <3>2, <2>9 DEF y
    <3>3. CASE i # n
      <4>1. i \in (a + 1)..(n - 1) /\ i \in a..(n - 1)
        BY <3>3, <2>6
      <4>2. QED
        BY <4>1, <3>1, <2>5, <2>8 DEF IsWalk
    <3>4. QED
      BY <3>2, <3>3
  <2>11. IsWalk(h, D, x, a, n, F)
    BY <2>9, <2>10 DEF IsWalk
  <2>12. QED
    BY <2>2, <2>11
<1>3. QED
  BY <1>1, <1>2
=============================================================================

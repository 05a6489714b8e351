---------------------------- MODULE Parse_proofs ----------------------------
(***************************************************************************)
(* Theorems of Parse, for every set of lines an input can be made of, and  *)
(* of EmitPatch, for every diff of such lines.                             *)
(***************************************************************************)
EXTENDS ParseMeaning, EmitText, HunksTheorems, SequenceTheorems

-----------------------------------------------------------------------------
(* Sequences one after the other.                                            *)

\* g puts seqs one after the other, up to each
Joins(g, seqs, S) ==
  /\ g \in [0..Len(seqs) -> Seq(S)] /\ g[0] = <<>>
  /\ \A n \in 1..Len(seqs) : g[n] = g[n - 1] \o seqs[n]

(* Concat is defined, and joins.                                           *)
LEMMA ConcatJoins ==
  ASSUME NEW S, NEW seqs \in Seq(Seq(S))
  PROVE  \E g : Joins(g, seqs, S) /\ Concat(seqs) = g[Len(seqs)]
<1> DEFINE D == Seq(S)
           b == Len(seqs)
           Join(q, i) == q \o seqs[i]
           F == [p \in D \X ((0 + 1)..b) |-> Join(p[1], p[2])]
           none == <<>>
<1>1. \A q \in D, i \in (0 + 1)..b : Join(q, i) \in D
  <2>1. ASSUME NEW q \in D, NEW i \in (0 + 1)..b
        PROVE  q \o seqs[i] \in D
    <3>1. i \in 1..Len(seqs) /\ seqs[i] \in Seq(S)
      OBVIOUS
    <3>2. QED
      BY <3>1, ConcatProperties
  <2>2. QED
    BY <2>1
<1>3. none \in D /\ b \in Nat /\ 0 <= b
  BY EmptySeq
<1> HIDE DEF D, none, b, Join
<1>2. /\ F \in [D \X ((0 + 1)..b) -> D]
      /\ \A q \in D, i \in (0 + 1)..b : F[<<q, i>>] = Join(q, i)
  BY <1>1
<1> HIDE DEF F
<1>4. PICK g : IsWalk(g, D, none, 0, b, F)
  BY <1>2, <1>3, WalkExists
<1>5. Joins(g, seqs, S)
  <2>1. g \in [0..b -> D] /\ g[0] = none /\ \A i \in (0 + 1)..b : g[i] = F[<<g[i - 1], i>>]
    BY <1>4 DEF IsWalk
  <2>2. ASSUME NEW i \in 1..b
        PROVE  g[i] = Join(g[i - 1], i)
    <3>1. i \in (0 + 1)..b /\ i - 1 \in 0..b
      BY <1>3
    <3>2. g[i - 1] \in D
      BY <2>1, <3>1
    <3>3. QED
      BY <1>2, <2>1, <3>1, <3>2
  <2>3. QED
    BY <2>1, <2>2 DEF Joins, D, none, b, Join
<1>a. Len(seqs) \in Nat
  BY <1>3 DEF b
<1>6. g = [n \in 0..Len(seqs) |-> IF n = 0 THEN <<>> ELSE g[n - 1] \o seqs[n]]
  <2>1. ASSUME NEW n \in 0..Len(seqs)
        PROVE  g[n] = IF n = 0 THEN <<>> ELSE g[n - 1] \o seqs[n]
    <3>1. n # 0 => n \in 1..Len(seqs)
      BY <1>a
    <3>2. QED
      BY <1>5, <3>1 DEF Joins
  <2>2. QED
    BY <1>5, <2>1 DEF Joins
<1> DEFINE Solves(h) == h = [n \in 0..Len(seqs) |-> IF n = 0 THEN <<>> ELSE h[n - 1] \o seqs[n]]
           u == CHOOSE h : Solves(h)
<1>7. Solves(u)
  <2>1. Solves(g)
    BY <1>6
  <2> HIDE DEF Solves
  <2>2. QED
    BY <2>1
<1>8. \A n \in 0..Len(seqs) : u[n] = IF n = 0 THEN <<>> ELSE u[n - 1] \o seqs[n]
  <2> HIDE DEF u
  <2>1. QED
    BY <1>7
<1>9. Concat(seqs) = u[Len(seqs)]
  BY DEF Concat
<1> HIDE DEF u, Solves
<1> DEFINE G == {n \in 0..Len(seqs) : u[n] = g[n]}
<1>10. 0 \in G
  BY <1>a, <1>5, <1>8 DEF Joins
<1>11. ASSUME NEW m \in (0 + 1)..Len(seqs), m - 1 \in G
       PROVE  m \in G
  <2>1. m \in 1..Len(seqs) /\ m # 0 /\ m \in 0..Len(seqs) /\ u[m - 1] = g[m - 1]
    BY <1>a, <1>11
  <2>2. u[m] = u[m - 1] \o seqs[m] /\ g[m] = g[m - 1] \o seqs[m]
    BY <1>5, <1>8, <2>1 DEF Joins
  <2>3. QED
    BY <2>1, <2>2
<1>12. Len(seqs) \in G
  <2> HIDE DEF G
  <2>1. QED
    BY <1>a, <1>10, <1>11, Upward
<1>13. QED
  BY <1>5, <1>9, <1>12

(* Whatever joins them, is the same.                                       *)
LEMMA JoinedIsConcat ==
  ASSUME NEW S, NEW seqs \in Seq(Seq(S)), NEW g, Joins(g, seqs, S)
  PROVE  Concat(seqs) = g[Len(seqs)]
<1>1. PICK u : Joins(u, seqs, S) /\ Concat(seqs) = u[Len(seqs)]
  BY ConcatJoins
<1> DEFINE G == {n \in 0..Len(seqs) : u[n] = g[n]}
<1>2. Len(seqs) \in Nat
  OBVIOUS
<1>3. 0 \in G
  BY <1>1, <1>2 DEF Joins
<1>4. ASSUME NEW m \in (0 + 1)..Len(seqs), m - 1 \in G
      PROVE  m \in G
  <2>1. m \in 1..Len(seqs) /\ m \in 0..Len(seqs) /\ u[m - 1] = g[m - 1]
    BY <1>2, <1>4
  <2>2. u[m] = u[m - 1] \o seqs[m] /\ g[m] = g[m - 1] \o seqs[m]
    BY <1>1, <2>1 DEF Joins
  <2>3. QED
    BY <2>1, <2>2
<1>5. Len(seqs) \in G
  <2> HIDE DEF G
  <2>1. QED
    BY <1>2, <1>3, <1>4, Upward
<1>6. QED
  BY <1>1, <1>5

\* sequences over S joined are a sequence over S
LEMMA ConcatType ==
  ASSUME NEW S, NEW seqs \in Seq(Seq(S))
  PROVE  Concat(seqs) \in Seq(S)
<1>1. PICK g : Joins(g, seqs, S) /\ Concat(seqs) = g[Len(seqs)]
  BY ConcatJoins
<1>2. QED
  BY <1>1 DEF Joins

\* no sequences, no elements
LEMMA ConcatOfNone ==
  ASSUME NEW S
  PROVE  Concat(<<>>) = <<>>
<1> DEFINE none == <<>>
<1>1. none \in Seq(Seq(S)) /\ Len(none) = 0
  OBVIOUS
<1>2. PICK g : Joins(g, none, S) /\ Concat(none) = g[Len(none)]
  <2> HIDE DEF none
  <2>1. QED
    BY <1>1, ConcatJoins
<1>3. QED
  BY <1>1, <1>2 DEF Joins

(* One more sequence at the end.                                           *)
LEMMA ConcatOfAppend ==
  ASSUME NEW S, NEW seqs \in Seq(Seq(S)), NEW x \in Seq(S)
  PROVE  Concat(Append(seqs, x)) = Concat(seqs) \o x
<1>1. PICK g : Joins(g, seqs, S) /\ Concat(seqs) = g[Len(seqs)]
  BY ConcatJoins
<1> DEFINE more == Append(seqs, x)
           k == Len(seqs)
           last == g[k] \o x
           h == [n \in 0..(k + 1) |-> IF n <= k THEN g[n] ELSE last]
<1>2. /\ more \in Seq(Seq(S)) /\ Len(more) = k + 1 /\ k \in Nat
      /\ more[k + 1] = x /\ \A n \in 1..k : more[n] = seqs[n]
  OBVIOUS
<1>3. last \in Seq(S) /\ g[k] \in Seq(S)
  BY <1>1, <1>2, ConcatProperties DEF Joins
<1> HIDE DEF more, last
<1>4. /\ h \in [0..(k + 1) -> Seq(S)] /\ h[0] = <<>>
      /\ h[k + 1] = last /\ \A n \in 0..k : h[n] = g[n]
  BY <1>1, <1>2, <1>3 DEF Joins
<1> HIDE DEF h
<1>5. ASSUME NEW n \in 1..(k + 1)
      PROVE  h[n] = h[n - 1] \o more[n]
  <2>1. CASE n <= k
    <3>1. n \in 1..k /\ n - 1 \in 0..k /\ n \in 0..k
      BY <1>2, <2>1
    <3>2. h[n] = g[n] /\ h[n - 1] = g[n - 1] /\ more[n] = seqs[n]
      BY <1>2, <1>4, <3>1
    <3>3. g[n] = g[n - 1] \o seqs[n]
      BY <1>1, <3>1 DEF Joins
    <3>4. QED
      BY <3>2, <3>3
  <2>2. CASE n = k + 1
    <3>1. k \in 0..k /\ n - 1 = k
      BY <1>2, <2>2
    <3>2. h[n] = last /\ h[n - 1] = g[k] /\ more[n] = x
      BY <1>2, <1>4, <2>2, <3>1
    <3>3. QED
      BY <3>2 DEF last
  <2>3. QED
    BY <1>2, <2>1, <2>2
<1>6. Joins(h, more, S)
  BY <1>2, <1>4, <1>5 DEF Joins
<1>7. Concat(more) = h[k + 1]
  BY <1>2, <1>6, JoinedIsConcat
<1>8. QED
  BY <1>1, <1>4, <1>7 DEF more, last

\* like the last step of a proof about g[Len(seqs)]: nothing joined is nothing
LEMMA ConcatOfNothing ==
  ASSUME NEW S, NEW seqs \in Seq(Seq(S)), \A i \in DOMAIN seqs : seqs[i] = <<>>
  PROVE  Concat(seqs) = <<>>
<1> DEFINE g == [n \in 0..Len(seqs) |-> <<>>]
<1>1. Len(seqs) \in Nat /\ DOMAIN seqs = 1..Len(seqs)
  OBVIOUS
<1>2. g \in [0..Len(seqs) -> Seq(S)] /\ g[0] = <<>> /\ g[Len(seqs)] = <<>>
  BY <1>1, EmptySeq
<1>3. ASSUME NEW n \in 1..Len(seqs)
      PROVE  g[n] = g[n - 1] \o seqs[n]
  <2>0. n \in 0..Len(seqs) /\ n - 1 \in 0..Len(seqs) /\ n \in DOMAIN seqs
    BY <1>1
  <2>1. g[n] = <<>> /\ g[n - 1] = <<>> /\ seqs[n] = <<>>
    BY <2>0
  <2> HIDE DEF g
  <2>2. QED
    BY <2>1
<1> HIDE DEF g
<1>4. Joins(g, seqs, S)
  BY <1>2, <1>3 DEF Joins
<1>5. QED
  BY <1>2, <1>4, JoinedIsConcat

\* joining is associative
LEMMA Regrouped ==
  ASSUME NEW S, NEW c \in Seq(S), NEW d \in Seq(S), NEW y \in Seq(S)
  PROVE  c \o (d \o y) = (c \o d) \o y
  BY ConcatAssociative

(* The last of them grows.                                                 *)
Longer(S, a, b, n, y) ==
  /\ a \in Seq(Seq(S)) /\ b \in Seq(Seq(S)) /\ n \in Nat \ {0}
  /\ Len(a) = n /\ Len(b) = n /\ \A i \in 1..n : i # n => a[i] = b[i]
  /\ y \in Seq(S) /\ b[n] = a[n] \o y

LEMMA ConcatOfLonger ==
  ASSUME NEW S, NEW a, NEW b, NEW n, NEW y, Longer(S, a, b, n, y)
  PROVE  Concat(b) = Concat(a) \o y
<1> USE DEF Longer
<1> DEFINE front == SubSeq(a, 1, n - 1)
<1>1. a[n] \in Seq(S) /\ b[n] \in Seq(S) /\ front \in Seq(Seq(S)) /\ Len(front) = n - 1
      /\ \A i \in 1..(n - 1) : front[i] = a[i]
  <2>1. n \in 1..Len(a) /\ n \in 1..Len(b) /\ n - 1 \in Nat
    OBVIOUS
  <2>2. a[n] \in Seq(S) /\ b[n] \in Seq(S)
    BY <2>1, ElementOfSeq
  <2>3. ASSUME NEW i \in 1..(n - 1)
        PROVE  a[i] \in Seq(S)
    <3>1. i \in 1..Len(a)
      OBVIOUS
    <3>2. QED
      BY <3>1, ElementOfSeq
  <2>4. /\ front \in Seq(Seq(S)) /\ Len(front) = (IF 1 <= n - 1 THEN n - 1 - 1 + 1 ELSE 0)
        /\ \A i \in 1..(n - 1 - 1 + 1) : front[i] = a[1 + i - 1]
    <3>1. 1 \in Int /\ n - 1 \in Int
      BY <2>1
    <3>2. QED
      BY <2>3, <3>1, SubSeqProperties
  <2> HIDE DEF front
  <2>5. Len(front) = n - 1 /\ \A i \in 1..(n - 1) : front[i] = a[i]
    BY <2>1, <2>4
  <2>6. QED
    BY <2>2, <2>4, <2>5
<1> HIDE DEF front
<1>2. a = Append(front, a[n]) /\ b = Append(front, b[n])
  <2>1. ASSUME NEW c \in Seq(Seq(S)), Len(c) = n, \A i \in 1..n : i # n => a[i] = c[i]
        PROVE  c = Append(front, c[n])
    <3>1. \A i \in 1..(n - 1) : front[i] = c[i]
      BY <1>1, <2>1
    <3>2. c[n] \in Seq(S)
      BY <2>1
    <3>3. /\ Append(front, c[n]) \in Seq(Seq(S)) /\ Len(Append(front, c[n])) = n
          /\ \A i \in 1..n : Append(front, c[n])[i] = c[i]
      BY <1>1, <3>1, <3>2
    <3>4. QED
      BY <2>1, <3>3, SeqEqual
  <2>2. QED
    BY <2>1
<1>3. Concat(a) = Concat(front) \o a[n] /\ Concat(b) = Concat(front) \o b[n]
  <2>1. Concat(Append(front, a[n])) = Concat(front) \o a[n]
    BY <1>1, ConcatOfAppend
  <2>2. Concat(Append(front, b[n])) = Concat(front) \o b[n]
    BY <1>1, ConcatOfAppend
  <2>3. QED
    BY <1>2, <2>1, <2>2, Zenon
<1>4. Concat(front) \in Seq(S)
  BY <1>1, ConcatType
<1>5. PICK c : c = Concat(front)
  OBVIOUS
<1>6. PICK d : d = a[n]
  OBVIOUS
<1>7. /\ c \in Seq(S) /\ d \in Seq(S) /\ Concat(a) = c \o d /\ Concat(b) = c \o b[n]
      /\ b[n] = d \o y /\ y \in Seq(S)
  BY <1>1, <1>3, <1>4, <1>5, <1>6
<1>8. c \o (d \o y) = (c \o d) \o y
  <2>1. c \in Seq(S) /\ d \in Seq(S) /\ y \in Seq(S)
    BY <1>7
  <2>2. QED
    BY ONLY <2>1, Regrouped
<1>9. QED
  BY <1>7, <1>8, Zenon

-----------------------------------------------------------------------------
(* Trailer lines by tag.                                                     *)

Tags(S) == [at : Nat, line : S]

\* what a trailer line adds at a tag
OneTagged(t, at) == IF t.at = at THEN <<t.line>> ELSE <<>>
PiecesAt(tr, at) == [i \in DOMAIN tr |-> OneTagged(tr[i], at)]

\* the lines of one tag are the pieces at that tag, joined
LEMMA TaggedAtIs ==
  ASSUME NEW S, NEW tr \in Seq(Tags(S)), NEW at
  PROVE  /\ PiecesAt(tr, at) \in Seq(Seq(S)) /\ Len(PiecesAt(tr, at)) = Len(tr)
         /\ TaggedAt(tr, at) = Concat(PiecesAt(tr, at))
         /\ TaggedAt(tr, at) \in Seq(S)
<1>1. Len(tr) \in Nat /\ DOMAIN tr = 1..Len(tr)
  OBVIOUS
<1>2. ASSUME NEW i \in 1..Len(tr)
      PROVE  OneTagged(tr[i], at) \in Seq(S)
  <2>1. tr[i] \in Tags(S)
    OBVIOUS
  <2>2. tr[i].line \in S
    BY <2>1 DEF Tags
  <2>3. <<tr[i].line>> \in Seq(S) /\ <<>> \in Seq(S)
    BY <2>2
  <2>4. QED
    BY <2>3 DEF OneTagged
<1>3. PiecesAt(tr, at) \in Seq(Seq(S)) /\ Len(PiecesAt(tr, at)) = Len(tr)
  BY <1>1, <1>2 DEF PiecesAt
<1>4. TaggedAt(tr, at) = Concat(PiecesAt(tr, at))
  BY DEF TaggedAt, PiecesAt, OneTagged
<1>5. QED
  BY <1>3, <1>4, ConcatType

\* a tag no line has
LEMMA TaggedAtNone ==
  ASSUME NEW S, NEW tr \in Seq(Tags(S)), NEW at, \A i \in DOMAIN tr : tr[i].at # at
  PROVE  TaggedAt(tr, at) = <<>>
<1>1. PiecesAt(tr, at) \in Seq(Seq(S)) /\ TaggedAt(tr, at) = Concat(PiecesAt(tr, at))
  BY TaggedAtIs
<1>2. \A i \in DOMAIN PiecesAt(tr, at) : PiecesAt(tr, at)[i] = <<>>
  BY DEF PiecesAt, OneTagged
<1>3. QED
  BY <1>1, <1>2, ConcatOfNothing

\* a line appended is the last of its tag and shows at no other
LEMMA TaggedAtAppend ==
  ASSUME NEW S, NEW tr \in Seq(Tags(S)), NEW t \in Tags(S), NEW at
  PROVE  TaggedAt(Append(tr, t), at) = TaggedAt(tr, at) \o OneTagged(t, at)
<1> DEFINE more == Append(tr, t)
           n == Len(tr)
<1>1. /\ more \in Seq(Tags(S)) /\ Len(more) = n + 1 /\ n \in Nat
      /\ more[n + 1] = t /\ \A i \in 1..n : more[i] = tr[i]
      /\ DOMAIN more = 1..(n + 1) /\ DOMAIN tr = 1..n
  OBVIOUS
<1> HIDE DEF more
<1>2. /\ PiecesAt(tr, at) \in Seq(Seq(S)) /\ Len(PiecesAt(tr, at)) = n
      /\ TaggedAt(tr, at) = Concat(PiecesAt(tr, at))
  BY TaggedAtIs
<1>3. /\ PiecesAt(more, at) \in Seq(Seq(S)) /\ Len(PiecesAt(more, at)) = n + 1
      /\ TaggedAt(more, at) = Concat(PiecesAt(more, at))
  BY <1>1, TaggedAtIs
<1>4. OneTagged(t, at) \in Seq(S)
  BY DEF OneTagged, Tags
<1>5. /\ PiecesAt(more, at)[n + 1] = OneTagged(t, at)
      /\ \A i \in 1..n : PiecesAt(more, at)[i] = PiecesAt(tr, at)[i]
  BY <1>1 DEF PiecesAt
<1>6. PiecesAt(more, at) = Append(PiecesAt(tr, at), OneTagged(t, at))
  <2>1. PICK a : a = PiecesAt(tr, at)
    OBVIOUS
  <2>2. PICK b : b = PiecesAt(more, at)
    OBVIOUS
  <2>3. PICK x : x = OneTagged(t, at)
    OBVIOUS
  <2>4. /\ a \in Seq(Seq(S)) /\ b \in Seq(Seq(S)) /\ x \in Seq(S) /\ Len(a) = n /\ Len(b) = n + 1
        /\ b[n + 1] = x /\ \A i \in 1..n : b[i] = a[i]
    BY <1>2, <1>3, <1>4, <1>5, <2>1, <2>2, <2>3
  <2>5. b = Append(a, x)
    BY <1>1, <2>4
  <2>6. QED
    BY <2>1, <2>2, <2>3, <2>5
<1>7. Concat(PiecesAt(more, at)) = Concat(PiecesAt(tr, at)) \o OneTagged(t, at)
  BY <1>2, <1>4, <1>6, ConcatOfAppend
<1>8. QED
  BY <1>2, <1>3, <1>7 DEF more

\* the tags from..to
Width(from, to) == IF from <= to THEN to - from + 1 ELSE 0
Rows(tr, from, to) == [n \in 1..Width(from, to) |-> TaggedAt(tr, from + n - 1)]

\* the lines of a range of tags are the rows of its tags, joined
LEMMA TaggedIs ==
  ASSUME NEW S, NEW tr \in Seq(Tags(S)), NEW from \in Nat, NEW to \in Nat
  PROVE  /\ Rows(tr, from, to) \in Seq(Seq(S))
         /\ Tagged(tr, from, to) = Concat(Rows(tr, from, to))
         /\ Tagged(tr, from, to) \in Seq(S)
<1>1. Width(from, to) \in Nat
  BY DEF Width
<1>2. \A n \in 1..Width(from, to) : TaggedAt(tr, from + n - 1) \in Seq(S)
  BY TaggedAtIs
<1>3. Rows(tr, from, to) \in Seq(Seq(S)) /\ Len(Rows(tr, from, to)) = Width(from, to)
  BY <1>1, <1>2 DEF Rows
<1>4. Tagged(tr, from, to) = Concat(Rows(tr, from, to))
  BY DEF Tagged, Rows, Width
<1>5. QED
  BY <1>1, <1>3, <1>4, ConcatType

\* a range of tags no line has
LEMMA TaggedNone ==
  ASSUME NEW S, NEW tr \in Seq(Tags(S)), NEW from \in Nat, NEW to \in Nat,
         \A i \in DOMAIN tr : tr[i].at \notin from..to
  PROVE  Tagged(tr, from, to) = <<>>
<1>1. /\ Rows(tr, from, to) \in Seq(Seq(S))
      /\ Tagged(tr, from, to) = Concat(Rows(tr, from, to))
  BY TaggedIs
<1>a. Width(from, to) \in Nat
  BY DEF Width
<1>b. DOMAIN Rows(tr, from, to) = 1..Width(from, to)
  BY DEF Rows
<1>2. ASSUME NEW n \in 1..Width(from, to)
      PROVE  Rows(tr, from, to)[n] = <<>>
  <2>1. from + n - 1 \in from..to
    BY DEF Width
  <2>2. TaggedAt(tr, from + n - 1) = <<>>
    BY <2>1, TaggedAtNone
  <2>3. QED
    BY <2>2 DEF Rows
<1>3. QED
  BY <1>1, <1>b, <1>2, ConcatOfNothing

(* A line appended shows where its tag is the last.                        *)
LEMMA TaggedAppend ==
  ASSUME NEW S, NEW tr \in Seq(Tags(S)), NEW t \in Tags(S), NEW from \in Nat, NEW to \in Nat,
         t.at = to \/ t.at \notin from..to
  PROVE  Tagged(Append(tr, t), from, to)
           = Tagged(tr, from, to) \o (IF t.at = to /\ from <= to THEN <<t.line>> ELSE <<>>)
<1> DEFINE more == Append(tr, t)
           w == Width(from, to)
<1>1. more \in Seq(Tags(S)) /\ t.line \in S /\ t.at \in Nat
  BY DEF Tags
<1>a. w \in Nat
  BY DEF Width
<1>2a. Len(Rows(tr, from, to)) = w /\ Len(Rows(more, from, to)) = w
  <2> HIDE DEF w, more
  <2>1. ASSUME NEW s, s = [n \in 1..w |-> s[n]]
        PROVE  Len(s) = w
    BY <1>a, <2>1
  <2>2. QED
    BY <2>1 DEF Rows, w
<1>2. /\ Rows(tr, from, to) \in Seq(Seq(S))
      /\ Tagged(tr, from, to) = Concat(Rows(tr, from, to))
      /\ Tagged(tr, from, to) \in Seq(S)
  BY TaggedIs
<1>3. /\ Rows(more, from, to) \in Seq(Seq(S))
      /\ Tagged(more, from, to) = Concat(Rows(more, from, to))
  BY <1>1, TaggedIs
<1>4. \A at : TaggedAt(more, at) = TaggedAt(tr, at) \o OneTagged(t, at)
  BY TaggedAtAppend
<1>4a. \A at : TaggedAt(tr, at) \in Seq(S)
  BY TaggedAtIs
<1>5. ASSUME NEW n \in 1..w, t.at # from + n - 1
      PROVE  Rows(more, from, to)[n] = Rows(tr, from, to)[n]
  <2>1. PICK q : q = TaggedAt(tr, from + n - 1)
    OBVIOUS
  <2>2. q \in Seq(S) /\ OneTagged(t, from + n - 1) = <<>>
    BY <1>4a, <1>5, <2>1 DEF OneTagged
  <2>3. q \o <<>> = q
    BY <2>2
  <2>4. TaggedAt(more, from + n - 1) = q
    BY <1>4, <2>1, <2>2, <2>3
  <2>5. QED
    BY <2>1, <2>4 DEF Rows
<1> HIDE DEF more
<1>6. CASE t.at = to /\ from <= to
  <2>1. w = to - from + 1 /\ w \in Nat \ {0} /\ from + w - 1 = to
    BY <1>6 DEF Width
  <2>2. \A n \in 1..w : n # w => Rows(tr, from, to)[n] = Rows(more, from, to)[n]
    BY <1>5, <1>6, <2>1
  <2>3. Rows(more, from, to)[w] = Rows(tr, from, to)[w] \o <<t.line>>
    <3>1. w \in 1..w
      BY <2>1
    <3>2. Rows(more, from, to)[w] = TaggedAt(more, to) /\ Rows(tr, from, to)[w] = TaggedAt(tr, to)
      BY <2>1, <3>1 DEF Rows
    <3>3. OneTagged(t, to) = <<t.line>>
      BY <1>6 DEF OneTagged
    <3>4. QED
      BY <1>4, <3>2, <3>3
  <2>4. <<t.line>> \in Seq(S)
    BY <1>1
  <2> HIDE DEF w
  <2>5. Concat(Rows(more, from, to)) = Concat(Rows(tr, from, to)) \o <<t.line>>
    <3>1. PICK a : a = Rows(tr, from, to)
      OBVIOUS
    <3>2. PICK b : b = Rows(more, from, to)
      OBVIOUS
    <3>3. PICK y : y = <<t.line>>
      OBVIOUS
    <3>4. Longer(S, a, b, w, y)
      BY <1>2, <1>2a, <1>3, <2>1, <2>2, <2>3, <2>4, <3>1, <3>2, <3>3 DEF Longer
    <3>5. Concat(b) = Concat(a) \o y
      BY ONLY <3>4, ConcatOfLonger
    <3>6. QED
      BY <3>1, <3>2, <3>3, <3>5
  <2>6. QED
    BY <1>2, <1>3, <1>6, <2>5 DEF more
<1>7. CASE ~(t.at = to /\ from <= to)
  <2>1. \A n \in 1..w : t.at # from + n - 1
    BY <1>1, <1>7 DEF Width
  <2>2. \A n \in 1..w : Rows(more, from, to)[n] = Rows(tr, from, to)[n]
    BY <1>5, <2>1
  <2>3. Rows(more, from, to) = Rows(tr, from, to)
    BY <1>2, <1>2a, <1>3, <2>2, SeqEqual
  <2>4. Tagged(more, from, to) = Tagged(tr, from, to)
    BY <1>2, <1>2a, <1>3, <2>3
  <2>5. PICK q : q = Tagged(tr, from, to)
    OBVIOUS
  <2>6. q \o <<>> = q
    BY <1>2, <2>5
  <2>7. QED
    BY <1>7, <2>4, <2>5, <2>6 DEF more
<1>8. QED
  BY <1>6, <1>7

(* The last tag is one of the tags, or none.                               *)
LEMMA LastTagIs ==
  ASSUME NEW S, NEW tr \in Seq(Tags(S)), NEW n \in Nat, \A i \in DOMAIN tr : tr[i].at <= n
  PROVE  LastTag(tr) \in 0..n /\ \A i \in DOMAIN tr : tr[i].at <= LastTag(tr)
<1> DEFINE tags == {tr[i].at : i \in DOMAIN tr}
           U == {n - k : k \in tags \cup {0}}
           Is(m) == m \in tags \union {0} /\ \A at \in tags : at <= m
<1>1. ASSUME NEW i \in DOMAIN tr
      PROVE  tr[i].at \in 0..n
  <2>1. tr[i] \in Tags(S)
    OBVIOUS
  <2>2. tr[i].at \in Nat /\ tr[i].at <= n
    BY <2>1 DEF Tags
  <2>3. QED
    BY <2>2
<1>2. tags \cup {0} \subseteq 0..n
  BY <1>1
<1>3. U \subseteq Nat /\ U # {}
  BY <1>2
<1>4. PICK d \in U : \A x \in U : d <= x
  <2> HIDE DEF U
  <2>1. QED
    BY <1>3, MinIsLeast
<1>5. Is(n - d)
  <2>1. PICK k \in tags \cup {0} : d = n - k
    BY <1>4
  <2>2. k \in 0..n /\ n - d = k
    BY <1>2, <2>1
  <2>3. ASSUME NEW at \in tags
        PROVE  at <= k
    <3>1. n - at \in U /\ at \in 0..n
      BY <1>2
    <3>2. d <= n - at
      BY <1>4, <3>1
    <3>3. QED
      BY <2>1, <2>2, <3>1, <3>2
  <2>4. QED
    BY <2>1, <2>2, <2>3
<1>6. LastTag(tr) = CHOOSE m \in tags \union {0} : \A at \in tags : at <= m
  BY DEF LastTag
<1>7. Is(LastTag(tr))
  <2> HIDE DEF tags
  <2>1. QED
    BY <1>5, <1>6
<1>8. QED
  BY <1>2, <1>7

-----------------------------------------------------------------------------
(* Tagged lines in the order of their tags.                                  *)

Lined(s) == [k \in DOMAIN s |-> s[k].line]

LEMMA LinedIs ==
  ASSUME NEW S, NEW s \in Seq(Tags(S))
  PROVE  /\ Lined(s) \in Seq(S) /\ Len(Lined(s)) = Len(s)
         /\ \A k \in 1..Len(s) : Lined(s)[k] = s[k].line
<1>1. Len(s) \in Nat /\ DOMAIN s = 1..Len(s) /\ \A k \in 1..Len(s) : s[k] \in Tags(S)
  OBVIOUS
<1>2. \A k \in 1..Len(s) : s[k].line \in S
  BY <1>1 DEF Tags
<1>3. QED
  BY <1>1, <1>2 DEF Lined

LEMMA LinedJoin ==
  ASSUME NEW S, NEW a \in Seq(Tags(S)), NEW b \in Seq(Tags(S))
  PROVE  Lined(a \o b) = Lined(a) \o Lined(b)
<1>1. PICK c : c = a \o b
  OBVIOUS
<1>2. PICK m : m = Len(a)
  OBVIOUS
<1>3. PICK n : n = Len(b)
  OBVIOUS
<1>4. /\ c \in Seq(Tags(S)) /\ m \in Nat /\ n \in Nat /\ Len(c) = m + n
      /\ \A k \in 1..(m + n) : c[k] = IF k <= m THEN a[k] ELSE b[k - m]
  BY <1>1, <1>2, <1>3, ConcatProperties
<1>5. PICK x : x = Lined(a)
  OBVIOUS
<1>6. PICK y : y = Lined(b)
  OBVIOUS
<1>7. PICK z : z = Lined(c)
  OBVIOUS
<1>8. x \in Seq(S) /\ Len(x) = m /\ \A k \in 1..m : x[k] = a[k].line
  BY <1>2, <1>5, LinedIs
<1>9. y \in Seq(S) /\ Len(y) = n /\ \A k \in 1..n : y[k] = b[k].line
  BY <1>3, <1>6, LinedIs
<1>10. z \in Seq(S) /\ Len(z) = m + n /\ \A k \in 1..(m + n) : z[k] = c[k].line
  BY <1>4, <1>7, LinedIs
<1>11. /\ x \o y \in Seq(S) /\ Len(x \o y) = m + n
       /\ \A k \in 1..(m + n) : (x \o y)[k] = IF k <= m THEN x[k] ELSE y[k - m]
  BY <1>8, <1>9, ConcatProperties
<1>12. ASSUME NEW k \in 1..(m + n)
       PROVE  z[k] = (x \o y)[k]
  <2>1. CASE k <= m
    <3>1. k \in 1..m
      BY <1>4, <2>1
    <3>2. z[k] = a[k].line /\ (x \o y)[k] = x[k]
      BY <1>4, <1>10, <1>11, <2>1
    <3>3. QED
      BY <1>8, <3>1, <3>2
  <2>2. CASE ~(k <= m)
    <3>1. k - m \in 1..n
      BY <1>4, <2>2
    <3>2. z[k] = b[k - m].line /\ (x \o y)[k] = y[k - m]
      BY <1>4, <1>10, <1>11, <2>2
    <3>3. QED
      BY <1>9, <3>1, <3>2
  <2>3. QED
    BY <2>1, <2>2
<1>13. z = x \o y
  BY <1>10, <1>11, <1>12, SeqEqual
<1>14. QED
  BY <1>1, <1>5, <1>6, <1>7, <1>13

LEMMA LinedConcat ==
  ASSUME NEW S, NEW seqs \in Seq(Seq(Tags(S)))
  PROVE  Lined(Concat(seqs)) = Concat([n \in DOMAIN seqs |-> Lined(seqs[n])])
<1>1. PICK g : Joins(g, seqs, Tags(S)) /\ Concat(seqs) = g[Len(seqs)]
  BY ConcatJoins
<1>2. PICK w : w = Len(seqs)
  OBVIOUS
<1>3. w \in Nat /\ DOMAIN seqs = 1..w /\ \A n \in 1..w : seqs[n] \in Seq(Tags(S))
  BY <1>2
<1>4. PICK ls : ls = [n \in 1..w |-> Lined(seqs[n])]
  OBVIOUS
<1>5. PICK h : h = [n \in 0..w |-> Lined(g[n])]
  OBVIOUS
<1>6. ls \in Seq(Seq(S)) /\ Len(ls) = w /\ \A n \in 1..w : ls[n] = Lined(seqs[n])
  <2>1. \A n \in 1..w : Lined(seqs[n]) \in Seq(S)
    BY <1>3, LinedIs
  <2>2. QED
    BY <1>3, <1>4, <2>1
<1>7. /\ \A n \in 0..w : g[n] \in Seq(Tags(S))
      /\ g[0] = <<>> /\ \A n \in 1..w : g[n] = g[n - 1] \o seqs[n]
  BY <1>1, <1>2 DEF Joins
<1>8. h \in [0..w -> Seq(S)]
  <2>1. \A n \in 0..w : Lined(g[n]) \in Seq(S)
    BY <1>7, LinedIs
  <2>2. QED
    BY <1>5, <2>1
<1>9. h[0] = <<>>
  <2>1. Lined(<<>>) = <<>>
    BY DEF Lined
  <2>2. h[0] = Lined(g[0])
    BY <1>3, <1>5
  <2>3. QED
    BY <1>7, <2>1, <2>2
<1>10. ASSUME NEW n \in 1..w
       PROVE  h[n] = h[n - 1] \o ls[n]
  <2>1. n \in 0..w /\ n - 1 \in 0..w
    BY <1>3
  <2>2. PICK p : p = g[n - 1]
    OBVIOUS
  <2>3. PICK q : q = seqs[n]
    OBVIOUS
  <2>4. p \in Seq(Tags(S)) /\ q \in Seq(Tags(S)) /\ g[n] = p \o q
    BY <1>3, <1>7, <2>1, <2>2, <2>3
  <2>5. Lined(p \o q) = Lined(p) \o Lined(q)
    BY <2>4, LinedJoin
  <2>6. h[n] = Lined(p \o q) /\ h[n - 1] = Lined(p) /\ ls[n] = Lined(q)
    BY <1>5, <1>6, <2>1, <2>2, <2>3, <2>4
  <2>7. QED
    BY <2>5, <2>6
<1>11. Joins(h, ls, S)
  BY <1>6, <1>8, <1>9, <1>10 DEF Joins
<1>12. Concat(ls) = h[w]
  BY <1>6, <1>11, JoinedIsConcat
<1>13. h[w] = Lined(g[w])
  BY <1>3, <1>5
<1>14. QED
  BY <1>1, <1>2, <1>3, <1>4, <1>12, <1>13

\* what a trailer line is at a tag
One(t, at) == IF t.at = at THEN <<t>> ELSE <<>>
Row(tr, at) == Concat([k \in DOMAIN tr |-> One(tr[k], at)])

LEMMA RowIs ==
  ASSUME NEW S, NEW tr \in Seq(Tags(S)), NEW at
  PROVE  /\ Row(tr, at) \in Seq({t \in Tags(S) : t.at = at})
         /\ Row(tr, at) \in Seq(Tags(S))
         /\ Lined(Row(tr, at)) = TaggedAt(tr, at)
         /\ (\A k \in DOMAIN tr : tr[k].at # at) => Row(tr, at) = <<>>
<1>1. PICK n : n = Len(tr)
  OBVIOUS
<1>2. n \in Nat /\ DOMAIN tr = 1..n /\ \A k \in 1..n : tr[k] \in Tags(S)
  BY <1>1
<1>3. PICK T : T = {t \in Tags(S) : t.at = at}
  OBVIOUS
<1>4. PICK ps : ps = [k \in 1..n |-> One(tr[k], at)]
  OBVIOUS
<1>5. \A k \in 1..n : One(tr[k], at) \in Seq(T)
  <2>1. ASSUME NEW t \in Tags(S)
        PROVE  One(t, at) \in Seq(T)
    <3>1. CASE t.at = at
      <4>1. t \in T
        BY <1>3, <3>1
      <4>2. <<t>> \in Seq(T)
        BY ONLY <4>1
      <4>3. QED
        BY <3>1, <4>2 DEF One
    <3>2. CASE t.at # at
      BY <3>2, EmptySeq DEF One
    <3>3. QED
      BY <3>1, <3>2
  <2>2. QED
    BY <1>2, <2>1
<1>6. ps \in Seq(Seq(T)) /\ Len(ps) = n /\ DOMAIN ps = 1..n
  BY <1>2, <1>4, <1>5
<1>7. Row(tr, at) = Concat(ps)
  BY <1>2, <1>4 DEF Row
<1>8. Row(tr, at) \in Seq(T)
  BY <1>6, <1>7, ConcatType
<1>9. T \subseteq Tags(S)
  BY <1>3
<1>10. Row(tr, at) \in Seq(Tags(S))
  BY <1>8, <1>9, SeqMonotonic
<1>11. Lined(Row(tr, at)) = TaggedAt(tr, at)
  <2>1. ps \in Seq(Seq(Tags(S)))
    <3>1. \A k \in 1..n : ps[k] \in Seq(Tags(S))
      BY <1>4, <1>5, <1>9, SeqMonotonic
    <3>2. QED
      BY <1>6, <3>1
  <2>2. Lined(Concat(ps)) = Concat([k \in DOMAIN ps |-> Lined(ps[k])])
    BY <2>1, LinedConcat
  <2>3. \A k \in 1..n : Lined(ps[k]) = OneTagged(tr[k], at)
    <3>1. ASSUME NEW t
          PROVE  Lined(One(t, at)) = OneTagged(t, at)
      <4>1. Lined(<<t>>) = <<t.line>> /\ Lined(<<>>) = <<>>
        BY DEF Lined
      <4>2. QED
        BY <4>1 DEF One, OneTagged
    <3>2. QED
      BY <1>4, <3>1
  <2>4. [k \in DOMAIN ps |-> Lined(ps[k])] = PiecesAt(tr, at)
    BY <1>2, <1>6, <2>3 DEF PiecesAt
  <2>5. TaggedAt(tr, at) = Concat(PiecesAt(tr, at))
    BY TaggedAtIs
  <2>6. QED
    BY <1>7, <2>2, <2>4, <2>5
<1>12. ASSUME \A k \in DOMAIN tr : tr[k].at # at
       PROVE  Row(tr, at) = <<>>
  <2>1. \A k \in DOMAIN ps : ps[k] = <<>>
    BY <1>2, <1>4, <1>6, <1>12 DEF One
  <2>2. QED
    BY <1>6, <1>7, <2>1, ConcatOfNothing
<1>13. QED
  BY <1>3, <1>8, <1>10, <1>11, <1>12

\* the lines tagged up to n, in the order of their tags
Rises(tr, n) == [k \in 1..(n + 1) |-> Row(tr, k - 1)]
Up(tr, n) == Concat(Rises(tr, n))

UpTo(S, n) == {t \in Tags(S) : t.at <= n}
Past(S, n) == {t \in Tags(S) : t.at > n}

LEMMA UpIs ==
  ASSUME NEW S, NEW tr \in Seq(Tags(S)), NEW n \in Nat
  PROVE  /\ Rises(tr, n) \in Seq(Seq(Tags(S))) /\ Len(Rises(tr, n)) = n + 1
         /\ Up(tr, n) \in Seq(UpTo(S, n)) /\ Up(tr, n) \in Seq(Tags(S))
         /\ Lined(Up(tr, n)) = Tagged(tr, 0, n)
<1>1. PICK rs : rs = Rises(tr, n)
  OBVIOUS
<1>2. PICK T : T = UpTo(S, n)
  OBVIOUS
<1>3. T \subseteq Tags(S)
  BY <1>2 DEF UpTo
<1>4. ASSUME NEW k \in 1..(n + 1)
      PROVE  Row(tr, k - 1) \in Seq(T)
  <2>1. PICK U : U = {t \in Tags(S) : t.at = k - 1}
    OBVIOUS
  <2>2. Row(tr, k - 1) \in Seq(U)
    BY <2>1, RowIs
  <2>3. U \subseteq T
    BY <1>2, <2>1 DEF UpTo
  <2>4. QED
    BY <2>2, <2>3, SeqMonotonic
<1>5. rs \in Seq(Seq(T)) /\ Len(rs) = n + 1 /\ DOMAIN rs = 1..(n + 1)
  BY <1>1, <1>4 DEF Rises
<1>6. rs \in Seq(Seq(Tags(S)))
  <2>1. \A k \in 1..(n + 1) : rs[k] \in Seq(Tags(S))
    <3>1. ASSUME NEW k \in 1..(n + 1)
          PROVE  rs[k] \in Seq(Tags(S))
      <4>1. rs[k] \in Seq(T)
        BY <1>5
      <4>2. QED
        BY <1>3, <4>1, SeqMonotonic
    <3>2. QED
      BY <3>1
  <2>2. QED
    BY <1>5, <2>1
<1>7. Up(tr, n) \in Seq(T)
  BY <1>1, <1>5, ConcatType DEF Up
<1>8. Up(tr, n) \in Seq(Tags(S))
  BY <1>1, <1>6, ConcatType DEF Up
<1>9. Lined(Up(tr, n)) = Tagged(tr, 0, n)
  <2>1. Lined(Concat(rs)) = Concat([k \in DOMAIN rs |-> Lined(rs[k])])
    BY <1>6, LinedConcat
  <2>2. PICK w : w = n + 1
    OBVIOUS
  <2>3. Width(0, n) = w
    BY <2>2 DEF Width
  <2>4. \A k \in 1..w : Lined(rs[k]) = TaggedAt(tr, 0 + k - 1)
    <3>1. ASSUME NEW k \in 1..w
          PROVE  Lined(rs[k]) = TaggedAt(tr, 0 + k - 1)
      <4>1. rs[k] = Row(tr, k - 1) /\ 0 + k - 1 = k - 1
        BY <1>1, <2>2 DEF Rises
      <4>2. QED
        BY <4>1, RowIs
    <3>2. QED
      BY <3>1
  <2>5. [k \in DOMAIN rs |-> Lined(rs[k])] = Rows(tr, 0, n)
    BY <1>5, <2>2, <2>3, <2>4 DEF Rows
  <2>6. Tagged(tr, 0, n) = Concat(Rows(tr, 0, n))
    BY TaggedIs
  <2>7. QED
    BY <1>1, <2>1, <2>5, <2>6 DEF Up
<1>10. QED
  BY <1>1, <1>2, <1>5, <1>6, <1>7, <1>8, <1>9

LEMMA UpMore ==
  ASSUME NEW S, NEW tr \in Seq(Tags(S)), NEW n \in Nat
  PROVE  Up(tr, n + 1) = Up(tr, n) \o Row(tr, n + 1)
<1>1. PICK a : a = Rises(tr, n)
  OBVIOUS
<1>2. PICK b : b = Rises(tr, n + 1)
  OBVIOUS
<1>3. PICK x : x = Row(tr, n + 1)
  OBVIOUS
<1>4. a \in Seq(Seq(Tags(S))) /\ Len(a) = n + 1 /\ x \in Seq(Tags(S))
  BY <1>1, <1>3, UpIs, RowIs
<1>5. b \in Seq(Seq(Tags(S))) /\ Len(b) = n + 2
  <2>1. n + 1 \in Nat
    OBVIOUS
  <2>2. b \in Seq(Seq(Tags(S))) /\ Len(b) = (n + 1) + 1
    BY <1>2, <2>1, UpIs
  <2>3. QED
    BY <2>2
<1>6. b[n + 2] = x /\ \A k \in 1..(n + 1) : b[k] = a[k]
  <2>1. \A k \in 1..((n + 1) + 1) : b[k] = Row(tr, k - 1)
    BY <1>2 DEF Rises
  <2>2. \A k \in 1..(n + 1) : a[k] = Row(tr, k - 1)
    BY <1>1 DEF Rises
  <2>3. n + 2 \in 1..((n + 1) + 1) /\ (n + 2) - 1 = n + 1 /\ 1..(n + 1) \subseteq 1..((n + 1) + 1)
    OBVIOUS
  <2>4. b[n + 2] = Row(tr, n + 1)
    BY <2>1, <2>3
  <2>5. QED
    BY <1>3, <2>1, <2>2, <2>3, <2>4
<1>7. b = Append(a, x)
  <2>1. PICK w : w = n + 1
    OBVIOUS
  <2>2. /\ w \in Nat /\ a \in Seq(Seq(Tags(S))) /\ b \in Seq(Seq(Tags(S))) /\ x \in Seq(Tags(S))
        /\ Len(a) = w /\ Len(b) = w + 1 /\ b[w + 1] = x /\ \A k \in 1..w : b[k] = a[k]
    BY <1>4, <1>5, <1>6, <2>1
  <2>3. /\ Append(a, x) \in Seq(Seq(Tags(S))) /\ Len(Append(a, x)) = w + 1
        /\ \A k \in 1..(w + 1) : b[k] = Append(a, x)[k]
    BY ONLY <2>2
  <2>4. QED
    BY <2>2, <2>3, SeqEqual
<1>8. Concat(b) = Concat(a) \o x
  BY <1>4, <1>7, ConcatOfAppend
<1>9. QED
  BY <1>1, <1>2, <1>3, <1>8 DEF Up

\* what is tagged up to q is what is tagged up to n, and then the rest
LEMMA UpSplit ==
  ASSUME NEW S, NEW tr \in Seq(Tags(S)), NEW n \in Nat, NEW q \in Nat, n <= q
  PROVE  \E r \in Seq(Past(S, n)) : Up(tr, q) = Up(tr, n) \o r
<1> DEFINE G == {m \in n..q : \E r \in Seq(Past(S, n)) : Up(tr, m) = Up(tr, n) \o r}
<1>1. n \in G
  <2>1. PICK u : u = Up(tr, n)
    OBVIOUS
  <2>2. u \in Seq(Tags(S))
    BY <2>1, UpIs
  <2>3. u = u \o <<>>
    BY ONLY <2>2
  <2>4. <<>> \in Seq(Past(S, n)) /\ n \in n..q
    BY EmptySeq
  <2>5. QED
    BY <2>1, <2>3, <2>4
<1>2. ASSUME NEW m \in (n + 1)..q, m - 1 \in G
      PROVE  m \in G
  <2>1. PICK l : l = m - 1
    OBVIOUS
  <2>2. l \in Nat /\ m = l + 1 /\ m \in n..q /\ m \in Nat /\ m > n
    BY <2>1
  <2>3. PICK r \in Seq(Past(S, n)) : Up(tr, l) = Up(tr, n) \o r
    BY <1>2, <2>1
  <2>4. PICK u : u = Up(tr, n)
    OBVIOUS
  <2>5. PICK x : x = Row(tr, m)
    OBVIOUS
  <2>6. x \in Seq(Past(S, n))
    <3>1. PICK U : U = {t \in Tags(S) : t.at = m}
      OBVIOUS
    <3>2. x \in Seq(U)
      BY <2>5, <3>1, RowIs
    <3>3. U \subseteq Past(S, n)
      BY <2>2, <3>1 DEF Past
    <3>4. QED
      BY <3>2, <3>3, SeqMonotonic
  <2>7. Past(S, n) \subseteq Tags(S)
    BY DEF Past
  <2>8. r \in Seq(Tags(S)) /\ x \in Seq(Tags(S))
    BY <2>6, <2>7, SeqMonotonic
  <2>9. u \in Seq(Tags(S))
    BY <2>4, UpIs
  <2>10. Up(tr, m) = (u \o r) \o x
    BY <2>2, <2>3, <2>4, <2>5, UpMore
  <2>11. u \in Seq(Tags(S)) /\ r \in Seq(Tags(S)) /\ x \in Seq(Tags(S))
    BY <2>8, <2>9
  <2>12. u \o (r \o x) = (u \o r) \o x
    BY ONLY <2>11, Regrouped
  <2>13. r \o x \in Seq(Past(S, n))
    BY <2>6, ConcatProperties
  <2>14. QED
    BY <2>2, <2>4, <2>10, <2>12, <2>13
<1>3. q \in G
  <2> HIDE DEF G
  <2>1. QED
    BY <1>1, <1>2, Upward
<1>4. QED
  BY <1>3

\* past the last tag there is nothing more
LEMMA UpEnds ==
  ASSUME NEW S, NEW tr \in Seq(Tags(S)), NEW n \in Nat, NEW q \in Nat, n <= q,
         \A k \in DOMAIN tr : tr[k].at <= n
  PROVE  Up(tr, q) = Up(tr, n)
<1> DEFINE G == {m \in n..q : Up(tr, m) = Up(tr, n)}
<1>1. n \in G
  OBVIOUS
<1>2. ASSUME NEW m \in (n + 1)..q, m - 1 \in G
      PROVE  m \in G
  <2>1. PICK l : l = m - 1
    OBVIOUS
  <2>2. l \in Nat /\ m = l + 1 /\ m \in n..q /\ m \in Nat /\ m > n
    BY <2>1
  <2>3. Up(tr, l) = Up(tr, n)
    BY <1>2, <2>1
  <2>4. \A k \in DOMAIN tr : tr[k].at # m
    <3>1. ASSUME NEW k \in DOMAIN tr, tr[k].at = m
          PROVE  FALSE
      BY <2>2, <3>1
    <3>2. QED
      BY <3>1
  <2>5. Row(tr, m) = <<>>
    BY <2>4, RowIs
  <2>6. PICK u : u = Up(tr, n)
    OBVIOUS
  <2>7. u \in Seq(Tags(S))
    BY <2>6, UpIs
  <2>8. u \o <<>> = u
    BY ONLY <2>7
  <2>9. Up(tr, m) = Up(tr, l) \o Row(tr, m)
    BY <2>2, UpMore
  <2>10. QED
    BY <2>2, <2>3, <2>5, <2>6, <2>8, <2>9
<1>3. q \in G
  <2> HIDE DEF G
  <2>1. QED
    BY <1>1, <1>2, Upward
<1>4. QED
  BY <1>3

LEMMA TagsAreBounded ==
  ASSUME NEW S, NEW tr \in Seq(Tags(S))
  PROVE  \E n \in Nat : \A k \in DOMAIN tr : tr[k].at <= n
<1> DEFINE Bound(n, j) == n \in Nat /\ \A k \in 1..j : tr[k].at <= n
           G == {j \in 0..Len(tr) : \E n : Bound(n, j)}
<1>1. Len(tr) \in Nat /\ DOMAIN tr = 1..Len(tr) /\ \A k \in 1..Len(tr) : tr[k].at \in Nat
  <2>1. \A k \in 1..Len(tr) : tr[k] \in Tags(S)
    OBVIOUS
  <2>2. QED
    BY <2>1 DEF Tags
<1>2. 0 \in G
  BY <1>1
<1>3. ASSUME NEW m \in (0 + 1)..Len(tr), m - 1 \in G
      PROVE  m \in G
  <2>1. PICK n : Bound(n, m - 1)
    BY <1>3
  <2>2. PICK x : x = tr[m].at
    OBVIOUS
  <2>3. m \in 1..Len(tr) /\ m \in 0..Len(tr) /\ x \in Nat
    BY <1>1, <2>2
  <2>4. \E y \in Nat : n <= y /\ x <= y
    <3>1. CASE n <= x
      BY <2>1, <2>3, <3>1
    <3>2. CASE ~(n <= x)
      BY <2>1, <2>3, <3>2
    <3>3. QED
      BY <3>1, <3>2
  <2>5. PICK y \in Nat : n <= y /\ x <= y
    BY <2>4
  <2>6. ASSUME NEW k \in 1..m
        PROVE  tr[k].at <= y
    <3>1. CASE k = m
      BY <2>2, <2>5, <3>1
    <3>2. CASE k # m
      <4>1. k \in 1..(m - 1) /\ k \in 1..Len(tr)
        BY <1>1, <2>3, <3>2
      <4>2. tr[k].at <= n /\ tr[k].at \in Nat /\ n \in Nat
        BY <1>1, <2>1, <4>1
      <4>3. PICK z : z = tr[k].at
        OBVIOUS
      <4>4. QED
        BY <2>5, <4>2, <4>3
    <3>3. QED
      BY <3>1, <3>2
  <2>7. Bound(y, m)
    BY <2>5, <2>6
  <2> HIDE DEF Bound
  <2>8. QED
    BY <2>3, <2>7
<1>4. Len(tr) \in G
  <2> HIDE DEF G
  <2>1. QED
    BY <1>1, <1>2, <1>3, Upward
<1>5. QED
  BY <1>1, <1>4

LEMMA LastTagBounds ==
  ASSUME NEW S, NEW tr \in Seq(Tags(S))
  PROVE  LastTag(tr) \in Nat /\ \A k \in DOMAIN tr : tr[k].at <= LastTag(tr)
<1>1. PICK n \in Nat : \A k \in DOMAIN tr : tr[k].at <= n
  BY TagsAreBounded
<1>2. LastTag(tr) \in 0..n /\ \A k \in DOMAIN tr : tr[k].at <= LastTag(tr)
  BY <1>1, LastTagIs
<1>3. QED
  BY <1>2

(* Sorted by tag, the lines are those tagged up to n and then the rest,     *)
(* wherever n is.                                                           *)
LEMMA OrderSplits ==
  ASSUME NEW S, NEW tr \in Seq(Tags(S)), NEW n \in Nat
  PROVE  \E r \in Seq(Past(S, n)) : Up(tr, LastTag(tr)) = Up(tr, n) \o r
<1>1. PICK z : z = LastTag(tr)
  OBVIOUS
<1>2. z \in Nat /\ \A k \in DOMAIN tr : tr[k].at <= z
  BY <1>1, LastTagBounds
<1>3. CASE n <= z
  <2>1. tr \in Seq(Tags(S)) /\ n \in Nat /\ z \in Nat /\ n <= z
    BY <1>2, <1>3
  <2>2. \E r \in Seq(Past(S, n)) : Up(tr, z) = Up(tr, n) \o r
    BY ONLY <2>1, UpSplit
  <2>3. QED
    BY <1>1, <2>2
<1>4. CASE z <= n
  <2>1. Up(tr, n) = Up(tr, z)
    BY <1>2, <1>4, UpEnds
  <2>2. PICK u : u = Up(tr, z)
    OBVIOUS
  <2>3. u \in Seq(Tags(S))
    BY <1>2, <2>2, UpIs
  <2>4. u = u \o <<>>
    BY ONLY <2>3
  <2>5. <<>> \in Seq(Past(S, n))
    BY EmptySeq
  <2>6. QED
    BY <1>1, <2>1, <2>2, <2>4, <2>5
<1>5. QED
  BY <1>2, <1>3, <1>4

\* the tags from a on and one more
LEMMA TaggedMore ==
  ASSUME NEW S, NEW tr \in Seq(Tags(S)), NEW a \in Nat, NEW q \in Nat, a <= q + 1
  PROVE  Tagged(tr, a, q + 1) = Tagged(tr, a, q) \o TaggedAt(tr, q + 1)
<1>1. PICK w : w = Width(a, q)
  OBVIOUS
<1>2. w \in Nat /\ Width(a, q + 1) = w + 1 /\ a + w = q + 1
  BY <1>1 DEF Width
<1>3. PICK x : x = TaggedAt(tr, q + 1)
  OBVIOUS
<1>4. PICK b : b = Rows(tr, a, q)
  OBVIOUS
<1>5. PICK c : c = Rows(tr, a, q + 1)
  OBVIOUS
<1>6. b \in Seq(Seq(S)) /\ c \in Seq(Seq(S)) /\ x \in Seq(S)
  <2>1. q + 1 \in Nat
    OBVIOUS
  <2>2. QED
    BY <1>3, <1>4, <1>5, <2>1, TaggedIs, TaggedAtIs
<1>7. /\ b = [n \in 1..w |-> TaggedAt(tr, a + n - 1)]
      /\ c = [n \in 1..(w + 1) |-> TaggedAt(tr, a + n - 1)]
  BY <1>1, <1>2, <1>4, <1>5 DEF Rows
<1>8. Len(b) = w /\ Len(c) = w + 1
  BY <1>2, <1>6, <1>7
<1>9. c[w + 1] = x /\ \A k \in 1..w : c[k] = b[k]
  <2>1. w + 1 \in 1..(w + 1) /\ a + (w + 1) - 1 = q + 1 /\ 1..w \subseteq 1..(w + 1)
    BY <1>2
  <2>2. c[w + 1] = x
    BY <1>3, <1>7, <2>1
  <2>3. QED
    BY <1>7, <2>1, <2>2
<1>10. c = Append(b, x)
  <2>1. /\ w \in Nat /\ b \in Seq(Seq(S)) /\ c \in Seq(Seq(S)) /\ x \in Seq(S)
        /\ Len(b) = w /\ Len(c) = w + 1 /\ c[w + 1] = x /\ \A k \in 1..w : c[k] = b[k]
    BY <1>2, <1>6, <1>8, <1>9
  <2>2. /\ Append(b, x) \in Seq(Seq(S)) /\ Len(Append(b, x)) = w + 1
        /\ \A k \in 1..(w + 1) : c[k] = Append(b, x)[k]
    BY ONLY <2>1
  <2>3. QED
    BY <2>1, <2>2, SeqEqual
<1>11. Concat(c) = Concat(b) \o x
  BY <1>6, <1>10, ConcatOfAppend
<1>12. Tagged(tr, a, q) = Concat(b) /\ Tagged(tr, a, q + 1) = Concat(c)
  <2>1. q + 1 \in Nat
    OBVIOUS
  <2>2. QED
    BY <1>4, <1>5, <2>1, TaggedIs
<1>13. QED
  BY <1>3, <1>11, <1>12

\* a range of tags falls into two
LEMMA TaggedSplit ==
  ASSUME NEW S, NEW tr \in Seq(Tags(S)), NEW n \in Nat, NEW q \in Nat, n <= q
  PROVE  /\ Tagged(tr, 0, q) = Tagged(tr, 0, n) \o Tagged(tr, n + 1, q)
         /\ Tagged(tr, n + 1, q) \in Seq(S)
<1> DEFINE G == {m \in n..q : Tagged(tr, 0, m) = Tagged(tr, 0, n) \o Tagged(tr, n + 1, m)}
<1>1. n \in G
  <2>1. Tagged(tr, n + 1, n) = <<>>
    <3>1. Width(n + 1, n) = 0
      BY DEF Width
    <3>2. PICK b : b = Rows(tr, n + 1, n)
      OBVIOUS
    <3>3. n + 1 \in Nat
      OBVIOUS
    <3>4. b \in Seq(Seq(S)) /\ Tagged(tr, n + 1, n) = Concat(b)
      BY <3>2, <3>3, TaggedIs
    <3>5. DOMAIN b = {}
      BY <3>1, <3>2 DEF Rows
    <3>6. QED
      BY <3>4, <3>5, ConcatOfNothing
  <2>2. PICK u : u = Tagged(tr, 0, n)
    OBVIOUS
  <2>3. u \in Seq(S)
    BY <2>2, TaggedIs
  <2>4. u = u \o <<>>
    BY ONLY <2>3
  <2>5. Tagged(tr, 0, n) = Tagged(tr, 0, n) \o Tagged(tr, n + 1, n)
    BY <2>1, <2>2, <2>4
  <2>6. n \in n..q
    OBVIOUS
  <2>7. QED
    BY <2>5, <2>6
<1>2. ASSUME NEW m \in (n + 1)..q, m - 1 \in G
      PROVE  m \in G
  <2>1. PICK l : l = m - 1
    OBVIOUS
  <2>2. l \in Nat /\ m = l + 1 /\ m \in n..q /\ n + 1 \in Nat /\ n + 1 <= l + 1 /\ 0 <= l + 1
    BY <2>1
  <2>3. Tagged(tr, 0, l) = Tagged(tr, 0, n) \o Tagged(tr, n + 1, l)
    BY <1>2, <2>1
  <2>4. PICK u : u = Tagged(tr, 0, n)
    OBVIOUS
  <2>5. PICK v : v = Tagged(tr, n + 1, l)
    OBVIOUS
  <2>6. PICK x : x = TaggedAt(tr, m)
    OBVIOUS
  <2>7. u \in Seq(S) /\ v \in Seq(S) /\ x \in Seq(S)
    BY <2>2, <2>4, <2>5, <2>6, TaggedIs, TaggedAtIs
  <2>8. Tagged(tr, 0, m) = Tagged(tr, 0, l) \o x /\ Tagged(tr, n + 1, m) = v \o x
    BY <2>2, <2>5, <2>6, TaggedMore
  <2>9. u \o (v \o x) = (u \o v) \o x
    BY ONLY <2>7, Regrouped
  <2>10. QED
    BY <2>2, <2>3, <2>4, <2>5, <2>8, <2>9
<1>3. q \in G
  <2>1. n \in Nat /\ q \in Nat /\ n <= q
    OBVIOUS
  <2> HIDE DEF G
  <2>2. QED
    BY <1>1, <1>2, <2>1, Upward
<1>4. n + 1 \in Nat
  OBVIOUS
<1>5. QED
  BY <1>3, <1>4, TaggedIs

LEMMA Cancelled ==
  ASSUME NEW S, NEW c \in Seq(S), NEW x \in Seq(S), NEW y \in Seq(S), c \o x = c \o y
  PROVE  x = y
<1>1. PICK l : l = Len(c)
  OBVIOUS
<1>2. PICK m : m = Len(x)
  OBVIOUS
<1>3. PICK n : n = Len(y)
  OBVIOUS
<1>4. PICK z : z = c \o x
  OBVIOUS
<1>5. l \in Nat /\ m \in Nat /\ n \in Nat
  BY <1>1, <1>2, <1>3
<1>6. /\ Len(z) = l + m /\ \A k \in 1..(l + m) : z[k] = IF k <= l THEN c[k] ELSE x[k - l]
  BY <1>1, <1>2, <1>4, ConcatProperties
<1>7. /\ Len(z) = l + n /\ \A k \in 1..(l + n) : z[k] = IF k <= l THEN c[k] ELSE y[k - l]
  BY <1>1, <1>3, <1>4, ConcatProperties
<1>8. m = n
  BY <1>5, <1>6, <1>7
<1>9. ASSUME NEW k \in 1..m
      PROVE  x[k] = y[k]
  <2>1. PICK j : j = l + k
    OBVIOUS
  <2>2. j \in 1..(l + m) /\ j \in 1..(l + n) /\ ~(j <= l) /\ j - l = k
    BY <1>5, <1>8, <2>1
  <2>3. z[j] = x[k] /\ z[j] = y[k]
    BY <1>6, <1>7, <2>2
  <2>4. QED
    BY <2>3
<1>10. QED
  BY <1>2, <1>3, <1>8, <1>9, SeqEqual

(* A cursor that passed nothing tagged past n, and stands before something  *)
(* that is, has passed all that is tagged up to n.                          *)
LEMMA CursorStops ==
  ASSUME NEW S, NEW n \in Nat, NEW u \in Seq(UpTo(S, n)), NEW r \in Seq(Past(S, n)),
         NEW s, s = u \o r, NEW m \in 0..Len(s), SubSeq(s, 1, m) \in Seq(UpTo(S, n)),
         m # Len(s) => s[m + 1].at > n
  PROVE  SubSeq(s, 1, m) = u
<1>1. PICK v : v = SubSeq(s, 1, m)
  OBVIOUS
<1>2. PICK l : l = Len(u)
  OBVIOUS
<1>3. u \in Seq(Tags(S)) /\ r \in Seq(Tags(S))
  <2>1. UpTo(S, n) \subseteq Tags(S) /\ Past(S, n) \subseteq Tags(S)
    BY DEF UpTo, Past
  <2>2. QED
    BY <2>1, SeqMonotonic
<1>4. l \in Nat /\ Len(r) \in Nat
  BY <1>2
<1>5. /\ s \in Seq(Tags(S)) /\ Len(s) = l + Len(r)
      /\ \A k \in 1..(l + Len(r)) : s[k] = IF k <= l THEN u[k] ELSE r[k - l]
  BY <1>2, <1>3, ConcatProperties
<1>6. m \in Nat /\ m <= Len(s) /\ Len(s) \in Nat
  BY <1>4, <1>5
<1>7. v \in Seq(UpTo(S, n)) /\ Len(v) = m /\ \A k \in 1..m : v[k] = s[k]
  <2>1. \A k \in 1..m : s[k] \in Tags(S)
    <3>1. \A k \in 1..m : k \in 1..Len(s)
      BY <1>6
    <3>2. QED
      BY <1>5, <3>1
  <2>2. 1 \in Int /\ m \in Int
    BY <1>6
  <2>3. /\ Len(v) = (IF 1 <= m THEN m - 1 + 1 ELSE 0)
        /\ \A k \in 1..(m - 1 + 1) : v[k] = s[1 + k - 1]
    BY <1>1, <2>1, <2>2, SubSeqProperties
  <2>4. QED
    BY <1>1, <1>6, <2>3
<1>8. m = l
  <2>1. CASE m < l
    <3>1. m + 1 \in 1..l /\ m # Len(s) /\ m + 1 \in 1..(l + Len(r)) /\ m + 1 <= l
      BY <1>4, <1>5, <1>6, <2>1
    <3>2. s[m + 1] = u[m + 1] /\ u[m + 1] \in UpTo(S, n)
      BY <1>2, <1>5, <3>1
    <3>3. PICK at : at = s[m + 1].at
      OBVIOUS
    <3>4. at \in Nat /\ at <= n
      BY <3>2, <3>3 DEF UpTo, Tags
    <3>5. at > n
      BY <3>1, <3>3
    <3>6. QED
      BY <3>4, <3>5
  <2>2. CASE m > l
    <3>1. l + 1 \in 1..m /\ l + 1 \in 1..(l + Len(r)) /\ ~(l + 1 <= l) /\ (l + 1) - l = 1 /\ 1 \in 1..Len(r)
      BY <1>4, <1>5, <1>6, <2>2
    <3>2. s[l + 1] = r[1] /\ r[1] \in Past(S, n)
      BY <1>5, <3>1
    <3>3. v[l + 1] = s[l + 1] /\ v[l + 1] \in UpTo(S, n)
      BY <1>7, <3>1
    <3>4. PICK t : t = s[l + 1]
      OBVIOUS
    <3>5. t.at \in Nat /\ t.at <= n /\ t.at > n
      BY <3>2, <3>3, <3>4 DEF UpTo, Past, Tags
    <3>6. PICK at : at = t.at
      OBVIOUS
    <3>7. QED
      BY <3>5, <3>6
  <2>3. QED
    BY <1>4, <1>6, <2>1, <2>2
<1>9. \A k \in 1..l : v[k] = u[k]
  <2>1. ASSUME NEW k \in 1..l
        PROVE  v[k] = u[k]
    <3>1. k \in 1..m /\ k \in 1..(l + Len(r)) /\ k <= l
      BY <1>4, <1>8
    <3>2. QED
      BY <1>5, <1>7, <3>1
  <2>2. QED
    BY <2>1
<1>10. v = u
  BY <1>2, <1>7, <1>8, <1>9, SeqEqual
<1>11. QED
  BY <1>1, <1>10

(* The lines that stand above the hunk after n.                             *)
Before(tr, n) == IF n = 0 THEN <<>> ELSE Up(tr, n)

LEMMA BeforeIs ==
  ASSUME NEW S, NEW tr \in Seq(Tags(S)), NEW n \in Nat
  PROVE  /\ Before(tr, n) \in Seq(UpTo(S, n)) /\ Before(tr, n) \in Seq(Tags(S))
         /\ Lined(Before(tr, n)) \in Seq(S)
         /\ Lined(Before(tr, n)) = IF n = 0 THEN <<>> ELSE Tagged(tr, 0, n)
<1>1. CASE n = 0
  <2>1. Before(tr, n) = <<>>
    BY <1>1 DEF Before
  <2>2. Lined(<<>>) = <<>>
    BY DEF Lined
  <2>3. <<>> \in Seq(UpTo(S, n)) /\ <<>> \in Seq(Tags(S)) /\ <<>> \in Seq(S)
    BY EmptySeq
  <2>4. QED
    BY <1>1, <2>1, <2>2, <2>3
<1>2. CASE n # 0
  <2>1. Before(tr, n) = Up(tr, n)
    BY <1>2 DEF Before
  <2>2. /\ Up(tr, n) \in Seq(UpTo(S, n)) /\ Up(tr, n) \in Seq(Tags(S))
        /\ Lined(Up(tr, n)) = Tagged(tr, 0, n)
    BY UpIs
  <2>3. Lined(Up(tr, n)) \in Seq(S)
    BY <2>2, LinedIs
  <2>4. QED
    BY <1>2, <2>1, <2>2, <2>3
<1>3. QED
  BY <1>1, <1>2

\* what a hunk is followed by
LEMMA BelowIs ==
  ASSUME NEW S, NEW tr \in Seq(Tags(S)), NEW k \in Nat \ {0}, NEW x \in Seq(S),
         Lined(Before(tr, k - 1)) \o x = Lined(Up(tr, k))
  PROVE  x = Tagged(tr, IF k = 1 THEN 0 ELSE k, k)
<1>1. PICK l : l = k - 1
  OBVIOUS
<1>2. l \in Nat /\ k = l + 1 /\ l <= k /\ k \in Nat
  BY <1>1
<1>3. Lined(Up(tr, k)) = Tagged(tr, 0, k)
  BY <1>2, UpIs
<1>4. PICK c : c = Lined(Before(tr, l))
  OBVIOUS
<1>5. c \in Seq(S) /\ c = IF l = 0 THEN <<>> ELSE Tagged(tr, 0, l)
  BY <1>2, <1>4, BeforeIs
<1>6. c \o x = Tagged(tr, 0, k)
  BY <1>1, <1>3, <1>4
<1>7. CASE l = 0
  <2>1. c = <<>> /\ k = 1
    BY <1>2, <1>5, <1>7
  <2>2. <<>> \o x = x
    OBVIOUS
  <2>3. QED
    BY <1>6, <2>1, <2>2
<1>8. CASE l # 0
  <2>1. k # 1 /\ c = Tagged(tr, 0, l)
    BY <1>2, <1>5, <1>8
  <2>2. PICK y : y = Tagged(tr, k, k)
    OBVIOUS
  <2>3. y \in Seq(S) /\ Tagged(tr, 0, k) = c \o y
    BY <1>2, <2>1, <2>2, TaggedSplit
  <2>4. c \o x = c \o y
    BY <1>6, <2>3
  <2>5. x = y
    BY <1>5, <2>3, <2>4, Cancelled
  <2>6. QED
    BY <2>1, <2>2, <2>5
<1>9. QED
  BY <1>7, <1>8

\* what the last hunk is followed by: the lines tagged past it too
LEMMA RestIs ==
  ASSUME NEW S, NEW tr \in Seq(Tags(S)), NEW n \in Nat, NEW r \in Seq(Tags(S)),
         Before(tr, n) \o r = Up(tr, LastTag(tr))
  PROVE  Lined(r) = Tagged(tr, IF n = 0 THEN 0 ELSE n + 1, LastTag(tr))
<1>1. PICK z : z = LastTag(tr)
  OBVIOUS
<1>2. z \in Nat /\ \A k \in DOMAIN tr : tr[k].at <= z
  BY <1>1, LastTagBounds
<1>3. PICK u : u = Before(tr, n)
  OBVIOUS
<1>4. PICK s : s = Up(tr, z)
  OBVIOUS
<1>5. u \in Seq(Tags(S)) /\ s \in Seq(Tags(S)) /\ u \o r = s /\ Lined(s) = Tagged(tr, 0, z)
  BY <1>1, <1>2, <1>3, <1>4, BeforeIs, UpIs
<1>6. CASE n = 0
  <2>1. u = <<>>
    BY <1>3, <1>6 DEF Before
  <2>2. <<>> \o r = r
    OBVIOUS
  <2>3. r = s
    BY <1>5, <2>1, <2>2
  <2>4. QED
    BY <1>1, <1>5, <1>6, <2>3
<1>7. CASE n # 0 /\ n <= z
  <2>1. PICK c : c = Lined(u)
    OBVIOUS
  <2>2. PICK x : x = Lined(r)
    OBVIOUS
  <2>3. PICK y : y = Tagged(tr, n + 1, z)
    OBVIOUS
  <2>4. c \in Seq(S) /\ c = Tagged(tr, 0, n)
    BY <1>3, <1>7, <2>1, BeforeIs
  <2>5. x \in Seq(S)
    BY <2>2, LinedIs
  <2>6. Tagged(tr, 0, z) = Tagged(tr, 0, n) \o Tagged(tr, n + 1, z) /\ Tagged(tr, n + 1, z) \in Seq(S)
    BY <1>2, <1>7, TaggedSplit
  <2>7. y \in Seq(S) /\ Lined(s) = c \o y
    BY <1>5, <2>3, <2>4, <2>6
  <2>8. Lined(s) = c \o x
    BY <1>5, <2>1, <2>2, LinedJoin
  <2>9. x = y
    BY <2>4, <2>5, <2>7, <2>8, Cancelled
  <2>10. QED
    BY <1>1, <1>7, <2>2, <2>3, <2>9
<1>8. CASE n # 0 /\ z < n
  <2>1. u = s
    <3>1. z \in Nat /\ n \in Nat /\ z <= n /\ \A k \in DOMAIN tr : tr[k].at <= z
      BY <1>2, <1>8
    <3>2. Up(tr, n) = Up(tr, z)
      BY ONLY <3>1, tr \in Seq(Tags(S)), UpEnds
    <3>3. QED
      BY <1>3, <1>4, <1>8, <3>2 DEF Before
  <2>2. s = s \o <<>> /\ <<>> \in Seq(Tags(S))
    <3>1. s \in Seq(Tags(S))
      BY <1>5
    <3>2. s = s \o <<>>
      BY ONLY <3>1
    <3>3. QED
      BY <3>2, EmptySeq
  <2>3. u \o r = u \o <<>>
    BY <1>5, <2>1, <2>2
  <2>4. r = <<>>
    BY <1>5, <2>2, <2>3, Cancelled
  <2>5. Lined(<<>>) = <<>>
    BY DEF Lined
  <2>6. Tagged(tr, n + 1, z) = <<>>
    <3>1. n + 1 \in Nat /\ n + 1 > z
      BY <1>2, <1>8
    <3>2. \A k \in DOMAIN tr : tr[k].at \notin (n + 1)..z
      BY <1>2, <3>1
    <3>3. QED
      BY <1>2, <3>1, <3>2, TaggedNone
  <2>7. QED
    BY <1>1, <1>8, <2>4, <2>5, <2>6
<1>9. QED
  BY <1>2, <1>6, <1>7, <1>8

-----------------------------------------------------------------------------
(* The text of a hunk.                                                       *)

\* every line a text can have
OutLines ==
  InputLines \cup [lead : {" ", "+", "-", "\\", "@@"}, text : Texts \cup {"No newline", ""},
                  range : {NoRange} \cup (U32 \X Nat \X U32 \X Nat)]

HeaderLine(h) == HunkHeader(h.old_start, h.old_lines, h.new_start, h.new_lines)
BodyPieces(ls) == [i \in DOMAIN ls |-> BodyText(ls[i])]

\* what hunks are written as are lines of a text
LEMMA MarkIsALine == NoNewline \in OutLines
  BY DEF OutLines, NoNewline, TextLine

LEMMA TextLineIsALine ==
  ASSUME NEW lead \in {" ", "+", "-"}, NEW text \in Texts
  PROVE  TextLine(lead, text) \in OutLines
  BY DEF OutLines, TextLine

LEMMA HeaderIsALine ==
  ASSUME NEW os \in U32, NEW ol \in Nat, NEW ns \in U32, NEW nl \in Nat
  PROVE  HunkHeader(os, ol, ns, nl) \in OutLines
<1>1. <<os, ol, ns, nl>> \in U32 \X Nat \X U32 \X Nat
  OBVIOUS
<1>2. PICK r : r = <<os, ol, ns, nl>>
  OBVIOUS
<1>3. [lead |-> "@@", text |-> "", range |-> r] \in OutLines
  BY <1>1, <1>2 DEF OutLines
<1>4. QED
  BY <1>2, <1>3 DEF HunkHeader

\* a body line is written as lines of a text
LEMMA BodyTextType ==
  ASSUME NEW l \in Line
  PROVE  BodyText(l) \in Seq(OutLines)
<1>1. LeadOf[l.kind] \in {" ", "+", "-"} /\ l.text \in Texts
  <2>1. l.kind \in {"ctx", "add", "del"} /\ l.text \in Texts
    BY DEF Line, Kinds
  <2>2. LeadOf["ctx"] = " " /\ LeadOf["add"] = "+" /\ LeadOf["del"] = "-"
    BY DEF LeadOf
  <2>3. QED
    BY <2>1, <2>2
<1>2. PICK line : line = TextLine(LeadOf[l.kind], l.text)
  OBVIOUS
<1>3. line \in OutLines /\ NoNewline \in OutLines
  BY <1>1, <1>2, TextLineIsALine, MarkIsALine
<1>4. PICK mark : mark = NoNewline
  OBVIOUS
<1>5. <<line>> \o <<mark>> \in Seq(OutLines) /\ <<line>> \o <<>> \in Seq(OutLines)
  BY <1>3, <1>4
<1>6. QED
  BY <1>2, <1>4, <1>5 DEF BodyText

LEMMA BodyPiecesType ==
  ASSUME NEW ls \in Seq(Line)
  PROVE  BodyPieces(ls) \in Seq(Seq(OutLines)) /\ Len(BodyPieces(ls)) = Len(ls)
<1>1. DOMAIN ls = 1..Len(ls) /\ Len(ls) \in Nat /\ \A i \in 1..Len(ls) : ls[i] \in Line
  OBVIOUS
<1>2. \A i \in 1..Len(ls) : BodyText(ls[i]) \in Seq(OutLines)
  BY <1>1, BodyTextType
<1>3. QED
  BY <1>1, <1>2 DEF BodyPieces

\* a hunk is its header and then its body
LEMMA HunkTextIs ==
  ASSUME NEW h \in Hunk
  PROVE  /\ HeaderLine(h) \in OutLines /\ h.lines \in Seq(Line)
         /\ BodyPieces(h.lines) \in Seq(Seq(OutLines))
         /\ HunkText(h) = <<HeaderLine(h)>> \o Concat(BodyPieces(h.lines))
         /\ Concat(BodyPieces(h.lines)) \in Seq(OutLines)
         /\ HunkText(h) \in Seq(OutLines)
<1>1. /\ h.lines \in Seq(Line) /\ h.old_start \in U32 /\ h.new_start \in U32
      /\ h.old_lines \in Nat /\ h.new_lines \in Nat
  BY DEF Hunk
<1>2. HeaderLine(h) \in OutLines
  BY <1>1, HeaderIsALine DEF HeaderLine
<1>3. BodyPieces(h.lines) \in Seq(Seq(OutLines))
  BY <1>1, BodyPiecesType
<1>4. HunkText(h) = <<HeaderLine(h)>> \o Concat(BodyPieces(h.lines))
  BY DEF HunkText, HeaderLine, BodyPieces
<1>5. PICK c : c = Concat(BodyPieces(h.lines))
  OBVIOUS
<1>6. c \in Seq(OutLines)
  BY <1>3, <1>5, ConcatType
<1>7. PICK line : line = HeaderLine(h)
  OBVIOUS
<1>8. <<line>> \o c \in Seq(OutLines)
  BY <1>2, <1>6, <1>7
<1>9. QED
  BY <1>1, <1>2, <1>3, <1>4, <1>5, <1>6, <1>7, <1>8

\* a hunk with another body
LEMMA OtherBody ==
  ASSUME NEW h \in Hunk, NEW ls \in Seq(Line), NEW y \in Seq(OutLines),
         Concat(BodyPieces(ls)) = Concat(BodyPieces(h.lines)) \o y
  PROVE  HunkText([h EXCEPT !.lines = ls]) = HunkText(h) \o y
<1>1. PICK g : g = [h EXCEPT !.lines = ls]
  OBVIOUS
<1>2. /\ g \in Hunk /\ g.lines = ls /\ g.old_start = h.old_start /\ g.new_start = h.new_start
      /\ g.old_lines = h.old_lines /\ g.new_lines = h.new_lines
  BY <1>1 DEF Hunk
<1>3. HeaderLine(g) = HeaderLine(h)
  BY <1>2 DEF HeaderLine
<1>4. PICK c : c = Concat(BodyPieces(h.lines))
  OBVIOUS
<1>5. PICK line : line = HeaderLine(h)
  OBVIOUS
<1>6. <<line>> \in Seq(OutLines) /\ c \in Seq(OutLines) /\ y \in Seq(OutLines)
  <2>1. line \in OutLines /\ c \in Seq(OutLines)
    BY <1>4, <1>5, HunkTextIs
  <2>2. QED
    BY <2>1
<1>7. <<line>> \o (c \o y) = (<<line>> \o c) \o y
  BY ONLY <1>6, Regrouped
<1>8. HunkText(g) = <<line>> \o (c \o y) /\ HunkText(h) = <<line>> \o c
  BY <1>2, <1>3, <1>4, <1>5, HunkTextIs
<1>9. QED
  BY <1>1, <1>7, <1>8

(* One more body line, and the marker of the last.                         *)
LEMMA HunkTextMore ==
  ASSUME NEW h \in Hunk, NEW l \in Line
  PROVE  HunkText([h EXCEPT !.lines = Append(h.lines, l)]) = HunkText(h) \o BodyText(l)
<1>1. PICK ls : ls = Append(h.lines, l)
  OBVIOUS
<1>2. PICK n : n = Len(h.lines)
  OBVIOUS
<1>3. h.lines \in Seq(Line) /\ BodyPieces(h.lines) \in Seq(Seq(OutLines))
  BY HunkTextIs
<1>4. /\ ls \in Seq(Line) /\ n \in Nat /\ DOMAIN ls = 1..(n + 1) /\ DOMAIN h.lines = 1..n
      /\ ls[n + 1] = l /\ \A i \in 1..n : ls[i] = h.lines[i]
  BY <1>1, <1>2, <1>3
<1>5. BodyText(l) \in Seq(OutLines)
  BY BodyTextType
<1>6. BodyPieces(ls) = Append(BodyPieces(h.lines), BodyText(l))
  <2>1. PICK a : a = BodyPieces(h.lines)
    OBVIOUS
  <2>2. PICK b : b = BodyPieces(ls)
    OBVIOUS
  <2>3. PICK x : x = BodyText(l)
    OBVIOUS
  <2>4. b \in Seq(Seq(OutLines))
    BY <1>4, <2>2, BodyPiecesType
  <2>5. /\ a = [i \in 1..n |-> a[i]] /\ b = [i \in 1..(n + 1) |-> b[i]]
        /\ b[n + 1] = x /\ \A i \in 1..n : b[i] = a[i]
    BY <1>4, <2>1, <2>2, <2>3 DEF BodyPieces
  <2>6. Len(a) = n /\ Len(b) = n + 1 /\ a \in Seq(Seq(OutLines)) /\ x \in Seq(OutLines)
    BY <1>3, <1>4, <1>5, <2>1, <2>3, <2>5
  <2>7. b = Append(a, x)
    <3>1. /\ Append(a, x) \in Seq(Seq(OutLines)) /\ Len(Append(a, x)) = n + 1
          /\ \A i \in 1..(n + 1) : Append(a, x)[i] = b[i]
      <4>1. a \in Seq(Seq(OutLines)) /\ x \in Seq(OutLines) /\ n = Len(a) /\ n \in Nat
            /\ b[n + 1] = x /\ \A i \in 1..n : b[i] = a[i]
        BY <1>4, <2>5, <2>6
      <4>2. QED
        BY ONLY <4>1
    <3>2. QED
      BY <2>4, <2>6, <3>1, SeqEqual
  <2>8. QED
    BY <2>1, <2>2, <2>3, <2>7
<1>7. Concat(BodyPieces(ls)) = Concat(BodyPieces(h.lines)) \o BodyText(l)
  BY <1>3, <1>5, <1>6, ConcatOfAppend
<1>8. QED
  BY <1>1, <1>4, <1>5, <1>7, OtherBody

LEMMA HunkTextMarked ==
  ASSUME NEW h \in Hunk, h.lines # <<>>, ~h.lines[Len(h.lines)].nonl
  PROVE  HunkText([h EXCEPT !.lines = [h.lines EXCEPT ![Len(h.lines)].nonl = TRUE]])
           = HunkText(h) \o <<NoNewline>>
<1>1. PICK n : n = Len(h.lines)
  OBVIOUS
<1>2. h.lines \in Seq(Line) /\ BodyPieces(h.lines) \in Seq(Seq(OutLines))
  BY HunkTextIs
<1>3. PICK last : last = [h.lines[n] EXCEPT !.nonl = TRUE]
  OBVIOUS
<1>4. n \in Nat \ {0} /\ h.lines[n] \in Line /\ DOMAIN h.lines = 1..n
  BY <1>1, <1>2
<1>5. /\ last \in Line /\ last.kind = h.lines[n].kind /\ last.text = h.lines[n].text
      /\ last.nonl = TRUE /\ h.lines[n].nonl = FALSE
  BY <1>1, <1>3, <1>4 DEF Line
<1>6. PICK ls : ls = [h.lines EXCEPT ![n] = last]
  OBVIOUS
<1>7. /\ ls \in Seq(Line) /\ DOMAIN ls = 1..n /\ ls[n] = last
      /\ \A i \in 1..n : i # n => ls[i] = h.lines[i]
  BY <1>2, <1>4, <1>5, <1>6
<1>8. PICK mark : mark = NoNewline
  OBVIOUS
<1>9. mark \in OutLines /\ <<mark>> \in Seq(OutLines)
  BY <1>8, MarkIsALine
<1>10. BodyText(last) = BodyText(h.lines[n]) \o <<mark>>
  <2>1. PICK line : line = TextLine(LeadOf[last.kind], last.text)
    OBVIOUS
  <2>2. BodyText(last) = <<line>> \o <<mark>> /\ BodyText(h.lines[n]) = <<line>> \o <<>>
    BY <1>5, <1>8, <2>1 DEF BodyText
  <2>3. <<line>> \o <<>> = <<line>>
    OBVIOUS
  <2>4. QED
    BY <2>2, <2>3
<1>11. Concat(BodyPieces(ls)) = Concat(BodyPieces(h.lines)) \o <<mark>>
  <2>1. PICK a : a = BodyPieces(h.lines)
    OBVIOUS
  <2>2. PICK b : b = BodyPieces(ls)
    OBVIOUS
  <2>3. PICK y : y = <<mark>>
    OBVIOUS
  <2>4. b \in Seq(Seq(OutLines)) /\ a \in Seq(Seq(OutLines))
    BY <1>2, <1>7, <2>1, <2>2, BodyPiecesType
  <2>5. /\ a = [i \in 1..n |-> a[i]] /\ b = [i \in 1..n |-> b[i]]
        /\ b[n] = a[n] \o y /\ \A i \in 1..n : i # n => a[i] = b[i]
    BY <1>4, <1>7, <1>10, <2>1, <2>2, <2>3 DEF BodyPieces
  <2>6. Len(a) = n /\ Len(b) = n /\ y \in Seq(OutLines) /\ n \in Nat \ {0}
    BY <1>4, <1>9, <2>3, <2>5
  <2>7. Concat(b) = Concat(a) \o y
    <3>1. Longer(OutLines, a, b, n, y)
      BY <2>4, <2>5, <2>6 DEF Longer
    <3>2. QED
      BY ONLY <3>1, ConcatOfLonger
  <2>8. QED
    BY <2>1, <2>2, <2>3, <2>7
<1>12. HunkText([h EXCEPT !.lines = ls]) = HunkText(h) \o <<mark>>
  BY <1>7, <1>9, <1>11, OtherBody
<1>13. ls = [h.lines EXCEPT ![Len(h.lines)].nonl = TRUE]
  BY <1>1, <1>3, <1>4, <1>6
<1>14. QED
  BY <1>8, <1>12, <1>13

(* A hunk without a body.                                                  *)
LEMMA HunkTextBare ==
  ASSUME NEW h \in Hunk, h.lines = <<>>
  PROVE  HunkText(h) = <<HeaderLine(h)>>
<1>1. HeaderLine(h) \in OutLines /\ HunkText(h) = <<HeaderLine(h)>> \o Concat(BodyPieces(h.lines))
      /\ BodyPieces(h.lines) \in Seq(Seq(OutLines))
  BY HunkTextIs
<1>2. Concat(BodyPieces(h.lines)) = <<>>
  <2>1. DOMAIN BodyPieces(h.lines) = {}
    BY DEF BodyPieces
  <2>2. QED
    BY <1>1, <2>1, ConcatOfNothing
<1>3. PICK line : line = HeaderLine(h)
  OBVIOUS
<1>4. <<line>> \o <<>> = <<line>>
  OBVIOUS
<1>5. QED
  BY <1>1, <1>2, <1>3, <1>4

-----------------------------------------------------------------------------
(* The text of an entry.                                                     *)

Part(f, j) == HunkText(f.hunks[j]) \o Tagged(f.trailer, IF j = 1 THEN 0 ELSE j, j)
Parts(f) == [j \in 1..Len(f.hunks) |-> Part(f, j)]

\* lines of the input are lines of a text
LEMMA LinesAreOutLines ==
  ASSUME NEW ls \in Lines
  PROVE  ls \in Seq(OutLines)
<1>1. InputLines \subseteq OutLines
  BY DEF OutLines
<1>2. QED
  BY <1>1, SeqMonotonic DEF Lines

\* trailer lines have places
LEMMA TrailerIsTagged ==
  ASSUME NEW f \in Entry
  PROVE  /\ f.trailer \in Seq(Tags(OutLines))
         /\ \A t \in DOMAIN f.trailer : f.trailer[t].at \in Nat \ {0}
         /\ f.hunks \in Seq(Hunk) /\ f.headers \in Seq(OutLines) /\ f.payload \in Seq(OutLines)
<1>1. /\ f.trailer \in Seq(TrailerLine) /\ f.hunks \in Seq(Hunk)
      /\ f.headers \in Lines /\ f.payload \in Lines
  BY DEF Entry
<1>2. InputLines \subseteq OutLines
  BY DEF OutLines
<1>3. TrailerLine \subseteq Tags(OutLines)
  BY <1>2 DEF TrailerLine, Tags
<1>4. \A t \in DOMAIN f.trailer : f.trailer[t] \in TrailerLine
  BY <1>1
<1>5. QED
  BY <1>1, <1>3, <1>4, SeqMonotonic, LinesAreOutLines DEF TrailerLine

\* an entry of any lines, with any tags
TextEntry == [headers : Seq(OutLines), hunks : Seq(Hunk), payload : Seq(OutLines),
              trailer : Seq(Tags(OutLines))]

LEMMA EntryIsText ==
  ASSUME NEW f \in Entry
  PROVE  f \in TextEntry
<1>1. /\ f.trailer \in Seq(Tags(OutLines)) /\ f.hunks \in Seq(Hunk)
      /\ f.headers \in Seq(OutLines) /\ f.payload \in Seq(OutLines)
  BY TrailerIsTagged
<1>2. f = [headers |-> f.headers, hunks |-> f.hunks, payload |-> f.payload, trailer |-> f.trailer]
  BY DEF Entry
<1>3. QED
  BY <1>1, <1>2 DEF TextEntry

PartsTo(f, n) == [j \in 1..n |-> Part(f, j)]

\* what is written as a text, up to a hunk
LEMMA TextPartIs ==
  ASSUME NEW f \in TextEntry, NEW j \in 1..Len(f.hunks)
  PROVE  /\ Part(f, j) \in Seq(OutLines)
         /\ HunkText(f.hunks[j]) \in Seq(OutLines)
         /\ Tagged(f.trailer, IF j = 1 THEN 0 ELSE j, j) \in Seq(OutLines)
<1>1. f.trailer \in Seq(Tags(OutLines)) /\ f.hunks \in Seq(Hunk)
  BY DEF TextEntry
<1>2. f.hunks[j] \in Hunk /\ j \in Nat
  BY <1>1
<1>3. PICK a : a = HunkText(f.hunks[j])
  OBVIOUS
<1>4. PICK b : b = Tagged(f.trailer, IF j = 1 THEN 0 ELSE j, j)
  OBVIOUS
<1>5. a \in Seq(OutLines)
  BY <1>2, <1>3, HunkTextIs
<1>6. b \in Seq(OutLines)
  <2>1. PICK from : from = IF j = 1 THEN 0 ELSE j
    OBVIOUS
  <2>2. from \in Nat
    BY <1>2, <2>1
  <2>3. Tagged(f.trailer, from, j) \in Seq(OutLines)
    BY <1>1, <1>2, <2>2, TaggedIs
  <2>4. QED
    BY <1>4, <2>1, <2>3
<1>7. a \o b \in Seq(OutLines)
  BY <1>5, <1>6
<1>8. QED
  BY <1>3, <1>4, <1>5, <1>6, <1>7 DEF Part

LEMMA PartsToIs ==
  ASSUME NEW f \in TextEntry, NEW n \in 0..Len(f.hunks)
  PROVE  /\ PartsTo(f, n) \in Seq(Seq(OutLines)) /\ Len(PartsTo(f, n)) = n
         /\ Concat(PartsTo(f, n)) \in Seq(OutLines)
<1>1. Len(f.hunks) \in Nat
  BY DEF TextEntry
<1>2. n \in Nat /\ \A j \in 1..n : j \in 1..Len(f.hunks)
  BY <1>1
<1>3. PartsTo(f, n) \in Seq(Seq(OutLines)) /\ Len(PartsTo(f, n)) = n
  BY <1>2, TextPartIs DEF PartsTo
<1>4. QED
  BY <1>3, ConcatType

LEMMA PartsToMore ==
  ASSUME NEW f \in TextEntry, NEW k \in 1..Len(f.hunks)
  PROVE  Concat(PartsTo(f, k)) = Concat(PartsTo(f, k - 1)) \o Part(f, k)
<1>1. Len(f.hunks) \in Nat
  BY DEF TextEntry
<1>2. PICK l : l = k - 1
  OBVIOUS
<1>3. k \in 0..Len(f.hunks) /\ l \in 0..Len(f.hunks) /\ k = l + 1 /\ l \in Nat
  BY <1>1, <1>2
<1>4. PICK a : a = PartsTo(f, l)
  OBVIOUS
<1>5. PICK b : b = PartsTo(f, k)
  OBVIOUS
<1>6. PICK x : x = Part(f, k)
  OBVIOUS
<1>7. /\ a \in Seq(Seq(OutLines)) /\ Len(a) = l /\ b \in Seq(Seq(OutLines)) /\ Len(b) = k
      /\ x \in Seq(OutLines)
  BY <1>3, <1>4, <1>5, <1>6, PartsToIs, TextPartIs
<1>8. b[l + 1] = x /\ \A j \in 1..l : b[j] = a[j]
  BY <1>3, <1>4, <1>5, <1>6 DEF PartsTo
<1>9. b = Append(a, x)
  <2>1. /\ l \in Nat /\ a \in Seq(Seq(OutLines)) /\ b \in Seq(Seq(OutLines)) /\ x \in Seq(OutLines)
        /\ Len(a) = l /\ Len(b) = l + 1 /\ b[l + 1] = x /\ \A j \in 1..l : b[j] = a[j]
    BY <1>3, <1>7, <1>8
  <2>2. /\ Append(a, x) \in Seq(Seq(OutLines)) /\ Len(Append(a, x)) = l + 1
        /\ \A j \in 1..(l + 1) : b[j] = Append(a, x)[j]
    BY ONLY <2>1
  <2>3. QED
    BY <2>1, <2>2, SeqEqual
<1>10. Concat(b) = Concat(a) \o x
  BY <1>7, <1>9, ConcatOfAppend
<1>11. QED
  BY <1>2, <1>4, <1>5, <1>6, <1>10

\* and so of an entry that is read
LEMMA PartIs ==
  ASSUME NEW f \in Entry, NEW j \in 1..Len(f.hunks)
  PROVE  /\ Part(f, j) \in Seq(OutLines)
         /\ HunkText(f.hunks[j]) \in Seq(OutLines)
         /\ Tagged(f.trailer, IF j = 1 THEN 0 ELSE j, j) \in Seq(OutLines)
  BY EntryIsText, TextPartIs

\* an entry has one part per hunk
LEMMA PartsIs ==
  ASSUME NEW f \in Entry
  PROVE  /\ Parts(f) \in Seq(Seq(OutLines)) /\ Len(Parts(f)) = Len(f.hunks)
         /\ Concat(Parts(f)) \in Seq(OutLines)
<1>1. f \in TextEntry /\ Len(f.hunks) \in Nat
  BY EntryIsText, TrailerIsTagged
<1>2. Parts(f) = PartsTo(f, Len(f.hunks)) /\ Len(f.hunks) \in 0..Len(f.hunks)
  BY <1>1 DEF Parts, PartsTo
<1>3. QED
  BY <1>1, <1>2, PartsToIs

\* kept in place, no trailer line stands above the first hunk or past the last
LEMMA EntryTextIs ==
  ASSUME NEW f \in Entry, KeptInPlace(f)
  PROVE  /\ EntryText(f) = (f.headers \o f.payload) \o Concat(Parts(f))
         /\ EntryText(f) \in Seq(OutLines)
<1>1. /\ f.trailer \in Seq(Tags(OutLines)) /\ f.hunks \in Seq(Hunk)
      /\ f.headers \in Seq(OutLines) /\ f.payload \in Seq(OutLines)
      /\ Concat(Parts(f)) \in Seq(OutLines)
  BY TrailerIsTagged, PartsIs
<1>2. PICK n : n = Len(f.hunks)
  OBVIOUS
<1>3. n \in Nat
  BY <1>1, <1>2
<1>4. LastTag(f.trailer) \in 0..n
  BY <1>1, <1>2, <1>3, LastTagIs DEF KeptInPlace
<1>5. Tagged(f.trailer, IF n = 0 THEN 0 ELSE n + 1, LastTag(f.trailer)) = <<>>
  <2>1. PICK to : to = LastTag(f.trailer)
    OBVIOUS
  <2>2. PICK from : from = IF n = 0 THEN 0 ELSE n + 1
    OBVIOUS
  <2>3. to \in Nat /\ from \in Nat
    BY <1>3, <1>4, <2>1, <2>2
  <2>4. ASSUME NEW i \in DOMAIN f.trailer
        PROVE  f.trailer[i].at \notin from..to
    <3>1. CASE n = 0
      <4>1. f.trailer = <<>>
        <5>1. f.hunks = <<>>
          BY <1>1, <1>2, <3>1, EmptySeq
        <5>2. QED
          BY <5>1 DEF KeptInPlace
      <4>2. QED
        BY <4>1
    <3>2. CASE n # 0
      BY <1>3, <1>4, <2>1, <2>2, <3>2
    <3>3. QED
      BY <3>1, <3>2
  <2>5. Tagged(f.trailer, from, to) = <<>>
    BY <1>1, <2>3, <2>4, TaggedNone
  <2>6. QED
    BY <2>1, <2>2, <2>5
<1>6. EntryText(f) = f.headers \o f.payload \o Concat(Parts(f))
                       \o Tagged(f.trailer, IF n = 0 THEN 0 ELSE n + 1, LastTag(f.trailer))
  BY <1>2 DEF EntryText, Parts, Part
<1>7. PICK a : a = f.headers
  OBVIOUS
<1>8. PICK b : b = f.payload
  OBVIOUS
<1>9. PICK c : c = Concat(Parts(f))
  OBVIOUS
<1>10. a \in Seq(OutLines) /\ b \in Seq(OutLines) /\ c \in Seq(OutLines)
  BY <1>1, <1>7, <1>8, <1>9
<1>11. ((a \o b) \o c) \o <<>> = (a \o b) \o c /\ (a \o b) \o c \in Seq(OutLines)
  BY ONLY <1>10
<1>12. EntryText(f) = ((a \o b) \o c) \o <<>>
  BY <1>5, <1>6, <1>7, <1>8, <1>9
<1>13. QED
  BY <1>7, <1>8, <1>9, <1>11, <1>12

(* An entry whose parts grow at the end, grows at the end.                 *)
LEMMA EntryTextGrows ==
  ASSUME NEW f \in Entry, NEW g \in Entry, KeptInPlace(f), KeptInPlace(g), NEW y \in Seq(OutLines),
         g.headers = f.headers, g.payload = f.payload,
         Concat(Parts(g)) = Concat(Parts(f)) \o y
  PROVE  EntryText(g) = EntryText(f) \o y
<1>1. PICK a : a = f.headers \o f.payload
  OBVIOUS
<1>2. PICK c : c = Concat(Parts(f))
  OBVIOUS
<1>3. a \in Seq(OutLines) /\ c \in Seq(OutLines) /\ y \in Seq(OutLines)
  <2>1. f.headers \in Seq(OutLines) /\ f.payload \in Seq(OutLines) /\ c \in Seq(OutLines)
    BY <1>2, TrailerIsTagged, PartsIs
  <2>2. QED
    BY <1>1, <2>1, ConcatProperties
<1>4. a \o (c \o y) = (a \o c) \o y
  BY ONLY <1>3, Regrouped
<1>5. EntryText(f) = a \o c /\ EntryText(g) = a \o (c \o y)
  BY <1>1, <1>2, EntryTextIs
<1>6. QED
  BY <1>4, <1>5

\* an entry without hunks has no parts
LEMMA NoParts ==
  ASSUME NEW f \in Entry, f.hunks = <<>>
  PROVE  Concat(Parts(f)) = <<>>
<1>1. Parts(f) \in Seq(Seq(OutLines)) /\ Len(Parts(f)) = 0
  BY PartsIs
<1>2. DOMAIN Parts(f) = {}
  BY <1>1
<1>3. QED
  BY <1>1, <1>2, ConcatOfNothing

(* A line that is kept as a header, as payload, as a trailer line, as the  *)
(* header of a hunk: each time it is the last of the text.                 *)
LEMMA HeaderGrows ==
  ASSUME NEW f \in Entry, NEW g \in Entry, KeptInPlace(f), KeptInPlace(g), NEW x \in InputLines,
         f.hunks = <<>>, f.payload = <<>>, g = [f EXCEPT !.headers = Append(f.headers, x)]
  PROVE  EntryText(g) = EntryText(f) \o <<x>>
<1>1. g.hunks = <<>> /\ g.payload = <<>> /\ g.headers = Append(f.headers, x)
  BY DEF Entry
<1>2. PICK a : a = f.headers
  OBVIOUS
<1>3. a \in Seq(OutLines) /\ x \in OutLines
  BY <1>2, TrailerIsTagged DEF OutLines
<1>4. EntryText(f) = (a \o <<>>) \o <<>> /\ EntryText(g) = (Append(a, x) \o <<>>) \o <<>>
  <2>1. Concat(Parts(f)) = <<>> /\ Concat(Parts(g)) = <<>>
    BY <1>1, NoParts
  <2>2. QED
    BY <1>1, <1>2, <2>1, EntryTextIs
<1>5. (Append(a, x) \o <<>>) \o <<>> = ((a \o <<>>) \o <<>>) \o <<x>>
  BY ONLY <1>3
<1>6. QED
  BY <1>4, <1>5

LEMMA PayloadGrows ==
  ASSUME NEW f \in Entry, NEW g \in Entry, KeptInPlace(f), KeptInPlace(g), NEW x \in InputLines,
         f.hunks = <<>>, g = [f EXCEPT !.payload = Append(f.payload, x)]
  PROVE  EntryText(g) = EntryText(f) \o <<x>>
<1>1. g.hunks = <<>> /\ g.headers = f.headers /\ g.payload = Append(f.payload, x)
  BY DEF Entry
<1>2. PICK a : a = f.headers
  OBVIOUS
<1>2a. PICK b : b = f.payload
  OBVIOUS
<1>3. a \in Seq(OutLines) /\ b \in Seq(OutLines) /\ x \in OutLines
  BY <1>2, <1>2a, TrailerIsTagged DEF OutLines
<1>4. EntryText(f) = (a \o b) \o <<>> /\ EntryText(g) = (a \o Append(b, x)) \o <<>>
  <2>1. Concat(Parts(f)) = <<>> /\ Concat(Parts(g)) = <<>>
    BY <1>1, NoParts
  <2>2. QED
    BY <1>1, <1>2, <1>2a, <2>1, EntryTextIs
<1>5. (a \o Append(b, x)) \o <<>> = ((a \o b) \o <<>>) \o <<x>>
  BY ONLY <1>3
<1>6. QED
  BY <1>4, <1>5

LEMMA TrailerGrows ==
  ASSUME NEW f \in Entry, NEW g \in Entry, KeptInPlace(f), KeptInPlace(g), NEW x \in InputLines,
         f.hunks # <<>>,
         g = [f EXCEPT !.trailer = Append(f.trailer, [at |-> Len(f.hunks), line |-> x])]
  PROVE  EntryText(g) = EntryText(f) \o <<x>>
<1>1. PICK n : n = Len(f.hunks)
  OBVIOUS
<1>2. PICK t : t = [at |-> n, line |-> x]
  OBVIOUS
<1>3. f.hunks \in Seq(Hunk) /\ f.trailer \in Seq(Tags(OutLines)) /\ x \in OutLines
  BY TrailerIsTagged DEF OutLines
<1>4. n \in Nat \ {0} /\ DOMAIN f.hunks = 1..n
  BY <1>1, <1>3
<1>5. t \in Tags(OutLines) /\ t.at = n /\ t.line = x
  BY <1>2, <1>3, <1>4 DEF Tags
<1>6. /\ g.hunks = f.hunks /\ g.headers = f.headers /\ g.payload = f.payload
      /\ g.trailer = Append(f.trailer, t)
  BY <1>1, <1>2 DEF Entry
<1>7. /\ Parts(f) \in Seq(Seq(OutLines)) /\ Len(Parts(f)) = n
      /\ Parts(g) \in Seq(Seq(OutLines)) /\ Len(Parts(g)) = n
  BY <1>1, <1>6, PartsIs
<1>8. ASSUME NEW j \in 1..n
      PROVE  Part(g, j) = Part(f, j) \o (IF j = n THEN <<x>> ELSE <<>>)
  <2>1. PICK from : from = IF j = 1 THEN 0 ELSE j
    OBVIOUS
  <2>2. from \in Nat /\ j \in Nat /\ from <= j /\ (n = j \/ n \notin from..j)
    BY <1>4, <2>1
  <2>3. Tagged(Append(f.trailer, t), from, j)
          = Tagged(f.trailer, from, j) \o (IF t.at = j /\ from <= j THEN <<t.line>> ELSE <<>>)
    BY <1>3, <1>5, <2>2, TaggedAppend
  <2>4. PICK a : a = HunkText(f.hunks[j])
    OBVIOUS
  <2>5. PICK b : b = Tagged(f.trailer, from, j)
    OBVIOUS
  <2>6. PICK y : y = IF j = n THEN <<x>> ELSE <<>>
    OBVIOUS
  <2>7. a \in Seq(OutLines) /\ b \in Seq(OutLines)
    BY <1>1, <2>1, <2>4, <2>5, PartIs
  <2>8. y \in Seq(OutLines)
    BY <1>3, <2>6
  <2>9. a \o (b \o y) = (a \o b) \o y
    BY ONLY <2>7, <2>8, Regrouped
  <2>10. Tagged(g.trailer, from, j) = b \o y
    BY <1>5, <1>6, <2>2, <2>3, <2>5, <2>6
  <2>11. Part(f, j) = a \o b /\ Part(g, j) = a \o (b \o y)
    BY <1>6, <2>1, <2>4, <2>5, <2>10 DEF Part
  <2>12. QED
    BY <2>6, <2>9, <2>11
<1>9. PICK y : y = <<x>>
  OBVIOUS
<1>10. y \in Seq(OutLines)
  BY <1>3, <1>9
<1>11. Concat(Parts(g)) = Concat(Parts(f)) \o y
  <2>1. PICK a : a = Parts(f)
    OBVIOUS
  <2>2. PICK b : b = Parts(g)
    OBVIOUS
  <2>3. \A j \in 1..n : a[j] = Part(f, j) /\ b[j] = Part(g, j)
    BY <1>1, <1>6, <2>1, <2>2 DEF Parts
  <2>4. ASSUME NEW j \in 1..n, j # n
        PROVE  a[j] = b[j]
    <3>1. PICK p : p = Part(f, j)
      OBVIOUS
    <3>2. p \in Seq(OutLines)
      BY <1>1, <3>1, PartIs
    <3>3. p \o <<>> = p
      BY ONLY <3>2
    <3>4. QED
      BY <1>8, <2>3, <2>4, <3>1, <3>3
  <2>5. n \in 1..n
    BY <1>4
  <2>6. b[n] = a[n] \o y
    BY <1>8, <1>9, <2>3, <2>5
  <2>7. Longer(OutLines, a, b, n, y)
    BY <1>4, <1>7, <1>10, <2>1, <2>2, <2>4, <2>6 DEF Longer
  <2>8. Concat(b) = Concat(a) \o y
    BY ONLY <2>7, ConcatOfLonger
  <2>9. QED
    BY <2>1, <2>2, <2>8
<1>12. EntryText(g) = EntryText(f) \o y
  BY <1>6, <1>10, <1>11, EntryTextGrows
<1>13. QED
  BY <1>9, <1>12

\* nothing is tagged with the last hunk
LEMMA LastPartIs ==
  ASSUME NEW f \in Entry, f.hunks # <<>>,
         \A t \in DOMAIN f.trailer : f.trailer[t].at < Len(f.hunks)
  PROVE  Part(f, Len(f.hunks)) = HunkText(f.hunks[Len(f.hunks)])
<1>1. PICK n : n = Len(f.hunks)
  OBVIOUS
<1>2. /\ f.hunks \in Seq(Hunk) /\ f.trailer \in Seq(Tags(OutLines))
      /\ \A t \in DOMAIN f.trailer : f.trailer[t].at \in Nat \ {0}
  BY TrailerIsTagged
<1>3. n \in Nat \ {0}
  BY <1>1, <1>2
<1>4. PICK from : from = IF n = 1 THEN 0 ELSE n
  OBVIOUS
<1>5. from \in Nat /\ \A i \in DOMAIN f.trailer : f.trailer[i].at \notin from..n
  <2>1. from \in Nat /\ ((from = 0 /\ n = 1) \/ from = n)
    BY <1>3, <1>4
  <2>2. ASSUME NEW i \in DOMAIN f.trailer
        PROVE  f.trailer[i].at \notin from..n
    <3>1. PICK at : at = f.trailer[i].at
      OBVIOUS
    <3>2. at \in Nat \ {0} /\ at < n
      BY <1>1, <1>2, <3>1
    <3>3. QED
      BY <1>3, <2>1, <3>1, <3>2
  <2>3. QED
    BY <2>1, <2>2
<1>6. Tagged(f.trailer, from, n) = <<>>
  BY <1>2, <1>3, <1>5, TaggedNone
<1>7. PICK a : a = HunkText(f.hunks[n])
  OBVIOUS
<1>8. a \in Seq(OutLines)
  BY <1>1, <1>3, <1>7, PartIs
<1>9. a \o <<>> = a
  BY ONLY <1>8
<1>10. QED
  BY <1>1, <1>4, <1>6, <1>7, <1>9 DEF Part

LEMMA HunkGrows ==
  ASSUME NEW f \in Entry, NEW g \in Entry, KeptInPlace(f), KeptInPlace(g), NEW h \in Hunk,
         h.lines = <<>>, g = [f EXCEPT !.hunks = Append(f.hunks, h)]
  PROVE  EntryText(g) = EntryText(f) \o <<HeaderLine(h)>>
<1>1. PICK n : n = Len(f.hunks)
  OBVIOUS
<1>2. f.hunks \in Seq(Hunk) /\ n \in Nat
  BY <1>1, TrailerIsTagged
<1>3. /\ g.trailer = f.trailer /\ g.headers = f.headers /\ g.payload = f.payload
      /\ g.hunks = Append(f.hunks, h)
  BY DEF Entry
<1>4. Len(g.hunks) = n + 1 /\ g.hunks[n + 1] = h /\ \A j \in 1..n : g.hunks[j] = f.hunks[j]
  BY <1>1, <1>2, <1>3
<1>5. Part(g, n + 1) = HunkText(h)
  <2>1. g.hunks # <<>> /\ \A t \in DOMAIN g.trailer : g.trailer[t].at < Len(g.hunks)
    <3>1. \A t \in DOMAIN f.trailer : f.trailer[t].at \in Nat /\ f.trailer[t].at <= n
      BY <1>1, TrailerIsTagged DEF KeptInPlace
    <3>2. QED
      BY <1>2, <1>3, <1>4, <3>1
  <2>2. QED
    BY <1>4, <2>1, LastPartIs
<1>6. \A j \in 1..n : Part(g, j) = Part(f, j)
  BY <1>3, <1>4 DEF Part
<1>7. PICK x : x = HunkText(h)
  OBVIOUS
<1>8. x = <<HeaderLine(h)>> /\ x \in Seq(OutLines)
  BY <1>7, HunkTextIs, HunkTextBare
<1>9. Parts(g) = Append(Parts(f), x)
  <2>1. PICK a : a = Parts(f)
    OBVIOUS
  <2>2. PICK b : b = Parts(g)
    OBVIOUS
  <2>3. \A j \in 1..n : a[j] = Part(f, j)
    BY <1>1, <2>1 DEF Parts
  <2>4. \A j \in 1..(n + 1) : b[j] = Part(g, j)
    BY <1>4, <2>2 DEF Parts
  <2>5. b[n + 1] = x /\ \A j \in 1..n : b[j] = a[j]
    <3>1. n + 1 \in 1..(n + 1) /\ 1..n \subseteq 1..(n + 1)
      BY <1>2
    <3>2. b[n + 1] = x
      BY <1>5, <1>7, <2>4, <3>1
    <3>3. QED
      BY <1>6, <2>3, <2>4, <3>1, <3>2
  <2>6. /\ a \in Seq(Seq(OutLines)) /\ Len(a) = n /\ n \in Nat /\ x \in Seq(OutLines)
        /\ b \in Seq(Seq(OutLines)) /\ Len(b) = n + 1
    BY <1>1, <1>2, <1>4, <1>8, <2>1, <2>2, PartsIs
  <2>7. /\ Append(a, x) \in Seq(Seq(OutLines)) /\ Len(Append(a, x)) = n + 1
        /\ \A i \in 1..(n + 1) : b[i] = Append(a, x)[i]
    BY ONLY <2>5, <2>6
  <2>8. b = Append(a, x)
    BY <2>6, <2>7, SeqEqual
  <2>9. QED
    BY <2>1, <2>2, <2>8
<1>10. Concat(Parts(g)) = Concat(Parts(f)) \o x
  BY <1>8, <1>9, PartsIs, ConcatOfAppend
<1>11. EntryText(g) = EntryText(f) \o x
  BY <1>3, <1>8, <1>10, EntryTextGrows
<1>12. QED
  BY <1>8, <1>11

LEMMA BodyGrows ==
  ASSUME NEW f \in Entry, NEW g \in Entry, KeptInPlace(f), KeptInPlace(g), f.hunks # <<>>,
         \A t \in DOMAIN f.trailer : f.trailer[t].at < Len(f.hunks),
         g.headers = f.headers, g.payload = f.payload, g.trailer = f.trailer,
         Len(g.hunks) = Len(f.hunks),
         \A j \in DOMAIN f.hunks : j # Len(f.hunks) => g.hunks[j] = f.hunks[j],
         NEW y \in Seq(OutLines),
         HunkText(g.hunks[Len(f.hunks)]) = HunkText(f.hunks[Len(f.hunks)]) \o y
  PROVE  EntryText(g) = EntryText(f) \o y
<1>1. PICK n : n = Len(f.hunks)
  OBVIOUS
<1>2. f.hunks \in Seq(Hunk) /\ g.hunks \in Seq(Hunk) /\ n \in Nat \ {0} /\ DOMAIN f.hunks = 1..n
  BY <1>1, TrailerIsTagged
<1>3. g.hunks # <<>>
  BY <1>1, <1>2
<1>4. Part(f, n) = HunkText(f.hunks[n]) /\ Part(g, n) = HunkText(g.hunks[n])
  BY <1>1, <1>3, LastPartIs
<1>5. \A j \in 1..n : j # n => Part(g, j) = Part(f, j)
  BY <1>1, <1>2 DEF Part
<1>6. Concat(Parts(g)) = Concat(Parts(f)) \o y
  <2>1. PICK a : a = Parts(f)
    OBVIOUS
  <2>2. PICK b : b = Parts(g)
    OBVIOUS
  <2>3. \A j \in 1..n : a[j] = Part(f, j) /\ b[j] = Part(g, j)
    BY <1>1, <2>1, <2>2 DEF Parts
  <2>4. b[n] = a[n] \o y
    <3>1. n \in 1..n
      BY <1>2
    <3>2. a[n] = HunkText(f.hunks[n]) /\ b[n] = HunkText(g.hunks[n])
      BY <1>4, <2>3, <3>1
    <3>3. QED
      BY <1>1, <3>2
  <2>5. Longer(OutLines, a, b, n, y)
    BY <1>1, <1>2, <1>5, <2>1, <2>2, <2>3, <2>4, PartsIs DEF Longer
  <2>6. Concat(b) = Concat(a) \o y
    BY ONLY <2>5, ConcatOfLonger
  <2>7. QED
    BY <2>1, <2>2, <2>6
<1>7. QED
  BY <1>6, EntryTextGrows

-----------------------------------------------------------------------------
(* The entries.                                                              *)

(* The entry being read, and its last hunk.                                *)
LEMMA FileIsAnEntry ==
  ASSUME TypeOK, cur # <<>>
  PROVE  File \in Entry /\ cur = <<File>>
<1>1. cur \in Seq(Entry) /\ Len(cur) <= 1
  BY DEF TypeOK
<1>2. Len(cur) = 1
  BY <1>1, EmptySeq
<1>3. cur[1] \in Entry /\ cur = <<cur[1]>>
  BY <1>1, <1>2
<1>4. QED
  BY <1>3 DEF File

LEMMA LastHunkIsAHunk ==
  ASSUME TypeOK, cur # <<>>, File.hunks # <<>>
  PROVE  /\ File.hunks \in Seq(Hunk) /\ Len(File.hunks) \in DOMAIN File.hunks
         /\ LastHunk \in Hunk /\ LastHunk = File.hunks[Len(File.hunks)]
<1>1. File.hunks \in Seq(Hunk)
  BY FileIsAnEntry DEF Entry
<1>2. QED
  BY <1>1 DEF LastHunk

(* A count of a body is a natural number.                                  *)
LEMMA TakenIsANumber ==
  ASSUME NEW h \in Hunk, NEW side
  PROVE  Taken(h, side) \in Nat
<1>1. h.lines \in Seq(Line)
  BY DEF Hunk
<1>2. Len(h.lines) \in Int
  BY <1>1
<1>3. QED
  BY <1>2, CountInType DEF Taken, Count

(* One more line at the end of a body counts once on each of its sides.    *)
LEMMA CountOfAppend ==
  ASSUME NEW ls \in Seq(Line), NEW l \in Line, NEW K
  PROVE  Count(Append(ls, l), K) = Count(ls, K) + (IF l.kind \in K THEN 1 ELSE 0)
<1> DEFINE one == <<l>>
           longer == Append(ls, l)
<1>1. one \in Seq(Line) /\ Len(one) = 1 /\ one[1] = l
  OBVIOUS
<1>2. longer = ls \o one
  OBVIOUS
<1> HIDE DEF one, longer
<1>3. Count(one, K) = IF l.kind \in K THEN 1 ELSE 0
  BY <1>1, CountInOne DEF Count
<1>4. Count(ls \o one, K) = Count(ls, K) + Count(one, K)
  BY <1>1, CountOfConcat
<1>5. Count(longer, K) = Count(ls, K) + (IF l.kind \in K THEN 1 ELSE 0)
  BY <1>2, <1>3, <1>4
<1>6. QED
  BY <1>5 DEF longer

(* A no-newline marker changes no count.                                   *)
LEMMA CountOfMarked ==
  ASSUME NEW ls \in Seq(Line), ls # <<>>, NEW K
  PROVE  LET ms == [ls EXCEPT ![Len(ls)].nonl = TRUE]
         IN  ms \in Seq(Line) /\ Count(ms, K) = Count(ls, K)
<1> DEFINE last == [ls[Len(ls)] EXCEPT !.nonl = TRUE]
           ms   == [ls EXCEPT ![Len(ls)] = last]
<1>1. Len(ls) \in DOMAIN ls /\ ls[Len(ls)] \in Line
  OBVIOUS
<1>2. last \in Line /\ last.kind = ls[Len(ls)].kind
  BY <1>1 DEF Line
<1> HIDE DEF last
<1>3. /\ ms \in Seq(Line) /\ Len(ms) = Len(ls)
      /\ \A i \in 1..Len(ls) : ms[i].kind = ls[i].kind
  BY <1>1, <1>2
<1>4. {i \in 1..Len(ms) : ms[i].kind \in K} = {i \in 1..Len(ls) : ls[i].kind \in K}
  BY <1>3
<1>5. Count(ms, K) = Count(ls, K)
  BY <1>4 DEF Count, CountIn
<1>6. QED
  BY <1>3, <1>5 DEF last

(* An entry with another trailer, with other hunks, with other lines.      *)
LEMMA EntryWithTrailer ==
  ASSUME NEW f \in Entry, NEW tr \in Seq(TrailerLine)
  PROVE  LET g == [f EXCEPT !.trailer = tr]
         IN  /\ g \in Entry /\ g.hunks = f.hunks /\ g.trailer = tr
             /\ g.payload = f.payload
  BY DEF Entry

LEMMA EntryWithHunks ==
  ASSUME NEW f \in Entry, NEW hs \in Seq(Hunk)
  PROVE  LET g == [f EXCEPT !.hunks = hs]
         IN  /\ g \in Entry /\ g.hunks = hs /\ g.trailer = f.trailer
             /\ g.payload = f.payload /\ g.headers = f.headers
  BY DEF Entry

LEMMA EntryWithLines ==
  ASSUME NEW f \in Entry, NEW ls \in Lines
  PROVE  LET g == [f EXCEPT !.headers = ls]
             h == [f EXCEPT !.payload = ls]
         IN  /\ g \in Entry /\ g.hunks = f.hunks /\ g.trailer = f.trailer
             /\ g.payload = f.payload
             /\ h \in Entry /\ h.hunks = f.hunks /\ h.trailer = f.trailer
  BY DEF Entry

(* What is read of a line that is not of a body.                           *)
LEMMA PushHeaderIs ==
  ASSUME NEW f \in Entry, NEW line \in InputLines
  PROVE  LET g == PushHeader(f, line)
         IN  /\ g \in Entry /\ g.hunks = f.hunks
             /\ HoldsFileHeader(g)
                  => HoldsFileHeader(f) \/ (line = OldHeader /\ f.hunks # <<>>)
             /\ KeptInPlace(f) => KeptInPlace(g)
<1> DEFINE g == PushHeader(f, line)
           t == [at |-> Len(f.hunks), line |-> line]
<1>1. /\ f.headers \in Lines /\ f.payload \in Lines /\ f.hunks \in Seq(Hunk)
      /\ f.trailer \in Seq(TrailerLine)
  BY DEF Entry
<1>2. CASE /\ ~IsBinary(f) /\ f.hunks # <<>>
  <2>1. g = [f EXCEPT !.trailer = Append(f.trailer, t)]
    BY <1>2 DEF PushHeader
  <2>2. t \in TrailerLine /\ Append(f.trailer, t) \in Seq(TrailerLine)
    BY <1>1, <1>2 DEF TrailerLine
  <2> HIDE DEF g, t
  <2>3. /\ g \in Entry /\ g.hunks = f.hunks /\ g.trailer = Append(f.trailer, t)
        /\ g.payload = f.payload
    BY <1>1, <2>1, <2>2, EntryWithTrailer, Zenon
  <2>a. t.line = line /\ t.at = Len(f.hunks)
    BY DEF t
  <2>b. ASSUME KeptInPlace(f)
        PROVE  KeptInPlace(g)
    <3>1. Len(f.hunks) \in Nat
      BY <1>1
    <3>2. ASSUME NEW i \in DOMAIN g.trailer
          PROVE  g.trailer[i].at <= Len(g.hunks)
      <4>1. CASE i = Len(f.trailer) + 1
        BY <1>1, <2>2, <2>3, <2>a, <3>1, <4>1
      <4>2. CASE i # Len(f.trailer) + 1
        <5>1. i \in DOMAIN f.trailer /\ g.trailer[i] = f.trailer[i]
          BY <1>1, <2>2, <2>3, <4>2
        <5>2. QED
          BY <2>3, <2>b, <5>1 DEF KeptInPlace
      <4>3. QED
        BY <4>1, <4>2
    <3>3. ~IsBinary(g)
      BY <1>2, <2>3 DEF IsBinary
    <3>4. QED
      BY <1>2, <2>3, <3>2, <3>3 DEF KeptInPlace
  <2>4. ASSUME NEW i \in DOMAIN g.trailer, g.trailer[i].line = OldHeader
        PROVE  HoldsFileHeader(f) \/ line = OldHeader
    <3>1. CASE i = Len(f.trailer) + 1
      BY <1>1, <2>2, <2>3, <2>4, <2>a, <3>1
    <3>2. CASE i # Len(f.trailer) + 1
      <4>1. i \in DOMAIN f.trailer /\ g.trailer[i] = f.trailer[i]
        BY <1>1, <2>2, <2>3, <3>2
      <4>2. QED
        BY <2>4, <4>1 DEF HoldsFileHeader
    <3>3. QED
      BY <3>1, <3>2
  <2>5. QED
    BY <1>2, <2>3, <2>4, <2>b DEF HoldsFileHeader, g
<1>3. CASE ~(~IsBinary(f) /\ f.hunks # <<>>)
  <2>1. \/ g = [f EXCEPT !.payload = Append(f.payload, line)]
        \/ g = [f EXCEPT !.payload = <<line>>]
        \/ g = [f EXCEPT !.headers = Append(f.headers, line)]
    BY <1>3 DEF PushHeader
  <2>2. /\ Append(f.payload, line) \in Lines /\ <<line>> \in Lines
        /\ Append(f.headers, line) \in Lines
    BY <1>1 DEF Lines
  <2> HIDE DEF g
  <2>3. g \in Entry /\ g.hunks = f.hunks /\ g.trailer = f.trailer
    <3>1. CASE g = [f EXCEPT !.headers = Append(f.headers, line)]
      BY <2>2, <3>1, EntryWithLines
    <3>2. CASE g = [f EXCEPT !.payload = Append(f.payload, line)]
      BY <2>2, <3>2, EntryWithLines
    <3>3. CASE g = [f EXCEPT !.payload = <<line>>]
      BY <2>2, <3>3, EntryWithLines
    <3>4. QED
      BY <2>1, <3>1, <3>2, <3>3
  <2>4. ASSUME KeptInPlace(f)
        PROVE  KeptInPlace(g)
    <3>1. CASE IsBinary(f)
      BY <2>3, <2>4, <3>1 DEF KeptInPlace
    <3>2. CASE ~IsBinary(f)
      <4>1. f.hunks = <<>>
        BY <1>3, <3>2
      <4>2. QED
        BY <2>3, <2>4, <4>1 DEF KeptInPlace
    <3>3. QED
      BY <3>1, <3>2
  <2>5. QED
    BY <2>3, <2>4 DEF HoldsFileHeader, g
<1>4. QED
  BY <1>2, <1>3

(* A new entry.                                                            *)
LEMMA NewFileIs ==
  ASSUME NEW hs \in Lines
  PROVE  /\ NewFile(hs) \in Entry /\ NewFile(hs).hunks = <<>>
         /\ ~HoldsFileHeader(NewFile(hs)) /\ KeptInPlace(NewFile(hs))
<1>1. /\ NewFile(hs) \in Entry /\ NewFile(hs).hunks = <<>> /\ NewFile(hs).trailer = <<>>
  BY DEF NewFile, Entry, Lines
<1>2. QED
  BY <1>1 DEF HoldsFileHeader, KeptInPlace

(* The entry being read can be put with the entries that are done with.    *)
LEMMA EntryIsDone ==
  ASSUME StateInv
  PROVE  /\ files \o cur \in Seq(Entry)
         /\ \A i \in DOMAIN (files \o cur) : EntryInv((files \o cur)[i])
<1>1. files \in Seq(Entry) /\ cur \in Seq(Entry) /\ Len(cur) <= 1
  BY DEF StateInv, TypeOK
<1>2. CASE cur = <<>>
  BY <1>1, <1>2 DEF StateInv
<1>3. CASE cur # <<>>
  <2>1. EntryInv(File)
    BY <1>3 DEF StateInv, CurInv, EntryInv, LeftIncomplete, AllComplete
  <2>2. cur = <<File>>
    BY <1>3, FileIsAnEntry DEF StateInv
  <2>3. ASSUME NEW i \in DOMAIN (files \o cur)
        PROVE  EntryInv((files \o cur)[i])
    <3>1. \/ i \in DOMAIN files /\ (files \o cur)[i] = files[i]
          \/ (files \o cur)[i] = File
      BY <1>1, <2>2
    <3>2. QED
      BY <2>1, <3>1 DEF StateInv
  <2>4. QED
    BY <1>1, <2>3
<1>4. QED
  BY <1>2, <1>3

-----------------------------------------------------------------------------
(* Each step keeps the invariant.                                           *)

LEMMA NothingIsABudget == Nothing \in [old : Nat, new : Nat]
  BY DEF Nothing

\* StateInv holds at the start and is kept
LEMMA InitInv == Init => StateInv
<1> SUFFICES ASSUME Init
             PROVE  StateInv
  OBVIOUS
<1>1. input \in Lines /\ preamble \in Lines
  BY EmptySeq DEF Init, Lines
<1>2. files \in Seq(Entry) /\ cur \in Seq(Entry) /\ Len(cur) <= 1
  BY EmptySeq DEF Init
<1>3. remaining \in [old : Nat, new : Nat]
  BY NothingIsABudget DEF Init
<1>4. TypeOK
  BY <1>1, <1>2, <1>3 DEF Init, TypeOK
<1>5. QED
  BY <1>4 DEF Init, StateInv, CurInv

\* a line is read and the parser goes on or fails: what does not depend on cur
LEMMA FailInv ==
  ASSUME StateInv, input' \in Lines, phase' \in {"Combined", "BadHunkHeader", "Unexpected"},
         UNCHANGED <<preamble, files, cur, st>>
  PROVE  StateInv'
<1>1. UNCHANGED <<preamble, files, cur, inHunk, sawHunk, sawMarkerPair, remaining>>
  BY DEF st
<1>2. TypeOK'
  BY <1>1 DEF StateInv, TypeOK
<1>3. File' = File /\ LastHunk' = LastHunk
  BY <1>1 DEF File, LastHunk
<1>4. CurInv'
  BY <1>1, <1>3 DEF StateInv, CurInv, BudgetIsTheLastHunks, LeftIncomplete
<1>5. QED
  BY <1>1, <1>2, <1>4 DEF StateInv

LEMMA OpenFileInv ==
  ASSUME StateInv, input' \in Lines, NEW f \in Entry, f.hunks = <<>>, ~HoldsFileHeader(f),
         KeptInPlace(f), OpenFile(f)
  PROVE  StateInv'
<1>1. /\ files' \in Seq(Entry)
      /\ \A i \in DOMAIN files' : EntryInv(files'[i])
  BY EntryIsDone DEF OpenFile
<1>2. cur' = <<f>> /\ File' = f
  BY DEF OpenFile, File
<1>a. cur' \in Seq(Entry) /\ Len(cur') <= 1
  BY <1>2
<1>b. remaining' \in [old : Nat, new : Nat]
  BY NothingIsABudget DEF OpenFile
<1>3. TypeOK'
  BY <1>1, <1>a, <1>b DEF StateInv, TypeOK, OpenFile
<1>4. CurInv'
  BY <1>2 DEF CurInv, OpenFile, HunksFit
<1>5. QED
  BY <1>1, <1>2, <1>3, <1>4 DEF StateInv, OpenFile

\* the line is kept as a header, a payload or a trailer line, and no body is open
LEMMA PushHeaderInv ==
  ASSUME StateInv, input' \in Lines, cur # <<>>, NEW line \in InputLines, ~StartsPlainFile(line),
         cur' = <<PushHeader(File, line)>>, ~inHunk', inHunk' \in BOOLEAN,
         sawMarkerPair' \in BOOLEAN,
         UNCHANGED <<phase, preamble, files, sawHunk, remaining>>
  PROVE  StateInv'
<1>0. PICK g : g = PushHeader(File, line)
  OBVIOUS
<1>1. File \in Entry
  BY FileIsAnEntry DEF StateInv
<1>2. /\ g \in Entry /\ g.hunks = File.hunks
      /\ HoldsFileHeader(g) => HoldsFileHeader(File) \/ (line = OldHeader /\ File.hunks # <<>>)
      /\ KeptInPlace(File) => KeptInPlace(g)
  BY <1>0, <1>1, PushHeaderIs
<1>3. cur' = <<g>> /\ File' = g
  BY <1>0 DEF File
<1>4. TypeOK'
  BY <1>2, <1>3 DEF StateInv, TypeOK
<1>5. LastHunk' = LastHunk
  BY <1>2, <1>3 DEF LastHunk
<1>6. HunksFit(g) /\ (sawHunk' <=> g.hunks # <<>>)
  BY <1>2 DEF StateInv, CurInv, HunksFit
<1>7. sawHunk' => BudgetIsTheLastHunks'
  BY <1>5 DEF StateInv, CurInv, BudgetIsTheLastHunks
<1>8. ASSUME HoldsFileHeader(g)
      PROVE  LeftIncomplete(g)'
  <2>1. CASE HoldsFileHeader(File)
    BY <1>2, <2>1 DEF StateInv, CurInv, LeftIncomplete
  <2>2. CASE line = OldHeader /\ File.hunks # <<>>
    <3>1. sawHunk /\ ~Exhausted
      BY <2>2 DEF StateInv, CurInv, StartsPlainFile
    <3>2. ~Complete(LastHunk)
      <4>1. LastHunk \in Hunk
        BY <2>2, LastHunkIsAHunk DEF StateInv
      <4>2. Taken(LastHunk, OldSide) \in Nat /\ Taken(LastHunk, NewSide) \in Nat
        BY <4>1, TakenIsANumber
      <4>3. remaining \in [old : Nat, new : Nat] /\ ~(remaining.old = 0 /\ remaining.new = 0)
        BY <3>1 DEF StateInv, TypeOK, Exhausted, Nothing
      <4>4. QED
        BY <3>1, <4>2, <4>3 DEF StateInv, CurInv, BudgetIsTheLastHunks, Complete
    <3>3. Len(File.hunks) \in DOMAIN File.hunks /\ LastHunk = File.hunks[Len(File.hunks)]
      BY <2>2, LastHunkIsAHunk DEF StateInv
    <3>4. QED
      BY <1>2, <3>2, <3>3 DEF LeftIncomplete
  <2>3. QED
    BY <1>2, <1>8, <2>1, <2>2
<1>9. KeptInPlace(g)
  BY <1>2 DEF StateInv, CurInv
<1>10. QED
  BY <1>3, <1>4, <1>6, <1>7, <1>8, <1>9 DEF StateInv, CurInv

LEMMA EndOfInputInv == StateInv /\ EndOfInput => StateInv'
<1> SUFFICES ASSUME StateInv, EndOfInput
             PROVE  StateInv'
  OBVIOUS
<1>1. /\ files' \in Seq(Entry)
      /\ \A i \in DOMAIN files' : EntryInv(files'[i])
  BY EntryIsDone DEF EndOfInput
<1>2. UNCHANGED <<input, preamble, inHunk, sawHunk, sawMarkerPair, remaining>>
  BY DEF EndOfInput, st
<1>3. TypeOK'
  BY <1>1, <1>2, EmptySeq DEF StateInv, TypeOK, EndOfInput
<1>4. QED
  BY <1>1, <1>3 DEF StateInv, CurInv, EndOfInput

\* a hunk that promises what its header says and holds nothing
LEMMA OpenHunkInv ==
  ASSUME StateInv, input' \in Lines, NEW line \in InputLines, OpenHunk(line)
  PROVE  StateInv'
<1>1. cur # <<>> /\ File \in Entry
  BY FileIsAnEntry DEF StateInv, OpenHunk, InEntry
<1>2. PICK h : h = [old_start |-> line.range[1], old_lines |-> line.range[2],
                    new_start |-> line.range[3], new_lines |-> line.range[4], lines |-> <<>>]
  OBVIOUS
<1>3. h \in Hunk /\ h.lines = <<>>
  <2>1. line.range \in U32 \X Nat \X U32 \X Nat
    BY LinesAssumption DEF OpenHunk
  <2>2. <<>> \in Seq(Line)
    BY EmptySeq
  <2>3. QED
    BY <1>2, <2>1, <2>2 DEF Hunk
<1>4. PICK hs : hs = Append(File.hunks, h)
  OBVIOUS
<1>5. File.hunks \in Seq(Hunk)
  BY <1>1 DEF Entry
<1>6. /\ hs \in Seq(Hunk) /\ hs # <<>> /\ Len(hs) = Len(File.hunks) + 1 /\ hs[Len(hs)] = h
      /\ \A j \in DOMAIN File.hunks : hs[j] = File.hunks[j]
      /\ DOMAIN hs = DOMAIN File.hunks \cup {Len(hs)}
  BY <1>3, <1>4, <1>5
<1>7. PICK g : g = [File EXCEPT !.hunks = hs]
  OBVIOUS
<1>8. g \in Entry /\ g.hunks = hs /\ g.trailer = File.trailer /\ g.payload = File.payload
  BY <1>1, <1>6, <1>7, EntryWithHunks
<1>9. /\ cur' = <<g>> /\ remaining' = [old |-> h.old_lines, new |-> h.new_lines]
      /\ sawHunk' = TRUE /\ inHunk' \in BOOLEAN
      /\ UNCHANGED <<phase, preamble, files, sawMarkerPair>>
  BY <1>2, <1>4, <1>7 DEF OpenHunk
<1>10. File' = g /\ LastHunk' = h
  BY <1>6, <1>8, <1>9 DEF File, LastHunk
<1>11. TypeOK'
  <2>1. cur' \in Seq(Entry) /\ Len(cur') <= 1
    BY <1>8, <1>9
  <2>2. remaining' \in [old : Nat, new : Nat]
    BY <1>3, <1>9 DEF Hunk
  <2>3. QED
    BY <1>9, <2>1, <2>2 DEF StateInv, TypeOK
<1>12. \A side : Taken(h, side) = 0
  BY <1>3, CountInType DEF Taken, Count
<1>13. h.old_lines \in Nat /\ h.new_lines \in Nat
  BY <1>3 DEF Hunk
<1>14. WithinCounts(h) /\ BudgetIsTheLastHunks'
  <2>1. WithinCounts(h)
    BY <1>12, <1>13 DEF WithinCounts
  <2>2. BudgetIsTheLastHunks'
    BY <1>9, <1>10, <1>12, <1>13 DEF BudgetIsTheLastHunks
  <2>3. QED
    BY <2>1, <2>2
<1>15. HunksFit(g)
  BY <1>1, <1>6, <1>8, <1>14 DEF StateInv, CurInv, HunksFit
<1>16. ASSUME HoldsFileHeader(g)
       PROVE  LeftIncomplete(g)'
  <2>1. HoldsFileHeader(File)
    BY <1>8, <1>16 DEF HoldsFileHeader
  <2>2. PICK j \in DOMAIN File.hunks : ~Complete(File.hunks[j])
    BY <1>1, <2>1 DEF StateInv, CurInv, LeftIncomplete
  <2>3. j \in DOMAIN hs /\ j # Len(hs) /\ hs[j] = File.hunks[j]
    BY <1>5, <1>6
  <2>4. QED
    BY <1>8, <2>2, <2>3 DEF LeftIncomplete
<1>17. KeptInPlace(g)
  <2>1. KeptInPlace(File) /\ ~IsBinary(g)
    BY <1>1, <1>8 DEF StateInv, CurInv, OpenHunk, IsBinary
  <2>2. \A t \in DOMAIN g.trailer : g.trailer[t].at \in Nat /\ g.trailer[t].at <= Len(File.hunks)
    BY <1>1, <1>8, <2>1, TrailerIsTagged DEF KeptInPlace
  <2>3. Len(File.hunks) \in Nat
    BY <1>5
  <2>4. \A t \in DOMAIN g.trailer : g.trailer[t].at <= Len(g.hunks)
    <3>1. Len(g.hunks) = Len(File.hunks) + 1
      BY <1>6, <1>8
    <3>2. ASSUME NEW at \in Nat, at <= Len(File.hunks)
          PROVE  at <= Len(g.hunks)
      BY <2>3, <3>1, <3>2
    <3>3. QED
      BY <2>2, <3>2
  <2>5. g.hunks # <<>>
    BY <1>6, <1>8
  <2>6. QED
    BY <2>1, <2>4, <2>5 DEF KeptInPlace
<1>17a. CurInv'
  BY <1>6, <1>8, <1>9, <1>10, <1>14, <1>15, <1>16, <1>17 DEF CurInv
<1>18. QED
  BY <1>9, <1>11, <1>17a DEF StateInv

\* the last hunk gets another body, the rest of the entry stays
LEMMA WithLinesIs ==
  ASSUME TypeOK, cur # <<>>, File.hunks # <<>>, NEW ls \in Seq(Line)
  PROVE  LET g == WithLines(ls)[1]
             n == Len(File.hunks)
         IN  /\ WithLines(ls) = <<g>> /\ g \in Entry /\ g.trailer = File.trailer
             /\ g.payload = File.payload /\ g.headers = File.headers
             /\ g.hunks \in Seq(Hunk) /\ Len(g.hunks) = n /\ DOMAIN g.hunks = DOMAIN File.hunks
             /\ \A j \in DOMAIN File.hunks : j # n => g.hunks[j] = File.hunks[j]
             /\ g.hunks[n] = [LastHunk EXCEPT !.lines = ls]
<1>1. File \in Entry
  BY FileIsAnEntry
<1>2. /\ File.hunks \in Seq(Hunk) /\ Len(File.hunks) \in DOMAIN File.hunks
      /\ LastHunk \in Hunk /\ LastHunk = File.hunks[Len(File.hunks)]
  BY LastHunkIsAHunk
<1>3. PICK h : h = [LastHunk EXCEPT !.lines = ls]
  OBVIOUS
<1>4. h \in Hunk
  BY <1>2, <1>3 DEF Hunk
<1>5. PICK hs : hs = [File.hunks EXCEPT ![Len(File.hunks)] = h]
  OBVIOUS
<1>6. /\ hs \in Seq(Hunk) /\ Len(hs) = Len(File.hunks) /\ DOMAIN hs = DOMAIN File.hunks
      /\ hs[Len(File.hunks)] = h
      /\ \A j \in DOMAIN File.hunks : j # Len(File.hunks) => hs[j] = File.hunks[j]
  BY <1>2, <1>4, <1>5
<1>7. WithLines(ls) = <<[File EXCEPT !.hunks = hs]>>
  BY <1>2, <1>3, <1>5 DEF WithLines
<1>8. PICK g : g = [File EXCEPT !.hunks = hs]
  OBVIOUS
<1>9. /\ g \in Entry /\ g.hunks = hs /\ g.trailer = File.trailer
      /\ g.payload = File.payload /\ g.headers = File.headers
  BY <1>1, <1>6, <1>8, EntryWithHunks
<1>10. WithLines(ls)[1] = g /\ WithLines(ls) = <<g>>
  BY <1>7, <1>8
<1>11. QED
  BY <1>3, <1>6, <1>9, <1>10

\* the body grows by what the budget shrinks
LEMMA BodyInv ==
  ASSUME StateInv, input' \in Lines, cur # <<>>, inHunk, NEW ls \in Seq(Line),
         cur' = WithLines(ls),
         remaining' \in [old : Nat, new : Nat],
         Count(ls, OldSide) + remaining'.old = LastHunk.old_lines,
         Count(ls, NewSide) + remaining'.new = LastHunk.new_lines,
         UNCHANGED <<phase, preamble, files, inHunk, sawHunk, sawMarkerPair>>
  PROVE  StateInv'
<1>1. sawHunk /\ File.hunks # <<>>
  BY DEF StateInv, CurInv
<1>2. PICK n : n = Len(File.hunks)
  OBVIOUS
<1>3. LastHunk \in Hunk /\ LastHunk = File.hunks[n] /\ n \in DOMAIN File.hunks
  BY <1>1, <1>2, LastHunkIsAHunk DEF StateInv
<1>4. PICK g : g = WithLines(ls)[1]
  OBVIOUS
<1>5. /\ cur' = <<g>> /\ g \in Entry /\ g.trailer = File.trailer /\ g.payload = File.payload
      /\ g.hunks \in Seq(Hunk) /\ Len(g.hunks) = n /\ DOMAIN g.hunks = DOMAIN File.hunks
      /\ \A j \in DOMAIN File.hunks : j # n => g.hunks[j] = File.hunks[j]
      /\ g.hunks[n] = [LastHunk EXCEPT !.lines = ls]
  BY <1>1, <1>2, <1>4, WithLinesIs DEF StateInv
<1>6. PICK h : h = g.hunks[n]
  OBVIOUS
<1>7. h.lines = ls /\ h.old_lines = LastHunk.old_lines /\ h.new_lines = LastHunk.new_lines
  BY <1>3, <1>5, <1>6 DEF Hunk
<1>8. File' = g /\ LastHunk' = h
  BY <1>5, <1>6 DEF File, LastHunk
<1>9. TypeOK'
  <2>1. cur' \in Seq(Entry) /\ Len(cur') <= 1
    BY <1>5
  <2>2. QED
    BY <2>1 DEF StateInv, TypeOK
<1>10. BudgetIsTheLastHunks'
  BY <1>7, <1>8 DEF BudgetIsTheLastHunks, Taken
<1>11. WithinCounts(h)
  <2>1. Count(ls, OldSide) \in Nat /\ Count(ls, NewSide) \in Nat
    BY CountInType DEF Count
  <2>2. LastHunk.old_lines \in Nat /\ LastHunk.new_lines \in Nat
    BY <1>3 DEF Hunk
  <2>3. QED
    BY <1>7, <2>1, <2>2 DEF WithinCounts, Taken
<1>12. HunksFit(g)
  BY <1>5, <1>6, <1>11 DEF StateInv, CurInv, HunksFit
<1>13. ASSUME HoldsFileHeader(g)
       PROVE  LeftIncomplete(g)'
  <2>1. HoldsFileHeader(File)
    BY <1>5, <1>13 DEF HoldsFileHeader
  <2>2. PICK j \in DOMAIN File.hunks : ~Complete(File.hunks[j]) /\ j # n
    BY <1>2, <2>1 DEF StateInv, CurInv, LeftIncomplete
  <2>3. QED
    BY <1>5, <2>2 DEF LeftIncomplete
<1>14. g.hunks # <<>>
  BY <1>3, <1>5
<1>14a. KeptInPlace(g)
  BY <1>1, <1>2, <1>5 DEF StateInv, CurInv, KeptInPlace, IsBinary
<1>15. CurInv'
  BY <1>1, <1>8, <1>10, <1>12, <1>13, <1>14, <1>14a DEF CurInv
<1>16. QED
  BY <1>5, <1>9, <1>15 DEF StateInv

LEMMA BodyLineInv ==
  ASSUME StateInv, input' \in Lines, NEW line \in InputLines, BodyLine(line)
  PROVE  StateInv'
<1>1. cur # <<>> /\ inHunk /\ sawHunk /\ File.hunks # <<>>
  BY DEF BodyLine, InBody, InEntry, StateInv, CurInv
<1>2. LastHunk \in Hunk /\ LastHunk.lines \in Seq(Line)
  BY <1>1, LastHunkIsAHunk DEF StateInv, Hunk
<1>3. PICK kind : kind = KindOf[line.lead]
  OBVIOUS
<1>4. /\ kind \in Kinds /\ line.text \in Texts
      /\ kind \in OldSide => remaining.old > 0
      /\ kind \in NewSide => remaining.new > 0
  BY <1>3, LinesAssumption DEF BodyLine, IsBodyLine, KindOf, Kinds
<1>5. PICK l : l = [kind |-> kind, text |-> line.text, nonl |-> FALSE]
  OBVIOUS
<1>6. l \in Line /\ l.kind = kind
  BY <1>4, <1>5 DEF Line
<1>7. PICK ls : ls = Append(LastHunk.lines, l)
  OBVIOUS
<1>8. /\ ls \in Seq(Line)
      /\ Count(ls, OldSide) = Count(LastHunk.lines, OldSide) + (IF kind \in OldSide THEN 1 ELSE 0)
      /\ Count(ls, NewSide) = Count(LastHunk.lines, NewSide) + (IF kind \in NewSide THEN 1 ELSE 0)
  BY <1>2, <1>6, <1>7, CountOfAppend
<1>9. /\ cur' = WithLines(ls)
      /\ remaining' = [old |-> remaining.old - (IF kind \in OldSide THEN 1 ELSE 0),
                       new |-> remaining.new - (IF kind \in NewSide THEN 1 ELSE 0)]
      /\ UNCHANGED <<phase, preamble, files, inHunk, sawHunk, sawMarkerPair>>
  BY <1>3, <1>5, <1>7 DEF BodyLine
<1>10. remaining.old \in Nat /\ remaining.new \in Nat
  BY DEF StateInv, TypeOK
<1>11. remaining' \in [old : Nat, new : Nat]
  BY <1>4, <1>9, <1>10
<1>12. /\ Count(LastHunk.lines, OldSide) + remaining.old = LastHunk.old_lines
       /\ Count(LastHunk.lines, NewSide) + remaining.new = LastHunk.new_lines
       /\ Count(LastHunk.lines, OldSide) \in Nat /\ Count(LastHunk.lines, NewSide) \in Nat
  <2>1. Len(LastHunk.lines) \in Int
    BY <1>2
  <2>2. QED
    BY <1>1, <2>1, CountInType DEF StateInv, CurInv, BudgetIsTheLastHunks, Taken, Count
<1>13. /\ Count(ls, OldSide) + remaining'.old = LastHunk.old_lines
       /\ Count(ls, NewSide) + remaining'.new = LastHunk.new_lines
  BY <1>8, <1>9, <1>10, <1>12
<1>14. QED
  BY <1>1, <1>8, <1>9, <1>11, <1>13, BodyInv

LEMMA MarkerInv ==
  ASSUME StateInv, input' \in Lines, NEW line \in InputLines, Marker(line)
  PROVE  StateInv'
<1>1. cur # <<>> /\ inHunk /\ sawHunk /\ File.hunks # <<>>
  BY DEF Marker, InBody, InEntry, StateInv, CurInv
<1>2. LastHunk \in Hunk /\ LastHunk.lines \in Seq(Line) /\ LastHunk.lines # <<>>
  BY <1>1, LastHunkIsAHunk DEF StateInv, Hunk, Marker
<1>3. PICK ls : ls = [LastHunk.lines EXCEPT ![Len(LastHunk.lines)].nonl = TRUE]
  OBVIOUS
<1>4. /\ ls \in Seq(Line)
      /\ Count(ls, OldSide) = Count(LastHunk.lines, OldSide)
      /\ Count(ls, NewSide) = Count(LastHunk.lines, NewSide)
  BY <1>2, <1>3, CountOfMarked
<1>5. /\ cur' = WithLines(ls)
      /\ UNCHANGED <<phase, preamble, files, inHunk, sawHunk, sawMarkerPair, remaining>>
  BY <1>3 DEF Marker, st
<1>6. remaining' \in [old : Nat, new : Nat]
  BY <1>5 DEF StateInv, TypeOK
<1>7. /\ Count(ls, OldSide) + remaining'.old = LastHunk.old_lines
      /\ Count(ls, NewSide) + remaining'.new = LastHunk.new_lines
  BY <1>1, <1>4, <1>5 DEF StateInv, CurInv, BudgetIsTheLastHunks, Taken
<1>8. QED
  BY <1>1, <1>4, <1>5, <1>6, <1>7, BodyInv

LEMMA ReadInv ==
  ASSUME StateInv, NEW line \in InputLines, Read(line)
  PROVE  StateInv'
<1>1. input' \in Lines
  BY DEF Read, StateInv, TypeOK, Lines
<1>2. CASE RefuseCombined(line) \/ BadHunk(line) \/ HunkInBinary(line)
  BY <1>1, <1>2, FailInv DEF RefuseCombined, BadHunk, HunkInBinary, Fail
<1>3. CASE GitFile(line)
  <2>1. <<line>> \in Lines
    BY DEF Lines
  <2>2. QED
    BY <1>1, <1>3, <2>1, NewFileIs, OpenFileInv DEF GitFile
<1>4. CASE PlainFile(line)
  <2>1. PICK f : f = NewFile(<<>>)
    OBVIOUS
  <2>2. f \in Entry /\ f.hunks = <<>> /\ ~HoldsFileHeader(f) /\ KeptInPlace(f)
    BY <2>1, NewFileIs, EmptySeq DEF Lines
  <2>3. PICK g : g = PushHeader(f, line)
    OBVIOUS
  <2>4. g \in Entry /\ g.hunks = <<>> /\ ~HoldsFileHeader(g) /\ KeptInPlace(g)
    BY <2>2, <2>3, PushHeaderIs
  <2>5. OpenFile(g)
    BY <1>4, <2>1, <2>3 DEF PlainFile
  <2>6. QED
    BY <1>1, <2>4, <2>5, OpenFileInv
<1>5. CASE Preamble(line)
  <2>1. UNCHANGED <<phase, files, cur, inHunk, sawHunk, sawMarkerPair, remaining>>
    BY <1>5 DEF Preamble, st
  <2>2. preamble' \in Lines
    BY <1>5 DEF Preamble, StateInv, TypeOK, Lines
  <2>3. TypeOK'
    BY <1>1, <2>1, <2>2 DEF StateInv, TypeOK
  <2>4. cur' = <<>>
    BY <1>5 DEF Preamble
  <2>5. QED
    BY <2>1, <2>3, <2>4 DEF StateInv, CurInv
<1>6. CASE OpenHunk(line)
  BY <1>1, <1>6, OpenHunkInv
<1>7. CASE BodyLine(line)
  BY <1>1, <1>7, BodyLineInv
<1>8. CASE Marker(line)
  BY <1>1, <1>8, MarkerInv
<1>9. CASE EndHunk(line)
  <2>1. sawMarkerPair \in BOOLEAN
    BY DEF StateInv, TypeOK
  <2>2. QED
    BY <1>1, <1>9, <2>1, PushHeaderInv DEF EndHunk, InBody, InEntry, Ordinary
<1>10. CASE Header(line)
  <2>1. sawMarkerPair \in BOOLEAN /\ inHunk \in BOOLEAN
    BY DEF StateInv, TypeOK
  <2>2. QED
    BY <1>1, <1>10, <2>1, PushHeaderInv DEF Header, InEntry, Ordinary
<1>11. QED
  BY <1>2, <1>3, <1>4, <1>5, <1>6, <1>7, <1>8, <1>9, <1>10 DEF Read

LEMMA ParseStutterInv == StateInv /\ UNCHANGED vars => StateInv'
<1> SUFFICES ASSUME StateInv, UNCHANGED vars
             PROVE  StateInv'
  OBVIOUS
<1>1. UNCHANGED <<phase, input, preamble, files, cur, inHunk, sawHunk, sawMarkerPair, remaining>>
  BY DEF vars, st
<1>2. TypeOK'
  BY <1>1 DEF StateInv, TypeOK
<1>3. File' = File /\ LastHunk' = LastHunk
  BY <1>1 DEF File, LastHunk
<1>4. CurInv'
  BY <1>1, <1>3 DEF StateInv, CurInv, BudgetIsTheLastHunks, LeftIncomplete
<1>5. QED
  BY <1>1, <1>2, <1>4 DEF StateInv

-----------------------------------------------------------------------------
(* The next line's place is the end.                                         *)

\* PlaceInv holds at the start and is kept, one lemma per way to take a line
LEMMA InitPlace == Init => PlaceInv
  BY DEF Init, PlaceInv

LEMMA OpenFilePlace ==
  ASSUME NEW f, OpenFile(f)
  PROVE  PlaceInv'
<1>1. cur' # <<>> /\ ~inHunk'
  BY DEF OpenFile
<1>2. QED
  BY <1>1 DEF PlaceInv

LEMMA OpenHunkPlace ==
  ASSUME StateInv, NEW line \in InputLines, OpenHunk(line)
  PROVE  PlaceInv'
<1>1. cur # <<>> /\ File \in Entry /\ KeptInPlace(File)
  BY FileIsAnEntry DEF StateInv, CurInv, OpenHunk, InEntry
<1>2. PICK h : h = [old_start |-> line.range[1], old_lines |-> line.range[2],
                    new_start |-> line.range[3], new_lines |-> line.range[4], lines |-> <<>>]
  OBVIOUS
<1>3. h.lines = <<>>
  BY <1>2
<1>4. PICK hs : hs = Append(File.hunks, h)
  OBVIOUS
<1>5. File.hunks \in Seq(Hunk) /\ Len(File.hunks) \in Nat
  BY <1>1 DEF Entry
<1>6. hs[Len(hs)] = h /\ Len(hs) = Len(File.hunks) + 1
  BY <1>4, <1>5
<1>7. PICK g : g = [File EXCEPT !.hunks = hs]
  OBVIOUS
<1>8. g.hunks = hs /\ g.trailer = File.trailer
  BY <1>1, <1>7 DEF Entry
<1>9. cur' = <<g>>
  BY <1>2, <1>4, <1>7 DEF OpenHunk
<1>10. File' = g /\ LastHunk' = h
  BY <1>6, <1>8, <1>9 DEF File, LastHunk
<1>11. ASSUME NEW t \in DOMAIN g.trailer
       PROVE  g.trailer[t].at < Len(g.hunks)
  <2>1. PICK at : at = g.trailer[t].at
    OBVIOUS
  <2>2. at \in Nat /\ at <= Len(File.hunks)
    BY <1>1, <1>8, <2>1, TrailerIsTagged DEF KeptInPlace
  <2>3. QED
    BY <1>5, <1>6, <1>8, <2>1, <2>2
<1>12. QED
  BY <1>3, <1>9, <1>10, <1>11 DEF PlaceInv

LEMMA BodyPlace ==
  ASSUME StateInv, PlaceInv, phase = "reading", cur # <<>>, inHunk, NEW ls \in Seq(Line), ls # <<>>,
         cur' = WithLines(ls), JustMarked(ls[Len(ls)])'
  PROVE  PlaceInv'
<1>1. File.hunks # <<>>
  BY DEF StateInv, CurInv
<1>2. PICK n : n = Len(File.hunks)
  OBVIOUS
<1>3. PICK g : g = WithLines(ls)[1]
  OBVIOUS
<1>4. LastHunk \in Hunk
  BY <1>1, LastHunkIsAHunk DEF StateInv
<1>5. /\ cur' = <<g>> /\ g.trailer = File.trailer /\ Len(g.hunks) = n
      /\ g.hunks[n] = [LastHunk EXCEPT !.lines = ls]
  BY <1>1, <1>2, <1>3, WithLinesIs DEF StateInv
<1>6. File' = g /\ LastHunk' = g.hunks[n]
  BY <1>5 DEF File, LastHunk
<1>7. LastHunk'.lines = ls
  BY <1>4, <1>5, <1>6 DEF Hunk
<1>8. \A t \in DOMAIN g.trailer : g.trailer[t].at < Len(g.hunks)
  BY <1>2, <1>5 DEF PlaceInv
<1>9. QED
  BY <1>5, <1>6, <1>7, <1>8 DEF PlaceInv

LEMMA BodyLinePlace ==
  ASSUME StateInv, PlaceInv, phase = "reading", NEW line \in InputLines, BodyLine(line)
  PROVE  PlaceInv'
<1>1. cur # <<>> /\ inHunk /\ sawHunk /\ File.hunks # <<>>
  BY DEF BodyLine, InBody, InEntry, StateInv, CurInv
<1>2. LastHunk.lines \in Seq(Line)
  BY <1>1, LastHunkIsAHunk DEF StateInv, Hunk
<1>3. PICK l : l = [kind |-> KindOf[line.lead], text |-> line.text, nonl |-> FALSE]
  OBVIOUS
<1>4. l \in Line /\ l.nonl = FALSE
  BY <1>3, LinesAssumption DEF BodyLine, IsBodyLine, KindOf, Kinds, Line
<1>5. PICK ls : ls = Append(LastHunk.lines, l)
  OBVIOUS
<1>6. ls \in Seq(Line) /\ ls # <<>> /\ ls[Len(ls)] = l
  BY <1>2, <1>4, <1>5
<1>7. cur' = WithLines(ls)
  BY <1>3, <1>5 DEF BodyLine
<1>8. JustMarked(ls[Len(ls)])'
  BY <1>4, <1>6 DEF JustMarked
<1>9. QED
  BY <1>1, <1>6, <1>7, <1>8, BodyPlace

LEMMA MarkerPlace ==
  ASSUME StateInv, PlaceInv, phase = "reading", NEW line \in InputLines, Marker(line),
         input' = Append(input, line)
  PROVE  PlaceInv'
<1>1. cur # <<>> /\ inHunk /\ sawHunk /\ File.hunks # <<>> /\ line = NoNewline
  BY DEF Marker, InBody, InEntry, StateInv, CurInv
<1>2. LastHunk.lines \in Seq(Line) /\ LastHunk.lines # <<>>
  BY <1>1, LastHunkIsAHunk DEF StateInv, Hunk, Marker
<1>3. PICK ls : ls = [LastHunk.lines EXCEPT ![Len(LastHunk.lines)].nonl = TRUE]
  OBVIOUS
<1>4. ls \in Seq(Line)
  BY <1>2, <1>3, CountOfMarked
<1>5. ls # <<>>
  BY <1>2, <1>3
<1>6. cur' = WithLines(ls)
  BY <1>3 DEF Marker
<1>7. input' # <<>> /\ input'[Len(input')] = NoNewline
  <2>1. input \in Seq(InputLines)
    BY DEF StateInv, TypeOK, Lines
  <2>2. QED
    BY <1>1, <2>1
<1>8. JustMarked(ls[Len(ls)])'
  BY <1>7 DEF JustMarked
<1>9. QED
  BY <1>1, <1>4, <1>5, <1>6, <1>8, BodyPlace

LEMMA ReadPlace ==
  ASSUME StateInv, PlaceInv, NEW line \in InputLines, Read(line)
  PROVE  PlaceInv'
<1>0. phase = "reading" /\ input' = Append(input, line)
  BY DEF Read
<1>1. CASE RefuseCombined(line) \/ BadHunk(line) \/ HunkInBinary(line)
  BY <1>1 DEF RefuseCombined, BadHunk, HunkInBinary, Fail, PlaceInv
<1>2. CASE GitFile(line) \/ PlainFile(line)
  BY <1>2, OpenFilePlace DEF GitFile, PlainFile
<1>3. CASE Preamble(line)
  BY <1>0, <1>3 DEF Preamble, PlaceInv
<1>4. CASE OpenHunk(line)
  BY <1>4, OpenHunkPlace
<1>5. CASE BodyLine(line)
  BY <1>0, <1>5, BodyLinePlace
<1>6. CASE Marker(line)
  BY <1>0, <1>6, MarkerPlace
<1>7. CASE EndHunk(line) \/ Header(line)
  <2>1. ~inHunk' /\ cur' # <<>>
    BY <1>7 DEF EndHunk, Header
  <2>2. QED
    BY <2>1 DEF PlaceInv
<1>8. QED
  BY <1>1, <1>2, <1>3, <1>4, <1>5, <1>6, <1>7 DEF Read

LEMMA ParseStutterPlace == PlaceInv /\ UNCHANGED vars => PlaceInv'
<1> SUFFICES ASSUME PlaceInv, UNCHANGED vars
             PROVE  PlaceInv'
  OBVIOUS
<1>1. UNCHANGED <<phase, input, preamble, files, cur, inHunk>>
  BY DEF vars, st
<1>2. File' = File /\ LastHunk' = LastHunk
  BY <1>1 DEF File, LastHunk
<1>3. QED
  BY <1>1, <1>2 DEF PlaceInv, JustMarked

LEMMA StepPlace == StateInv /\ PlaceInv /\ [Next]_vars => PlaceInv'
<1>1. EndOfInput => PlaceInv'
  BY DEF EndOfInput, PlaceInv
<1>2. QED
  BY <1>1, ReadPlace, ParseStutterPlace DEF Next, Returned

\* both parts together
LEMMA StepInv == IInv /\ [Next]_vars => IInv'
<1>1. StateInv /\ [Next]_vars => StateInv'
  BY ReadInv, EndOfInputInv, ParseStutterInv DEF Next, Returned
<1>2. QED
  BY <1>1, StepPlace DEF IInv

-----------------------------------------------------------------------------
(* The text of a diff.                                                       *)

EntryTexts(fs) == [i \in DOMAIN fs |-> EntryText(fs[i])]

\* a diff is its preamble and then its entries
LEMMA PatchTextIs ==
  ASSUME NEW pre \in Lines, NEW fs \in Seq(Entry), \A i \in DOMAIN fs : KeptInPlace(fs[i])
  PROVE  /\ EntryTexts(fs) \in Seq(Seq(OutLines)) /\ Len(EntryTexts(fs)) = Len(fs)
         /\ pre \in Seq(OutLines) /\ Concat(EntryTexts(fs)) \in Seq(OutLines)
         /\ PatchText(pre, fs) = pre \o Concat(EntryTexts(fs))
         /\ PatchText(pre, fs) \in Seq(OutLines)
<1>1. DOMAIN fs = 1..Len(fs) /\ Len(fs) \in Nat /\ \A i \in 1..Len(fs) : fs[i] \in Entry
  OBVIOUS
<1>2. \A i \in 1..Len(fs) : EntryText(fs[i]) \in Seq(OutLines)
  BY <1>1, EntryTextIs
<1>3. EntryTexts(fs) \in Seq(Seq(OutLines)) /\ Len(EntryTexts(fs)) = Len(fs)
  BY <1>1, <1>2 DEF EntryTexts
<1>4. PICK c : c = Concat(EntryTexts(fs))
  OBVIOUS
<1>5. c \in Seq(OutLines) /\ pre \in Seq(OutLines)
  BY <1>3, <1>4, ConcatType, LinesAreOutLines
<1>6. PatchText(pre, fs) = pre \o c
  BY <1>4 DEF PatchText, EntryTexts
<1>7. pre \o c \in Seq(OutLines)
  BY ONLY <1>5
<1>8. QED
  BY <1>3, <1>4, <1>5, <1>6, <1>7

\* one more entry stands at the end
LEMMA PatchTextMore ==
  ASSUME NEW pre \in Lines, NEW fs \in Seq(Entry), \A i \in DOMAIN fs : KeptInPlace(fs[i]),
         NEW f \in Entry, KeptInPlace(f)
  PROVE  /\ PatchText(pre, fs \o <<f>>) = PatchText(pre, fs) \o EntryText(f)
         /\ PatchText(pre, fs) \in Seq(OutLines) /\ EntryText(f) \in Seq(OutLines)
<1>1. PICK more : more = fs \o <<f>>
  OBVIOUS
<1>2. PICK n : n = Len(fs)
  OBVIOUS
<1>3. /\ more \in Seq(Entry) /\ n \in Nat /\ DOMAIN more = 1..(n + 1) /\ DOMAIN fs = 1..n
      /\ Len(more) = n + 1 /\ more[n + 1] = f /\ \A i \in 1..n : more[i] = fs[i]
  BY <1>1, <1>2
<1>4. \A i \in DOMAIN more : KeptInPlace(more[i])
  <2>1. ASSUME NEW i \in 1..(n + 1)
        PROVE  KeptInPlace(more[i])
    <3>1. i = n + 1 \/ i \in 1..n
      BY <1>3
    <3>2. QED
      BY <1>3, <3>1
  <2>2. QED
    BY <1>3, <2>1
<1>5. PICK x : x = EntryText(f)
  OBVIOUS
<1>6. x \in Seq(OutLines)
  BY <1>5, EntryTextIs
<1>7. EntryTexts(more) = Append(EntryTexts(fs), x)
  <2>1. PICK a : a = EntryTexts(fs)
    OBVIOUS
  <2>2. PICK b : b = EntryTexts(more)
    OBVIOUS
  <2>3. \A j \in 1..n : a[j] = EntryText(fs[j])
    BY <1>3, <2>1 DEF EntryTexts
  <2>4. \A j \in 1..(n + 1) : b[j] = EntryText(more[j])
    BY <1>3, <2>2 DEF EntryTexts
  <2>5. b[n + 1] = x /\ \A j \in 1..n : b[j] = a[j]
    <3>1. n + 1 \in 1..(n + 1) /\ 1..n \subseteq 1..(n + 1)
      BY <1>3
    <3>2. b[n + 1] = x
      BY <1>3, <1>5, <2>4, <3>1
    <3>3. QED
      BY <1>3, <2>3, <2>4, <3>1, <3>2
  <2>6. /\ a \in Seq(Seq(OutLines)) /\ Len(a) = n /\ n \in Nat /\ x \in Seq(OutLines)
        /\ b \in Seq(Seq(OutLines)) /\ Len(b) = n + 1
    <3>1. \A i \in DOMAIN fs : KeptInPlace(fs[i])
      OBVIOUS
    <3>2. <<>> \in Lines
      BY EmptySeq DEF Lines
    <3>3. a \in Seq(Seq(OutLines)) /\ Len(a) = n
      BY <1>2, <2>1, <3>1, <3>2, PatchTextIs
    <3>4. b \in Seq(Seq(OutLines)) /\ Len(b) = n + 1
      BY <1>3, <1>4, <2>2, <3>2, PatchTextIs
    <3>5. QED
      BY <1>3, <1>6, <3>3, <3>4
  <2>7. /\ Append(a, x) \in Seq(Seq(OutLines)) /\ Len(Append(a, x)) = n + 1
        /\ \A i \in 1..(n + 1) : b[i] = Append(a, x)[i]
    BY ONLY <2>5, <2>6
  <2>8. b = Append(a, x)
    BY <2>6, <2>7, SeqEqual
  <2>9. QED
    BY <2>1, <2>2, <2>8
<1>8. /\ EntryTexts(fs) \in Seq(Seq(OutLines)) /\ PatchText(pre, fs) = pre \o Concat(EntryTexts(fs))
      /\ pre \in Seq(OutLines) /\ Concat(EntryTexts(fs)) \in Seq(OutLines)
      /\ PatchText(pre, fs) \in Seq(OutLines)
  BY PatchTextIs
<1>9. Concat(EntryTexts(more)) = Concat(EntryTexts(fs)) \o x
  BY <1>6, <1>7, <1>8, ConcatOfAppend
<1>10. PatchText(pre, more) = pre \o Concat(EntryTexts(more))
  BY <1>3, <1>4, PatchTextIs
<1>11. PICK c : c = Concat(EntryTexts(fs))
  OBVIOUS
<1>12. pre \in Seq(OutLines) /\ c \in Seq(OutLines) /\ x \in Seq(OutLines)
  BY <1>6, <1>8, <1>11
<1>13. pre \o (c \o x) = (pre \o c) \o x
  BY ONLY <1>12, Regrouped
<1>14. PatchText(pre, more) = pre \o (c \o x) /\ PatchText(pre, fs) = pre \o c
  BY <1>8, <1>9, <1>10, <1>11
<1>15. QED
  BY <1>1, <1>5, <1>6, <1>8, <1>13, <1>14

\* without entries there is the preamble alone
LEMMA PatchTextNone ==
  ASSUME NEW pre \in Lines
  PROVE  PatchText(pre, <<>>) = pre
<1>1. PICK fs : fs = <<>>
  OBVIOUS
<1>2. fs \in Seq(Entry) /\ \A i \in DOMAIN fs : KeptInPlace(fs[i])
  BY <1>1
<1>3. /\ PatchText(pre, fs) = pre \o Concat(EntryTexts(fs)) /\ EntryTexts(fs) \in Seq(Seq(OutLines))
      /\ pre \in Seq(OutLines)
  BY <1>2, PatchTextIs
<1>4. DOMAIN EntryTexts(fs) = {}
  BY <1>1 DEF EntryTexts
<1>5. Concat(EntryTexts(fs)) = <<>>
  BY <1>3, <1>4, ConcatOfNothing
<1>6. pre \o <<>> = pre
  BY ONLY <1>3
<1>7. QED
  BY <1>1, <1>3, <1>5, <1>6

-----------------------------------------------------------------------------
(* Line by line.                                                             *)

(* The text of all entries grows by what the text of the one being read     *)
(* grows by.                                                                *)
LEMMA TextGrows ==
  ASSUME StateInv, cur # <<>>, NEW g \in Entry, KeptInPlace(g), NEW y \in Seq(OutLines),
         EntryText(g) = EntryText(File) \o y, cur' = <<g>>, UNCHANGED <<preamble, files>>
  PROVE  PatchText(preamble, Patch)' = PatchText(preamble, Patch) \o y
<1>1. /\ preamble \in Lines /\ files \in Seq(Entry)
      /\ \A i \in DOMAIN files : KeptInPlace(files[i])
  BY DEF StateInv, TypeOK, EntryInv
<1>2. File \in Entry /\ cur = <<File>> /\ KeptInPlace(File)
  BY FileIsAnEntry DEF StateInv, CurInv
<1>3. PICK above : above = PatchText(preamble, files)
  OBVIOUS
<1>4. PICK a : a = EntryText(File)
  OBVIOUS
<1>5. /\ PatchText(preamble, Patch) = above \o a
      /\ above \in Seq(OutLines) /\ a \in Seq(OutLines)
  BY <1>1, <1>2, <1>3, <1>4, PatchTextMore DEF Patch
<1>6. PatchText(preamble, files \o <<g>>) = above \o (a \o y)
  BY <1>1, <1>3, <1>4, PatchTextMore
<1>7. PatchText(preamble, Patch)' = PatchText(preamble, files \o <<g>>)
  BY DEF Patch
<1>8. above \in Seq(OutLines) /\ a \in Seq(OutLines) /\ y \in Seq(OutLines)
  BY <1>5
<1>9. above \o (a \o y) = (above \o a) \o y
  BY ONLY <1>8, Regrouped
<1>10. QED
  BY <1>5, <1>6, <1>7, <1>9

\* what was read so far stands for a text
LEMMA PatchIsAText ==
  ASSUME StateInv
  PROVE  PatchText(preamble, Patch) \in Seq(OutLines)
<1>1. Patch \in Seq(Entry) /\ \A i \in DOMAIN Patch : KeptInPlace(Patch[i])
  BY EntryIsDone DEF Patch, EntryInv
<1>2. QED
  BY <1>1, PatchTextIs DEF StateInv, TypeOK

(* A line that is kept apart from the bodies is the last of its entry, be   *)
(* it a header, payload or trailer.                                         *)
LEMMA PushHeaderGrows ==
  ASSUME NEW f \in Entry, KeptInPlace(f), NEW line \in InputLines
  PROVE  EntryText(PushHeader(f, line)) = EntryText(f) \o <<line>>
<1>1. PICK g : g = PushHeader(f, line)
  OBVIOUS
<1>2. g \in Entry /\ KeptInPlace(g)
  BY <1>1, PushHeaderIs
<1>3. CASE IsBinary(f)
  <2>1. f.hunks = <<>> /\ g = [f EXCEPT !.payload = Append(f.payload, line)]
    BY <1>1, <1>3 DEF PushHeader, KeptInPlace
  <2>2. QED
    BY <1>1, <1>2, <2>1, PayloadGrows
<1>4. CASE ~IsBinary(f) /\ f.hunks # <<>>
  <2>1. g = [f EXCEPT !.trailer = Append(f.trailer, [at |-> Len(f.hunks), line |-> line])]
    BY <1>1, <1>4 DEF PushHeader
  <2>2. QED
    BY <1>1, <1>2, <1>4, <2>1, TrailerGrows
<1>5. CASE ~IsBinary(f) /\ f.hunks = <<>> /\ line = BinaryTag
  <2>1. f.payload = <<>>
    BY <1>5 DEF IsBinary
  <2>2. Append(f.payload, line) = <<line>>
    BY <2>1
  <2>3. g = [f EXCEPT !.payload = <<line>>]
    BY <1>1, <1>5 DEF PushHeader
  <2>4. g = [f EXCEPT !.payload = Append(f.payload, line)]
    BY <2>2, <2>3
  <2>5. QED
    BY <1>1, <1>2, <1>5, <2>4, PayloadGrows
<1>6. CASE ~IsBinary(f) /\ f.hunks = <<>> /\ line # BinaryTag
  <2>1. f.payload = <<>>
    BY <1>6 DEF IsBinary
  <2>2. g = [f EXCEPT !.headers = Append(f.headers, line)]
    BY <1>1, <1>6 DEF PushHeader
  <2>3. QED
    BY <1>1, <1>2, <1>6, <2>1, <2>2, HeaderGrows
<1>7. QED
  BY <1>3, <1>4, <1>5, <1>6

\* a new entry is its headers
LEMMA NewFileText ==
  ASSUME NEW hs \in Lines
  PROVE  EntryText(NewFile(hs)) = hs
<1>1. PICK f : f = NewFile(hs)
  OBVIOUS
<1>2. f \in Entry /\ KeptInPlace(f) /\ f.hunks = <<>>
  BY <1>1, NewFileIs
<1>3. f.headers = hs /\ f.payload = <<>>
  BY <1>1 DEF NewFile
<1>4. EntryText(f) = (hs \o <<>>) \o <<>>
  BY <1>2, <1>3, NoParts, EntryTextIs
<1>5. hs \in Seq(OutLines)
  BY LinesAreOutLines
<1>6. (hs \o <<>>) \o <<>> = hs
  BY ONLY <1>5
<1>7. QED
  BY <1>1, <1>4, <1>6

(* An entry that begins with the line has no other.                         *)
LEMMA OpenFileText ==
  ASSUME StateInv, NEW line \in InputLines, NEW g \in Entry, KeptInPlace(g),
         EntryText(g) = <<line>>, OpenFile(g)
  PROVE  PatchText(preamble, Patch)' = PatchText(preamble, Patch) \o <<line>>
<1>1. /\ preamble \in Lines /\ Patch \in Seq(Entry)
      /\ \A i \in DOMAIN Patch : KeptInPlace(Patch[i])
  BY EntryIsDone DEF StateInv, TypeOK, Patch, EntryInv
<1>2. PatchText(preamble, Patch)' = PatchText(preamble, Patch \o <<g>>)
  BY DEF OpenFile, Patch
<1>3. QED
  BY <1>1, <1>2, PatchTextMore

\* the first line of an entry, one of git or a plain one
LEMMA GitFileText ==
  ASSUME StateInv, NEW line \in InputLines, GitFile(line)
  PROVE  PatchText(preamble, Patch)' = PatchText(preamble, Patch) \o <<line>>
<1>1. PICK hs : hs = <<line>>
  OBVIOUS
<1>2. hs \in Lines
  BY <1>1 DEF Lines
<1>3. PICK g : g = NewFile(hs)
  OBVIOUS
<1>4. g \in Entry /\ KeptInPlace(g) /\ EntryText(g) = <<line>>
  BY <1>1, <1>2, <1>3, NewFileIs, NewFileText
<1>5. OpenFile(g)
  BY <1>1, <1>3 DEF GitFile
<1>6. QED
  BY <1>4, <1>5, OpenFileText

LEMMA PlainFileText ==
  ASSUME StateInv, NEW line \in InputLines, PlainFile(line)
  PROVE  PatchText(preamble, Patch)' = PatchText(preamble, Patch) \o <<line>>
<1>1. PICK none : none = <<>>
  OBVIOUS
<1>2. none \in Lines
  BY <1>1 DEF Lines
<1>3. PICK f : f = NewFile(none)
  OBVIOUS
<1>4. f \in Entry /\ KeptInPlace(f) /\ EntryText(f) = none
  BY <1>2, <1>3, NewFileIs, NewFileText
<1>5. PICK g : g = PushHeader(f, line)
  OBVIOUS
<1>6. g \in Entry /\ KeptInPlace(g) /\ EntryText(g) = none \o <<line>>
  BY <1>4, <1>5, PushHeaderIs, PushHeaderGrows
<1>7. none \o <<line>> = <<line>>
  BY <1>1
<1>8. OpenFile(g)
  BY <1>1, <1>3, <1>5 DEF PlainFile
<1>9. QED
  BY <1>6, <1>7, <1>8, OpenFileText

\* entries begin below the preamble
LEMMA PreambleText ==
  ASSUME StateInv, PlaceInv, phase = "reading", NEW line \in InputLines, Preamble(line)
  PROVE  PatchText(preamble, Patch)' = PatchText(preamble, Patch) \o <<line>>
<1>1. Patch = <<>> /\ Patch' = <<>>
  BY DEF Preamble, PlaceInv, Patch
<1>2. PICK pre : pre = Append(preamble, line)
  OBVIOUS
<1>3. preamble \in Seq(InputLines) /\ line \in InputLines
  BY DEF StateInv, TypeOK, Lines
<1>4. pre \in Seq(InputLines) /\ pre = preamble \o <<line>>
  BY <1>2, <1>3
<1>5. PatchText(preamble, <<>>) = preamble /\ PatchText(pre, <<>>) = pre
  BY <1>3, <1>4, PatchTextNone DEF Lines
<1>6. preamble' = pre
  BY <1>2 DEF Preamble
<1>7. QED
  BY <1>1, <1>4, <1>5, <1>6

\* the numbers of a hunk header are all that is written of it
LEMMA OpenHunkText ==
  ASSUME StateInv, NEW line \in InputLines, OpenHunk(line)
  PROVE  PatchText(preamble, Patch)' = PatchText(preamble, Patch) \o <<line>>
<1>1. cur # <<>> /\ File \in Entry /\ KeptInPlace(File) /\ ~IsBinary(File)
  BY FileIsAnEntry DEF StateInv, CurInv, OpenHunk, InEntry
<1>2. PICK h : h = [old_start |-> line.range[1], old_lines |-> line.range[2],
                    new_start |-> line.range[3], new_lines |-> line.range[4], lines |-> <<>>]
  OBVIOUS
<1>3. /\ line.range \in U32 \X Nat \X U32 \X Nat
      /\ line = HunkHeader(line.range[1], line.range[2], line.range[3], line.range[4])
  BY LinesAssumption DEF OpenHunk
<1>4. h \in Hunk /\ h.lines = <<>> /\ HeaderLine(h) = line
  <2>1. h \in Hunk
    BY <1>2, <1>3 DEF Hunk
  <2>2. HeaderLine(h) = HunkHeader(line.range[1], line.range[2], line.range[3], line.range[4])
    BY <1>2 DEF HeaderLine
  <2>3. QED
    BY <1>2, <1>3, <2>1, <2>2
<1>5. PICK hs : hs = Append(File.hunks, h)
  OBVIOUS
<1>6. hs \in Seq(Hunk) /\ Len(hs) = Len(File.hunks) + 1 /\ Len(File.hunks) \in Nat
  BY <1>1, <1>4, <1>5 DEF Entry
<1>7. PICK g : g = [File EXCEPT !.hunks = hs]
  OBVIOUS
<1>8. g \in Entry /\ g.hunks = hs /\ g.trailer = File.trailer /\ g.payload = File.payload
  BY <1>1, <1>6, <1>7, EntryWithHunks
<1>9. KeptInPlace(g)
  <2>1. hs # <<>>
    BY <1>6
  <2>2. ASSUME NEW t \in DOMAIN g.trailer
        PROVE  g.trailer[t].at <= Len(g.hunks)
    <3>1. PICK at : at = g.trailer[t].at
      OBVIOUS
    <3>2. at \in Nat /\ at <= Len(File.hunks)
      BY <1>1, <1>8, <3>1, TrailerIsTagged DEF KeptInPlace
    <3>3. QED
      BY <1>6, <1>8, <3>1, <3>2
  <2>3. ~IsBinary(g)
    BY <1>1, <1>8 DEF IsBinary
  <2>4. QED
    BY <1>8, <2>1, <2>2, <2>3 DEF KeptInPlace
<1>10. EntryText(g) = EntryText(File) \o <<line>>
  BY <1>1, <1>4, <1>5, <1>7, <1>8, <1>9, HunkGrows
<1>11. cur' = <<g>> /\ UNCHANGED <<preamble, files>>
  BY <1>2, <1>5, <1>7 DEF OpenHunk
<1>12. <<line>> \in Seq(OutLines)
  <2>1. line \in OutLines
    BY DEF OutLines
  <2>2. QED
    BY ONLY <2>1
<1>13. QED
  BY <1>1, <1>8, <1>9, <1>10, <1>11, <1>12, TextGrows

(* What is added to the last hunk's body is added to the whole text.        *)
LEMMA LastBodyGrows ==
  ASSUME StateInv, PlaceInv, phase = "reading", cur # <<>>, inHunk, NEW ls \in Seq(Line),
         NEW y \in Seq(OutLines),
         HunkText([LastHunk EXCEPT !.lines = ls]) = HunkText(LastHunk) \o y,
         cur' = WithLines(ls), UNCHANGED <<preamble, files>>
  PROVE  PatchText(preamble, Patch)' = PatchText(preamble, Patch) \o y
<1>1. PICK n : n = Len(File.hunks)
  OBVIOUS
<1>2. /\ File.hunks # <<>> /\ File \in Entry /\ KeptInPlace(File)
      /\ \A t \in DOMAIN File.trailer : File.trailer[t].at < Len(File.hunks)
  BY FileIsAnEntry DEF StateInv, CurInv, PlaceInv
<1>3. LastHunk = File.hunks[n]
  BY <1>1 DEF LastHunk
<1>4. PICK g : g = WithLines(ls)[1]
  OBVIOUS
<1>5. /\ cur' = <<g>> /\ g \in Entry /\ g.trailer = File.trailer
      /\ g.payload = File.payload /\ g.headers = File.headers
      /\ g.hunks \in Seq(Hunk) /\ Len(g.hunks) = n
      /\ \A j \in DOMAIN File.hunks : j # n => g.hunks[j] = File.hunks[j]
      /\ g.hunks[n] = [LastHunk EXCEPT !.lines = ls]
  BY <1>1, <1>2, <1>4, WithLinesIs DEF StateInv
<1>6. g.hunks # <<>>
  <2>1. File.hunks \in Seq(Hunk)
    BY <1>2 DEF Entry
  <2>2. QED
    BY <1>1, <1>2, <1>5, <2>1
<1>7. KeptInPlace(g)
  BY <1>1, <1>2, <1>5, <1>6 DEF KeptInPlace, IsBinary
<1>8. HunkText(g.hunks[n]) = HunkText(File.hunks[n]) \o y
  BY <1>3, <1>5
<1>9. EntryText(g) = EntryText(File) \o y
  BY <1>1, <1>2, <1>5, <1>7, <1>8, BodyGrows
<1>10. QED
  BY <1>5, <1>7, <1>9, TextGrows

\* a body line is written with the character of its kind
LEMMA BodyLineText ==
  ASSUME StateInv, PlaceInv, phase = "reading", NEW line \in InputLines, BodyLine(line)
  PROVE  \E x \in OutLines : /\ Restored(x) = Restored(line)
                             /\ PatchText(preamble, Patch)' = PatchText(preamble, Patch) \o <<x>>
<1>1. /\ cur # <<>> /\ inHunk /\ sawHunk /\ File.hunks # <<>> /\ UNCHANGED <<preamble, files>>
      /\ line.lead \in {" ", "", "+", "-"}
  BY DEF BodyLine, InBody, InEntry, StateInv, CurInv, IsBodyLine, KindOf
<1>2. LastHunk \in Hunk /\ LastHunk.lines \in Seq(Line)
  BY <1>1, LastHunkIsAHunk DEF StateInv, Hunk
<1>3. PICK l : l = [kind |-> KindOf[line.lead], text |-> line.text, nonl |-> FALSE]
  OBVIOUS
<1>4. /\ line.text \in Texts /\ line = TextLine(line.lead, line.text)
      /\ line.lead = "" => line = Blank
  BY LinesAssumption DEF BodyLine, IsBodyLine
<1>5. l \in Line /\ l.nonl = FALSE /\ l.text = line.text /\ l.kind = KindOf[line.lead]
  BY <1>1, <1>3, <1>4 DEF KindOf, Kinds, Line
<1>6. PICK lead : lead = LeadOf[l.kind]
  OBVIOUS
<1>7. /\ lead \in {" ", "+", "-"}
      /\ line.lead = "" => lead = " "
      /\ line.lead # "" => lead = line.lead
  <2>1. /\ KindOf[" "] = "ctx" /\ KindOf[""] = "ctx" /\ KindOf["+"] = "add" /\ KindOf["-"] = "del"
        /\ LeadOf["ctx"] = " " /\ LeadOf["add"] = "+" /\ LeadOf["del"] = "-"
    BY ONLY DEF KindOf, LeadOf
  <2>2. lead = LeadOf[KindOf[line.lead]]
    BY <1>5, <1>6
  <2>3. CASE line.lead = ""
    BY <2>1, <2>2, <2>3
  <2>4. CASE line.lead = " "
    BY <2>1, <2>2, <2>4
  <2>5. CASE line.lead = "+"
    BY <2>1, <2>2, <2>5
  <2>6. CASE line.lead = "-"
    BY <2>1, <2>2, <2>6
  <2>7. QED
    BY <1>1, <2>3, <2>4, <2>5, <2>6
<1>8. PICK x : x = TextLine(lead, line.text)
  OBVIOUS
<1>9. x \in OutLines
  BY <1>4, <1>7, <1>8, TextLineIsALine
<1>10. Restored(x) = Restored(line)
  <2>1. CASE line.lead # ""
    <3>1. x = line
      BY <1>4, <1>7, <1>8, <2>1
    <3>2. QED
      BY <3>1
  <2>2. CASE line.lead = ""
    <3>1. line = Blank /\ line.text = ""
      <4>1. line = Blank
        BY <1>4, <2>2
      <4>2. Blank.text = ""
        BY ONLY DEF Blank, TextLine
      <4>3. QED
        BY <4>1, <4>2
    <3>2. x = TextLine(" ", "")
      BY <1>7, <1>8, <2>2, <3>1
    <3>3. Restored(x) = Blank /\ Restored(line) = Blank
      BY <3>1, <3>2 DEF Restored
    <3>4. QED
      BY <3>3
  <2>3. QED
    BY <2>1, <2>2
<1>11. PICK y : y = <<x>>
  OBVIOUS
<1>12. BodyText(l) = y
  <2>1. BodyText(l) = <<TextLine(LeadOf[l.kind], l.text)>> \o <<>>
    BY <1>5 DEF BodyText
  <2>2. BodyText(l) = y \o <<>>
    BY <1>5, <1>6, <1>8, <1>11, <2>1
  <2>3. y \o <<>> = y
    BY <1>11
  <2>4. QED
    BY <2>2, <2>3
<1>13. PICK ls : ls = Append(LastHunk.lines, l)
  OBVIOUS
<1>14. ls \in Seq(Line) /\ y \in Seq(OutLines)
  BY <1>2, <1>5, <1>9, <1>11, <1>13
<1>15. HunkText([LastHunk EXCEPT !.lines = ls]) = HunkText(LastHunk) \o y
  BY <1>2, <1>5, <1>12, <1>13, HunkTextMore
<1>16. cur' = WithLines(ls)
  BY <1>3, <1>13 DEF BodyLine
<1>17. PatchText(preamble, Patch)' = PatchText(preamble, Patch) \o y
  BY <1>1, <1>14, <1>15, <1>16, LastBodyGrows
<1>18. QED
  BY <1>9, <1>10, <1>11, <1>17

(* The marker stands below the line it is about, which has none yet.        *)
LEMMA MarkerText ==
  ASSUME StateInv, PlaceInv, phase = "reading", NEW line \in InputLines, Marker(line),
         input' = Append(input, line), MarkersApart'
  PROVE  PatchText(preamble, Patch)' = PatchText(preamble, Patch) \o <<line>>
<1>1. /\ cur # <<>> /\ inHunk /\ sawHunk /\ File.hunks # <<>> /\ line = NoNewline
      /\ UNCHANGED <<preamble, files>>
  BY DEF Marker, InBody, InEntry, StateInv, CurInv
<1>2. LastHunk \in Hunk /\ LastHunk.lines \in Seq(Line) /\ LastHunk.lines # <<>>
  BY <1>1, LastHunkIsAHunk DEF StateInv, Hunk, Marker
<1>3. ~LastHunk.lines[Len(LastHunk.lines)].nonl
  <2>1. SUFFICES ASSUME LastHunk.lines[Len(LastHunk.lines)].nonl
                 PROVE  FALSE
    OBVIOUS
  <2>2. input # <<>> /\ input[Len(input)] = NoNewline
    BY <1>1, <1>2, <2>1 DEF PlaceInv, JustMarked
  <2>3. input \in Seq(InputLines)
    BY DEF StateInv, TypeOK, Lines
  <2>4. PICK n : n = Len(input)
    OBVIOUS
  <2>5. n \in Nat \ {0} /\ Len(input') = n + 1 /\ input'[n] = input[n] /\ input'[n + 1] = line
    BY <2>2, <2>3, <2>4
  <2>6. n \in 1..(Len(input') - 1)
    BY <2>5
  <2>7. input'[n] # NoNewline \/ input'[n + 1] # NoNewline
    BY <2>6 DEF MarkersApart
  <2>8. QED
    BY <1>1, <2>2, <2>4, <2>5, <2>7
<1>4. PICK ls : ls = [LastHunk.lines EXCEPT ![Len(LastHunk.lines)].nonl = TRUE]
  OBVIOUS
<1>5. ls \in Seq(Line)
  BY <1>2, <1>4, CountOfMarked
<1>6. PICK y : y = <<NoNewline>>
  OBVIOUS
<1>7. y \in Seq(OutLines)
  BY <1>6, MarkIsALine
<1>8. HunkText([LastHunk EXCEPT !.lines = ls]) = HunkText(LastHunk) \o y
  BY <1>2, <1>3, <1>4, <1>6, HunkTextMarked
<1>9. cur' = WithLines(ls)
  BY <1>4 DEF Marker
<1>10. PatchText(preamble, Patch)' = PatchText(preamble, Patch) \o y
  BY <1>1, <1>5, <1>7, <1>8, <1>9, LastBodyGrows
<1>11. QED
  BY <1>1, <1>6, <1>10

\* any other line of an entry
LEMMA KeptText ==
  ASSUME StateInv, cur # <<>>, NEW line \in InputLines, cur' = <<PushHeader(File, line)>>,
         UNCHANGED <<preamble, files>>
  PROVE  PatchText(preamble, Patch)' = PatchText(preamble, Patch) \o <<line>>
<1>1. File \in Entry /\ KeptInPlace(File)
  BY FileIsAnEntry DEF StateInv, CurInv
<1>2. PICK g : g = PushHeader(File, line)
  OBVIOUS
<1>3. g \in Entry /\ KeptInPlace(g) /\ EntryText(g) = EntryText(File) \o <<line>>
  BY <1>1, <1>2, PushHeaderIs, PushHeaderGrows
<1>4. cur' = <<g>>
  BY <1>2
<1>5. line \in OutLines
  BY DEF OutLines
<1>6. <<line>> \in Seq(OutLines)
  BY ONLY <1>5
<1>7. QED
  BY <1>3, <1>4, <1>6, TextGrows

-----------------------------------------------------------------------------
(* The round trip.                                                           *)

(* Whatever branch takes the line, it is the last line of the text, itself  *)
(* or with its space restored; a branch that refuses it ends the parse.     *)
LEMMA LineIsTheLast ==
  ASSUME StateInv, PlaceInv, NEW line \in InputLines, Read(line), Accepting', MarkersApart'
  PROVE  \E x \in OutLines : /\ Restored(x) = Restored(line)
                             /\ PatchText(preamble, Patch)' = PatchText(preamble, Patch) \o <<x>>
<1>1. phase = "reading" /\ input' = Append(input, line)
  BY DEF Read
<1>2. CASE PatchText(preamble, Patch)' = PatchText(preamble, Patch) \o <<line>>
  BY <1>2 DEF OutLines
<1>3. CASE RefuseCombined(line) \/ BadHunk(line) \/ HunkInBinary(line)
  BY <1>3 DEF RefuseCombined, BadHunk, HunkInBinary, Fail, Accepting
<1>4. CASE GitFile(line)
  BY <1>2, <1>4, GitFileText
<1>5. CASE PlainFile(line)
  BY <1>2, <1>5, PlainFileText
<1>6. CASE Preamble(line)
  BY <1>1, <1>2, <1>6, PreambleText
<1>7. CASE OpenHunk(line)
  BY <1>2, <1>7, OpenHunkText
<1>8. CASE BodyLine(line)
  BY <1>1, <1>8, BodyLineText
<1>9. CASE Marker(line)
  BY <1>1, <1>2, <1>9, MarkerText
<1>10. CASE EndHunk(line) \/ Header(line)
  <2>1. cur # <<>> /\ cur' = <<PushHeader(File, line)>> /\ UNCHANGED <<preamble, files>>
    BY <1>10 DEF EndHunk, Header, InBody, InEntry
  <2>2. QED
    BY <1>2, <2>1, KeptText
<1>11. QED
  BY <1>3, <1>4, <1>5, <1>6, <1>7, <1>8, <1>9, <1>10 DEF Read

\* equal texts stay equal when equal lines are appended
LEMMA SameGrows ==
  ASSUME NEW S, NEW T, NEW a \in Seq(S), NEW b \in Seq(T), Same(a, b),
         NEW x \in S, NEW y \in T, Restored(x) = Restored(y)
  PROVE  Same(a \o <<x>>, Append(b, y))
<1>1. PICK n : n = Len(a)
  OBVIOUS
<1>2. PICK c : c = a \o <<x>>
  OBVIOUS
<1>3. PICK d : d = Append(b, y)
  OBVIOUS
<1>4. n \in Nat /\ Len(b) = n /\ DOMAIN a = 1..n
  BY <1>1 DEF Same
<1>5. Len(c) = n + 1 /\ DOMAIN c = 1..(n + 1) /\ c[n + 1] = x /\ \A i \in 1..n : c[i] = a[i]
  BY <1>1, <1>2, <1>4
<1>6. Len(d) = n + 1 /\ d[n + 1] = y /\ \A i \in 1..n : d[i] = b[i]
  BY <1>3, <1>4
<1>7. ASSUME NEW i \in 1..(n + 1)
      PROVE  Restored(c[i]) = Restored(d[i])
  <2>1. CASE i = n + 1
    BY <1>5, <1>6, <2>1
  <2>2. CASE i \in 1..n
    <3>1. Restored(a[i]) = Restored(b[i])
      BY <1>4, <2>2 DEF Same
    <3>2. QED
      BY <1>5, <1>6, <2>2, <3>1
  <2>3. QED
    BY <1>4, <2>1, <2>2
<1>8. QED
  BY <1>2, <1>3, <1>5, <1>6, <1>7 DEF Same

\* markers that are apart were apart a line earlier
LEMMA ApartBefore ==
  ASSUME input \in Lines, NEW line \in InputLines, input' = Append(input, line), MarkersApart'
  PROVE  MarkersApart
<1>1. PICK n : n = Len(input)
  OBVIOUS
<1>2. n \in Nat /\ Len(input') = n + 1 /\ \A i \in 1..n : input'[i] = input[i]
  BY <1>1 DEF Lines
<1>3. ASSUME NEW i \in 1..(n - 1)
      PROVE  input[i] # NoNewline \/ input[i + 1] # NoNewline
  <2>1. i \in 1..n /\ i + 1 \in 1..n /\ i \in 1..(Len(input') - 1)
    BY <1>2
  <2>2. input'[i] # NoNewline \/ input'[i + 1] # NoNewline
    BY <2>1 DEF MarkersApart
  <2>3. QED
    BY <1>2, <2>1, <2>2
<1>4. QED
  BY <1>1, <1>3 DEF MarkersApart

\* RoundTrip holds at the start and is kept
LEMMA InitRoundTrip == Init => RoundTrip
<1> SUFFICES ASSUME Init
             PROVE  RoundTrip
  OBVIOUS
<1>1. preamble = <<>> /\ Patch = <<>> /\ input = <<>>
  BY DEF Init, Patch
<1>2. <<>> \in Lines
  BY DEF Lines
<1>3. PatchText(preamble, Patch) = <<>>
  BY <1>1, <1>2, PatchTextNone
<1>4. QED
  BY <1>1, <1>3 DEF RoundTrip, Same

LEMMA StepRoundTrip == IInv /\ RoundTrip /\ [Next]_vars => RoundTrip'
<1> SUFFICES ASSUME StateInv, PlaceInv, RoundTrip, [Next]_vars
             PROVE  RoundTrip'
  BY DEF IInv
<1>1. ASSUME NEW line \in InputLines, Read(line)
      PROVE  RoundTrip'
  <2>1. SUFFICES ASSUME Accepting', MarkersApart'
                 PROVE  Same(PatchText(preamble, Patch), input)'
    BY DEF RoundTrip
  <2>2. /\ phase = "reading" /\ input' = Append(input, line)
        /\ input \in Lines /\ input \in Seq(InputLines)
    BY <1>1 DEF Read, StateInv, TypeOK, Lines
  <2>3. MarkersApart
    BY <2>1, <2>2, ApartBefore
  <2>4. Same(PatchText(preamble, Patch), input)
    BY <2>2, <2>3 DEF RoundTrip, Accepting
  <2>5. PICK x \in OutLines : /\ Restored(x) = Restored(line)
                              /\ PatchText(preamble, Patch)' = PatchText(preamble, Patch) \o <<x>>
    BY <1>1, <2>1, LineIsTheLast
  <2>6. PICK a : a = PatchText(preamble, Patch)
    OBVIOUS
  <2>7. a \in Seq(OutLines)
    BY <2>6, PatchIsAText
  <2>8. Same(a \o <<x>>, Append(input, line))
    BY <2>2, <2>4, <2>5, <2>6, <2>7, SameGrows
  <2>9. Same(PatchText(preamble, Patch), input)' = Same(PatchText(preamble, Patch)', input')
    BY DEF Same
  <2>10. QED
    BY <2>2, <2>5, <2>6, <2>8, <2>9
<1>2. CASE EndOfInput
  <2>1. preamble' = preamble /\ input' = input /\ phase = "reading"
    BY <1>2 DEF EndOfInput
  <2>2. Patch' = Patch
    <3>1. Patch \in Seq(Entry)
      BY EntryIsDone DEF Patch
    <3>2. Patch' = Patch \o <<>>
      BY <1>2 DEF EndOfInput, Patch
    <3>3. Patch \o <<>> = Patch
      BY ONLY <3>1
    <3>4. QED
      BY <3>2, <3>3
  <2>3. PatchText(preamble, Patch)' = PatchText(preamble, Patch)
    BY <2>1, <2>2
  <2>4. QED
    BY <2>1, <2>3 DEF RoundTrip, Accepting, MarkersApart, Same
<1>3. CASE UNCHANGED vars
  <2>1. UNCHANGED <<phase, input, preamble, files, cur>>
    BY <1>3 DEF vars
  <2>2. PatchText(preamble, Patch)' = PatchText(preamble, Patch)
    BY <2>1 DEF Patch
  <2>3. QED
    BY <2>1, <2>2 DEF RoundTrip, Accepting, MarkersApart, Same
<1>4. QED
  BY <1>1, <1>2, <1>3 DEF Next, Returned

-----------------------------------------------------------------------------
(* The theorems.                                                             *)

(* IInv holds whatever the lines of the input are and in whatever order      *)
(* they come.                                                                *)
THEOREM ParseInvariance == Spec => []IInv
<1>1. Init => IInv
  BY InitInv, InitPlace DEF IInv
<1>2. QED
  BY <1>1, StepInv, PTL DEF Spec

(* Every variable keeps to its type: no count of what is left in a hunk     *)
(* falls below zero, where u32 subtraction would panic or wrap.             *)
THEOREM ParseTypeCorrect == Spec => []TypeOK
<1>1. IInv => TypeOK
  BY DEF IInv, StateInv
<1>2. QED
  BY <1>1, ParseInvariance, PTL

(* No body outgrows the counts of its header, and the budget the guards see *)
(* is what the last hunk still lacks.                                       *)
THEOREM BodiesKeep == Spec => []BodiesKeepToTheirCounts
<1>1. ASSUME IInv
      PROVE  BodiesKeepToTheirCounts
  BY <1>1, EntryIsDone
     DEF IInv, StateInv, CurInv, BodiesKeepToTheirCounts, Patch, EntryInv, HunksFit
<1>2. QED
  BY <1>1, ParseInvariance, PTL

(* An entry that validate_input can accept holds no header of another file. *)
THEOREM OneFilePerEntry == Spec => []EntriesHoldOneFile
<1>1. ASSUME IInv
      PROVE  EntriesHoldOneFile
  BY <1>1, EntryIsDone DEF IInv, EntriesHoldOneFile, Patch, EntryInv
<1>2. QED
  BY <1>1, ParseInvariance, PTL

(* A text with no two markers in a row is kept line for line, whatever its  *)
(* lines are and in whatever order they come: what emit writes of the       *)
(* entries read so far is what was read so far, but for the space an empty  *)
(* context line regains.                                                    *)
THEOREM ParsingKeepsTheText == Spec => []RoundTrip
<1>1. Init => IInv /\ RoundTrip
  BY InitInv, InitPlace, InitRoundTrip DEF IInv
<1>2. IInv /\ RoundTrip /\ [Next]_vars => (IInv /\ RoundTrip)'
  BY StepInv, StepRoundTrip
<1>3. Spec => [](IInv /\ RoundTrip)
  BY <1>1, <1>2, PTL DEF Spec
<1>4. QED
  BY <1>3, PTL

-----------------------------------------------------------------------------
(* Writing a diff: EmitPatch for every diff of lines.                        *)

Diffs ==
  {p \in [preamble : Seq(OutLines), files : Seq(TextEntry), cropped : BOOLEAN] :
     \A k \in DOMAIN p.files : IsBinary(p.files[k]) => p.files[k].hunks = <<>>}

VARIABLES fi, hi, trailer, ti, ended

Emit == INSTANCE EmitPatch WITH Patches <- Diffs, i <- hi

\* the operators of the text mean the same on both sides
LEMMA SameConcat ==
  ASSUME NEW seqs
  PROVE  Emit!Concat(seqs) = Concat(seqs)
  BY DEF Emit!Concat, Concat

LEMMA SameTagged ==
  ASSUME NEW tr, NEW from, NEW to
  PROVE  Emit!Tagged(tr, from, to) = Tagged(tr, from, to)
<1>1. \A at : Emit!TaggedAt(tr, at) = TaggedAt(tr, at)
  BY SameConcat DEF Emit!TaggedAt, TaggedAt
<1>2. PICK N : N = 1..(IF from <= to THEN to - from + 1 ELSE 0)
  OBVIOUS
<1>3. Emit!Tagged(tr, from, to) = Emit!Concat([n \in N |-> Emit!TaggedAt(tr, from + n - 1)])
  BY <1>2 DEF Emit!Tagged
<1>4. Tagged(tr, from, to) = Concat([n \in N |-> TaggedAt(tr, from + n - 1)])
  BY <1>2 DEF Tagged
<1>5. [n \in N |-> Emit!TaggedAt(tr, from + n - 1)] = [n \in N |-> TaggedAt(tr, from + n - 1)]
  BY <1>1
<1>6. QED
  BY <1>3, <1>4, <1>5, SameConcat

LEMMA SameHunkText ==
  ASSUME NEW h
  PROVE  Emit!HunkText(h) = HunkText(h)
<1>1. \A l : Emit!BodyText(l) = BodyText(l)
  BY DEF Emit!BodyText, BodyText, Emit!TextLine, TextLine, Emit!LeadOf, LeadOf, Emit!NoNewline,
         NoNewline, Emit!NoRange, NoRange
<1>2. QED
  BY <1>1, SameConcat DEF Emit!HunkText, HunkText, Emit!HunkHeader, HunkHeader

LEMMA SameLastTag ==
  ASSUME NEW tr
  PROVE  Emit!LastTag(tr) = LastTag(tr)
  BY DEF Emit!LastTag, LastTag

LEMMA InOrderIs ==
  ASSUME NEW tr
  PROVE  Emit!InOrder(tr) = Up(tr, LastTag(tr))
  BY SameConcat, SameLastTag DEF Emit!InOrder, Up, Rises, Row, One

TopOf(f) == f.headers \o f.payload

LEMMA TextEntryIs ==
  ASSUME NEW f \in TextEntry
  PROVE  /\ f.trailer \in Seq(Tags(OutLines)) /\ f.hunks \in Seq(Hunk) /\ Len(f.hunks) \in Nat
         /\ TopOf(f) \in Seq(OutLines)
<1>1. /\ f.trailer \in Seq(Tags(OutLines)) /\ f.hunks \in Seq(Hunk)
      /\ f.headers \in Seq(OutLines) /\ f.payload \in Seq(OutLines)
  BY DEF TextEntry
<1>2. PICK a : a = f.headers
  OBVIOUS
<1>3. PICK b : b = f.payload
  OBVIOUS
<1>4. a \in Seq(OutLines) /\ b \in Seq(OutLines)
  BY <1>1, <1>2, <1>3
<1>5. a \o b \in Seq(OutLines)
  BY ONLY <1>4
<1>6. QED
  BY <1>1, <1>2, <1>3, <1>5 DEF TopOf

\* an entry: its top, its parts and what is tagged past them
Ends(f) == Tagged(f.trailer, IF Len(f.hunks) = 0 THEN 0 ELSE Len(f.hunks) + 1, LastTag(f.trailer))

LEMMA TextEntryText ==
  ASSUME NEW f \in TextEntry
  PROVE  /\ EntryText(f) = (TopOf(f) \o Concat(PartsTo(f, Len(f.hunks)))) \o Ends(f)
         /\ Ends(f) \in Seq(OutLines) /\ EntryText(f) \in Seq(OutLines)
<1>1. PICK n : n = Len(f.hunks)
  OBVIOUS
<1>2. n \in Nat /\ n \in 0..n /\ f.trailer \in Seq(Tags(OutLines)) /\ TopOf(f) \in Seq(OutLines)
  BY <1>1, TextEntryIs
<1>3. EntryText(f) = (TopOf(f) \o Concat(PartsTo(f, n))) \o Ends(f)
  BY <1>1 DEF EntryText, TopOf, PartsTo, Part, Ends
<1>4. Ends(f) \in Seq(OutLines)
  <2>1. PICK from : from = IF n = 0 THEN 0 ELSE n + 1
    OBVIOUS
  <2>2. from \in Nat
    BY <1>2, <2>1
  <2>3. LastTag(f.trailer) \in Nat
    BY <1>2, LastTagBounds
  <2>4. Tagged(f.trailer, from, LastTag(f.trailer)) \in Seq(OutLines)
    BY <1>2, <2>2, <2>3, TaggedIs
  <2>5. QED
    BY <1>1, <2>1, <2>4 DEF Ends
<1>5. PICK a : a = TopOf(f)
  OBVIOUS
<1>6. PICK b : b = Concat(PartsTo(f, n))
  OBVIOUS
<1>7. PICK c : c = Ends(f)
  OBVIOUS
<1>8. a \in Seq(OutLines) /\ b \in Seq(OutLines) /\ c \in Seq(OutLines)
  BY <1>1, <1>2, <1>4, <1>5, <1>6, <1>7, PartsToIs
<1>9. (a \o b) \o c \in Seq(OutLines)
  BY ONLY <1>8
<1>10. QED
  BY <1>1, <1>3, <1>4, <1>5, <1>6, <1>7, <1>9

\* a diff: its preamble and its entries
LEMMA DiffTextIs ==
  ASSUME NEW pre \in Seq(OutLines), NEW fs \in Seq(TextEntry)
  PROVE  /\ EntryTexts(fs) \in Seq(Seq(OutLines)) /\ Len(EntryTexts(fs)) = Len(fs)
         /\ PatchText(pre, fs) = pre \o Concat(EntryTexts(fs))
         /\ Concat(EntryTexts(fs)) \in Seq(OutLines)
         /\ PatchText(pre, fs) \in Seq(OutLines)
<1>1. DOMAIN fs = 1..Len(fs) /\ Len(fs) \in Nat /\ \A i \in 1..Len(fs) : fs[i] \in TextEntry
  OBVIOUS
<1>2. \A i \in 1..Len(fs) : EntryText(fs[i]) \in Seq(OutLines)
  BY <1>1, TextEntryText
<1>3. EntryTexts(fs) \in Seq(Seq(OutLines)) /\ Len(EntryTexts(fs)) = Len(fs)
  BY <1>1, <1>2 DEF EntryTexts
<1>4. PICK c : c = Concat(EntryTexts(fs))
  OBVIOUS
<1>5. c \in Seq(OutLines)
  BY <1>3, <1>4, ConcatType
<1>6. PatchText(pre, fs) = pre \o c
  BY <1>4 DEF PatchText, EntryTexts
<1>7. pre \o c \in Seq(OutLines)
  BY ONLY <1>5, pre \in Seq(OutLines)
<1>8. QED
  BY <1>3, <1>4, <1>5, <1>6, <1>7

LEMMA NoEntries ==
  ASSUME NEW pre \in Seq(OutLines), NEW fs \in Seq(TextEntry)
  PROVE  PatchText(pre, SubSeq(fs, 1, 0)) = pre
<1>1. PICK g : g = SubSeq(fs, 1, 0)
  OBVIOUS
<1>2. g = <<>>
  BY <1>1
<1>3. g \in Seq(TextEntry)
  BY <1>2, EmptySeq
<1>4. EntryTexts(g) \in Seq(Seq(OutLines)) /\ DOMAIN EntryTexts(g) = {}
  BY <1>2, <1>3, DiffTextIs DEF EntryTexts
<1>5. Concat(EntryTexts(g)) = <<>>
  BY <1>4, ConcatOfNothing
<1>6. PatchText(pre, g) = pre \o <<>>
  BY <1>3, <1>5, DiffTextIs
<1>7. pre \o <<>> = pre
  BY ONLY pre \in Seq(OutLines)
<1>8. QED
  BY <1>1, <1>6, <1>7

LEMMA OneMoreEntry ==
  ASSUME NEW pre \in Seq(OutLines), NEW fs \in Seq(TextEntry), NEW m \in 1..Len(fs)
  PROVE  PatchText(pre, SubSeq(fs, 1, m)) = PatchText(pre, SubSeq(fs, 1, m - 1)) \o EntryText(fs[m])
<1>1. PICK l : l = m - 1
  OBVIOUS
<1>2. l \in Nat /\ m = l + 1 /\ m \in Nat /\ fs[m] \in TextEntry /\ l <= Len(fs) /\ Len(fs) \in Nat
  BY <1>1
<1>3. PICK g : g = SubSeq(fs, 1, l)
  OBVIOUS
<1>4. PICK h : h = SubSeq(fs, 1, m)
  OBVIOUS
<1>5. g \in Seq(TextEntry) /\ Len(g) = l /\ \A k \in 1..l : g[k] = fs[k]
  BY <1>2, <1>3
<1>6. h \in Seq(TextEntry) /\ Len(h) = m /\ \A k \in 1..m : h[k] = fs[k]
  BY <1>2, <1>4
<1>7. PICK a : a = EntryTexts(g)
  OBVIOUS
<1>8. PICK b : b = EntryTexts(h)
  OBVIOUS
<1>9. PICK x : x = EntryText(fs[m])
  OBVIOUS
<1>10. /\ a \in Seq(Seq(OutLines)) /\ Len(a) = l /\ b \in Seq(Seq(OutLines)) /\ Len(b) = m
       /\ x \in Seq(OutLines)
  BY <1>2, <1>5, <1>6, <1>7, <1>8, <1>9, DiffTextIs, TextEntryText
<1>11. b[l + 1] = x /\ \A j \in 1..l : b[j] = a[j]
  <2>1. DOMAIN g = 1..l /\ DOMAIN h = 1..m /\ l + 1 \in 1..m /\ 1..l \subseteq 1..m
    BY <1>2, <1>5, <1>6
  <2>2. \A j \in 1..m : b[j] = EntryText(fs[j])
    BY <1>6, <1>8, <2>1 DEF EntryTexts
  <2>3. \A j \in 1..l : a[j] = EntryText(fs[j])
    BY <1>5, <1>7, <2>1 DEF EntryTexts
  <2>4. QED
    BY <1>2, <1>9, <2>1, <2>2, <2>3
<1>12. b = Append(a, x)
  <2>1. /\ l \in Nat /\ a \in Seq(Seq(OutLines)) /\ b \in Seq(Seq(OutLines)) /\ x \in Seq(OutLines)
        /\ Len(a) = l /\ Len(b) = l + 1 /\ b[l + 1] = x /\ \A j \in 1..l : b[j] = a[j]
    BY <1>2, <1>10, <1>11
  <2>2. /\ Append(a, x) \in Seq(Seq(OutLines)) /\ Len(Append(a, x)) = l + 1
        /\ \A j \in 1..(l + 1) : b[j] = Append(a, x)[j]
    BY ONLY <2>1
  <2>3. QED
    BY <2>1, <2>2, SeqEqual
<1>13. Concat(b) = Concat(a) \o x
  BY <1>10, <1>12, ConcatOfAppend
<1>14. PICK c : c = Concat(a)
  OBVIOUS
<1>15. /\ PatchText(pre, g) = pre \o c /\ PatchText(pre, h) = pre \o (c \o x)
       /\ c \in Seq(OutLines)
  BY <1>5, <1>6, <1>7, <1>8, <1>13, <1>14, DiffTextIs
<1>16. pre \in Seq(OutLines) /\ c \in Seq(OutLines) /\ x \in Seq(OutLines)
  BY <1>10, <1>15
<1>17. pre \o (c \o x) = (pre \o c) \o x
  BY ONLY <1>16, Regrouped
<1>18. QED
  BY <1>1, <1>3, <1>4, <1>9, <1>15, <1>17

-----------------------------------------------------------------------------
(* What is written, hunk by hunk.                                            *)

Start(above, f, k) == (above \o TopOf(f)) \o Concat(PartsTo(f, k - 1))

LEMMA StartIs ==
  ASSUME NEW above \in Seq(OutLines), NEW f \in TextEntry, NEW k \in 1..(Len(f.hunks) + 1)
  PROVE  Start(above, f, k) \in Seq(OutLines)
<1>1. k - 1 \in 0..Len(f.hunks) /\ TopOf(f) \in Seq(OutLines)
  BY TextEntryIs
<1>2. PICK a : a = TopOf(f)
  OBVIOUS
<1>3. PICK b : b = Concat(PartsTo(f, k - 1))
  OBVIOUS
<1>4. above \in Seq(OutLines) /\ a \in Seq(OutLines) /\ b \in Seq(OutLines)
  BY <1>1, <1>2, <1>3, PartsToIs
<1>5. (above \o a) \o b \in Seq(OutLines)
  BY ONLY <1>4
<1>6. QED
  BY <1>2, <1>3, <1>5 DEF Start

LEMMA StartOfFirst ==
  ASSUME NEW above \in Seq(OutLines), NEW f \in TextEntry
  PROVE  Start(above, f, 1) = above \o TopOf(f)
<1>1. 0 \in 0..Len(f.hunks)
  BY TextEntryIs
<1>2. PartsTo(f, 0) \in Seq(Seq(OutLines)) /\ DOMAIN PartsTo(f, 0) = {}
  BY <1>1, PartsToIs DEF PartsTo
<1>3. Concat(PartsTo(f, 0)) = <<>>
  BY <1>2, ConcatOfNothing
<1>4. PICK a : a = TopOf(f)
  OBVIOUS
<1>5. above \in Seq(OutLines) /\ a \in Seq(OutLines)
  BY <1>4, TextEntryIs
<1>6. (above \o a) \o <<>> = above \o a
  BY ONLY <1>5
<1>7. 1 - 1 = 0
  OBVIOUS
<1>8. QED
  BY <1>3, <1>4, <1>6, <1>7 DEF Start

LEMMA StartOfNext ==
  ASSUME NEW above \in Seq(OutLines), NEW f \in TextEntry, NEW k \in 1..Len(f.hunks), NEW x,
         x = Tagged(f.trailer, IF k = 1 THEN 0 ELSE k, k)
  PROVE  Start(above, f, k + 1) = (Start(above, f, k) \o HunkText(f.hunks[k])) \o x
<1>1. Len(f.hunks) \in Nat /\ k \in Nat /\ k - 1 \in 0..Len(f.hunks) /\ (k + 1) - 1 = k
  BY TextEntryIs
<1>2. PICK a : a = above \o TopOf(f)
  OBVIOUS
<1>3. PICK b : b = Concat(PartsTo(f, k - 1))
  OBVIOUS
<1>4. PICK c : c = HunkText(f.hunks[k])
  OBVIOUS
<1>5. a \in Seq(OutLines)
  <2>1. PICK t : t = TopOf(f)
    OBVIOUS
  <2>2. above \in Seq(OutLines) /\ t \in Seq(OutLines)
    BY <2>1, TextEntryIs
  <2>3. above \o t \in Seq(OutLines)
    BY ONLY <2>2
  <2>4. QED
    BY <1>2, <2>1, <2>3
<1>6. b \in Seq(OutLines) /\ c \in Seq(OutLines) /\ x \in Seq(OutLines) /\ Part(f, k) = c \o x
  BY <1>1, <1>3, <1>4, PartsToIs, TextPartIs DEF Part
<1>7. Start(above, f, k + 1) = a \o (b \o (c \o x))
  BY <1>1, <1>2, <1>3, <1>6, PartsToMore DEF Start
<1>8. Start(above, f, k) = a \o b
  BY <1>2, <1>3 DEF Start
<1>9. a \in Seq(OutLines) /\ b \in Seq(OutLines) /\ c \in Seq(OutLines) /\ x \in Seq(OutLines)
  BY <1>5, <1>6
<1>10. b \o (c \o x) = (b \o c) \o x
  BY ONLY <1>9, Regrouped
<1>11. PICK d : d = b \o c
  OBVIOUS
<1>12. d \in Seq(OutLines)
  BY ONLY <1>9, <1>11
<1>13. a \in Seq(OutLines) /\ d \in Seq(OutLines) /\ x \in Seq(OutLines)
  BY <1>9, <1>12
<1>14. a \o (d \o x) = (a \o d) \o x
  BY ONLY <1>13, Regrouped
<1>15. a \o (b \o c) = (a \o b) \o c
  BY ONLY <1>9, Regrouped
<1>16. QED
  BY <1>4, <1>7, <1>8, <1>10, <1>11, <1>14, <1>15

\* after the last hunk comes the end of the entry
LEMMA StartOfEnd ==
  ASSUME NEW above \in Seq(OutLines), NEW f \in TextEntry
  PROVE  Start(above, f, Len(f.hunks) + 1) \o Ends(f) = above \o EntryText(f)
<1>1. Len(f.hunks) \in Nat /\ Len(f.hunks) \in 0..Len(f.hunks) /\ (Len(f.hunks) + 1) - 1 = Len(f.hunks)
  BY TextEntryIs
<1>2. PICK a : a = TopOf(f)
  OBVIOUS
<1>3. PICK b : b = Concat(PartsTo(f, Len(f.hunks)))
  OBVIOUS
<1>4. PICK c : c = Ends(f)
  OBVIOUS
<1>5. above \in Seq(OutLines) /\ a \in Seq(OutLines) /\ b \in Seq(OutLines) /\ c \in Seq(OutLines)
  BY <1>1, <1>2, <1>3, <1>4, TextEntryIs, TextEntryText, PartsToIs
<1>6. Start(above, f, Len(f.hunks) + 1) = (above \o a) \o b /\ EntryText(f) = (a \o b) \o c
  BY <1>1, <1>2, <1>3, <1>4, TextEntryText DEF Start
<1>7. PICK d : d = a \o b
  OBVIOUS
<1>8. d \in Seq(OutLines)
  BY ONLY <1>5, <1>7
<1>9. above \in Seq(OutLines) /\ d \in Seq(OutLines) /\ c \in Seq(OutLines)
  BY <1>5, <1>8
<1>10. above \o (d \o c) = (above \o d) \o c
  BY ONLY <1>9, Regrouped
<1>11. above \o (a \o b) = (above \o a) \o b
  BY ONLY <1>5, Regrouped
<1>12. QED
  BY <1>4, <1>6, <1>7, <1>10, <1>11

\* a sequence up to m, and one more of it
LEMMA PassedMore ==
  ASSUME NEW S, NEW s \in Seq(S), NEW m \in 0..Len(s), m # Len(s)
  PROVE  s[m + 1] \in S /\ SubSeq(s, 1, m + 1) = SubSeq(s, 1, m) \o <<s[m + 1]>>
<1>1. PICK n : n = m + 1
  OBVIOUS
<1>2. n \in 1..Len(s) /\ 1 \in 1..Len(s) /\ n - 1 = m /\ s[n] \in S
  BY <1>1
<1>3. SubSeq(s, 1, n) = SubSeq(s, 1, n - 1) \o <<s[n]>>
  BY ONLY s \in Seq(S), <1>2, SubSeqRecursiveSecond
<1>4. QED
  BY <1>1, <1>2, <1>3

\* and what is left of it
LEMMA PassedAndRest ==
  ASSUME NEW S, NEW s \in Seq(S), NEW m \in 0..Len(s)
  PROVE  /\ SubSeq(s, 1, m) \o SubSeq(s, m + 1, Len(s)) = s
         /\ SubSeq(s, 1, m) \in Seq(S) /\ SubSeq(s, m + 1, Len(s)) \in Seq(S)
<1>1. PICK l : l = Len(s)
  OBVIOUS
<1>2. l \in Nat /\ m \in Nat /\ m <= l /\ 1 \in 1..(l + 1) /\ m \in (1 - 1)..l /\ l \in m..l
  BY <1>1
<1>3. \A k \in 1..l : s[k] \in S
  BY <1>1
<1>4. SubSeq(s, 1, m) \o SubSeq(s, m + 1, l) = SubSeq(s, 1, l)
  BY ONLY s \in Seq(S), <1>1, <1>2, ConcatAdjacentSubSeq
<1>5. SubSeq(s, 1, l) = s
  BY <1>1, SubSeqFull
<1>6. SubSeq(s, 1, m) \in Seq(S)
  <2>1. \A k \in 1..m : s[k] \in S
    BY <1>2, <1>3
  <2>2. QED
    BY <1>2, <2>1, SubSeqProperties
<1>7. SubSeq(s, m + 1, l) \in Seq(S)
  <2>1. \A k \in (m + 1)..l : s[k] \in S
    BY <1>2, <1>3
  <2>2. m + 1 \in Int /\ l \in Int
    BY <1>2
  <2>3. QED
    BY <2>1, <2>2, SubSeqProperties
<1>8. QED
  BY <1>1, <1>4, <1>5, <1>6, <1>7

-----------------------------------------------------------------------------
(* How far the writing is.                                                   *)

\* the entry being written, and what stands above it
Written == patch.files[fi]
Above == PatchText(patch.preamble, SubSeq(patch.files, 1, fi - 1))
\* what the cursor has passed
Passed == SubSeq(trailer, 1, ti - 1)

\* the hunks before k are written, and what belongs between them
AtHunk(above, f, k) ==
  /\ k \in 1..(Len(f.hunks) + 1)
  /\ Passed = Before(f.trailer, k - 1)
  /\ out = Start(above, f, k)

\* hunk k is written too, and some of what belongs below it
BelowHunk(above, f, k) ==
  /\ k \in 1..Len(f.hunks)
  /\ Passed \in Seq(UpTo(OutLines, k))
  /\ \E x \in Seq(OutLines) :
       /\ Lined(Before(f.trailer, k - 1)) \o x = Lined(Passed)
       /\ out = (Start(above, f, k) \o HunkText(f.hunks[k])) \o x

WithinEntry(f) ==
  /\ fi \in 1..Len(patch.files)
  /\ trailer = Up(f.trailer, LastTag(f.trailer))
  /\ ti \in 1..(Len(trailer) + 1)

(* Between two hunks the cursor has passed exactly the lines tagged above   *)
(* the next one, so what is written is the text up to there; below a hunk,  *)
(* what it passed beyond those is what was written below the hunk           *)
(* (src/emit.rs, emit, emit_trailer_upto).                                  *)
EmitInv ==
  /\ patch \in Diffs /\ fi \in 1..(Len(patch.files) + 1)
  /\ step \in {"preamble", "file", "hunk", "trailer", "rest", "done"}
  /\ step = "preamble" => fi = 1 /\ out = <<>>
  /\ step \in {"file", "done"} => out = Above
  /\ step = "done" => fi = Len(patch.files) + 1
  /\ step \in {"hunk", "trailer", "rest"} => WithinEntry(Written)
  /\ step = "hunk" => AtHunk(Above, Written, hi)
  /\ step = "trailer" => BelowHunk(Above, Written, hi)
  /\ step = "rest" => AtHunk(Above, Written, Len(Written.hunks) + 1)

LEMMA DiffIs ==
  ASSUME NEW p \in Diffs
  PROVE  /\ p.preamble \in Seq(OutLines) /\ p.files \in Seq(TextEntry) /\ Len(p.files) \in Nat
         /\ DOMAIN p.files = 1..Len(p.files)
         /\ \A k \in 1..Len(p.files) :
              p.files[k] \in TextEntry /\ (IsBinary(p.files[k]) => p.files[k].hunks = <<>>)
<1>1. p.preamble \in Seq(OutLines) /\ p.files \in Seq(TextEntry)
  BY DEF Diffs
<1>2. \A k \in DOMAIN p.files : IsBinary(p.files[k]) => p.files[k].hunks = <<>>
  BY DEF Diffs
<1>3. QED
  BY <1>1, <1>2

LEMMA AboveIs ==
  ASSUME NEW p \in Diffs, NEW k \in 1..(Len(p.files) + 1)
  PROVE  PatchText(p.preamble, SubSeq(p.files, 1, k - 1)) \in Seq(OutLines)
<1>1. PICK fs : fs = p.files
  OBVIOUS
<1>2. fs \in Seq(TextEntry) /\ k - 1 \in 0..Len(fs) /\ p.preamble \in Seq(OutLines)
  BY <1>1, DiffIs
<1>3. SubSeq(fs, 1, k - 1) \in Seq(TextEntry)
  BY <1>2, PassedAndRest
<1>4. QED
  BY <1>1, <1>2, <1>3, DiffTextIs

LEMMA SameBinary ==
  ASSUME NEW f
  PROVE  Emit!IsBinary(f) <=> IsBinary(f)
  BY DEF Emit!IsBinary, IsBinary

-----------------------------------------------------------------------------
(* Each step of writing keeps it.                                            *)

LEMMA InitEmit == Emit!Init => EmitInv
<1> SUFFICES ASSUME Emit!Init PROVE EmitInv
  OBVIOUS
<1> USE DEF Emit!Init
<1>1. patch \in Diffs /\ Len(patch.files) \in Nat
  BY DiffIs
<1>2. fi = 1 /\ fi \in 1..(Len(patch.files) + 1) /\ out = <<>> /\ step = "preamble"
  BY <1>1
<1>3. QED
  BY <1>1, <1>2 DEF EmitInv

LEMMA PreambleEmit == EmitInv /\ Emit!Preamble => EmitInv'
<1> SUFFICES ASSUME EmitInv, Emit!Preamble PROVE EmitInv'
  OBVIOUS
<1>1. /\ step = "preamble" /\ step' = "file" /\ patch' = patch /\ fi' = fi
      /\ out' = out \o patch.preamble
  BY DEF Emit!Preamble, Emit!Write
<1>2. patch \in Diffs /\ fi \in 1..(Len(patch.files) + 1) /\ fi = 1 /\ out = <<>>
  BY <1>1 DEF EmitInv
<1>3. PICK pre : pre = patch.preamble
  OBVIOUS
<1>4. pre \in Seq(OutLines) /\ patch.files \in Seq(TextEntry)
  BY <1>2, <1>3, DiffIs
<1>5. out' = pre
  BY <1>1, <1>2, <1>3, <1>4
<1>6. fi - 1 = 0
  BY <1>2
<1>7. Above = pre
  BY <1>3, <1>4, <1>6, NoEntries DEF Above
<1>8. Above' = Above
  BY <1>1 DEF Above
<1>9. QED
  BY <1>1, <1>2, <1>5, <1>7, <1>8 DEF EmitInv

\* the entry being written
LEMMA WrittenIs ==
  ASSUME EmitInv, fi \in 1..Len(patch.files)
  PROVE  /\ patch \in Diffs /\ Written \in TextEntry /\ (IsBinary(Written) => Written.hunks = <<>>)
         /\ Above \in Seq(OutLines) /\ Written.trailer \in Seq(Tags(OutLines))
         /\ Written.hunks \in Seq(Hunk) /\ Len(Written.hunks) \in Nat
         /\ Up(Written.trailer, LastTag(Written.trailer)) \in Seq(Tags(OutLines))
<1>1. patch \in Diffs /\ fi \in 1..(Len(patch.files) + 1)
  BY DEF EmitInv
<1>2. Written \in TextEntry /\ (IsBinary(Written) => Written.hunks = <<>>)
  BY <1>1, DiffIs DEF Written
<1>3. Above \in Seq(OutLines)
  BY <1>1, AboveIs DEF Above
<1>4. Written.trailer \in Seq(Tags(OutLines)) /\ Written.hunks \in Seq(Hunk) /\ Len(Written.hunks) \in Nat
  BY <1>2, TextEntryIs
<1>5. LastTag(Written.trailer) \in Nat
  BY <1>4, LastTagBounds
<1>6. QED
  BY <1>1, <1>2, <1>3, <1>4, <1>5, UpIs

LEMMA OpenFileEmit == EmitInv /\ Emit!OpenFile => EmitInv'
<1> SUFFICES ASSUME EmitInv, Emit!OpenFile PROVE EmitInv'
  OBVIOUS
<1>1. /\ step = "file" /\ fi <= Len(patch.files)
      /\ out' = out \o (Written.headers \o Written.payload)
      /\ trailer' = Emit!InOrder(Written.trailer) /\ ti' = 1 /\ hi' = 1
      /\ step' = IF Emit!IsBinary(Written) THEN "rest" ELSE "hunk"
      /\ patch' = patch /\ fi' = fi
  BY DEF Emit!OpenFile, Emit!Write, Emit!File, Written
<1>2. out = Above /\ patch \in Diffs /\ fi \in 1..(Len(patch.files) + 1)
  BY <1>1 DEF EmitInv
<1>3. Len(patch.files) \in Nat
  BY <1>2, DiffIs
<1>4. fi \in 1..Len(patch.files)
  BY <1>1, <1>2, <1>3
<1>5. /\ Written \in TextEntry /\ (IsBinary(Written) => Written.hunks = <<>>)
      /\ Above \in Seq(OutLines) /\ Len(Written.hunks) \in Nat
      /\ Up(Written.trailer, LastTag(Written.trailer)) \in Seq(Tags(OutLines))
  BY <1>4, WrittenIs
<1>6. Written' = Written /\ Above' = Above
  BY <1>1 DEF Written, Above
<1>7. PICK s : s = Up(Written.trailer, LastTag(Written.trailer))
  OBVIOUS
<1>8. trailer' = s /\ Len(s) \in Nat
  BY <1>1, <1>5, <1>7, InOrderIs
<1>9. WithinEntry(Written)'
  BY <1>1, <1>4, <1>6, <1>7, <1>8 DEF WithinEntry
<1>10. AtHunk(Above, Written, 1)'
  <2>1. out' = Start(Above, Written, 1)
    BY <1>1, <1>2, <1>5, StartOfFirst DEF TopOf
  <2>2. Passed' = <<>>
    BY <1>1 DEF Passed
  <2>3. Before(Written.trailer, 1 - 1) = <<>>
    BY DEF Before
  <2>4. 1 \in 1..(Len(Written.hunks) + 1)
    BY <1>5
  <2>5. QED
    BY <1>6, <2>1, <2>2, <2>3, <2>4 DEF AtHunk
<1>11. CASE IsBinary(Written)
  <2>1. step' = "rest"
    BY <1>1, <1>11, SameBinary
  <2>2. Len(Written.hunks) = 0
    BY <1>5, <1>11
  <2>3. Len(Written.hunks) + 1 = 1
    BY <2>2
  <2>4. AtHunk(Above, Written, Len(Written.hunks) + 1)'
    BY <1>6, <1>10, <2>3
  <2>5. QED
    BY <1>1, <1>2, <1>9, <2>1, <2>4 DEF EmitInv
<1>12. CASE ~IsBinary(Written)
  <2>1. step' = "hunk"
    BY <1>1, <1>12, SameBinary
  <2>2. AtHunk(Above, Written, hi)'
    BY <1>1, <1>10
  <2>3. QED
    BY <1>1, <1>2, <1>9, <2>1, <2>2 DEF EmitInv
<1>13. QED
  BY <1>11, <1>12

\* within an entry that stays, EmitInv is about the hunk
LEMMA StaysInEntry ==
  ASSUME EmitInv, step \in {"hunk", "trailer", "rest"}, patch' = patch, fi' = fi,
         trailer' = trailer, ti' \in 1..(Len(trailer) + 1),
         step' \in {"hunk", "trailer", "rest"},
         step' = "hunk" => AtHunk(Above, Written, hi)',
         step' = "trailer" => BelowHunk(Above, Written, hi)',
         step' = "rest" => AtHunk(Above, Written, Len(Written.hunks) + 1)'
  PROVE  EmitInv'
<1>1. patch \in Diffs /\ fi \in 1..(Len(patch.files) + 1) /\ WithinEntry(Written)
  BY DEF EmitInv
<1>2. Written' = Written
  BY DEF Written
<1>3. WithinEntry(Written)'
  BY <1>1, <1>2 DEF WithinEntry
<1>4. QED
  BY <1>1, <1>3 DEF EmitInv

\* what holds within an entry
LEMMA EntryFacts ==
  ASSUME EmitInv, step \in {"hunk", "trailer", "rest"}
  PROVE  /\ fi \in 1..Len(patch.files) /\ Written \in TextEntry /\ Above \in Seq(OutLines)
         /\ Written.trailer \in Seq(Tags(OutLines)) /\ Len(Written.hunks) \in Nat
         /\ trailer = Up(Written.trailer, LastTag(Written.trailer))
         /\ trailer \in Seq(Tags(OutLines)) /\ Len(trailer) \in Nat
         /\ ti \in 1..(Len(trailer) + 1) /\ ti - 1 \in 0..Len(trailer)
         /\ (ti - 1) + 1 = ti /\ (ti + 1) - 1 = ti
<1>1. fi \in 1..Len(patch.files) /\ trailer = Up(Written.trailer, LastTag(Written.trailer))
      /\ ti \in 1..(Len(trailer) + 1)
  BY DEF EmitInv, WithinEntry
<1>2. trailer \in Seq(Tags(OutLines))
  BY <1>1, WrittenIs
<1>3. Len(trailer) \in Nat
  BY <1>2
<1>4. ti - 1 \in 0..Len(trailer) /\ (ti - 1) + 1 = ti /\ (ti + 1) - 1 = ti
  BY <1>1, <1>3
<1>5. QED
  BY <1>1, <1>2, <1>3, <1>4, WrittenIs

\* within an entry
LEMMA EmitHunkEmit == EmitInv /\ Emit!EmitHunk => EmitInv'
<1> SUFFICES ASSUME EmitInv, Emit!EmitHunk PROVE EmitInv'
  OBVIOUS
<1>1. /\ step = "hunk" /\ hi <= Len(Written.hunks)
      /\ out' = out \o HunkText(Written.hunks[hi]) /\ step' = "trailer"
      /\ patch' = patch /\ fi' = fi /\ hi' = hi /\ trailer' = trailer /\ ti' = ti
  BY SameHunkText DEF Emit!EmitHunk, Emit!Write, Emit!File, Written
<1>2. /\ Written \in TextEntry /\ Above \in Seq(OutLines)
      /\ Written.trailer \in Seq(Tags(OutLines)) /\ Len(Written.hunks) \in Nat
      /\ ti \in 1..(Len(trailer) + 1)
  BY <1>1, EntryFacts
<1>3. AtHunk(Above, Written, hi)
  BY <1>1 DEF EmitInv
<1>4. hi \in 1..(Len(Written.hunks) + 1) /\ Passed = Before(Written.trailer, hi - 1)
      /\ out = Start(Above, Written, hi)
  BY <1>3 DEF AtHunk
<1>5. hi \in 1..Len(Written.hunks) /\ hi \in Nat /\ hi - 1 \in Nat /\ hi - 1 <= hi
  BY <1>1, <1>2, <1>4
<1>6. Passed \in Seq(UpTo(OutLines, hi))
  <2>1. Passed \in Seq(UpTo(OutLines, hi - 1))
    BY <1>2, <1>4, <1>5, BeforeIs
  <2>2. UpTo(OutLines, hi - 1) \subseteq UpTo(OutLines, hi)
    BY <1>5 DEF UpTo, Tags
  <2>3. QED
    BY <2>1, <2>2, SeqMonotonic
<1>7. PICK c : c = Lined(Before(Written.trailer, hi - 1))
  OBVIOUS
<1>8. PICK d : d = Start(Above, Written, hi)
  OBVIOUS
<1>9. PICK e : e = HunkText(Written.hunks[hi])
  OBVIOUS
<1>10. c \in Seq(OutLines) /\ d \in Seq(OutLines) /\ e \in Seq(OutLines)
  BY <1>2, <1>4, <1>5, <1>7, <1>8, <1>9, BeforeIs, StartIs, TextPartIs
<1>11. c \o <<>> = c /\ (d \o e) \o <<>> = d \o e
  BY ONLY <1>10
<1>12. out' = d \o e
  BY <1>1, <1>4, <1>8, <1>9
<1>13. Written' = Written /\ Above' = Above /\ Passed' = Passed
  BY <1>1 DEF Written, Above, Passed
<1>14. Lined(Passed) = c
  BY <1>4, <1>7
<1>15. <<>> \in Seq(OutLines)
  BY EmptySeq
<1>16. \E x \in Seq(OutLines) :
         /\ Lined(Before(Written.trailer, hi - 1)) \o x = Lined(Passed)
         /\ out' = (Start(Above, Written, hi) \o HunkText(Written.hunks[hi])) \o x
  BY <1>7, <1>8, <1>9, <1>11, <1>12, <1>14, <1>15
<1>17. BelowHunk(Above, Written, hi)'
  BY <1>1, <1>5, <1>6, <1>13, <1>16 DEF BelowHunk
<1>18. QED
  BY <1>1, <1>2, <1>17, StaysInEntry

LEMMA EmitTrailerEmit == EmitInv /\ Emit!EmitTrailer => EmitInv'
<1> SUFFICES ASSUME EmitInv, Emit!EmitTrailer PROVE EmitInv'
  OBVIOUS
<1>1. /\ step = "trailer" /\ ti <= Len(trailer) /\ trailer[ti].at <= hi
      /\ out' = out \o <<trailer[ti].line>> /\ ti' = ti + 1
      /\ patch' = patch /\ step' = step /\ fi' = fi /\ hi' = hi /\ trailer' = trailer
  BY DEF Emit!EmitTrailer, Emit!Here, Emit!Write
<1>2. /\ Written \in TextEntry /\ Above \in Seq(OutLines)
      /\ Written.trailer \in Seq(Tags(OutLines)) /\ Len(Written.hunks) \in Nat
      /\ trailer \in Seq(Tags(OutLines)) /\ Len(trailer) \in Nat
      /\ ti \in 1..(Len(trailer) + 1) /\ ti - 1 \in 0..Len(trailer)
      /\ (ti - 1) + 1 = ti /\ (ti + 1) - 1 = ti
  BY <1>1, EntryFacts
<1>3. BelowHunk(Above, Written, hi)
  BY <1>1 DEF EmitInv
<1>4. hi \in 1..Len(Written.hunks) /\ Passed \in Seq(UpTo(OutLines, hi))
  BY <1>3 DEF BelowHunk
<1>5. PICK x \in Seq(OutLines) :
        /\ Lined(Before(Written.trailer, hi - 1)) \o x = Lined(Passed)
        /\ out = (Start(Above, Written, hi) \o HunkText(Written.hunks[hi])) \o x
  BY <1>3 DEF BelowHunk
<1>6. PICK t : t = trailer[ti]
  OBVIOUS
<1>7. PICK p : p = Passed
  OBVIOUS
<1>8. t \in Tags(OutLines) /\ Passed' = p \o <<t>>
  <2>1. ti - 1 # Len(trailer)
    BY <1>1, <1>2
  <2>2. /\ trailer[(ti - 1) + 1] \in Tags(OutLines)
        /\ SubSeq(trailer, 1, (ti - 1) + 1) = SubSeq(trailer, 1, ti - 1) \o <<trailer[(ti - 1) + 1]>>
    BY <1>2, <2>1, PassedMore
  <2>3. QED
    BY <1>1, <1>2, <1>6, <1>7, <2>2 DEF Passed
<1>9. PICK l : l = t.line
  OBVIOUS
<1>10. l \in OutLines /\ t.at <= hi
  BY <1>1, <1>6, <1>8, <1>9 DEF Tags
<1>11. t \in UpTo(OutLines, hi)
  BY <1>8, <1>10 DEF UpTo
<1>12. p \in Seq(UpTo(OutLines, hi))
  BY <1>4, <1>7
<1>13. p \o <<t>> \in Seq(UpTo(OutLines, hi))
  BY ONLY <1>11, <1>12
<1>14. p \in Seq(Tags(OutLines)) /\ <<t>> \in Seq(Tags(OutLines))
  <2>1. UpTo(OutLines, hi) \subseteq Tags(OutLines)
    BY DEF UpTo
  <2>2. <<t>> \in Seq(Tags(OutLines))
    BY ONLY <1>8
  <2>3. QED
    BY <1>12, <2>1, <2>2, SeqMonotonic
<1>15. Lined(p \o <<t>>) = Lined(p) \o <<l>>
  <2>1. Lined(<<t>>) = <<l>>
    BY <1>9 DEF Lined
  <2>2. QED
    BY <1>14, <2>1, LinedJoin
<1>16. PICK c : c = Lined(Before(Written.trailer, hi - 1))
  OBVIOUS
<1>17. PICK d : d = Start(Above, Written, hi)
  OBVIOUS
<1>18. PICK e : e = HunkText(Written.hunks[hi])
  OBVIOUS
<1>19. PICK g : g = d \o e
  OBVIOUS
<1>20. PICK y : y = <<l>>
  OBVIOUS
<1>21. c \in Seq(OutLines) /\ g \in Seq(OutLines) /\ x \in Seq(OutLines) /\ y \in Seq(OutLines)
  <2>1. hi - 1 \in Nat /\ hi \in 1..(Len(Written.hunks) + 1)
    BY <1>2, <1>4
  <2>2. c \in Seq(OutLines) /\ d \in Seq(OutLines) /\ e \in Seq(OutLines)
    BY <1>2, <1>4, <1>16, <1>17, <1>18, <2>1, BeforeIs, StartIs, TextPartIs
  <2>3. g \in Seq(OutLines)
    BY ONLY <1>19, <2>2
  <2>4. y \in Seq(OutLines)
    BY ONLY <1>10, <1>20
  <2>5. QED
    BY <2>2, <2>3, <2>4
<1>22. c \o (x \o y) = (c \o x) \o y /\ g \o (x \o y) = (g \o x) \o y /\ x \o y \in Seq(OutLines)
  <2>1. c \o (x \o y) = (c \o x) \o y
    BY ONLY <1>21, Regrouped
  <2>2. g \o (x \o y) = (g \o x) \o y
    BY ONLY <1>21, Regrouped
  <2>3. x \o y \in Seq(OutLines)
    BY ONLY <1>21
  <2>4. QED
    BY <2>1, <2>2, <2>3
<1>23. c \o (x \o y) = Lined(Passed') /\ out' = (d \o e) \o (x \o y)
  <2>1. c \o x = Lined(p) /\ out = g \o x
    BY <1>5, <1>7, <1>16, <1>17, <1>18, <1>19
  <2>2. out' = out \o y
    BY <1>1, <1>6, <1>9, <1>20
  <2>3. Lined(Passed') = (c \o x) \o y
    BY <1>8, <1>15, <1>20, <2>1
  <2>4. QED
    BY <1>19, <1>22, <2>1, <2>2, <2>3
<1>24. Written' = Written /\ Above' = Above
  BY <1>1 DEF Written, Above
<1>25. BelowHunk(Above, Written, hi)'
  <2>1. Passed' \in Seq(UpTo(OutLines, hi))
    BY <1>8, <1>13
  <2>2. \E z \in Seq(OutLines) :
          /\ Lined(Before(Written.trailer, hi - 1)) \o z = Lined(Passed')
          /\ out' = (Start(Above, Written, hi) \o HunkText(Written.hunks[hi])) \o z
    BY <1>16, <1>17, <1>18, <1>22, <1>23
  <2>3. QED
    BY <1>1, <1>4, <1>24, <2>1, <2>2 DEF BelowHunk
<1>26. ti' \in 1..(Len(trailer) + 1)
  BY <1>1, <1>2
<1>27. QED
  BY <1>1, <1>25, <1>26, StaysInEntry

LEMMA NextHunkEmit == EmitInv /\ Emit!NextHunk => EmitInv'
<1> SUFFICES ASSUME EmitInv, Emit!NextHunk PROVE EmitInv'
  OBVIOUS
<1>1. /\ step = "trailer" /\ ~(ti <= Len(trailer) /\ trailer[ti].at <= hi)
      /\ hi' = hi + 1 /\ step' = "hunk"
      /\ patch' = patch /\ fi' = fi /\ trailer' = trailer /\ ti' = ti /\ out' = out
  BY DEF Emit!NextHunk, Emit!Here
<1>2. /\ Written \in TextEntry /\ Above \in Seq(OutLines)
      /\ Written.trailer \in Seq(Tags(OutLines)) /\ Len(Written.hunks) \in Nat
      /\ trailer = Up(Written.trailer, LastTag(Written.trailer))
      /\ trailer \in Seq(Tags(OutLines)) /\ Len(trailer) \in Nat
      /\ ti \in 1..(Len(trailer) + 1) /\ ti - 1 \in 0..Len(trailer)
      /\ (ti - 1) + 1 = ti
  BY <1>1, EntryFacts
<1>3. BelowHunk(Above, Written, hi)
  BY <1>1 DEF EmitInv
<1>4. hi \in 1..Len(Written.hunks) /\ Passed \in Seq(UpTo(OutLines, hi))
  BY <1>3 DEF BelowHunk
<1>5. PICK x \in Seq(OutLines) :
        /\ Lined(Before(Written.trailer, hi - 1)) \o x = Lined(Passed)
        /\ out = (Start(Above, Written, hi) \o HunkText(Written.hunks[hi])) \o x
  BY <1>3 DEF BelowHunk
<1>6. hi \in Nat \ {0} /\ hi \in Nat /\ hi + 1 \in 1..(Len(Written.hunks) + 1) /\ (hi + 1) - 1 = hi /\ hi # 0
  BY <1>2, <1>4
<1>7. PICK u : u = Up(Written.trailer, hi)
  OBVIOUS
<1>8. u \in Seq(UpTo(OutLines, hi))
  BY <1>2, <1>6, <1>7, UpIs
<1>9. PICK r \in Seq(Past(OutLines, hi)) : trailer = u \o r
  <2>1. PICK w : w = Written.trailer
    OBVIOUS
  <2>2. w \in Seq(Tags(OutLines)) /\ hi \in Nat
    BY <1>2, <1>6, <2>1
  <2>3. \E r \in Seq(Past(OutLines, hi)) : Up(w, LastTag(w)) = Up(w, hi) \o r
    BY ONLY <2>2, OrderSplits
  <2>4. QED
    BY <1>2, <1>7, <2>1, <2>3
<1>10. PICK m : m = ti - 1
  OBVIOUS
<1>11. SubSeq(trailer, 1, m) = u
  <2>1. m \in 0..Len(trailer) /\ SubSeq(trailer, 1, m) \in Seq(UpTo(OutLines, hi))
    BY <1>2, <1>4, <1>10 DEF Passed
  <2>2. ASSUME m # Len(trailer)
        PROVE  trailer[m + 1].at > hi
    <3>1. m + 1 = ti /\ ti <= Len(trailer) /\ ti \in 1..Len(trailer)
      BY <1>2, <1>10, <2>2
    <3>2. trailer[ti] \in Tags(OutLines) /\ ~(trailer[ti].at <= hi)
      BY <1>1, <1>2, <3>1
    <3>3. PICK at : at = trailer[ti].at
      OBVIOUS
    <3>4. at \in Nat /\ ~(at <= hi)
      BY <3>2, <3>3 DEF Tags
    <3>5. at > hi
      BY <1>6, <3>4
    <3>6. QED
      BY <3>1, <3>3, <3>5
  <2>3. QED
    BY <1>6, <1>8, <1>9, <2>1, <2>2, CursorStops
<1>12. Passed = u
  BY <1>10, <1>11 DEF Passed
<1>13. x = Tagged(Written.trailer, IF hi = 1 THEN 0 ELSE hi, hi)
  <2>1. Lined(Before(Written.trailer, hi - 1)) \o x = Lined(Up(Written.trailer, hi))
    BY <1>5, <1>7, <1>12
  <2>2. QED
    BY <1>2, <1>6, <2>1, BelowIs
<1>14. out = Start(Above, Written, hi + 1)
  BY <1>2, <1>4, <1>5, <1>13, StartOfNext
<1>15. Written' = Written /\ Above' = Above /\ Passed' = Passed
  BY <1>1 DEF Written, Above, Passed
<1>16. Passed = Before(Written.trailer, (hi + 1) - 1)
  BY <1>6, <1>7, <1>12 DEF Before
<1>17. AtHunk(Above, Written, hi)'
  BY <1>1, <1>6, <1>14, <1>15, <1>16 DEF AtHunk
<1>18. QED
  BY <1>1, <1>2, <1>17, StaysInEntry

LEMMA EndHunksEmit == EmitInv /\ Emit!EndHunks => EmitInv'
<1> SUFFICES ASSUME EmitInv, Emit!EndHunks PROVE EmitInv'
  OBVIOUS
<1>1. /\ step = "hunk" /\ hi > Len(Written.hunks) /\ step' = "rest"
      /\ patch' = patch /\ fi' = fi /\ hi' = hi /\ trailer' = trailer /\ ti' = ti /\ out' = out
  BY DEF Emit!EndHunks, Emit!File, Written
<1>2. Len(Written.hunks) \in Nat /\ ti \in 1..(Len(trailer) + 1)
  BY <1>1, EntryFacts
<1>3. AtHunk(Above, Written, hi)
  BY <1>1 DEF EmitInv
<1>4. hi = Len(Written.hunks) + 1
  <2>1. PICK n : n = Len(Written.hunks)
    OBVIOUS
  <2>2. n \in Nat /\ hi \in 1..(n + 1) /\ hi > n
    BY <1>1, <1>2, <1>3, <2>1 DEF AtHunk
  <2>3. hi = n + 1
    BY ONLY <2>2
  <2>4. QED
    BY <2>1, <2>3
<1>5. Written' = Written /\ Above' = Above /\ Passed' = Passed
  BY <1>1 DEF Written, Above, Passed
<1>6. AtHunk(Above, Written, Len(Written.hunks) + 1)'
  BY <1>1, <1>3, <1>4, <1>5 DEF AtHunk
<1>7. QED
  BY <1>1, <1>2, <1>6, StaysInEntry

LEMMA CloseFileEmit == EmitInv /\ Emit!CloseFile => EmitInv'
<1> SUFFICES ASSUME EmitInv, Emit!CloseFile PROVE EmitInv'
  OBVIOUS
<1>1. /\ step = "rest" /\ step' = "file" /\ fi' = fi + 1 /\ patch' = patch
      /\ out' = out \o Lined(SubSeq(trailer, ti, Len(trailer)))
  BY DEF Emit!CloseFile, Emit!Write, Emit!LinesOf, Lined
<1>2. /\ fi \in 1..Len(patch.files) /\ Written \in TextEntry /\ Above \in Seq(OutLines)
      /\ Written.trailer \in Seq(Tags(OutLines)) /\ Len(Written.hunks) \in Nat
      /\ trailer = Up(Written.trailer, LastTag(Written.trailer))
      /\ trailer \in Seq(Tags(OutLines)) /\ ti - 1 \in 0..Len(trailer) /\ (ti - 1) + 1 = ti
  BY <1>1, EntryFacts
<1>3. AtHunk(Above, Written, Len(Written.hunks) + 1)
  BY <1>1 DEF EmitInv
<1>4. (Len(Written.hunks) + 1) - 1 = Len(Written.hunks)
  BY <1>2
<1>5. /\ Passed = Before(Written.trailer, Len(Written.hunks))
      /\ out = Start(Above, Written, Len(Written.hunks) + 1)
  BY <1>3, <1>4 DEF AtHunk
<1>6. PICK r : r = SubSeq(trailer, ti, Len(trailer))
  OBVIOUS
<1>7. Passed \o r = trailer /\ r \in Seq(Tags(OutLines))
  <2>1. /\ SubSeq(trailer, 1, ti - 1) \o SubSeq(trailer, (ti - 1) + 1, Len(trailer)) = trailer
        /\ SubSeq(trailer, (ti - 1) + 1, Len(trailer)) \in Seq(Tags(OutLines))
    BY <1>2, PassedAndRest
  <2>2. QED
    BY <1>2, <1>6, <2>1 DEF Passed
<1>8. Before(Written.trailer, Len(Written.hunks)) \o r = Up(Written.trailer, LastTag(Written.trailer))
  BY <1>2, <1>5, <1>7
<1>9. Lined(r) = Ends(Written)
  BY <1>2, <1>7, <1>8, RestIs DEF Ends
<1>10. out' = Above \o EntryText(Written)
  BY <1>1, <1>2, <1>5, <1>6, <1>9, StartOfEnd
<1>11. patch \in Diffs
  BY DEF EmitInv
<1>12. PICK fs : fs = patch.files
  OBVIOUS
<1>13. PICK pre : pre = patch.preamble
  OBVIOUS
<1>14. fs \in Seq(TextEntry) /\ pre \in Seq(OutLines) /\ Len(fs) \in Nat /\ fi \in 1..Len(fs)
  BY <1>2, <1>11, <1>12, <1>13, DiffIs
<1>15. PatchText(pre, SubSeq(fs, 1, fi)) = PatchText(pre, SubSeq(fs, 1, fi - 1)) \o EntryText(fs[fi])
  BY <1>14, OneMoreEntry
<1>16. Above \o EntryText(Written) = PatchText(pre, SubSeq(fs, 1, fi))
  BY <1>12, <1>13, <1>15 DEF Above, Written
<1>17. fi' \in 1..(Len(fs) + 1) /\ fi' - 1 = fi
  BY <1>1, <1>14
<1>18. Above' = PatchText(pre, SubSeq(fs, 1, fi))
  BY <1>1, <1>12, <1>13, <1>17 DEF Above
<1>19. QED
  BY <1>1, <1>10, <1>11, <1>12, <1>16, <1>17, <1>18 DEF EmitInv

LEMMA FinishEmit == EmitInv /\ Emit!Finish => EmitInv'
<1> SUFFICES ASSUME EmitInv, Emit!Finish PROVE EmitInv'
  OBVIOUS
<1>1. /\ step = "file" /\ fi > Len(patch.files) /\ step' = "done"
      /\ patch' = patch /\ fi' = fi /\ out' = out
  BY DEF Emit!Finish
<1>2. patch \in Diffs /\ fi \in 1..(Len(patch.files) + 1) /\ out = Above
  BY <1>1 DEF EmitInv
<1>3. Len(patch.files) \in Nat
  BY <1>2, DiffIs
<1>4. fi = Len(patch.files) + 1
  BY <1>1, <1>2, <1>3
<1>5. Above' = Above
  BY <1>1 DEF Above
<1>6. QED
  BY <1>1, <1>2, <1>4, <1>5 DEF EmitInv

LEMMA EmitStutter == EmitInv /\ UNCHANGED Emit!vars => EmitInv'
<1> SUFFICES ASSUME EmitInv, UNCHANGED Emit!vars PROVE EmitInv'
  OBVIOUS
<1>1. /\ patch' = patch /\ step' = step /\ fi' = fi /\ hi' = hi /\ trailer' = trailer
      /\ ti' = ti /\ out' = out
  BY DEF Emit!vars
<1>2. Written' = Written /\ Above' = Above /\ Passed' = Passed
  BY <1>1 DEF Written, Above, Passed
<1>3. QED
  BY <1>1, <1>2 DEF EmitInv, WithinEntry, AtHunk, BelowHunk

LEMMA EmitStep == EmitInv /\ [Emit!Next]_Emit!vars => EmitInv'
  BY PreambleEmit, OpenFileEmit, EmitHunkEmit, EmitTrailerEmit, NextHunkEmit, EndHunksEmit,
     CloseFileEmit, FinishEmit, EmitStutter DEF Emit!Next, Emit!Done

\* at the end all entries are above
LEMMA AllIsWritten == EmitInv => EmitsTheText
<1> SUFFICES ASSUME EmitInv, step = "done" PROVE out = PatchText(patch.preamble, patch.files)
  BY DEF EmitsTheText
<1>1. patch \in Diffs /\ fi = Len(patch.files) + 1 /\ out = Above
  BY DEF EmitInv
<1>2. patch.files \in Seq(TextEntry) /\ Len(patch.files) \in Nat
  BY <1>1, DiffIs
<1>3. fi - 1 = Len(patch.files)
  BY <1>1, <1>2
<1>4. SubSeq(patch.files, 1, fi - 1) = patch.files
  BY <1>2, <1>3, SubSeqFull
<1>5. QED
  BY <1>1, <1>4 DEF Above

-----------------------------------------------------------------------------
(* The theorems of writing.                                                  *)

(* EmitInv holds always: the cursor that is never set back misses no line   *)
(* and writes none twice (src/emit.rs, emit_trailer_upto).                  *)
THEOREM EmitInvariance == Emit!Spec => []EmitInv
<1>1. Emit!Init => EmitInv
  BY InitEmit
<1>2. EmitInv /\ [Emit!Next]_Emit!vars => EmitInv'
  BY EmitStep
<1>3. QED
  BY <1>1, <1>2, PTL DEF Emit!Spec

(* EmitsTheText: of every diff, with trailer lines in any order and tagged  *)
(* anywhere, every line is written once, in its place (src/emit.rs, emit).  *)
THEOREM EmittingWritesTheText == Emit!Spec => []EmitsTheText
  BY EmitInvariance, AllIsWritten, PTL

\* the diff read so far
AsRead(cropped) == [preamble |-> preamble, files |-> Patch, cropped |-> cropped]

LEMMA ReadIsADiff ==
  ASSUME IInv, NEW cropped \in BOOLEAN
  PROVE  AsRead(cropped) \in Diffs
<1>1. Patch \in Seq(Entry) /\ (\A i \in DOMAIN Patch : KeptInPlace(Patch[i])) /\ preamble \in Lines
  BY EntryIsDone DEF Patch, EntryInv, IInv, StateInv, TypeOK
<1>2. Patch \in Seq(TextEntry)
  <2>1. Entry \subseteq TextEntry
    BY EntryIsText
  <2>2. QED
    BY <1>1, <2>1, SeqMonotonic
<1>3. preamble \in Seq(OutLines)
  BY <1>1, LinesAreOutLines
<1>4. \A k \in DOMAIN Patch : IsBinary(Patch[k]) => Patch[k].hunks = <<>>
  BY <1>1 DEF KeptInPlace
<1>5. QED
  BY <1>2, <1>3, <1>4 DEF Diffs, AsRead

(* Whatever is read is a diff that EmittingWritesTheText is about: with     *)
(* ParsingKeepsTheText, what is parsed and written again is what was read   *)
(* (src/parser.rs, parse; src/emit.rs, emit).                               *)
THEOREM ParsedIsADiff == Spec => [](\A cropped \in BOOLEAN : AsRead(cropped) \in Diffs)
<1>1. IInv => \A cropped \in BOOLEAN : AsRead(cropped) \in Diffs
  BY ReadIsADiff
<1>2. QED
  BY <1>1, ParseInvariance, PTL
=============================================================================

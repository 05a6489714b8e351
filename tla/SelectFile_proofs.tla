------------------------- MODULE SelectFile_proofs -------------------------
(***************************************************************************)
(* Proofs about SelectFile, for every entry, every u32 bound and every     *)
(* pick: IInv is inductive, and the properties of select follow from it;   *)
(* with the files the entry is the diff of, MInv is, and a selection makes  *)
(* the changes picked and no other.                                         *)
(***************************************************************************)
EXTENDS SelectMeaning, ResultDiff_proofs

LEMMA InitInv == Init => IInv
<1> SUFFICES ASSUME Init
             PROVE  IInv
  OBVIOUS
<1> USE DEF Init, LoopInit
<1>1. entry.hunks \in Seq(Hunk)
  BY EntriesAssumption
<1>2. LoopInv
  BY <1>1, LoopBegins
<1>3. TypeOK
  BY <1>1, <1>2, EntriesAssumption DEF TypeOK, Steps, LoopInv
<1>4. UntouchedInv /\ CutInv /\ SplitInv /\ PickInv /\ SliceInv /\ FixInv
  BY DEF UntouchedInv, CutInv, SplitInv, PickInv, SliceInv, FixInv, At
<1>5. QED
  BY <1>2, <1>3, <1>4 DEF IInv

(* The loops of ResultDiff leave nothing cut.                              *)
LEMMA LoopNextInv == IInv /\ LoopNext /\ UNCHANGED <<entry, cutting>> => IInv'
<1> SUFFICES ASSUME IInv, LoopNext, UNCHANGED <<entry, cutting>>
             PROVE  IInv'
  OBVIOUS
<1>1. LoopInv'
  BY LoopStep DEF IInv
<1>2. UNCHANGED <<entry, step, hi, run, subs, k, lineSet, li, body, fixed, out, picked>>
  BY DEF cutting
<1>3. phase # "cut" /\ (phase' \in {"input", "cut"} => phase = "input")
  BY DEF LoopNext, AcceptHunk, RejectHunk, EndCheck, RenumberHunk, EndRenumber, Checking
<1>4. TypeOK'
  BY <1>1, <1>2 DEF IInv, TypeOK, LoopInv
<1>5. UntouchedInv'
  BY <1>2, <1>3 DEF IInv, UntouchedInv
<1>6. CASE phase' # "cut"
  BY <1>1, <1>4, <1>5, <1>6 DEF IInv, CutInv, SplitInv, PickInv, SliceInv, FixInv, At
<1>7. CASE phase' = "cut"
  <2>1. step = "split" /\ hi = 1 /\ run = 0 /\ k = 1 /\ subs = <<>> /\ out = <<>>
    BY <1>3, <1>7 DEF IInv, UntouchedInv
  <2>2. CutInv'
    BY <1>2, <2>1 DEF CutInv, AllSound, Tidy
  <2>3. SplitInv'
    BY <1>1, <1>2, <2>1 DEF SplitInv, LoopInv, LoopTypeOK
  <2>4. PickInv' /\ SliceInv' /\ FixInv'
    BY <1>2, <2>1 DEF PickInv, SliceInv, FixInv, At
  <2>5. QED
    BY <1>1, <1>4, <1>5, <2>2, <2>3, <2>4 DEF IInv
<1>8. QED
  BY <1>6, <1>7

-----------------------------------------------------------------------------
(* Cutting the hunks into pieces.                                           *)

(* Inside phase "cut" nothing touches what the loops left.                 *)
LEMMA CutKeepsLoops ==
  IInv /\ phase = "cut" /\ UNCHANGED <<loop, entry>> => LoopInv' /\ UntouchedInv'
BY LoopRests DEF IInv, loop, UntouchedInv

(* A body has finitely many runs.                                          *)
LEMMA RunsAreFinite ==
  ASSUME NEW ls \in Seq(Line)
  PROVE  IsFiniteSet(RunStarts(ls)) /\ Cardinality(RunStarts(ls)) \in Nat
<1>1. IsFiniteSet(1..Len(ls))
  BY FS_Interval
<1>2. RunStarts(ls) \in SUBSET (1..Len(ls))
  BY DEF RunStarts
<1>3. IsFiniteSet(RunStarts(ls))
  BY <1>1, <1>2, FS_Subset
<1>4. QED
  BY <1>3, FS_CardinalityType

LEMMA KeepHunkInv == IInv /\ KeepHunk => IInv'
<1> SUFFICES ASSUME IInv, KeepHunk
             PROVE  IInv'
  OBVIOUS
<1> USE DEF IInv
<1> DEFINE h == hunks[hi]
<1>1. /\ phase = "cut" /\ step = "split" /\ At("split")
      /\ hi \in Nat \ {0} /\ hi <= Len(hunks) /\ hi' = hi + 1
      /\ hunks \in Seq(Hunk) /\ h \in Hunk /\ hi \in DOMAIN hunks
      /\ DOMAIN hunks = 1..Len(hunks)
      /\ subs \in Seq(Hunk) /\ subs' = Append(subs, h)
  BY DEF TypeOK, LoopTypeOK, KeepHunk, At
<1>2. /\ UNCHANGED <<phase, hunks, at, delta, oldEnd, newEnd, fault, shifts>>
      /\ UNCHANGED <<entry, step, run, k, lineSet, li, body, fixed, out, picked>>
  BY DEF KeepHunk, loop
<1>3. run = 0
  <2>1. h.lines \in Seq(Line)
    BY <1>1 DEF Hunk
  <2>2. Cardinality(RunStarts(h.lines)) \in Nat
    BY <2>1, RunsAreFinite
  <2>3. Cardinality(RunStarts(h.lines)) <= 1
    BY DEF KeepHunk
  <2>4. run # 0 => Cardinality(RunStarts(h.lines)) > 1
    BY <1>1 DEF SplitInv
  <2>5. QED
    BY <2>2, <2>3, <2>4
<1>4. LoopInv' /\ UntouchedInv'
  BY <1>1, <1>2, CutKeepsLoops DEF loop
<1>5. TypeOK'
  BY <1>1, <1>2 DEF TypeOK, LoopTypeOK
<1>6. AllSound(hunks) /\ Sound(h) /\ AllSound(subs')
  <2>1. AllSound(hunks) /\ Sound(h) /\ AllSound(subs)
    BY <1>1 DEF CutInv, LoopInv, AcceptedInv, AllSound
  <2>2. QED
    BY <1>1, <2>1, AppendSound
<1>7. \A ls : CountIn(ls, OldSide, 1, 0) = 0
  BY CountInType
<1>8. PieceFrom = 1 /\ PieceFrom - 1 = 0 /\ PieceFrom' = 1 /\ (PieceFrom - 1)' = 0
  BY <1>2, <1>3 DEF PieceFrom
<1>9. Real => Tidy(subs')
  <2>1. SUFFICES ASSUME Real
                 PROVE  Tidy(subs')
    OBVIOUS
  <2>2. Tidy(hunks) /\ Tidy(subs)
    BY <1>1, <2>1 DEF CutInv, LoopInv, AcceptedInv
  <2>3. OldAt(h) >= 1 /\ OldEnd(h) <= MaxU32 /\ OldAt(h) \in Nat
    BY <1>1, <2>2, Positions DEF Tidy
  <2>4. subs # <<>> => OldEnd(subs[Len(subs)]) <= OldAt(h)
    <3>1. subs # <<>> => OldEnd(subs[Len(subs)]) <= OldAt(h) + CountIn(h.lines, OldSide, 1, PieceFrom - 1)
      BY <1>1, <2>1 DEF SplitInv
    <3>2. CountIn(h.lines, OldSide, 1, PieceFrom - 1) = 0
      BY <1>7, <1>8
    <3>3. QED
      BY <2>3, <3>1, <3>2
  <2>5. QED
    BY <1>1, <1>6, <2>2, <2>3, <2>4, AppendTidy
<1>10. CutInv'
  BY <1>1, <1>2, <1>6, <1>9 DEF CutInv, LoopInv, AcceptedInv, Real, AllSound
<1>11. SplitInv'
  <2>1. hi' <= Len(hunks') + 1 /\ k' = 1 /\ out' = <<>> /\ run' = 0
    BY <1>1, <1>2, <1>3 DEF SplitInv
  <2>2. ASSUME Real, hi' <= Len(hunks)
        PROVE  OldEnd(subs'[Len(subs')])
                 <= OldAt(hunks[hi']) + CountIn(hunks[hi'].lines, OldSide, 1, 0)
    <3>1. subs'[Len(subs')] = h
      BY <1>1
    <3>2. hi' \in DOMAIN hunks /\ hi' > 1 /\ hi' - 1 = hi /\ hunks[hi'] \in Hunk
      BY <1>1, <2>2
    <3>3. OldEnd(h) <= OldAt(hunks[hi'])
      BY <1>1, <2>2, <3>2 DEF CutInv, LoopInv, AcceptedInv, Tidy
    <3>4. OldAt(hunks[hi']) \in Nat
      BY <3>2, Positions
    <3>5. CountIn(hunks[hi'].lines, OldSide, 1, 0) = 0
      BY <1>7
    <3>6. QED
      BY <3>1, <3>3, <3>4, <3>5
  <2>3. QED
    BY <1>2, <1>8, <2>1, <2>2 DEF SplitInv, Real
<1>12. PickInv' /\ SliceInv' /\ FixInv'
  BY <1>1, <1>2 DEF PickInv, SliceInv, FixInv, At
<1>13. QED
  BY <1>4, <1>5, <1>10, <1>11, <1>12

(* A run of changes that does not begin the hunk has context above it.     *)
LEMMA RunHasContextAbove ==
  ASSUME NEW ls \in Seq(Line), NEW r \in RunStarts(ls)
  PROVE  /\ r \in Nat \ {0} /\ r <= Len(ls) /\ ls[r].kind \in Changes
         /\ r > 1 => \A to \in Nat : r - 1 <= to => CountIn(ls, OldSide, 1, to) > 0
<1>1. /\ r \in Nat \ {0} /\ r <= Len(ls) /\ ls[r].kind \in Changes
      /\ r = 1 \/ ls[r - 1].kind \notin Changes
  BY DEF RunStarts
<1>2. ASSUME r > 1, NEW to \in Nat, r - 1 <= to
      PROVE  CountIn(ls, OldSide, 1, to) > 0
  <2>1. r - 1 \in 1..Len(ls) /\ r - 1 \in 1..to /\ ls[r - 1].kind \notin Changes
    BY <1>1, <1>2
  <2>2. ls[r - 1].kind \in Kinds
    <3>1. ls[r - 1] \in Line
      BY <2>1
    <3>2. QED
      BY <3>1 DEF Line
  <2>3. ls[r - 1].kind \in OldSide
    BY <2>1, <2>2 DEF Kinds, OldSide, Changes
  <2>4. QED
    BY <2>1, <2>3, CountInPositive
<1>3. QED
  BY <1>1, <1>2

(* Where the next piece begins, and the run of changes it holds.           *)
LEMMA PieceBegins ==
  ASSUME IInv, At("split"), hi <= Len(hunks), Cardinality(RunStarts(hunks[hi].lines)) > 1
  PROVE  LET h == hunks[hi]
         IN  /\ h \in Hunk /\ h.lines \in Seq(Line) /\ hi \in DOMAIN hunks /\ Sound(h)
             /\ Real => OldAt(h) >= 1 /\ OldEnd(h) <= MaxU32
             /\ RunStarts(h.lines) \subseteq Nat /\ RunStarts(h.lines) # {}
             /\ ThisRun \in RunStarts(h.lines) /\ ThisRun \in Nat /\ ThisRun <= Len(h.lines)
             /\ h.lines[ThisRun].kind \in Changes
             /\ PieceFrom \in Nat \ {0} /\ PieceFrom <= ThisRun
             /\ run # 0 => ThisRun = run /\ run > 1
             /\ run = 0 => \A r \in RunStarts(h.lines) : ThisRun <= r
<1> USE DEF IInv
<1> DEFINE h == hunks[hi]
           R == RunStarts(h.lines)
<1>1. h \in Hunk /\ hi \in DOMAIN hunks /\ run \in Nat /\ phase = "cut"
  BY DEF TypeOK, LoopTypeOK, At
<1>2. h.lines \in Seq(Line)
  BY <1>1 DEF Hunk
<1>3. Sound(h) /\ (Real => OldAt(h) >= 1 /\ OldEnd(h) <= MaxU32)
  BY <1>1 DEF CutInv, LoopInv, AcceptedInv, AllSound, Tidy
<1>4. R \subseteq Nat
  BY <1>2 DEF RunStarts
<1>5. R # {}
  <2>1. Cardinality(R) > 1
    OBVIOUS
  <2>2. ASSUME R = {}
        PROVE  Cardinality(R) = 0
    BY <2>2, FS_EmptySet
  <2>3. QED
    BY <2>1, <2>2
<1>6. CASE run = 0
  <2>1. ThisRun = Min(R) /\ PieceFrom = 1
    BY <1>6 DEF ThisRun, PieceFrom
  <2>2. ThisRun \in R /\ \A r \in R : ThisRun <= r
    BY <1>4, <1>5, <2>1, MinIsLeast
  <2>3. QED
    BY <1>1, <1>2, <1>3, <1>4, <1>5, <1>6, <2>1, <2>2, RunHasContextAbove
<1>7. CASE run # 0
  <2>1. ThisRun = run /\ PieceFrom = run /\ run > 1 /\ run \in R
    BY <1>7 DEF ThisRun, PieceFrom, SplitInv
  <2>2. QED
    BY <1>1, <1>2, <1>3, <1>4, <1>5, <1>7, <2>1, RunHasContextAbove
<1>8. QED
  BY <1>6, <1>7

(* A piece that reaches down to `to` is sound, stands below the pieces     *)
(* before it, and ends where the old lines of the hunk down to `to` do.    *)
LEMMA AddPiece ==
  ASSUME IInv, At("split"), hi <= Len(hunks), Cardinality(RunStarts(hunks[hi].lines)) > 1,
         NEW to \in Nat, ThisRun <= to, to <= Len(hunks[hi].lines),
         CountIn(hunks[hi].lines, OldSide, 1, to) > 0
  PROVE  LET h == hunks[hi]
             p == RebuildSubhunk(h, PieceFrom, to)
         IN  /\ p \in Hunk
             /\ AllSound(Append(subs, p))
             /\ Real => /\ Tidy(Append(subs, p))
                        /\ OldEnd(p) = OldAt(h) + CountIn(h.lines, OldSide, 1, to)
                        /\ OldEnd(p) <= OldEnd(h)
<1> USE DEF IInv
<1> DEFINE h == hunks[hi]
           p == RebuildSubhunk(h, PieceFrom, to)
<1>1. /\ h \in Hunk /\ Sound(h) /\ ThisRun \in Nat /\ h.lines[ThisRun].kind \in Changes
      /\ PieceFrom \in Nat \ {0} /\ PieceFrom <= ThisRun
      /\ Real => OldAt(h) >= 1 /\ OldEnd(h) <= MaxU32
  BY PieceBegins
<1>2. /\ phase = "cut" /\ subs \in Seq(Hunk) /\ AllSound(subs)
  BY DEF TypeOK, LoopTypeOK, At, CutInv, LoopInv, AcceptedInv
<1>3. CountIn(h.lines, Changes, PieceFrom, to) > 0
  <2>1. ThisRun \in PieceFrom..to
    BY <1>1
  <2>2. QED
    BY <1>1, <2>1, CountInPositive
<1>4. PieceFrom <= to
  BY <1>1
<1>5. p \in Hunk /\ Sound(p)
  BY <1>1, <1>3, <1>4, PieceIsSound
<1>6. ASSUME Real
      PROVE  /\ Tidy(Append(subs, p))
             /\ OldEnd(p) = OldAt(h) + CountIn(h.lines, OldSide, 1, to)
             /\ OldEnd(p) <= OldEnd(h)
  <2>1. /\ OldAt(p) = OldAt(h) + CountIn(h.lines, OldSide, 1, PieceFrom - 1)
        /\ OldEnd(p) = OldAt(h) + CountIn(h.lines, OldSide, 1, to)
        /\ OldEnd(p) <= OldEnd(h)
    BY <1>1, <1>4, <1>6, PieceStands
  <2>2. CountIn(h.lines, OldSide, 1, PieceFrom - 1) \in Nat
    BY <1>1, CountInType
  <2>3. OldAt(h) \in Nat /\ OldEnd(h) \in Nat /\ OldEnd(p) \in Nat
    BY <1>1, <1>5, Positions
  <2>4. OldAt(p) >= 1 /\ OldEnd(p) <= MaxU32
    BY <1>1, <1>6, <2>1, <2>2, <2>3, MaxU32Assumption
  <2>5. subs # <<>> => OldEnd(subs[Len(subs)]) <= OldAt(p)
    BY <1>6, <2>1 DEF SplitInv
  <2>6. Tidy(subs)
    BY <1>2, <1>6 DEF CutInv, LoopInv, AcceptedInv
  <2>7. QED
    BY <1>2, <1>5, <2>1, <2>4, <2>5, <2>6, AppendTidy
<1>7. AllSound(Append(subs, p))
  BY <1>2, <1>5, AppendSound
<1>8. QED
  BY <1>5, <1>6, <1>7

LEMMA SplitInnerInv == IInv /\ SplitInner => IInv'
<1> SUFFICES ASSUME IInv, SplitInner
             PROVE  IInv'
  OBVIOUS
<1> DEFINE h == hunks[hi]
           m == Min(LaterRuns)
           p == RebuildSubhunk(h, PieceFrom, m - 1)
<1>1. /\ phase = "cut" /\ step = "split" /\ At("split") /\ hi <= Len(hunks)
      /\ Cardinality(RunStarts(h.lines)) > 1 /\ LaterRuns # {}
      /\ subs' = Append(subs, p) /\ run' = m
  BY DEF SplitInner, At
<1>2. /\ UNCHANGED <<phase, hunks, at, delta, oldEnd, newEnd, fault, shifts>>
      /\ UNCHANGED <<entry, step, hi, k, lineSet, li, body, fixed, out, picked>>
  BY DEF SplitInner, loop
<1>3. TypeOK /\ LoopInv /\ CutInv /\ SplitInv /\ subs \in Seq(Hunk) /\ hi \in Nat \ {0}
  BY DEF IInv, TypeOK, LoopTypeOK
<1>4. /\ h \in Hunk /\ h.lines \in Seq(Line) /\ hi \in DOMAIN hunks
      /\ RunStarts(h.lines) \subseteq Nat /\ ThisRun \in Nat
  BY <1>1, PieceBegins
<1>5. /\ m \in RunStarts(h.lines) /\ m > ThisRun /\ m \in Nat
  <2>1. LaterRuns \subseteq Nat
    BY <1>4 DEF LaterRuns
  <2>2. m \in LaterRuns
    BY <1>1, <2>1, MinIsLeast
  <2>3. QED
    BY <1>4, <2>2 DEF LaterRuns
<1>6. m > 1 /\ m - 1 \in Nat /\ ThisRun <= m - 1 /\ m - 1 <= Len(h.lines) /\ ThisRun # 0
  <2>1. ThisRun \in RunStarts(h.lines)
    BY <1>1, PieceBegins
  <2>2. ThisRun # 0 /\ m <= Len(h.lines)
    BY <1>4, <1>5, <2>1, RunHasContextAbove
  <2>3. QED
    BY <1>4, <1>5, <2>2
<1>7. CountIn(h.lines, OldSide, 1, m - 1) > 0
  BY <1>4, <1>5, <1>6, RunHasContextAbove
<1>8. /\ p \in Hunk /\ AllSound(subs')
      /\ Real => Tidy(subs') /\ OldEnd(p) = OldAt(h) + CountIn(h.lines, OldSide, 1, m - 1)
  <2>1. /\ p \in Hunk /\ AllSound(Append(subs, p))
        /\ Real => /\ Tidy(Append(subs, p))
                   /\ OldEnd(p) = OldAt(h) + CountIn(h.lines, OldSide, 1, m - 1)
    BY <1>1, <1>6, <1>7, AddPiece
  <2>2. QED
    BY <1>1, <2>1
<1>9. /\ subs' \in Seq(Hunk) /\ subs'[Len(subs')] = p
  BY <1>1, <1>3, <1>8
<1> HIDE DEF p, m
<1>10. TypeOK'
  BY <1>1, <1>2, <1>3, <1>5, <1>9 DEF TypeOK, LoopTypeOK
<1>11. LoopInv' /\ UntouchedInv'
  BY <1>1, <1>2, CutKeepsLoops DEF loop
<1>12. CutInv'
  BY <1>1, <1>2, <1>3, <1>8 DEF CutInv, LoopInv, AcceptedInv, Real, AllSound
<1>13. SplitInv'
  <2>1. (PieceFrom)' = m /\ run' # 0
    BY <1>1, <1>6 DEF PieceFrom
  <2>2. Real => OldEnd(p) <= OldAt(h) + CountIn(h.lines, OldSide, 1, m - 1)
    <3>1. OldEnd(p) \in Nat
      BY <1>8, Positions
    <3>2. QED
      BY <1>8, <3>1
  <2>3. hi <= Len(hunks) + 1
    BY <1>1, <1>3 DEF SplitInv
  <2>4. QED
    BY <1>1, <1>2, <1>3, <1>5, <1>6, <1>9, <2>1, <2>2, <2>3 DEF SplitInv, Real
<1>14. PickInv' /\ SliceInv' /\ FixInv'
  BY <1>1, <1>2 DEF PickInv, SliceInv, FixInv, At
<1>15. QED
  BY <1>10, <1>11, <1>12, <1>13, <1>14 DEF IInv

LEMMA SplitLastInv == IInv /\ SplitLast => IInv'
<1> SUFFICES ASSUME IInv, SplitLast
             PROVE  IInv'
  OBVIOUS
<1> DEFINE h == hunks[hi]
           n == Len(h.lines)
           p == RebuildSubhunk(h, PieceFrom, n)
<1>1. /\ phase = "cut" /\ step = "split" /\ At("split") /\ hi <= Len(hunks)
      /\ Cardinality(RunStarts(h.lines)) > 1 /\ LaterRuns = {}
      /\ subs' = Append(subs, p) /\ run' = 0 /\ hi' = hi + 1
  BY DEF SplitLast, At
<1>2. /\ UNCHANGED <<phase, hunks, at, delta, oldEnd, newEnd, fault, shifts>>
      /\ UNCHANGED <<entry, step, k, lineSet, li, body, fixed, out, picked>>
  BY DEF SplitLast, loop
<1>3. /\ TypeOK /\ LoopInv /\ CutInv /\ SplitInv /\ subs \in Seq(Hunk) /\ hi \in Nat \ {0}
      /\ hunks \in Seq(Hunk) /\ DOMAIN hunks = 1..Len(hunks)
  BY DEF IInv, TypeOK, LoopTypeOK
<1>4. /\ h \in Hunk /\ h.lines \in Seq(Line) /\ hi \in DOMAIN hunks
      /\ RunStarts(h.lines) \subseteq Nat /\ ThisRun \in RunStarts(h.lines)
      /\ ThisRun \in Nat /\ ThisRun <= Len(h.lines)
      /\ run # 0 => ThisRun = run /\ run > 1
      /\ run = 0 => \A r \in RunStarts(h.lines) : ThisRun <= r
  BY <1>1, PieceBegins
<1>5. run # 0
  <2>1. SUFFICES ASSUME run = 0
                 PROVE  FALSE
    OBVIOUS
  <2>2. \A r \in RunStarts(h.lines) : r = ThisRun
    BY <1>1, <1>4, <2>1 DEF LaterRuns
  <2>3. RunStarts(h.lines) = {ThisRun}
    BY <1>4, <2>2
  <2>4. Cardinality(RunStarts(h.lines)) = 1
    BY <2>3, FS_Singleton
  <2>5. QED
    BY <1>1, <2>4
<1>6. n \in Nat /\ ThisRun <= n /\ n <= Len(h.lines) /\ ThisRun > 1 /\ ThisRun - 1 <= n
  BY <1>4, <1>5
<1>7. CountIn(h.lines, OldSide, 1, n) > 0
  BY <1>4, <1>6, RunHasContextAbove
<1>8. /\ p \in Hunk /\ AllSound(subs')
      /\ Real => Tidy(subs') /\ OldEnd(p) <= OldEnd(h)
  <2>1. /\ p \in Hunk /\ AllSound(Append(subs, p))
        /\ Real => Tidy(Append(subs, p)) /\ OldEnd(p) <= OldEnd(h)
    BY <1>1, <1>6, <1>7, AddPiece
  <2>2. QED
    BY <1>1, <2>1
<1>9. /\ subs' \in Seq(Hunk) /\ subs'[Len(subs')] = p
  BY <1>1, <1>3, <1>8
<1> HIDE DEF p, n
<1>10. TypeOK'
  BY <1>1, <1>2, <1>3, <1>9 DEF TypeOK, LoopTypeOK
<1>11. LoopInv' /\ UntouchedInv'
  BY <1>1, <1>2, CutKeepsLoops DEF loop
<1>12. CutInv'
  BY <1>1, <1>2, <1>3, <1>8 DEF CutInv, LoopInv, AcceptedInv, Real, AllSound
<1>13. SplitInv'
  <2>1. (PieceFrom - 1)' = 0 /\ hi' <= Len(hunks) + 1
    BY <1>1, <1>3 DEF PieceFrom
  <2>2. ASSUME Real, hi' <= Len(hunks)
        PROVE  OldEnd(p) <= OldAt(hunks[hi']) + CountIn(hunks[hi'].lines, OldSide, 1, 0)
    <3>1. hi' \in DOMAIN hunks /\ hi' > 1 /\ hi' - 1 = hi /\ hunks[hi'] \in Hunk
      BY <1>1, <1>3, <2>2
    <3>2. OldEnd(h) <= OldAt(hunks[hi'])
      BY <1>1, <1>3, <2>2, <3>1 DEF CutInv, LoopInv, AcceptedInv, Tidy
    <3>3. OldAt(hunks[hi']) \in Nat /\ OldEnd(p) \in Nat /\ OldEnd(h) \in Nat
      BY <1>4, <1>8, <3>1, Positions
    <3>4. CountIn(hunks[hi'].lines, OldSide, 1, 0) = 0
      BY CountInType
    <3>5. QED
      BY <1>8, <2>2, <3>2, <3>3, <3>4
  <2>3. QED
    BY <1>1, <1>2, <1>3, <1>9, <2>1, <2>2 DEF SplitInv, Real
<1>14. PickInv' /\ SliceInv' /\ FixInv'
  BY <1>1, <1>2 DEF PickInv, SliceInv, FixInv, At
<1>15. QED
  BY <1>10, <1>11, <1>12, <1>13, <1>14 DEF IInv

LEMMA EndSplitInv == IInv /\ EndSplit => IInv'
<1> SUFFICES ASSUME IInv, EndSplit
             PROVE  IInv'
  OBVIOUS
<1>1. /\ phase = "cut" /\ step = "split" /\ At("split") /\ step' = "pick"
      /\ UNCHANGED <<phase, hunks, at, delta, oldEnd, newEnd, fault, shifts>>
      /\ UNCHANGED <<entry, hi, run, subs, k, lineSet, li, body, fixed, out, picked>>
  BY DEF EndSplit, At, loop
<1>2. TypeOK /\ LoopInv /\ CutInv /\ k = 1 /\ out = <<>> /\ subs \in Seq(Hunk)
  BY <1>1 DEF IInv, TypeOK, LoopTypeOK, SplitInv
<1>3. TypeOK' /\ CutInv'
  BY <1>1, <1>2 DEF TypeOK, LoopTypeOK, CutInv, LoopInv, AcceptedInv, Real, AllSound, Steps
<1>4. LoopInv' /\ UntouchedInv'
  BY <1>1, CutKeepsLoops DEF loop
<1>5. SplitInv' /\ PickInv' /\ SliceInv' /\ FixInv'
  BY <1>1, <1>2 DEF SplitInv, PickInv, SliceInv, FixInv, At
<1>6. QED
  BY <1>3, <1>4, <1>5 DEF IInv

-----------------------------------------------------------------------------
(* Picking sub-hunks.                                                       *)

(* The next sub-hunk stands below everything picked.                       *)
LEMMA PickedAbove ==
  ASSUME IInv, phase = "cut", step # "split", k <= Len(subs)
  PROVE  /\ subs[k] \in Hunk /\ k \in DOMAIN subs /\ Sound(subs[k])
         /\ Real => /\ OldAt(subs[k]) >= 1 /\ OldEnd(subs[k]) <= MaxU32
                    /\ out # <<>> => OldEnd(out[Len(out)]) <= OldAt(subs[k])
<1> USE DEF IInv
<1>1. /\ subs \in Seq(Hunk) /\ k \in Nat \ {0} /\ DOMAIN subs = 1..Len(subs)
      /\ out \in Seq(Hunk) /\ k \in DOMAIN subs /\ subs[k] \in Hunk
  BY DEF TypeOK, LoopTypeOK
<1>2. Sound(subs[k])
  BY <1>1 DEF CutInv, LoopInv, AcceptedInv, AllSound
<1>3. ASSUME Real
      PROVE  OldAt(subs[k]) >= 1 /\ OldEnd(subs[k]) <= MaxU32 /\ Tidy(subs)
  BY <1>1, <1>3 DEF CutInv, LoopInv, AcceptedInv, Tidy
<1>4. ASSUME Real, out # <<>>
      PROVE  OldEnd(out[Len(out)]) <= OldAt(subs[k])
  <2>1. k > 1 /\ OldEnd(out[Len(out)]) <= OldEnd(subs[k - 1])
    BY <1>4 DEF PickInv
  <2>2. OldEnd(subs[k - 1]) <= OldAt(subs[k])
    BY <1>1, <1>3, <1>4, <2>1 DEF Tidy
  <2>3. /\ OldEnd(out[Len(out)]) \in Nat /\ OldEnd(subs[k - 1]) \in Nat
        /\ OldAt(subs[k]) \in Nat
    <3>1. out[Len(out)] \in Hunk /\ subs[k - 1] \in Hunk
      BY <1>1, <1>4, <2>1
    <3>2. QED
      BY <1>1, <3>1, Positions
  <2>4. QED
    BY <2>1, <2>2, <2>3
<1>5. QED
  BY <1>1, <1>2, <1>3, <1>4

(* A hunk that stands where sub-hunk k does extends the selection.         *)
LEMMA TakeHunk ==
  ASSUME IInv, phase = "cut", step # "split", k <= Len(subs),
         NEW h \in Hunk, Sound(h), OldAt(h) = OldAt(subs[k]), OldEnd(h) = OldEnd(subs[k])
  PROVE  /\ Append(out, h) \in Seq(Hunk)
         /\ AllSound(Append(out, h))
         /\ Real => Tidy(Append(out, h))
<1> USE DEF IInv
<1>1. out \in Seq(Hunk) /\ AllSound(out)
  BY DEF TypeOK, LoopTypeOK, CutInv, LoopInv, AcceptedInv
<1>2. AllSound(Append(out, h))
  BY <1>1, AppendSound
<1>3. ASSUME Real
      PROVE  Tidy(Append(out, h))
  <2>1. Tidy(out)
    BY <1>3 DEF CutInv, LoopInv, AcceptedInv
  <2>2. /\ OldAt(h) >= 1 /\ OldEnd(h) <= MaxU32
        /\ out # <<>> => OldEnd(out[Len(out)]) <= OldAt(h)
    BY <1>3, PickedAbove
  <2>3. QED
    BY <1>1, <2>1, <2>2, AppendTidy
<1>4. QED
  BY <1>1, <1>2, <1>3

LEMMA PassByInv == IInv /\ PassBy => IInv'
<1> SUFFICES ASSUME IInv, PassBy
             PROVE  IInv'
  OBVIOUS
<1>1. /\ phase = "cut" /\ step = "pick" /\ step # "split" /\ k <= Len(subs)
      /\ picked' = Append(picked, {}) /\ k' = k + 1
      /\ UNCHANGED <<phase, hunks, at, delta, oldEnd, newEnd, fault, shifts>>
      /\ UNCHANGED <<entry, step, hi, run, subs, lineSet, li, body, fixed, out>>
  BY DEF PassBy, At, loop
<1>2. TypeOK /\ LoopInv /\ CutInv /\ PickInv /\ k \in Nat \ {0} /\ subs \in Seq(Hunk)
  BY DEF IInv, TypeOK, LoopTypeOK
<1>3. TypeOK'
  <2>1. picked' \in Seq(SUBSET Nat)
    BY <1>1 DEF IInv, TypeOK, LoopTypeOK
  <2>2. QED
    BY <1>1, <1>2, <2>1 DEF TypeOK, LoopTypeOK
<1>4. CutInv'
  BY <1>1, <1>2 DEF CutInv, LoopInv, AcceptedInv, Real, AllSound
<1>5. LoopInv' /\ UntouchedInv'
  BY <1>1, CutKeepsLoops DEF loop
<1>6. PickInv'
  <2>1. ASSUME Real, out # <<>>
        PROVE  OldEnd(out[Len(out)]) <= OldEnd(subs[k])
    <3>1. subs[k] \in Hunk /\ OldEnd(out[Len(out)]) <= OldAt(subs[k])
      BY <1>1, <2>1, PickedAbove
    <3>2. out[Len(out)] \in Hunk
      BY <2>1 DEF IInv, TypeOK, LoopTypeOK
    <3>3. /\ OldEnd(out[Len(out)]) \in Nat /\ OldAt(subs[k]) \in Nat
          /\ OldEnd(subs[k]) \in Nat /\ OldAt(subs[k]) <= OldEnd(subs[k])
      BY <3>1, <3>2, Positions
    <3>4. QED
      BY <3>1, <3>3
  <2>2. k' - 1 = k /\ k' > 1 /\ k' <= Len(subs) + 1
    BY <1>1, <1>2
  <2>3. QED
    BY <1>1, <2>1, <2>2 DEF PickInv, Real
<1>7. SplitInv' /\ SliceInv' /\ FixInv'
  BY <1>1 DEF SplitInv, SliceInv, FixInv, At
<1>8. QED
  BY <1>3, <1>4, <1>5, <1>6, <1>7 DEF IInv

(* What taking a hunk in the place of sub-hunk k does to the invariant.    *)
LEMMA TakeInv ==
  ASSUME IInv, phase = "cut", step # "split", k <= Len(subs),
         NEW h \in Hunk, Sound(h), OldAt(h) = OldAt(subs[k]), OldEnd(h) = OldEnd(subs[k]),
         NEW set \in SUBSET Nat, lineSet' \in SUBSET Nat,
         out' = Append(out, h), picked' = Append(picked, set), k' = k + 1, step' = "pick",
         UNCHANGED <<phase, hunks, at, delta, oldEnd, newEnd, fault, shifts>>,
         UNCHANGED <<entry, hi, run, subs, li, body, fixed>>
  PROVE  IInv'
<1>1. /\ Append(out, h) \in Seq(Hunk) /\ AllSound(Append(out, h))
      /\ Real => Tidy(Append(out, h))
  BY TakeHunk
<1>2. TypeOK /\ LoopInv /\ CutInv /\ PickInv /\ k \in Nat \ {0} /\ out \in Seq(Hunk)
  BY DEF IInv, TypeOK, LoopTypeOK
<1>3. TypeOK'
  <2>1. picked' \in Seq(SUBSET Nat) /\ out' \in Seq(Hunk) /\ k' \in Nat \ {0} /\ step' \in Steps
    BY <1>1, <1>2 DEF TypeOK, LoopTypeOK, Steps
  <2>2. QED
    BY <1>2, <2>1 DEF TypeOK, LoopTypeOK
<1>4. CutInv'
  BY <1>1, <1>2 DEF CutInv, LoopInv, AcceptedInv, Real, AllSound
<1>5. LoopInv' /\ UntouchedInv'
  BY CutKeepsLoops DEF loop
<1>6. PickInv'
  <2>1. out'[Len(out')] = h /\ k' - 1 = k /\ k' > 1 /\ k' <= Len(subs) + 1
    BY <1>2
  <2>2. OldEnd(h) <= OldEnd(subs[k])
    BY Positions
  <2>3. QED
    BY <2>1, <2>2 DEF PickInv
<1>7. SplitInv' /\ SliceInv' /\ FixInv'
  BY DEF SplitInv, SliceInv, FixInv, At
<1>8. QED
  BY <1>3, <1>4, <1>5, <1>6, <1>7 DEF IInv

(* The changed lines of a sub-hunk are numbered from 1.                    *)
LEMMA ChangedLinesType ==
  ASSUME NEW h \in Hunk
  PROVE  Count(h.lines, Changes) \in Nat /\ ChangedLines(h) \in SUBSET Nat
<1>1. 1 \in Int /\ Len(h.lines) \in Int
  BY DEF Hunk
<1>2. Count(h.lines, Changes) \in Nat
  BY <1>1, CountInType DEF Count
<1>3. QED
  BY <1>2 DEF ChangedLines

LEMMA TakeWholeInv == IInv /\ TakeWhole => IInv'
<1> SUFFICES ASSUME IInv, TakeWhole
             PROVE  IInv'
  OBVIOUS
<1>1. /\ phase = "cut" /\ step = "pick" /\ step # "split" /\ step' = "pick" /\ k <= Len(subs)
      /\ out' = Append(out, subs[k]) /\ k' = k + 1
      /\ picked' = Append(picked, ChangedLines(subs[k])) /\ lineSet' = lineSet
      /\ UNCHANGED <<phase, hunks, at, delta, oldEnd, newEnd, fault, shifts>>
      /\ UNCHANGED <<entry, hi, run, subs, li, body, fixed>>
  BY DEF TakeWhole, At, loop
<1>2. subs[k] \in Hunk /\ Sound(subs[k])
  BY <1>1, PickedAbove
<1>3. ChangedLines(subs[k]) \in SUBSET Nat /\ lineSet' \in SUBSET Nat
  BY <1>1, <1>2, ChangedLinesType DEF IInv, TypeOK, LoopTypeOK
<1>4. QED
  BY <1>1, <1>2, <1>3, TakeInv

-----------------------------------------------------------------------------
(* Slicing a sub-hunk.                                                      *)

(* The loops of a slice change nothing but their own variables.            *)
LEMMA SliceFrame ==
  ASSUME IInv, phase = "cut", step # "split", step' \in {"slice", "fix"}, k <= Len(subs),
         lineSet' \in SUBSET Nat, li' \in Nat \ {0}, body' \in Seq(Line), fixed' \in Seq(Line),
         UNCHANGED <<phase, hunks, at, delta, oldEnd, newEnd, fault, shifts>>,
         UNCHANGED <<entry, hi, run, subs, k, out, picked>>
  PROVE  TypeOK' /\ LoopInv' /\ UntouchedInv' /\ CutInv' /\ SplitInv' /\ PickInv'
<1>1. TypeOK /\ LoopInv /\ CutInv /\ PickInv
  BY DEF IInv
<1>2. TypeOK'
  <2>1. step' \in Steps
    BY DEF Steps
  <2>2. QED
    BY <1>1, <2>1 DEF TypeOK, LoopTypeOK
<1>3. CutInv' /\ PickInv' /\ SplitInv'
  BY <1>1 DEF CutInv, LoopInv, AcceptedInv, PickInv, SplitInv, At, Real, AllSound
<1>4. LoopInv' /\ UntouchedInv'
  BY CutKeepsLoops DEF loop
<1>5. QED
  BY <1>2, <1>3, <1>4

(* Nothing is counted in an empty body.                                    *)
LEMMA EmptyCounts ==
  ASSUME NEW ls, NEW K
  PROVE  Count(<<>>, K) = 0 /\ CountIn(ls, K, 1, 0) = 0
<1>1. \A ms : CountIn(ms, K, 1, 0) = 0
  BY CountInType
<1>2. QED
  BY <1>1 DEF Count

LEMMA BeginSliceInv == \A set \in LineSets(subs[k]) : IInv /\ BeginSlice(set) => IInv'
<1> SUFFICES ASSUME NEW set \in LineSets(subs[k]), IInv, BeginSlice(set)
             PROVE  IInv'
  OBVIOUS
<1>1. /\ phase = "cut" /\ step = "pick" /\ step # "split" /\ step' = "slice" /\ k <= Len(subs)
      /\ set \subseteq ChangedLines(subs[k]) /\ lineSet' = set
      /\ li' = 1 /\ body' = <<>> /\ fixed' = fixed
      /\ UNCHANGED <<phase, hunks, at, delta, oldEnd, newEnd, fault, shifts>>
      /\ UNCHANGED <<entry, hi, run, subs, k, out, picked>>
  BY DEF BeginSlice, At, loop
<1>2. /\ subs[k] \in Hunk /\ set # {} /\ set \in SUBSET Nat /\ fixed \in Seq(Line)
  <2>1. subs[k] \in Hunk
    BY <1>1, PickedAbove
  <2>2. set # {}
    BY DEF LineSets
  <2>3. fixed \in Seq(Line)
    BY DEF IInv, TypeOK, LoopTypeOK
  <2>4. set \in SUBSET Nat
    BY <1>1, <2>1, ChangedLinesType
  <2>5. QED
    BY <2>1, <2>2, <2>3, <2>4
<1>3. TypeOK' /\ LoopInv' /\ UntouchedInv' /\ CutInv' /\ SplitInv' /\ PickInv'
  <2>1. /\ step' \in {"slice", "fix"} /\ li' \in Nat \ {0} /\ body' \in Seq(Line)
        /\ lineSet' \in SUBSET Nat /\ fixed' \in Seq(Line)
    BY <1>1, <1>2
  <2>2. QED
    BY <1>1, <2>1, SliceFrame
<1>4. SliceInv'
  <2>1. \A K : Count(<<>>, K) = 0 /\ CountIn(subs[k].lines, K, 1, 0) = 0
    BY EmptyCounts
  <2>2. li' - 1 = 0 /\ li' <= Len(subs[k].lines) + 1
    BY <1>1, <1>2 DEF Hunk
  <2>3. \A c \in set : c \in Nat \ {0}
    BY <1>1, <1>2 DEF ChangedLines
  <2>4. \A c \in set : ~(c <= 0)
    BY <2>3
  <2>5. QED
    BY <1>1, <1>2, <2>1, <2>2, <2>4 DEF SliceInv, At, ChangedLines
<1>5. FixInv'
  BY <1>1 DEF FixInv, At
<1>6. QED
  BY <1>3, <1>4, <1>5 DEF IInv

(* One line, or none, makes these counts.                                  *)
LEMMA OneLineCounts ==
  ASSUME NEW l \in Line, NEW K
  PROVE  <<l>> \in Seq(Line) /\ Count(<<l>>, K) = IF l.kind \in K THEN 1 ELSE 0
<1>1. <<l>> \in Seq(Line) /\ Len(<<l>>) = 1 /\ <<l>>[1] = l
  OBVIOUS
<1>2. CountIn(<<l>>, K, 1, 1) = IF <<l>>[1].kind \in K THEN 1 ELSE 0
  BY CountInOne
<1>3. QED
  BY <1>1, <1>2 DEF Count

(* A line left out of a slice keeps its place on the old side; a line      *)
(* taken keeps its kind.                                                   *)
LEMMA RetainedCounts ==
  ASSUME NEW l \in Line, NEW c, NEW set
  PROVE  /\ Retained(l, c \in set) \in Seq(Line)
         /\ Count(Retained(l, c \in set), OldSide) = IF l.kind \in OldSide THEN 1 ELSE 0
         /\ Count(Retained(l, c \in set), Changes)
              = IF c \in set /\ l.kind \in Changes THEN 1 ELSE 0
<1>1. l.kind \in Kinds
  BY DEF Line
<1>2. CASE l.kind = "ctx" \/ c \in set
  <2>1. Retained(l, c \in set) = <<l>> /\ (l.kind \in Changes => c \in set)
    BY <1>2 DEF Retained, Changes
  <2>2. QED
    BY <2>1, OneLineCounts
<1>3. CASE l.kind = "del" /\ c \notin set
  <2> DEFINE m == [l EXCEPT !.kind = "ctx"]
  <2>1. m \in Line /\ m.kind = "ctx"
    BY DEF Line, Kinds
  <2>2. Retained(l, c \in set) = <<m>>
    BY <1>3 DEF Retained
  <2> HIDE DEF m
  <2>3. "ctx" \in OldSide /\ "ctx" \notin Changes /\ l.kind \in OldSide
    BY <1>3 DEF OldSide, Changes
  <2>4. QED
    BY <1>3, <2>1, <2>2, <2>3, OneLineCounts
<1>4. CASE l.kind = "add" /\ c \notin set
  <2>1. Retained(l, c \in set) = <<>> /\ l.kind \notin OldSide
    BY <1>4 DEF Retained, OldSide
  <2>2. <<>> \in Seq(Line) /\ \A K : Count(<<>>, K) = 0
    BY EmptyCounts
  <2>3. QED
    BY <1>4, <2>1, <2>2
<1>5. QED
  BY <1>1, <1>2, <1>3, <1>4 DEF Kinds

(* A slice grows by what becomes of each line of the sub-hunk.             *)
LEMMA SliceLineInv == IInv /\ SliceLine => IInv'
<1> SUFFICES ASSUME IInv, SliceLine
             PROVE  IInv'
  OBVIOUS
<1> DEFINE ls == subs[k].lines
           l == ls[li]
           ci == CountIn(ls, Changes, 1, li)
           cj == CountIn(ls, Changes, 1, li - 1)
           add == Retained(l, ci \in lineSet)
<1>1. /\ phase = "cut" /\ step = "slice" /\ step # "split" /\ At("slice")
      /\ li <= Len(ls) /\ li' = li + 1 /\ body' = body \o add /\ step' = step
      /\ UNCHANGED <<phase, hunks, at, delta, oldEnd, newEnd, fault, shifts>>
      /\ UNCHANGED <<entry, hi, run, subs, k, lineSet, fixed, out, picked>>
  BY DEF SliceLine, At, loop
<1>2. /\ TypeOK /\ SliceInv /\ k <= Len(subs) /\ li \in Nat \ {0} /\ body \in Seq(Line)
      /\ fixed \in Seq(Line) /\ lineSet \in SUBSET Nat
  BY <1>1 DEF IInv, TypeOK, LoopTypeOK, PickInv
<1>3. subs[k] \in Hunk
  BY <1>1, <1>2, PickedAbove
<1>4. ls \in Seq(Line) /\ l \in Line
  <2>1. ls \in Seq(Line)
    BY <1>3 DEF Hunk
  <2>2. QED
    BY <1>1, <1>2, <2>1
<1>5. /\ add \in Seq(Line)
      /\ Count(add, OldSide) = IF l.kind \in OldSide THEN 1 ELSE 0
      /\ Count(add, Changes) = IF ci \in lineSet /\ l.kind \in Changes THEN 1 ELSE 0
  BY <1>4, RetainedCounts
<1> HIDE DEF add
<1>6. /\ body' \in Seq(Line)
      /\ \A K : Count(body', K) = Count(body, K) + Count(add, K)
      /\ \A K : Count(body, K) \in Nat
  <2>1. \A K : body \o add \in Seq(Line) /\ Count(body \o add, K) = Count(body, K) + Count(add, K)
    BY <1>2, <1>5, CountOfConcat
  <2>2. \A K : Count(body, K) \in Nat
    <3>1. 1 \in Int /\ Len(body) \in Int
      BY <1>2
    <3>2. QED
      BY <3>1, CountInType DEF Count
  <2>3. QED
    BY <1>1, <2>1, <2>2
<1>7. \A K : /\ CountIn(ls, K, 1, li) = CountIn(ls, K, 1, li - 1) + CountIn(ls, K, li, li)
             /\ CountIn(ls, K, li, li) = IF l.kind \in K THEN 1 ELSE 0
             /\ CountIn(ls, K, 1, li - 1) \in Nat /\ CountIn(ls, K, 1, li) \in Nat
  <2>1. li \in Int /\ li - 1 \in Int /\ 1 \in Int /\ 1 <= li - 1 + 1 /\ li - 1 <= li /\ li - 1 + 1 = li
    BY <1>2
  <2>2. \A K : CountIn(ls, K, 1, li) = CountIn(ls, K, 1, li - 1) + CountIn(ls, K, li, li)
    <3>1. \A K : CountIn(ls, K, 1, li) = CountIn(ls, K, 1, li - 1) + CountIn(ls, K, li - 1 + 1, li)
      BY <2>1, CountInSplits
    <3>2. QED
      BY <2>1, <3>1
  <2>3. \A K : CountIn(ls, K, li, li) = IF l.kind \in K THEN 1 ELSE 0
    BY <2>1, CountInOne
  <2>4. \A K : CountIn(ls, K, 1, li - 1) \in Nat /\ CountIn(ls, K, 1, li) \in Nat
    BY <2>1, CountInType
  <2>5. QED
    BY <2>2, <2>3, <2>4
<1>8. TypeOK' /\ LoopInv' /\ UntouchedInv' /\ CutInv' /\ SplitInv' /\ PickInv'
  <2>1. step' \in {"slice", "fix"} /\ li' \in Nat \ {0} /\ lineSet' \in SUBSET Nat /\ fixed' \in Seq(Line)
    BY <1>1, <1>2
  <2>2. QED
    BY <1>1, <1>2, <1>6, <2>1, SliceFrame
<1>9. Count(body', OldSide) = CountIn(ls, OldSide, 1, li)
  <2>1. Count(body, OldSide) = CountIn(ls, OldSide, 1, li - 1)
    BY <1>1, <1>2 DEF SliceInv
  <2>2. QED
    BY <1>5, <1>6, <1>7, <2>1
<1>10. ASSUME NEW c \in lineSet, c <= ci
       PROVE  Count(body', Changes) > 0
  <2>1. Count(add, Changes) \in Nat /\ Count(body, Changes) \in Nat
    BY <1>5, <1>6
  <2>2. CASE c <= cj
    <3>1. Count(body, Changes) > 0
      BY <1>1, <1>2, <2>2 DEF SliceInv
    <3>2. QED
      BY <1>6, <2>1, <3>1
  <2>3. CASE ~(c <= cj)
    <3>1. /\ c \in Nat /\ ci \in Nat /\ cj \in Nat
          /\ ci = cj + IF l.kind \in Changes THEN 1 ELSE 0
      BY <1>2, <1>7
    <3>2. l.kind \in Changes /\ c = ci
      BY <1>10, <2>3, <3>1
    <3>3. Count(add, Changes) = 1
      BY <1>5, <3>2
    <3>4. QED
      BY <1>6, <2>1, <3>3
  <2>4. QED
    BY <2>2, <2>3
<1>11. SliceInv'
  <2>1. li' - 1 = li /\ li' <= Len(ls) + 1
    BY <1>1, <1>2, <1>4
  <2>2. lineSet # {} /\ lineSet \subseteq ChangedLines(subs[k])
    BY <1>1, <1>2 DEF SliceInv
  <2>3. QED
    BY <1>1, <1>9, <1>10, <2>1, <2>2 DEF SliceInv, ChangedLines
<1>12. FixInv'
  BY <1>1 DEF FixInv, At
<1>13. QED
  BY <1>8, <1>11, <1>12 DEF IInv

LEMMA EndSliceInv == IInv /\ EndSlice => IInv'
<1> SUFFICES ASSUME IInv, EndSlice
             PROVE  IInv'
  OBVIOUS
<1> DEFINE ls == subs[k].lines
<1>1. /\ phase = "cut" /\ step = "slice" /\ step # "split" /\ At("slice")
      /\ li > Len(ls) /\ li' = 1 /\ fixed' = <<>> /\ step' = "fix"
      /\ UNCHANGED <<phase, hunks, at, delta, oldEnd, newEnd, fault, shifts>>
      /\ UNCHANGED <<entry, hi, run, subs, k, lineSet, body, out, picked>>
  BY DEF EndSlice, At, loop
<1>2. /\ TypeOK /\ SliceInv /\ k <= Len(subs) /\ li \in Nat \ {0} /\ body \in Seq(Line)
      /\ lineSet \in SUBSET Nat
  BY <1>1 DEF IInv, TypeOK, LoopTypeOK, PickInv
<1>3. subs[k] \in Hunk /\ Sound(subs[k]) /\ ls \in Seq(Line)
  <2>1. subs[k] \in Hunk /\ Sound(subs[k])
    BY <1>1, <1>2, PickedAbove
  <2>2. QED
    BY <2>1 DEF Hunk
<1>4. li = Len(ls) + 1 /\ li - 1 = Len(ls)
  BY <1>1, <1>2, <1>3 DEF SliceInv
<1>5. TypeOK' /\ LoopInv' /\ UntouchedInv' /\ CutInv' /\ SplitInv' /\ PickInv'
  <2>1. /\ step' \in {"slice", "fix"} /\ li' \in Nat \ {0} /\ lineSet' \in SUBSET Nat
        /\ body' \in Seq(Line) /\ fixed' \in Seq(Line)
    BY <1>1, <1>2
  <2>2. QED
    BY <1>1, <1>2, <2>1, SliceFrame
<1>6. Count(body, OldSide) = subs[k].old_lines
  <2>1. Count(body, OldSide) = Count(ls, OldSide)
    BY <1>1, <1>2, <1>4 DEF SliceInv, Count
  <2>2. QED
    BY <1>3, <2>1, SoundMeans
<1>7. Count(body, Changes) > 0
  <2>1. PICK c : c \in lineSet
    BY <1>1, <1>2 DEF SliceInv
  <2>2. c \in 1..Count(ls, Changes)
    BY <1>1, <1>2, <2>1 DEF SliceInv, ChangedLines
  <2>3. c <= Count(ls, Changes)
    BY <2>2
  <2>4. c <= CountIn(ls, Changes, 1, li - 1)
    BY <1>4, <2>3 DEF Count
  <2>5. QED
    BY <1>1, <1>2, <2>1, <2>4 DEF SliceInv
<1>8. FixInv'
  <2>1. \A K : Count(<<>>, K) = 0 /\ CountIn(body, K, 1, 0) = 0
    BY EmptyCounts
  <2>2. li' - 1 = 0 /\ li' <= Len(body) + 1
    BY <1>1, <1>2
  <2>3. QED
    BY <1>1, <1>6, <1>7, <2>1, <2>2 DEF FixInv, At
<1>9. SliceInv'
  BY <1>1 DEF SliceInv, At
<1>10. QED
  BY <1>5, <1>8, <1>9 DEF IInv

(* A repaired line keeps its place on the old side.                        *)
LEMMA RepairedCounts ==
  ASSUME NEW l \in Line, NEW isLast
  PROVE  /\ Repaired(l, isLast) \in Seq(Line)
         /\ Count(Repaired(l, isLast), OldSide) = IF l.kind \in OldSide THEN 1 ELSE 0
         /\ l.kind \in Changes => Count(Repaired(l, isLast), Changes) > 0
         /\ Count(Repaired(l, isLast), Changes) \in Nat
<1>1. CASE l.kind = "ctx" /\ l.nonl /\ ~isLast
  <2> DEFINE d == [l EXCEPT !.kind = "del"]
             a == [l EXCEPT !.kind = "add", !.nonl = FALSE]
  <2>1. d \in Line /\ a \in Line /\ d.kind = "del" /\ a.kind = "add"
    BY DEF Line, Kinds
  <2>2. Repaired(l, isLast) = <<d, a>>
    BY <1>1 DEF Repaired
  <2> HIDE DEF d, a
  <2>3. <<d, a>> \in Seq(Line) /\ Len(<<d, a>>) = 2 /\ <<d, a>>[1] = d /\ <<d, a>>[2] = a
    BY <2>1
  <2>4. \A ls, K : /\ CountIn(ls, K, 1, 2) = CountIn(ls, K, 1, 1) + CountIn(ls, K, 2, 2)
                   /\ CountIn(ls, K, 1, 1) = IF ls[1].kind \in K THEN 1 ELSE 0
                   /\ CountIn(ls, K, 2, 2) = IF ls[2].kind \in K THEN 1 ELSE 0
    <3>1. \A ls, K : CountIn(ls, K, 1, 2) = CountIn(ls, K, 1, 1) + CountIn(ls, K, 1 + 1, 2)
      BY CountInSplits
    <3>2. \A ls, K : CountIn(ls, K, 1, 1) = IF ls[1].kind \in K THEN 1 ELSE 0
      BY CountInOne
    <3>3. \A ls, K : CountIn(ls, K, 2, 2) = IF ls[2].kind \in K THEN 1 ELSE 0
      BY CountInOne
    <3>4. 1 + 1 = 2
      OBVIOUS
    <3>5. QED
      BY <3>1, <3>2, <3>3, <3>4
  <2>5. /\ l.kind \in OldSide /\ d.kind \in OldSide /\ a.kind \notin OldSide
        /\ d.kind \in Changes /\ a.kind \in Changes
    BY <1>1, <2>1 DEF OldSide, Changes
  <2>6. /\ Count(<<d, a>>, OldSide) = CountIn(<<d, a>>, OldSide, 1, 2)
        /\ Count(<<d, a>>, Changes) = CountIn(<<d, a>>, Changes, 1, 2)
    BY <2>3 DEF Count
  <2>7. Count(<<d, a>>, OldSide) = 1 /\ Count(<<d, a>>, Changes) = 2
    BY <2>3, <2>4, <2>5, <2>6
  <2>8. QED
    BY <2>2, <2>3, <2>5, <2>7
<1>2. CASE ~(l.kind = "ctx" /\ l.nonl /\ ~isLast)
  <2>1. Repaired(l, isLast) = <<l>>
    BY <1>2 DEF Repaired
  <2>2. <<l>> \in Seq(Line) /\ \A K : Count(<<l>>, K) = IF l.kind \in K THEN 1 ELSE 0
    BY OneLineCounts
  <2>3. QED
    BY <2>1, <2>2
<1>3. QED
  BY <1>1, <1>2

(* The repair grows by what becomes of each line of the slice.             *)
LEMMA FixLineInv == IInv /\ FixLine => IInv'
<1> SUFFICES ASSUME IInv, FixLine
             PROVE  IInv'
  OBVIOUS
<1> DEFINE l == body[li]
           add == Repaired(l, li = Len(body))
<1>1. /\ phase = "cut" /\ step = "fix" /\ step # "split" /\ At("fix")
      /\ li <= Len(body) /\ li' = li + 1 /\ fixed' = fixed \o add /\ step' = step
      /\ UNCHANGED <<phase, hunks, at, delta, oldEnd, newEnd, fault, shifts>>
      /\ UNCHANGED <<entry, hi, run, subs, k, lineSet, body, out, picked>>
  BY DEF FixLine, At, loop
<1>2. /\ TypeOK /\ FixInv /\ k <= Len(subs) /\ li \in Nat \ {0} /\ body \in Seq(Line)
      /\ fixed \in Seq(Line) /\ lineSet \in SUBSET Nat
  BY <1>1 DEF IInv, TypeOK, LoopTypeOK, PickInv
<1>3. l \in Line
  BY <1>1, <1>2
<1>4. /\ add \in Seq(Line)
      /\ Count(add, OldSide) = IF l.kind \in OldSide THEN 1 ELSE 0
      /\ l.kind \in Changes => Count(add, Changes) > 0
      /\ Count(add, Changes) \in Nat
  BY <1>3, RepairedCounts
<1> HIDE DEF add
<1>5. /\ fixed' \in Seq(Line)
      /\ \A K : Count(fixed', K) = Count(fixed, K) + Count(add, K)
      /\ \A K : Count(fixed, K) \in Nat
  <2>1. \A K : fixed \o add \in Seq(Line) /\ Count(fixed \o add, K) = Count(fixed, K) + Count(add, K)
    BY <1>2, <1>4, CountOfConcat
  <2>2. \A K : Count(fixed, K) \in Nat
    <3>1. 1 \in Int /\ Len(fixed) \in Int
      BY <1>2
    <3>2. QED
      BY <3>1, CountInType DEF Count
  <2>3. QED
    BY <1>1, <2>1, <2>2
<1>6. \A K : /\ CountIn(body, K, 1, li) = CountIn(body, K, 1, li - 1) + CountIn(body, K, li, li)
             /\ CountIn(body, K, li, li) = IF l.kind \in K THEN 1 ELSE 0
             /\ CountIn(body, K, 1, li - 1) \in Nat
  <2>1. li \in Int /\ li - 1 \in Int /\ 1 \in Int /\ 1 <= li - 1 + 1 /\ li - 1 <= li /\ li - 1 + 1 = li
    BY <1>2
  <2>2. \A K : CountIn(body, K, 1, li) = CountIn(body, K, 1, li - 1) + CountIn(body, K, li, li)
    <3>1. \A K : CountIn(body, K, 1, li) = CountIn(body, K, 1, li - 1) + CountIn(body, K, li - 1 + 1, li)
      BY <2>1, CountInSplits
    <3>2. QED
      BY <2>1, <3>1
  <2>3. \A K : CountIn(body, K, li, li) = IF l.kind \in K THEN 1 ELSE 0
    BY <2>1, CountInOne
  <2>4. \A K : CountIn(body, K, 1, li - 1) \in Nat
    BY <2>1, CountInType
  <2>5. QED
    BY <2>2, <2>3, <2>4
<1>7. TypeOK' /\ LoopInv' /\ UntouchedInv' /\ CutInv' /\ SplitInv' /\ PickInv'
  <2>1. step' \in {"slice", "fix"} /\ li' \in Nat \ {0} /\ lineSet' \in SUBSET Nat /\ body' \in Seq(Line)
    BY <1>1, <1>2
  <2>2. QED
    BY <1>1, <1>2, <1>5, <2>1, SliceFrame
<1>8. Count(fixed', OldSide) = CountIn(body, OldSide, 1, li)
  <2>1. Count(fixed, OldSide) = CountIn(body, OldSide, 1, li - 1)
    BY <1>1, <1>2 DEF FixInv
  <2>2. QED
    BY <1>4, <1>5, <1>6, <2>1
<1>9. ASSUME CountIn(body, Changes, 1, li) > 0
      PROVE  Count(fixed', Changes) > 0
  <2>1. Count(fixed', Changes) = Count(fixed, Changes) + Count(add, Changes)
        /\ Count(fixed, Changes) \in Nat /\ Count(add, Changes) \in Nat
    BY <1>4, <1>5
  <2>2. CASE l.kind \in Changes
    BY <1>4, <2>1, <2>2
  <2>3. CASE l.kind \notin Changes
    <3>1. CountIn(body, Changes, 1, li - 1) > 0
      BY <1>6, <1>9, <2>3
    <3>2. Count(fixed, Changes) > 0
      BY <1>1, <1>2, <3>1 DEF FixInv
    <3>3. QED
      BY <2>1, <3>2
  <2>4. QED
    BY <2>2, <2>3
<1>10. FixInv'
  <2>1. li' - 1 = li /\ li' <= Len(body) + 1
    BY <1>1, <1>2
  <2>2. Count(body, OldSide) = subs[k].old_lines /\ Count(body, Changes) > 0
    BY <1>1, <1>2 DEF FixInv
  <2>3. QED
    BY <1>1, <1>8, <1>9, <2>1, <2>2 DEF FixInv
<1>11. SliceInv'
  BY <1>1 DEF SliceInv, At
<1>12. QED
  BY <1>7, <1>10, <1>11 DEF IInv

(* A repaired slice is a sound hunk in the place of its sub-hunk.          *)
LEMMA TakeSliceInv == IInv /\ TakeSlice => IInv'
<1> SUFFICES ASSUME IInv, TakeSlice
             PROVE  IInv'
  OBVIOUS
<1> DEFINE g == subs[k]
           h == WithBody(g, fixed)
<1>1. /\ phase = "cut" /\ step = "fix" /\ step # "split" /\ At("fix") /\ step' = "pick"
      /\ li > Len(body) /\ out' = Append(out, h) /\ picked' = Append(picked, lineSet)
      /\ lineSet' = {} /\ k' = k + 1
      /\ UNCHANGED <<phase, hunks, at, delta, oldEnd, newEnd, fault, shifts>>
      /\ UNCHANGED <<entry, hi, run, subs, li, body, fixed>>
  BY DEF TakeSlice, At, loop
<1>2. /\ FixInv /\ k <= Len(subs) /\ li \in Nat \ {0} /\ body \in Seq(Line)
      /\ fixed \in Seq(Line) /\ lineSet \in SUBSET Nat
  BY <1>1 DEF IInv, TypeOK, LoopTypeOK, PickInv
<1>3. g \in Hunk
  BY <1>1, <1>2, PickedAbove
<1>4. li - 1 = Len(body)
  BY <1>1, <1>2 DEF FixInv
<1>5. Count(fixed, OldSide) = g.old_lines /\ Count(fixed, Changes) > 0
  BY <1>1, <1>2, <1>4 DEF FixInv, Count
<1>6. \A K : Count(fixed, K) \in Nat
  <2>1. 1 \in Int /\ Len(fixed) \in Int
    BY <1>2
  <2>2. QED
    BY <2>1, CountInType DEF Count
<1>7. /\ h \in Hunk /\ h.lines = fixed /\ h.old_start = g.old_start
      /\ h.old_lines = g.old_lines /\ h.old_lines = Count(fixed, OldSide)
      /\ h.new_lines = Count(fixed, NewSide)
  BY <1>2, <1>3, <1>5, <1>6 DEF WithBody, Hunk
<1> HIDE DEF h
<1>8. fixed # <<>>
  <2>1. Count(<<>>, Changes) = 0
    BY EmptyCounts
  <2>2. QED
    BY <1>5, <2>1
<1>9. Sound(h)
  <2>1. Count(fixed, Changes) # 0
    BY <1>5, <1>6
  <2>2. QED
    BY <1>7, <1>8, <2>1, SoundMeans
<1>10. OldAt(h) = OldAt(g) /\ OldEnd(h) = OldEnd(g)
  BY <1>7 DEF OldAt, OldEnd, Anchor
<1>11. lineSet' \in SUBSET Nat
  BY <1>1
<1>12. QED
  BY <1>1, <1>2, <1>7, <1>9, <1>10, <1>11, TakeInv

-----------------------------------------------------------------------------
(* The end of the selection.                                                *)

(* A refused request leaves nothing to say.                                *)
LEMMA RefuseInv == IInv /\ Refuse /\ UNCHANGED <<entry, cutting>> => IInv'
<1> SUFFICES ASSUME IInv, Refuse, UNCHANGED <<entry, cutting>>
             PROVE  IInv'
  OBVIOUS
<1>1. phase' = "usage"
  BY DEF Refuse
<1>2. LoopInv'
  BY LoopRefuses DEF IInv
<1>3. TypeOK'
  BY <1>2 DEF IInv, TypeOK, LoopInv, cutting
<1>4. UntouchedInv' /\ CutInv' /\ SplitInv' /\ PickInv' /\ SliceInv' /\ FixInv'
  BY <1>1 DEF UntouchedInv, CutInv, SplitInv, PickInv, SliceInv, FixInv, At
<1>5. QED
  BY <1>2, <1>3, <1>4 DEF IInv

LEMMA EmitSelectionInv == IInv /\ EmitSelection => IInv'
<1> SUFFICES ASSUME IInv, EmitSelection
             PROVE  IInv'
  OBVIOUS
<1>1. /\ phase = "cut" /\ phase' = "renumber" /\ StartRenumber(out)
      /\ UNCHANGED <<entry, cutting>>
  BY DEF EmitSelection, At, StartRenumber
<1>2. /\ out \in Seq(Hunk) /\ AllSound(out)
      /\ Real => Tidy(out)
  BY <1>1 DEF IInv, TypeOK, CutInv
<1>3. LoopInv'
  BY <1>1, <1>2, LoopTakesOver DEF IInv
<1>4. TypeOK'
  BY <1>1, <1>3 DEF IInv, TypeOK, LoopInv, cutting
<1>5. UntouchedInv' /\ CutInv' /\ SplitInv' /\ PickInv' /\ SliceInv' /\ FixInv'
  BY <1>1 DEF UntouchedInv, CutInv, SplitInv, PickInv, SliceInv, FixInv, At
<1>6. QED
  BY <1>3, <1>4, <1>5 DEF IInv

(* A step that changes nothing.                                            *)
LEMMA StutterInv == IInv /\ UNCHANGED vars => IInv'
<1> SUFFICES ASSUME IInv, UNCHANGED vars
             PROVE  IInv'
  OBVIOUS
<1>1. /\ UNCHANGED <<phase, hunks, at, delta, oldEnd, newEnd, fault, shifts>>
      /\ UNCHANGED <<entry, step, hi, run, subs, k, lineSet, li, body, fixed, out, picked>>
  BY DEF vars, loop, cutting
<1>2. LoopInv'
  BY <1>1, LoopRests DEF IInv, loop
<1>3. TypeOK'
  BY <1>1, <1>2 DEF IInv, TypeOK, LoopInv
<1>4. UntouchedInv' /\ CutInv' /\ SplitInv'
  BY <1>1 DEF IInv, UntouchedInv, CutInv, SplitInv, At, Real, AllSound, PieceFrom
<1>5. PickInv' /\ SliceInv' /\ FixInv'
  BY <1>1 DEF IInv, PickInv, SliceInv, FixInv, At, Real, ChangedLines
<1>6. QED
  BY <1>2, <1>3, <1>4, <1>5 DEF IInv

-----------------------------------------------------------------------------
(* The theorems.                                                            *)

(* IInv holds in every state of every run: of any entry, any u32 bound and *)
(* any choice of picks.                                                    *)
THEOREM Invariance == Spec => []IInv
<1>1. IInv /\ [Next]_vars => IInv'
  <2> SUFFICES ASSUME IInv, [Next]_vars
               PROVE  IInv'
    OBVIOUS
  <2>1. CASE LoopNext /\ UNCHANGED <<entry, cutting>>
    BY <2>1, LoopNextInv
  <2>2. CASE KeepHunk \/ SplitInner \/ SplitLast \/ EndSplit
    BY <2>2, KeepHunkInv, SplitInnerInv, SplitLastInv, EndSplitInv
  <2>3. CASE PassBy \/ TakeWhole
    BY <2>3, PassByInv, TakeWholeInv
  <2>4. ASSUME NEW set \in LineSets(subs[k]), BeginSlice(set) \/ RefuseSlice(set)
        PROVE  IInv'
    <3>1. CASE BeginSlice(set)
      BY <3>1, BeginSliceInv
    <3>2. CASE RefuseSlice(set)
      BY <3>2, RefuseInv DEF RefuseSlice
    <3>3. QED
      BY <2>4, <3>1, <3>2
  <2>5. CASE SliceLine \/ EndSlice \/ FixLine \/ TakeSlice
    BY <2>5, SliceLineInv, EndSliceInv, FixLineInv, TakeSliceInv
  <2>6. CASE RefuseSelection
    BY <2>6, RefuseInv DEF RefuseSelection
  <2>7. CASE EmitSelection
    BY <2>7, EmitSelectionInv
  <2>8. CASE Exited \/ UNCHANGED vars
    BY <2>8, StutterInv DEF Exited
  <2>9. QED
    BY <2>1, <2>2, <2>3, <2>4, <2>5, <2>6, <2>7, <2>8 DEF Next, CutNext
<1>2. QED
  BY <1>1, InitInv, PTL DEF Spec

(* Every variable keeps to its type.                                       *)
THEOREM TypeCorrect == Spec => []TypeOK
<1>1. IInv => TypeOK
  BY DEF IInv
<1>2. QED
  BY <1>1, Invariance, PTL

(* select never refuses what it made of an accepted diff of real files,    *)
(* unless the result reaches the last position a header can name.          *)
THEOREM OwnResultIsAccepted == Spec => []OwnResultAccepted
<1>1. IInv => OwnResultAccepted
  BY LoopAcceptsResult DEF IInv
<1>2. QED
  BY <1>1, Invariance, PTL

(* The internal check can fail a selection on the order of its hunks only. *)
THEOREM OrderIsTheOnlyFault == Spec => []OnlyOrderCanFail
<1>1. IInv => OnlyOrderCanFail
  BY LoopAcceptsResult DEF IInv
<1>2. QED
  BY <1>1, Invariance, PTL

(* The sub-hunks of an entry, and so the hunks of any selection, stand in  *)
(* old-file order and share no line.                                       *)
THEOREM SubHunksDoNotOverlap == Spec => []SubHunksAreDisjoint
<1>1. IInv => SubHunksAreDisjoint
  BY DEF IInv, CutInv, SubHunksAreDisjoint, Real
<1>2. QED
  BY <1>1, Invariance, PTL

(* No renumbered hunk starts above line 1: the clamp at 0 is never needed. *)
THEOREM PositionsArePositive == Spec => []PositionsStayPositive
<1>1. IInv => PositionsStayPositive
  BY LoopStaysPositive DEF IInv
<1>2. QED
  BY <1>1, Invariance, PTL

-----------------------------------------------------------------------------
(* Bodies that grow line by line.                                           *)

\* a body line as a line of a file
LineOf(l) == [text |-> l.text, nonl |-> l.nonl]

\* `Append`, out of the provers' sight
Add(s, x) == Append(s, x)

LEMMA ListingAdds ==
  ASSUME NEW f \in Seq(FileLine), NEW S, NEW a \in Nat, NEW b \in Nat, a < b, b <= Len(f), b \in S
  PROVE  Listing(f, S, a, b) = Add(Listing(f, S, a, b - 1), f[b])
BY ListingTakes, Zenon DEF Add

LEMMA LineOfType ==
  ASSUME NEW l \in Line
  PROVE  LineOf(l) \in FileLine
BY DEF LineOf, Line, FileLine

LEMMA NoLines ==
  ASSUME NEW K
  PROVE  SideOf(<<>>, K) = <<>>
<1>1. <<>> \in Seq(Line) /\ Len(<<>>) = 0 /\ 0 \in Nat /\ 0 <= 0
  OBVIOUS
<1>2. FileLines(<<>>) \in Seq(FileLine) /\ Len(FileLines(<<>>)) = 0
  BY <1>1, FileLinesAre
<1>3. Listing(FileLines(<<>>), Side(<<>>, K), 0, 0) = <<>>
  BY <1>1, <1>2, ListingSteps
<1>4. QED
  BY <1>1, <1>3 DEF SideOf

(* What one more line adds to a side.                                      *)
LEMMA SideGrows ==
  ASSUME NEW ls \in Seq(Line), NEW l \in Line, NEW K, NEW ms, ms = Add(ls, l)
  PROVE  /\ l.kind \in K => SideOf(ms, K) = Add(SideOf(ls, K), LineOf(l))
         /\ l.kind \notin K => SideOf(ms, K) = SideOf(ls, K)
<1> DEFINE n == Len(ls)
           m == n + 1
           f == FileLines(ls)
           g == FileLines(ms)
           S == Side(ls, K)
           T == Side(ms, K)
<1>1. /\ n \in Nat /\ m \in Nat /\ 0 \in Nat /\ 0 <= n /\ 0 < m /\ m - 1 = n /\ n <= m
      /\ ms \in Seq(Line) /\ Len(ms) = m /\ ms[m] = l
      /\ \A i \in 1..n : ms[i] = ls[i] /\ i \in 1..m
      /\ m \in 1..m /\ DOMAIN ms = 1..m /\ DOMAIN ls = 1..n
  BY DEF Add
<1>2. /\ f \in Seq(FileLine) /\ Len(f) = n /\ g \in Seq(FileLine) /\ Len(g) = m
  BY <1>1, FileLinesAre
<1>3. g[m] = LineOf(l)
  <2>1. g[m] = [text |-> ms[m].text, nonl |-> ms[m].nonl]
    BY <1>1, FileLinesAre
  <2>2. QED
    BY <1>1, <2>1 DEF LineOf
<1>4. m \in T <=> l.kind \in K
  BY <1>1 DEF Side
<1>5. \A i \in 1..n : g[i] = f[i] /\ (i \in T <=> i \in S)
  <2>1. TAKE i \in 1..n
  <2>2. g[i] = f[i]
    BY <1>1, SameFileLine
  <2>3. i \in T <=> i \in S
    BY <1>1 DEF Side
  <2>4. QED
    BY <2>2, <2>3
<1>6. SideOf(ms, K) = Listing(g, T, 0, m) /\ SideOf(ls, K) = Listing(f, S, 0, n)
  BY <1>1 DEF SideOf
<1> HIDE DEF n, m, f, g, S, T
<1>7. Agree(f, S, g, T, 0, n, 0)
  <2>1. \A i \in (0 + 1)..n : i \in 1..n /\ i + 0 = i /\ 0 + i = i
    BY <1>1
  <2>2. QED
    BY <1>5, <2>1 DEF Agree
<1>8. Listing(f, S, 0, n) = Listing(g, T, 0, n)
  BY <1>1, <1>2, <1>7, ListingSame DEF Listed
<1>8a. m \in Nat /\ 0 \in Nat /\ 0 < m /\ m <= Len(g) /\ g \in Seq(FileLine)
  BY <1>1, <1>2
<1>9. ASSUME m \in T
      PROVE  Listing(g, T, 0, m) = Add(Listing(g, T, 0, m - 1), g[m])
  BY <1>8a, <1>9, ListingAdds, Zenon
<1>10. m \notin T => Listing(g, T, 0, m) = Listing(g, T, 0, m - 1)
  BY <1>1, <1>2, ListingSkips
<1>11. QED
  BY <1>1, <1>3, <1>4, <1>6, <1>8, <1>9, <1>10

\* a deletion left out
AsContext(l) == [l EXCEPT !.kind = "ctx"]

LEMMA AsContextIs ==
  ASSUME NEW l \in Line
  PROVE  /\ AsContext(l) \in Line /\ AsContext(l).kind = "ctx"
         /\ AsContext(l).nonl = l.nonl /\ LineOf(AsContext(l)) = LineOf(l)
BY DEF AsContext, Line, Kinds, LineOf

\* a slice with what is kept of one more line
Slicing(b, l, chosen) == b \o Retained(l, chosen)

LEMMA SlicingIs ==
  ASSUME NEW b \in Seq(Line), NEW l \in Line, NEW chosen
  PROVE  /\ l.kind = "ctx" \/ chosen => Slicing(b, l, chosen) = Add(b, l)
         /\ l.kind = "del" /\ ~chosen => Slicing(b, l, chosen) = Add(b, AsContext(l))
         /\ l.kind = "add" /\ ~chosen => Slicing(b, l, chosen) = b
<1>1. \A x \in Line : b \o <<x>> = Append(b, x)
  OBVIOUS
<1>2. b \o <<>> = b
  OBVIOUS
<1>3. AsContext(l) \in Line
  BY AsContextIs
<1>4. l.kind = "ctx" \/ chosen => Retained(l, chosen) = <<l>>
  BY DEF Retained
<1>5. l.kind = "del" /\ ~chosen => Retained(l, chosen) = <<AsContext(l)>>
  BY DEF Retained, AsContext
<1>6. l.kind = "add" /\ ~chosen => Retained(l, chosen) = <<>>
  BY DEF Retained
<1>7. QED
  BY <1>1, <1>2, <1>3, <1>4, <1>5, <1>6, Zenon DEF Slicing, Add

\* the sides of a slice made of the first n lines of ls
Sliced(ls, X, b, n) ==
  /\ SideOf(b, OldSide) = Listing(FileLines(ls), Side(ls, OldSide), 0, n)
  /\ SideOf(b, NewSide) = Listing(FileLines(ls), Staying(ls, X), 0, n)

(* What a line that is kept, turned into context or left out does to them. *)
LEMMA SlicedGrows ==
  ASSUME NEW ls \in Seq(Line), NEW X, NEW b \in Seq(Line), NEW n \in 1..Len(ls),
         Sliced(ls, X, b, n - 1),
         NEW c, c = Slicing(b, ls[n], CountIn(ls, Changes, 1, n) \in X)
  PROVE  Sliced(ls, X, c, n)
<1> DEFINE l == ls[n]
           f == FileLines(ls)
           S == Side(ls, OldSide)
           T == Staying(ls, X)
           chosen == CountIn(ls, Changes, 1, n) \in X
           kept == AsContext(l)
           old == Listing(f, S, 0, n - 1)
           new == Listing(f, T, 0, n - 1)
<1>1. l \in Line /\ l.kind \in {"ctx", "add", "del"}
  <2>1. l \in Line
    OBVIOUS
  <2>2. QED
    BY <2>1 DEF Line, Kinds
<1>2. kept \in Line /\ kept.kind = "ctx" /\ LineOf(kept) = LineOf(l)
  <2> HIDE DEF l
  <2>1. QED
    BY <1>1, AsContextIs
<1>3. /\ n \in S <=> l.kind \in OldSide
      /\ l.kind = "ctx" => n \in T
      /\ l.kind = "del" => (n \in T <=> ~chosen)
      /\ l.kind = "add" => (n \in T <=> chosen)
  BY StayingIs
<1>4. f \in Seq(FileLine) /\ Len(f) = Len(ls) /\ f[n] = LineOf(l)
  BY FileLinesAre DEF LineOf
<1>5. n \in Nat /\ 0 \in Nat /\ 0 < n /\ n <= Len(f)
  BY <1>4
<1>6. SideOf(b, OldSide) = old /\ SideOf(b, NewSide) = new
  BY DEF Sliced
<1>7. /\ l.kind = "ctx" \/ chosen => c = Add(b, l)
      /\ l.kind = "del" /\ ~chosen => c = Add(b, kept)
      /\ l.kind = "add" /\ ~chosen => c = b
  BY <1>1, SlicingIs, Zenon
<1> HIDE DEF l, f, S, T, chosen, kept
<1>8. n \in S => Listing(f, S, 0, n) = Add(old, LineOf(l))
  <2>1. n \in S => Listing(f, S, 0, n) = Add(Listing(f, S, 0, n - 1), f[n])
    BY <1>4, <1>5, ListingAdds, Zenon
  <2>2. QED
    BY <1>4, <2>1, Zenon
<1>9. n \notin S => Listing(f, S, 0, n) = old
  BY <1>4, <1>5, ListingSkips, Zenon
<1>10. n \in T => Listing(f, T, 0, n) = Add(new, LineOf(l))
  <2>1. n \in T => Listing(f, T, 0, n) = Add(Listing(f, T, 0, n - 1), f[n])
    BY <1>4, <1>5, ListingAdds, Zenon
  <2>2. QED
    BY <1>4, <2>1, Zenon
<1>11. n \notin T => Listing(f, T, 0, n) = new
  BY <1>4, <1>5, ListingSkips, Zenon
<1> HIDE DEF old, new
<1>12. CASE l.kind = "ctx" \/ chosen
  <2>1. c = Add(b, l)
    BY <1>7, <1>12
  <2>2. /\ l.kind \in OldSide => SideOf(c, OldSide) = Add(SideOf(b, OldSide), LineOf(l))
        /\ l.kind \notin OldSide => SideOf(c, OldSide) = SideOf(b, OldSide)
    BY <1>1, <2>1, SideGrows
  <2>3. /\ l.kind \in NewSide => SideOf(c, NewSide) = Add(SideOf(b, NewSide), LineOf(l))
        /\ l.kind \notin NewSide => SideOf(c, NewSide) = SideOf(b, NewSide)
    BY <1>1, <2>1, SideGrows
  <2>4. /\ l.kind = "ctx" \/ l.kind = "add" <=> l.kind \in NewSide
        /\ l.kind = "ctx" \/ l.kind = "add" <=> n \in T
    BY <1>1, <1>3, <1>12 DEF NewSide
  <2>5. SideOf(c, OldSide) = Listing(f, S, 0, n)
    BY <1>3, <1>6, <1>8, <1>9, <2>2, Zenon
  <2>6. SideOf(c, NewSide) = Listing(f, T, 0, n)
    BY <1>6, <1>10, <1>11, <2>3, <2>4, Zenon
  <2>7. QED
    BY <2>5, <2>6 DEF Sliced, f, S, T
<1>13. CASE l.kind = "del" /\ ~chosen
  <2>1. c = Add(b, kept)
    BY <1>7, <1>13
  <2>2. kept.kind \in OldSide /\ kept.kind \in NewSide /\ n \in S /\ n \in T
    BY <1>2, <1>3, <1>13 DEF OldSide, NewSide
  <2>3. SideOf(c, OldSide) = Add(SideOf(b, OldSide), LineOf(kept))
    BY <1>2, <2>1, <2>2, SideGrows
  <2>4. SideOf(c, NewSide) = Add(SideOf(b, NewSide), LineOf(kept))
    BY <1>2, <2>1, <2>2, SideGrows
  <2>5. SideOf(c, OldSide) = Listing(f, S, 0, n) /\ SideOf(c, NewSide) = Listing(f, T, 0, n)
    BY <1>2, <1>6, <1>8, <1>10, <2>2, <2>3, <2>4, Zenon
  <2>6. QED
    BY <2>5 DEF Sliced, f, S, T
<1>14. CASE l.kind = "add" /\ ~chosen
  <2>1. c = b
    BY <1>7, <1>14
  <2>2. n \notin S /\ n \notin T
    BY <1>3, <1>14 DEF OldSide
  <2>3. QED
    BY <1>6, <1>9, <1>11, <2>1, <2>2 DEF Sliced, f, S, T
<1>15. QED
  BY <1>1, <1>12, <1>13, <1>14

\* below a line of a body without its newline there are additions only, and it
\* is a deletion
LocalMarks(ls) ==
  \A m, j \in 1..Len(ls) : ls[m].nonl /\ m < j => ls[m].kind = "del" /\ ls[j].kind = "add"

LEMMA PlacedMarks ==
  ASSUME NEW full, NEW f, NEW ls, NEW to, Placed(full, f, ls, to), WellMarked(full),
         DeletionsFirst(full)
  PROVE  LocalMarks(ls)
<1> SUFFICES ASSUME NEW m \in 1..Len(ls), NEW j \in 1..Len(ls), ls[m].nonl, m < j
             PROVE  ls[m].kind = "del" /\ ls[j].kind = "add"
  BY DEF LocalMarks
<1> DEFINE p == f + m
           q == f + j
<1>1. /\ full \in Seq(Line) /\ ls \in Seq(Line) /\ f \in Nat /\ f + Len(ls) <= Len(full)
      /\ Len(ls) \in Nat
  BY DEF Placed
<1>2. /\ p \in 1..Len(full) /\ q \in 1..Len(full) /\ q \in (p + 1)..Len(full) /\ p # Len(full)
      /\ DOMAIN full = 1..Len(full)
  BY <1>1
<1>3. full[p] = ls[m] /\ full[q] = ls[j]
  BY DEF Placed, Within
<1> HIDE DEF p, q
<1>4. full[p].kind \in {"ctx", "add", "del"} /\ full[q].kind \in {"ctx", "add", "del"}
  <2>1. \A i \in 1..Len(full) : full[i] \in Line
    BY <1>1
  <2>2. full[p] \in Line /\ full[q] \in Line
    BY <1>2, <2>1, Zenon
  <2>3. QED
    BY <2>2, Zenon DEF Line, Kinds
<1>5. full[p].nonl
  BY <1>3
<1>6. full[p].kind # "add"
  BY <1>2, <1>5 DEF DeletionsFirst
<1>7. full[p].kind \in OldSide /\ full[q].kind \notin OldSide
  <2>1. full[p].kind \in OldSide
    BY <1>4, <1>6 DEF OldSide
  <2>2. QED
    BY <1>1, <1>2, <1>5, <2>1, MarkedOldIsLast
<1>8. full[q].kind = "add"
  BY <1>4, <1>7 DEF OldSide
<1>9. full[p].kind # "ctx"
  <2>1. full[p].kind = "ctx" => full[q].kind \notin NewSide
    BY <1>1, <1>2, <1>5, MarkedNewIsLast DEF NewSide
  <2>2. QED
    BY <1>8, <2>1 DEF NewSide
<1>10. QED
  BY <1>3, <1>4, <1>6, <1>8, <1>9

\* where the markers of a slice come from
Marks(ls, b, n) ==
  \A i \in 1..Len(b) : b[i].nonl =>
    \E m \in 1..n : ls[m].nonl /\ (b[i].kind = "add" => ls[m].kind = "add")

\* what is known of the last line of a body one line longer
LEMMA AddIs ==
  ASSUME NEW E, NEW b \in Seq(E), NEW x \in E
  PROVE  /\ Add(b, x) \in Seq(E) /\ Len(Add(b, x)) = Len(b) + 1 /\ Len(b) \in Nat
         /\ Add(b, x)[Len(b) + 1] = x
         /\ \A i \in 1..Len(b) : Add(b, x)[i] = b[i]
         /\ DOMAIN Add(b, x) = 1..(Len(b) + 1)
BY DEF Add

LEMMA AddMarks ==
  ASSUME NEW ls \in Seq(Line), NEW b \in Seq(Line), NEW n \in Nat \ {0}, NEW l, l = ls[n],
         Marks(ls, b, n - 1), MarkedLast(b), NEW x \in Line, x.nonl => l.nonl,
         x.kind = "add" => l.kind = "add",
         \A i \in 1..Len(b) : b[i].nonl => b[i].kind # "add" /\ x.kind = "add"
  PROVE  Marks(ls, Add(b, x), n) /\ MarkedLast(Add(b, x))
<1> DEFINE c == Add(b, x)
           m == Len(b)
           w == m + 1
<1>1. /\ c \in Seq(Line) /\ Len(c) = w /\ m \in Nat /\ c[w] = x
      /\ \A i \in 1..m : c[i] = b[i]
      /\ DOMAIN c = 1..w /\ DOMAIN b = 1..m
  BY AddIs
<1>2. /\ \A i \in 1..w : i \in 1..m \/ i = w
      /\ n \in 1..n /\ \A k0 \in 1..(n - 1) : k0 \in 1..n
      /\ \A i, j \in 1..w : i < j => i \in 1..m
  BY <1>1
<1> HIDE DEF c, w, m
<1>3. Marks(ls, c, n)
  <2> SUFFICES ASSUME NEW i \in 1..w, c[i].nonl
               PROVE  \E k0 \in 1..n : ls[k0].nonl /\ (c[i].kind = "add" => ls[k0].kind = "add")
    BY <1>1 DEF Marks
  <2>1. CASE i \in 1..m
    <3>1. c[i] = b[i]
      BY <1>1, <2>1
    <3>2. PICK k0 \in 1..(n - 1) : ls[k0].nonl /\ (b[i].kind = "add" => ls[k0].kind = "add")
      BY <2>1, <3>1 DEF Marks, m
    <3>3. QED
      BY <1>2, <3>1, <3>2
  <2>2. CASE i = w
    BY <1>1, <1>2, <2>2
  <2>3. QED
    BY <1>2, <2>1, <2>2
<1>4. MarkedLast(c)
  <2> SUFFICES ASSUME NEW i \in 1..w, NEW j \in 1..w, c[i].nonl, i < j
               PROVE  c[i].kind # "add" /\ c[j].kind = "add"
    BY <1>1 DEF MarkedLast
  <2>1. i \in 1..m /\ c[i] = b[i]
    BY <1>1, <1>2
  <2>2. CASE j \in 1..m
    <3>1. c[j] = b[j]
      BY <1>1, <2>2
    <3>2. QED
      BY <1>1, <2>1, <2>2, <3>1 DEF MarkedLast
  <2>3. CASE j = w
    BY <1>1, <2>1, <2>3 DEF m
  <2>4. QED
    BY <1>2, <2>2, <2>3
<1>5. QED
  BY <1>3, <1>4 DEF c

LEMMA MarksGrow ==
  ASSUME NEW ls \in Seq(Line), LocalMarks(ls), NEW b \in Seq(Line), NEW n \in 1..Len(ls),
         Marks(ls, b, n - 1), MarkedLast(b), NEW chosen,
         NEW c, c = Slicing(b, ls[n], chosen)
  PROVE  Marks(ls, c, n) /\ MarkedLast(c)
<1> DEFINE l == ls[n]
           kept == AsContext(l)
<1>1. l \in Line /\ l.kind \in {"ctx", "add", "del"} /\ n \in Nat \ {0}
  <2>1. l \in Line
    OBVIOUS
  <2>2. QED
    BY <2>1 DEF Line, Kinds
<1>2. \A k0 \in 1..(n - 1) : k0 \in 1..n /\ k0 \in 1..Len(ls) /\ k0 < n
  OBVIOUS
<1>3. \A i \in 1..Len(b) : b[i].nonl => b[i].kind # "add" /\ l.kind = "add"
  <2> SUFFICES ASSUME NEW i \in 1..Len(b), b[i].nonl
               PROVE  b[i].kind # "add" /\ l.kind = "add"
    OBVIOUS
  <2>1. PICK k0 \in 1..(n - 1) : ls[k0].nonl /\ (b[i].kind = "add" => ls[k0].kind = "add")
    BY DEF Marks
  <2>2. ls[k0].kind = "del" /\ l.kind = "add"
    BY <1>2, <2>1 DEF LocalMarks
  <2>3. QED
    BY <2>1, <2>2
<1> HIDE DEF l
<1>4. kept \in Line /\ kept.kind = "ctx" /\ kept.nonl = l.nonl
  BY <1>1, AsContextIs
<1> HIDE DEF kept
<1>5. /\ l.kind = "ctx" \/ chosen => c = Add(b, l)
      /\ l.kind = "del" /\ ~chosen => c = Add(b, kept)
      /\ l.kind = "add" /\ ~chosen => c = b
  BY <1>1, SlicingIs, Zenon DEF l, kept
<1>6. CASE l.kind = "ctx" \/ chosen
  BY <1>1, <1>3, <1>5, <1>6, AddMarks DEF l
<1>7. CASE l.kind = "del" /\ ~chosen
  <2>1. \A i \in 1..Len(b) : ~b[i].nonl
    BY <1>3, <1>7
  <2>2. QED
    BY <1>1, <1>4, <1>5, <1>7, <2>1, AddMarks DEF l
<1>8. CASE l.kind = "add" /\ ~chosen
  <2>1. Marks(ls, b, n)
    BY <1>2 DEF Marks
  <2>2. QED
    BY <1>5, <1>8, <2>1
<1>9. QED
  BY <1>1, <1>6, <1>7, <1>8

\* a context line without its newline, deleted and added back with one
AsDeletion(l) == [l EXCEPT !.kind = "del"]
AsAddition(l) == [l EXCEPT !.kind = "add", !.nonl = FALSE]

LEMMA RewrittenIs ==
  ASSUME NEW l \in Line
  PROVE  /\ AsDeletion(l) \in Line /\ AsDeletion(l).kind = "del"
         /\ LineOf(AsDeletion(l)) = LineOf(l)
         /\ AsAddition(l) \in Line /\ AsAddition(l).kind = "add"
         /\ LineOf(AsAddition(l)) = WithNewline(LineOf(l))
BY DEF AsDeletion, AsAddition, Line, Kinds, LineOf, WithNewline

\* a repaired body with one more line
Repairing(b, l, isLast) == b \o Repaired(l, isLast)

LEMMA RepairingIs ==
  ASSUME NEW b \in Seq(Line), NEW l \in Line, NEW isLast
  PROVE  /\ l.kind = "ctx" /\ l.nonl /\ ~isLast =>
              Repairing(b, l, isLast) = Add(Add(b, AsDeletion(l)), AsAddition(l))
         /\ ~(l.kind = "ctx" /\ l.nonl /\ ~isLast) => Repairing(b, l, isLast) = Add(b, l)
<1>1. \A x, y \in Line : b \o <<x, y>> = Append(Append(b, x), y)
  OBVIOUS
<1>2. \A x \in Line : b \o <<x>> = Append(b, x)
  OBVIOUS
<1>3. AsDeletion(l) \in Line /\ AsAddition(l) \in Line
  BY RewrittenIs
<1>4. l.kind = "ctx" /\ l.nonl /\ ~isLast => Repaired(l, isLast) = <<AsDeletion(l), AsAddition(l)>>
  BY DEF Repaired, AsDeletion, AsAddition
<1>5. ~(l.kind = "ctx" /\ l.nonl /\ ~isLast) => Repaired(l, isLast) = <<l>>
  BY DEF Repaired
<1>6. QED
  BY <1>1, <1>2, <1>3, <1>4, <1>5, Zenon DEF Repairing, Add

\* the sides of what the first n lines of b were repaired to
Mended(b, c, n) ==
  /\ SideOf(c, OldSide) = Listing(FileLines(b), Side(b, OldSide), 0, n)
  /\ SideOf(c, NewSide) = Listing(Ended(FileLines(b)), Side(b, NewSide), 0, n)

LEMMA MendedGrows ==
  ASSUME NEW b \in Seq(Line), MarkedLast(b), NEW c \in Seq(Line), NEW n \in 1..Len(b),
         Mended(b, c, n - 1), NEW d, d = Repairing(c, b[n], n = Len(b))
  PROVE  Mended(b, d, n)
<1> DEFINE l == b[n]
           f == FileLines(b)
           e == Ended(f)
           S == Side(b, OldSide)
           T == Side(b, NewSide)
           isLast == n = Len(b)
           old == Listing(f, S, 0, n - 1)
           new == Listing(e, T, 0, n - 1)
           gone == AsDeletion(l)
           back == AsAddition(l)
<1>1. l \in Line /\ l.kind \in {"ctx", "add", "del"}
  <2>1. l \in Line
    OBVIOUS
  <2>2. QED
    BY <2>1 DEF Line, Kinds
<1>2. /\ gone \in Line /\ gone.kind = "del" /\ LineOf(gone) = LineOf(l)
      /\ back \in Line /\ back.kind = "add" /\ LineOf(back) = WithNewline(LineOf(l))
  <2> HIDE DEF l
  <2>1. QED
    BY <1>1, RewrittenIs
<1>3. (n \in S <=> l.kind \in OldSide) /\ (n \in T <=> l.kind \in NewSide)
  BY StayingIs
<1>4. f \in Seq(FileLine) /\ Len(f) = Len(b) /\ f[n] = LineOf(l)
      /\ (~l.nonl => WithNewline(f[n]) = f[n])
  BY FileLinesAre, FileLineAt DEF LineOf
<1>5. n \in Nat /\ 0 \in Nat /\ 0 < n /\ n <= Len(f) /\ n \in 1..Len(f)
  BY <1>4
<1>6. /\ e \in Seq(FileLine) /\ Len(e) = Len(f)
      /\ e[n] = IF n = Len(f) THEN f[n] ELSE WithNewline(f[n])
  <2> HIDE DEF f
  <2>1. QED
    BY <1>4, <1>5, EndedIs
<1>7. SideOf(c, OldSide) = old /\ SideOf(c, NewSide) = new
  BY DEF Mended
<1>8. l.nonl /\ ~isLast => l.kind # "add"
  <2>1. DOMAIN b = 1..Len(b) /\ n \in 1..Len(b) /\ Len(b) \in 1..Len(b) /\ (~isLast => n < Len(b))
    OBVIOUS
  <2>2. QED
    BY <2>1 DEF MarkedLast
<1>9. /\ l.kind = "ctx" /\ l.nonl /\ ~isLast => d = Add(Add(c, gone), back)
      /\ ~(l.kind = "ctx" /\ l.nonl /\ ~isLast) => d = Add(c, l)
  BY <1>1, RepairingIs, Zenon
<1>10. isLast <=> n = Len(f)
  BY <1>4
<1> HIDE DEF l, f, e, S, T, isLast, gone, back
<1>11. n \in S => Listing(f, S, 0, n) = Add(old, LineOf(l))
  <2>1. n \in S => Listing(f, S, 0, n) = Add(Listing(f, S, 0, n - 1), f[n])
    BY <1>4, <1>5, ListingAdds, Zenon
  <2>2. QED
    BY <1>4, <2>1, Zenon
<1>12. n \notin S => Listing(f, S, 0, n) = old
  BY <1>4, <1>5, ListingSkips, Zenon
<1>13. n <= Len(e)
  BY <1>5, <1>6
<1>14. n \in T => Listing(e, T, 0, n) = Add(new, e[n])
  BY <1>5, <1>6, <1>13, ListingAdds, Zenon
<1>15. n \notin T => Listing(e, T, 0, n) = new
  BY <1>5, <1>6, <1>13, ListingSkips, Zenon
<1> HIDE DEF old, new
<1>16. CASE l.kind = "ctx" /\ l.nonl /\ ~isLast
  <2> DEFINE m == Add(c, gone)
  <2>1. m \in Seq(Line)
    BY <1>2, AddIs
  <2>2. m = Add(c, gone) /\ d = Add(m, back)
    BY <1>9, <1>16
  <2> HIDE DEF m
  <2>3. /\ "del" \in OldSide /\ "del" \notin NewSide /\ "add" \notin OldSide /\ "add" \in NewSide
        /\ "ctx" \in OldSide /\ "ctx" \in NewSide
    BY DEF OldSide, NewSide
  <2>4. SideOf(m, OldSide) = Add(SideOf(c, OldSide), LineOf(l)) /\ SideOf(m, NewSide) = SideOf(c, NewSide)
    <3>1. SideOf(m, OldSide) = Add(SideOf(c, OldSide), LineOf(gone))
      BY <1>2, <2>2, <2>3, SideGrows
    <3>2. SideOf(m, NewSide) = SideOf(c, NewSide)
      BY <1>2, <2>2, <2>3, SideGrows
    <3>3. QED
      BY <1>2, <3>1, <3>2
  <2>5. /\ SideOf(d, OldSide) = SideOf(m, OldSide)
        /\ SideOf(d, NewSide) = Add(SideOf(m, NewSide), WithNewline(LineOf(l)))
    <3>1. SideOf(d, OldSide) = SideOf(m, OldSide)
      BY <1>2, <2>1, <2>2, <2>3, SideGrows
    <3>2. SideOf(d, NewSide) = Add(SideOf(m, NewSide), LineOf(back))
      BY <1>2, <2>1, <2>2, <2>3, SideGrows
    <3>3. QED
      BY <1>2, <3>1, <3>2
  <2>6. e[n] = WithNewline(LineOf(l)) /\ n \in S /\ n \in T
    BY <1>3, <1>4, <1>6, <1>10, <1>16, <2>3
  <2>7. SideOf(d, OldSide) = Listing(f, S, 0, n) /\ SideOf(d, NewSide) = Listing(e, T, 0, n)
    BY <1>7, <1>11, <1>14, <2>4, <2>5, <2>6, Zenon
  <2>8. QED
    BY <2>7, Zenon DEF Mended, f, e, S, T
<1>17. CASE ~(l.kind = "ctx" /\ l.nonl /\ ~isLast)
  <2>1. d = Add(c, l)
    BY <1>9, <1>17
  <2>2. /\ l.kind \in OldSide => SideOf(d, OldSide) = Add(SideOf(c, OldSide), LineOf(l))
        /\ l.kind \notin OldSide => SideOf(d, OldSide) = SideOf(c, OldSide)
        /\ l.kind \in NewSide => SideOf(d, NewSide) = Add(SideOf(c, NewSide), LineOf(l))
        /\ l.kind \notin NewSide => SideOf(d, NewSide) = SideOf(c, NewSide)
    <3>1. /\ l.kind \in OldSide => SideOf(d, OldSide) = Add(SideOf(c, OldSide), LineOf(l))
          /\ l.kind \notin OldSide => SideOf(d, OldSide) = SideOf(c, OldSide)
      BY <1>1, <2>1, SideGrows
    <3>2. /\ l.kind \in NewSide => SideOf(d, NewSide) = Add(SideOf(c, NewSide), LineOf(l))
          /\ l.kind \notin NewSide => SideOf(d, NewSide) = SideOf(c, NewSide)
      BY <1>1, <2>1, SideGrows
    <3>3. QED
      BY <3>1, <3>2
  <2>3. n \in T => e[n] = LineOf(l)
    <3>1. l.kind \in NewSide => l.kind = "ctx" \/ l.kind = "add"
      BY DEF NewSide
    <3>2. QED
      BY <1>3, <1>4, <1>6, <1>8, <1>10, <1>17, <3>1
  <2>4. SideOf(d, OldSide) = Listing(f, S, 0, n)
    BY <1>3, <1>7, <1>11, <1>12, <2>2, Zenon
  <2>5. SideOf(d, NewSide) = Listing(e, T, 0, n)
    BY <1>3, <1>7, <1>14, <1>15, <2>2, <2>3, Zenon
  <2>6. QED
    BY <2>4, <2>5, Zenon DEF Mended, f, e, S, T
<1>18. QED
  BY <1>16, <1>17

(* A line of the new side lacks its newline only where the side ends.      *)
LEMMA EndedTwice ==
  ASSUME NEW b \in Seq(Line), MarkedLast(b)
  PROVE  Listing(Ended(FileLines(b)), Side(b, NewSide), 0, Len(b)) = Ended(SideOf(b, NewSide))
<1> DEFINE n == Len(b)
           f == FileLines(b)
           e == Ended(f)
           T == Side(b, NewSide)
           c == Closed(f, T)
<1>1. n \in Nat /\ f \in Seq(FileLine) /\ Len(f) = n /\ DOMAIN b = 1..n /\ 0 \in Nat /\ 0 <= n
  BY FileLinesAre
<1>2. \A i \in 1..n : ~b[i].nonl => WithNewline(f[i]) = f[i]
  BY FileLineAt
<1>3. \A i \in 1..n : i \in T <=> b[i].kind \in NewSide
  BY StayingIs
<1>4. \A i, j \in 1..n : b[i].nonl /\ i < j => b[i].kind # "add" /\ b[j].kind = "add"
  BY <1>1 DEF MarkedLast
<1>5. SideOf(b, NewSide) = Listing(f, T, 0, n)
  BY DEF SideOf
<1> HIDE DEF n, f, T
<1>6. /\ e \in Seq(FileLine) /\ Len(e) = n
      /\ \A i \in 1..n : e[i] = IF i = n THEN f[i] ELSE WithNewline(f[i])
  BY <1>1, EndedIs
<1>7. /\ IsClosed(c, f, T) /\ Ended(Listing(f, T, 0, Len(f))) = Listing(c, T, 0, Len(f))
      /\ c \in Seq(FileLine) /\ Len(c) = n
  BY <1>1, ClosedIsClosed, EndedListing, ClosedIs
<1> HIDE DEF c, e
<1>8. ASSUME NEW i \in (0 + 1)..n
      PROVE  (i \in T <=> 0 + i \in T) /\ (i \in T => e[i] = c[0 + i])
  <2>1. i \in 1..n /\ 0 + i = i /\ n \in 1..n /\ (i # n => i < n /\ n \in (i + 1)..n)
    BY <1>1
  <2>2. /\ (\E j \in (i + 1)..n : j \in T) => c[i] = WithNewline(f[i])
        /\ ~(\E j \in (i + 1)..n : j \in T) => c[i] = f[i]
    BY <1>1, <1>7, <2>1, ClosedLine
  <2>3. CASE i = n
    <3>1. ~ \E j \in (i + 1)..n : j \in T
      BY <1>1, <2>3
    <3>2. QED
      BY <1>6, <2>1, <2>2, <2>3, <3>1
  <2>4. CASE i # n
    <3>1. e[i] = WithNewline(f[i])
      BY <1>6, <2>1, <2>4
    <3>2. b[i].nonl => \E j \in (i + 1)..n : j \in T
      <4>1. b[i].nonl => b[n].kind = "add"
        BY <1>4, <2>1, <2>4
      <4>2. b[n].kind = "add" => n \in T
        BY <1>3, <2>1 DEF NewSide
      <4>3. QED
        BY <2>1, <2>4, <4>1, <4>2
    <3>3. QED
      BY <1>2, <2>1, <2>2, <3>1, <3>2
  <2>5. QED
    BY <2>3, <2>4
<1>9. Agree(e, T, c, T, 0, n, 0)
  BY <1>8, Zenon DEF Agree
<1>10. Listing(e, T, 0, n) = Listing(c, T, 0, n)
  BY <1>1, <1>6, <1>7, <1>9, ListingSame DEF Listed
<1>11. Listing(e, T, 0, n) = Ended(SideOf(b, NewSide))
  BY <1>1, <1>5, <1>7, <1>10
<1>12. QED
  BY <1>11 DEF e, f, T, n

-----------------------------------------------------------------------------
(* The picks, counted.                                                      *)

\* the sub-hunks picked up to j, of the picks p
TakenOf(p, j) == Cardinality({i \in 1..j : p[i] # {}})

LEMMA TakenSteps ==
  ASSUME NEW p, NEW j \in Nat
  PROVE  /\ TakenOf(p, j) \in Nat /\ TakenOf(p, 0) = 0
         /\ \A i \in 0..j : TakenOf(p, i) <= TakenOf(p, j)
         /\ p[j + 1] = {} => TakenOf(p, j + 1) = TakenOf(p, j)
         /\ p[j + 1] # {} => TakenOf(p, j + 1) = TakenOf(p, j) + 1
<1> DEFINE A(i) == {m \in 1..i : p[m] # {}}
<1>1. \A i \in Nat : IsFiniteSet(A(i)) /\ Cardinality(A(i)) \in Nat
  <2>1. TAKE i \in Nat
  <2>2. IsFiniteSet(1..i)
    BY FS_Interval
  <2>3. A(i) \in SUBSET (1..i)
    OBVIOUS
  <2>4. QED
    BY <2>2, <2>3, FS_Subset, FS_CardinalityType
<1>2. \A i \in 0..j : A(i) \in SUBSET A(j)
  OBVIOUS
<1>3. \A i \in 0..j : Cardinality(A(i)) <= Cardinality(A(j))
  <2>1. TAKE i \in 0..j
  <2> HIDE DEF A
  <2>2. QED
    BY <1>1, <1>2, FS_Subset
<1>4. A(0) = {}
  OBVIOUS
<1>5. Cardinality(A(0)) = 0
  BY <1>4, FS_EmptySet
<1>6. p[j + 1] = {} => A(j + 1) = A(j)
  OBVIOUS
<1>7. p[j + 1] # {} => A(j + 1) = A(j) \cup {j + 1} /\ j + 1 \notin A(j)
  OBVIOUS
<1>8. ASSUME p[j + 1] # {}
      PROVE  Cardinality(A(j + 1)) = Cardinality(A(j)) + 1
  <2>1. A(j + 1) = A(j) \cup {j + 1} /\ j + 1 \notin A(j) /\ IsFiniteSet(A(j))
    BY <1>1, <1>7, <1>8
  <2> HIDE DEF A
  <2>2. QED
    BY <2>1, FS_AddElement
<1>9. \A i : TakenOf(p, i) = Cardinality(A(i))
  BY DEF TakenOf
<1> HIDE DEF A
<1>10. QED
  BY <1>1, <1>3, <1>5, <1>6, <1>8, <1>9

(* What is counted above another pick stays.                               *)
LEMMA TakenSame ==
  ASSUME NEW p, NEW q, NEW j \in Nat, \A i \in 1..j : q[i] = p[i]
  PROVE  TakenOf(q, j) = TakenOf(p, j)
<1>1. {i \in 1..j : q[i] # {}} = {i \in 1..j : p[i] # {}}
  OBVIOUS
<1>2. QED
  BY <1>1 DEF TakenOf

\* the picks p of the first sub-hunks of gs made the hunks hs
Picks(p, gs, hs) ==
  /\ Len(p) <= Len(gs)
  /\ Len(hs) = TakenOf(p, Len(p))
  /\ \A j \in 1..Len(p) :
       /\ p[j] \subseteq ChangedLines(gs[j])
       /\ p[j] # {} => Takes(hs[TakenOf(p, j)], gs[j], p[j])

\* where the hunk of the pick of sub-hunk j stands among the hunks of the picks
LEMMA PickAt ==
  ASSUME NEW p, NEW gs, NEW hs, Picks(p, gs, hs), Len(p) \in Nat, NEW j \in 1..Len(p), p[j] # {}
  PROVE  TakenOf(p, j) \in 1..Len(hs)
<1> DEFINE i == j - 1
<1>1. i \in Nat /\ i + 1 = j /\ j \in Nat /\ j \in 0..Len(p)
  OBVIOUS
<1> HIDE DEF i
<1>2. p[i + 1] # {}
  BY <1>1
<1>3. TakenOf(p, i + 1) = TakenOf(p, i) + 1 /\ TakenOf(p, i) \in Nat
  BY <1>1, <1>2, TakenSteps
<1>4. TakenOf(p, j) <= TakenOf(p, Len(p)) /\ TakenOf(p, Len(p)) \in Nat
  BY <1>1, TakenSteps
<1>5. Len(hs) = TakenOf(p, Len(p))
  BY DEF Picks
<1>6. QED
  BY <1>1, <1>3, <1>4, <1>5

(* A sub-hunk passed by.                                                   *)
LEMMA PicksPass ==
  ASSUME NEW p \in Seq(SUBSET Nat), NEW gs, NEW hs, Picks(p, gs, hs), Len(p) < Len(gs),
         Len(gs) \in Nat, NEW q, q = Add(p, {})
  PROVE  Picks(q, gs, hs)
<1> DEFINE n == Len(p)
           m == n + 1
<1>1. /\ n \in Nat /\ Len(q) = m /\ q[m] = {} /\ \A i \in 1..n : q[i] = p[i]
      /\ m <= Len(gs) /\ \A j \in 1..m : j \in 1..n \/ j = m
      /\ \A j \in 1..n : j \in Nat /\ \A i \in 1..j : i \in 1..n
  <2>1. {} \in SUBSET Nat
    OBVIOUS
  <2>2. Len(q) = m /\ n \in Nat /\ q[m] = {} /\ \A i \in 1..n : q[i] = p[i]
    BY <2>1 DEF Add
  <2>3. QED
    BY <2>2
<1> HIDE DEF m
<1>2. \A j \in 1..n : TakenOf(q, j) = TakenOf(p, j)
  BY <1>1, TakenSame
<1>3. TakenOf(q, m) = TakenOf(p, n)
  <2>1. TakenOf(q, n) = TakenOf(p, n)
    BY <1>1, TakenSame
  <2>2. n + 1 = m
    BY DEF m
  <2>3. q[n + 1] = {}
    BY <1>1, <2>2
  <2>4. TakenOf(q, n + 1) = TakenOf(q, n)
    BY <1>1, <2>3, TakenSteps
  <2>5. QED
    BY <2>1, <2>2, <2>4
<1>4. Len(hs) = TakenOf(q, Len(q))
  BY <1>1, <1>3 DEF Picks
<1>5. ASSUME NEW j \in 1..m
      PROVE  /\ q[j] \subseteq ChangedLines(gs[j])
             /\ q[j] # {} => Takes(hs[TakenOf(q, j)], gs[j], q[j])
  <2>1. CASE j \in 1..n
    BY <1>1, <1>2, <2>1 DEF Picks
  <2>2. CASE j = m
    BY <1>1, <2>2
  <2>3. QED
    BY <1>1, <2>1, <2>2
<1>6. QED
  BY <1>1, <1>4, <1>5 DEF Picks

(* A sub-hunk taken.                                                       *)
LEMMA PicksTake ==
  ASSUME NEW p \in Seq(SUBSET Nat), NEW gs, NEW hs \in Seq(Hunk), Picks(p, gs, hs),
         Len(p) < Len(gs), Len(gs) \in Nat, NEW j, j = Len(p) + 1,
         NEW set \in SUBSET Nat, set # {}, set \subseteq ChangedLines(gs[j]),
         NEW h \in Hunk, Takes(h, gs[j], set),
         NEW q, q = Add(p, set), NEW us, us = Add(hs, h)
  PROVE  Picks(q, gs, us)
<1> DEFINE n == Len(p)
           t == TakenOf(p, n)
           w == t + 1
<1>1. /\ n \in Nat /\ Len(q) = j /\ q[j] = set /\ \A i \in 1..n : q[i] = p[i]
      /\ j <= Len(gs) /\ j \in Nat /\ \A i \in 1..j : i \in 1..n \/ i = j
      /\ \A i \in 1..n : i \in Nat /\ \A m \in 1..i : m \in 1..n
  <2>1. Len(q) = n + 1 /\ n \in Nat /\ q[n + 1] = set /\ \A i \in 1..n : q[i] = p[i]
    BY DEF Add
  <2>2. QED
    BY <2>1
<1>2. \A i \in 1..n : TakenOf(q, i) = TakenOf(p, i)
  BY <1>1, TakenSame
<1>3. t \in Nat /\ Len(hs) = t
  BY <1>1, TakenSteps DEF Picks
<1> HIDE DEF t
<1>4. TakenOf(q, j) = w
  <2>1. TakenOf(q, n) = t
    BY <1>1, TakenSame DEF t
  <2>2. q[n + 1] # {}
    BY <1>1
  <2>3. TakenOf(q, n + 1) = TakenOf(q, n) + 1
    BY <1>1, <2>2, TakenSteps
  <2>4. QED
    BY <2>1, <2>3
<1>5. Len(us) = w /\ us[w] = h /\ \A i \in 1..t : us[i] = hs[i]
  <2>1. Len(us) = Len(hs) + 1 /\ us[Len(hs) + 1] = h /\ \A i \in 1..Len(hs) : us[i] = hs[i]
    BY DEF Add
  <2>2. QED
    BY <1>3, <2>1
<1> HIDE DEF w
<1>6. Len(us) = TakenOf(q, Len(q))
  BY <1>1, <1>4, <1>5
<1>7. ASSUME NEW i \in 1..j
      PROVE  /\ q[i] \subseteq ChangedLines(gs[i])
             /\ q[i] # {} => Takes(us[TakenOf(q, i)], gs[i], q[i])
  <2>1. CASE i \in 1..n
    <3>1. q[i] = p[i] /\ TakenOf(q, i) = TakenOf(p, i)
      BY <1>1, <1>2, <2>1
    <3>2. /\ p[i] \subseteq ChangedLines(gs[i])
          /\ p[i] # {} => Takes(hs[TakenOf(p, i)], gs[i], p[i])
      BY <2>1 DEF Picks
    <3>3. p[i] # {} => TakenOf(p, i) \in 1..t
      BY <1>1, <1>3, <2>1, PickAt
    <3>4. p[i] # {} => us[TakenOf(p, i)] = hs[TakenOf(p, i)]
      BY <1>5, <3>3
    <3>5. QED
      BY <3>1, <3>2, <3>4
  <2>2. CASE i = j
    <3>1. q[i] = set /\ us[TakenOf(q, i)] = h
      BY <1>1, <1>4, <1>5, <2>2
    <3>2. QED
      BY <2>2, <3>1
  <2>3. QED
    BY <1>1, <2>1, <2>2
<1>8. QED
  BY <1>1, <1>6, <1>7 DEF Picks

-----------------------------------------------------------------------------
(* The files the entry is the diff of.                                      *)

\* a piece that follows the pieces gs leaves them with the changes down to its end
LEMMA PassedGrows ==
  ASSUME NEW full, NEW f, NEW ls, NEW u, Placed(full, f, ls, u),
         NEW gs \in Seq(Hunk), NEW p \in Hunk,
         NEW from \in Nat \ {0}, NEW to \in Nat, from <= to, to <= Len(ls),
         ChangedTo(gs, Len(gs)) = CountIn(full, Changes, 1, f) + CountIn(ls, Changes, 1, from - 1),
         Count(p.lines, Changes) = CountIn(ls, Changes, from, to),
         NEW y, y = f + to
  PROVE  ChangedTo(Append(gs, p), Len(Append(gs, p))) = CountIn(full, Changes, 1, y)
<1> DEFINE C(a, b) == CountIn(full, Changes, a, b)
           L(a, b) == CountIn(ls, Changes, a, b)
           below == f + 1
           n == from - 1
<1>1. f \in Nat /\ Len(ls) \in Nat
  BY DEF Placed
<1>2. /\ 1 \in Int /\ f \in Int /\ y \in Int /\ 1 <= f + 1 /\ f <= y /\ to \in Nat
      /\ n \in Int /\ to \in Int /\ 1 <= n + 1 /\ n <= to /\ n + 1 = from
  BY <1>1
<1>3. C(1, y) = C(1, f) + C(below, y)
  BY <1>2, CountInSplits
<1>4. C(below, y) = L(1, to)
  <2>1. below = f + 1
    OBVIOUS
  <2> HIDE DEF below
  <2>2. QED
    BY <2>1, PlacedCounts
<1>5. L(1, to) = L(1, n) + L(from, to)
  <2>1. L(1, to) = L(1, n) + L(n + 1, to)
    BY <1>2, CountInSplits
  <2>2. QED
    BY <1>2, <2>1
<1>6. ChangedTo(Append(gs, p), Len(Append(gs, p))) = ChangedTo(gs, Len(gs)) + L(from, to)
  BY AppendChanges
<1>7. C(1, f) \in Nat /\ L(1, n) \in Nat /\ L(from, to) \in Nat
  BY <1>2, CountInType
<1> HIDE DEF below, C, L
<1>8. ChangedTo(gs, Len(gs)) = C(1, f) + L(1, n)
  BY DEF C, L
<1>9. ChangedTo(Append(gs, p), Len(Append(gs, p))) = C(1, y)
  BY <1>3, <1>4, <1>5, <1>6, <1>7, <1>8
<1>10. QED
  BY <1>9 DEF C

\* the diffs the meaning of a selection is settled for
Ordered == RealDiff /\ DeletionsFirst(Full)

Meant ==
  /\ SubsStand /\ PassedInv /\ HandedOver
  /\ PickedInv /\ SliceSides /\ FixSides

\* the part of MInv that is about all diffs
FileInv == IInv /\ entry \in Entries /\ (Ordered => Meant)

LEMMA FileInvIs == FileInv <=> IInv /\ entry \in Entries /\ (Ordered => Meant)
BY DEF FileInv

(* What is known of the files the entry is the diff of.                    *)
LEMMA TheFiles ==
  ASSUME FileInv, RealDiff
  PROVE  /\ IInv /\ Real /\ IsDiffOf(Full, entry.tops, entry.hunks)
         /\ Full \in Seq(Line) /\ WellMarked(Full)
<1>1. IInv /\ entry \in Entries /\ entry.real
  BY FileInvIs DEF RealDiff
<1>2. GitShaped(entry.hunks) /\ IsDiffOf(entry.full, entry.tops, entry.hunks)
  BY <1>1, RealAssumption
<1>3. Full \in Seq(Line) /\ WellMarked(Full)
  BY <1>2 DEF IsDiffOf, Full
<1>4. QED
  BY <1>1, <1>2, <1>3 DEF Real, Full

LEMMA InitMeans == Init => FileInv
<1> SUFFICES ASSUME Init
             PROVE  FileInv
  OBVIOUS
<1>1. IInv
  BY InitInv
<1>2. /\ entry \in Entries /\ phase = "input" /\ subs = <<>> /\ out = <<>> /\ picked = <<>>
      /\ k = 1
  BY DEF Init, LoopInit
<1>3. SubsStand
  BY <1>2 DEF SubsStand, Standing
<1>4. PassedInv /\ HandedOver /\ SliceSides /\ FixSides
  BY <1>2 DEF PassedInv, HandedOver, SliceSides, FixSides, At
<1>5. PickedInv
  <2>1. Len(<<>>) = 0 /\ DOMAIN <<>> = {} /\ TakenTo(0) = 0
    <3>1. {i \in 1..0 : picked[i] # {}} = {}
      OBVIOUS
    <3>2. QED
      BY <3>1, FS_EmptySet DEF TakenTo
  <2>2. QED
    BY <1>2, <2>1 DEF PickedInv
<1>6. QED
  BY <1>1, <1>2, <1>3, <1>4, <1>5, FileInvIs DEF Meant

(* Where the hunk being cut stands.                                        *)
LEMMA TheHunkStands ==
  ASSUME FileInv, RealDiff, phase = "cut", hi <= Len(hunks)
  PROVE  /\ hunks = entry.hunks /\ hunks \in Seq(Hunk) /\ hi \in 1..Len(hunks)
         /\ hunks[hi] \in Hunk /\ hunks[hi].lines \in Seq(Line) /\ Len(hunks[hi].lines) \in Nat
         /\ entry.tops[hi] \in 0..Len(Full)
         /\ Stands(Full, hunks[hi], entry.tops[hi], CountIn(Full, Changes, 1, entry.tops[hi]))
<1>1. /\ IInv /\ Full \in Seq(Line) /\ IsDiffOf(Full, entry.tops, entry.hunks)
      /\ hunks = entry.hunks /\ hunks \in Seq(Hunk) /\ hi \in Nat \ {0}
  BY TheFiles DEF IInv, TypeOK, LoopInv, LoopTypeOK, AcceptedInv
<1>2. hi \in 1..Len(hunks) /\ DOMAIN hunks = 1..Len(hunks)
  BY <1>1
<1>3. hunks[hi] \in Hunk
  BY <1>1, <1>2
<1>4. /\ entry.tops \in Seq(Nat) /\ Len(entry.tops) = Len(hunks)
      /\ Stands(Full, hunks[hi], entry.tops[hi], CountIn(Full, Changes, 1, entry.tops[hi]))
  BY <1>1, <1>2 DEF IsDiffOf
<1>5. entry.tops[hi] \in Nat
  BY <1>2, <1>4
<1>6. hunks[hi].lines \in Seq(Line) /\ Len(hunks[hi].lines) \in Nat
  BY <1>3 DEF Hunk
<1>7. entry.tops[hi] + Len(hunks[hi].lines) <= Len(Full)
  BY <1>4 DEF Stands
<1>8. QED
  <2>1. Len(Full) \in Nat
    BY <1>1
  <2>2. QED
    BY <1>1, <1>2, <1>3, <1>4, <1>5, <1>6, <1>7, <2>1

LEMMA BodyOf ==
  ASSUME NEW hs \in Seq(Hunk), NEW j \in 1..Len(hs)
  PROVE  hs[j] \in Hunk /\ hs[j].lines \in Seq(Line) /\ Len(hs[j].lines) \in Nat
<1>1. hs[j] \in Hunk
  OBVIOUS
<1>2. hs[j].lines \in Seq(Line)
  BY <1>1 DEF Hunk
<1>3. QED
  BY <1>1, <1>2

(* Nothing changes between a hunk and the next.                            *)
LEMMA TheNextHunk ==
  ASSUME NEW full, NEW tops, NEW hs \in Seq(Hunk), IsDiffOf(full, tops, hs),
         NEW j \in 1..Len(hs), NEW m, m = j + 1, m <= Len(hs), NEW b, b = tops[j] + Len(hs[j].lines)
  PROVE  CountIn(full, Changes, 1, b) = CountIn(full, Changes, 1, tops[m])
<1> DEFINE t == tops[m]
           c == CountIn(full, Changes, b + 1, t)
<1>1. /\ full \in Seq(Line) /\ tops \in Seq(Nat) /\ Len(tops) = Len(hs) /\ DOMAIN hs = 1..Len(hs)
      /\ m \in 1..Len(hs) /\ j \in 1..(m - 1) /\ j \in 0..Len(hs) /\ j # 0
  BY DEF IsDiffOf
<1>2. /\ Stands(full, hs[m], t, CountIn(full, Changes, 1, t))
      /\ b <= t /\ t \in Nat
  BY <1>1 DEF IsDiffOf
<1>3. b \in Nat
  <2>2. Len(hs[j].lines) \in Nat
    BY BodyOf
  <2>3. tops[j] \in Nat
    BY <1>1
  <2>4. QED
    BY <2>2, <2>3
<1>4. t <= Len(full)
  <2>2. Len(hs[m].lines) \in Nat
    BY <1>1, BodyOf
  <2>3. Len(full) \in Nat
    BY <1>1
  <2>4. t + Len(hs[m].lines) <= Len(full)
    BY <1>2 DEF Stands
  <2> HIDE DEF t
  <2>5. QED
    BY <1>2, <2>2, <2>3, <2>4
<1>5. EndsAt(tops, hs, j) = b
  BY <1>1 DEF EndsAt
<1>6. j < Len(hs) => t = tops[j + 1]
  OBVIOUS
<1>7. CountIn(full, Changes, EndsAt(tops, hs, j) + 1, t) = 0
  <2> HIDE DEF t
  <2>1. QED
    BY <1>1, <1>2, <1>4, <1>6, NothingBetween
<1>8. c = 0
  BY <1>5, <1>7
<1>9. CountIn(full, Changes, 1, t) = CountIn(full, Changes, 1, b) + c
  <2>1. 1 \in Int /\ b \in Int /\ t \in Int /\ 1 <= b + 1 /\ b <= t
    BY <1>2, <1>3
  <2> HIDE DEF t
  <2>2. QED
    BY <2>1, CountInSplits
<1>10. CountIn(full, Changes, 1, b) \in Nat
  BY <1>3, CountInType
<1> HIDE DEF c, t
<1>11. CountIn(full, Changes, 1, t) = CountIn(full, Changes, 1, b)
  BY <1>8, <1>9, <1>10
<1>12. QED
  BY <1>11 DEF t

(* What a piece that stands below those before it does to the invariant.   *)
LEMMA PieceMeans ==
  ASSUME FileInv, IInv', At("split"), hi <= Len(hunks), NEW p \in Hunk,
         PieceFrom \in Nat \ {0}, NEW to \in Nat, PieceFrom <= to, to <= Len(hunks[hi].lines),
         Count(p.lines, Changes) = CountIn(hunks[hi].lines, Changes, PieceFrom, to),
         Ordered => \E top \in 0..Len(Full) :
           Stands(Full, p, top, CountIn(Full, Changes, 1, entry.tops[hi])
                                  + CountIn(hunks[hi].lines, Changes, 1, PieceFrom - 1)),
         subs' = Append(subs, p), UNCHANGED <<entry, phase, step, hunks, out, picked, k>>,
         \/ hi' = hi /\ PieceFrom' = to + 1
         \/ hi' = hi + 1 /\ PieceFrom' = 1 /\ to = Len(hunks[hi].lines)
  PROVE  FileInv'
<1> DEFINE h == hunks[hi]
           f == entry.tops[hi]
           from == PieceFrom
           b == f + to
           above == CountIn(Full, Changes, 1, f) + CountIn(h.lines, Changes, 1, from - 1)
<1>1. /\ phase = "cut" /\ step = "split" /\ step # "slice" /\ step # "fix"
      /\ entry \in Entries /\ entry' \in Entries /\ Full' = Full /\ (Ordered' <=> Ordered)
      /\ subs \in Seq(Hunk) /\ entry' = entry /\ hunks' = hunks
  BY FileInvIs DEF At, Ordered, RealDiff, Full, IInv, TypeOK
<1>2. ASSUME Ordered
      PROVE  Meant'
  <2>1. /\ Full \in Seq(Line) /\ IsDiffOf(Full, entry.tops, entry.hunks)
        /\ SubsStand /\ PassedInv /\ PickedInv /\ RealDiff
    BY <1>2, TheFiles, FileInvIs DEF Meant, Ordered
  <2>2. /\ hunks = entry.hunks /\ hunks \in Seq(Hunk) /\ hi \in 1..Len(hunks)
        /\ h \in Hunk /\ h.lines \in Seq(Line) /\ f \in 0..Len(Full)
        /\ Stands(Full, h, f, CountIn(Full, Changes, 1, f)) /\ Len(h.lines) \in Nat
    BY <1>1, <2>1, TheHunkStands
  <2>3. PICK u : u = f + Len(h.lines)
    OBVIOUS
  <2>4. Placed(Full, f, h.lines, u)
    <3> HIDE DEF h, f
    <3>1. QED
      BY <2>1, <2>2, <2>3, StandsPlaced
  <2>5. CountIn(Full, Changes, 1, f + from - 1) = above
    <3> DEFINE n == from - 1
               x == f + n
               top == f + 1
    <3>1. n \in Nat /\ n <= Len(h.lines) /\ f \in Nat /\ x = f + from - 1
      BY <2>2
    <3>2. CountIn(Full, Changes, 1, x) = CountIn(Full, Changes, 1, f) + CountIn(Full, Changes, f + 1, x)
      <4>1. 1 \in Int /\ f \in Int /\ x \in Int /\ 1 <= f + 1 /\ f <= x
        BY <3>1
      <4> HIDE DEF x, f
      <4>2. QED
        BY <4>1, CountInSplits
    <3>3. CountIn(Full, Changes, top, x) = CountIn(h.lines, Changes, 1, n)
      <4>1. top = f + 1 /\ x = f + n
        OBVIOUS
      <4> HIDE DEF top, x, n, f, h
      <4>2. QED
        BY <2>4, <3>1, <4>1, PlacedCounts
    <3>4. QED
      BY <3>1, <3>2, <3>3
  <2>6. ChangedTo(subs, Len(subs)) = above
    BY <1>1, <2>1, <2>5 DEF PassedInv, At
  <2>7. ChangedTo(subs', Len(subs')) = CountIn(Full, Changes, 1, b)
    <3> DEFINE gs == Append(subs, p)
    <3>1. b = f + to
      OBVIOUS
    <3> HIDE DEF b, f, h, from
    <3>2. ChangedTo(gs, Len(gs)) = CountIn(Full, Changes, 1, b)
      BY <1>1, <2>4, <2>6, <3>1, PassedGrows DEF from, h
    <3>3. QED
      BY <3>2
  <2>8. SubsStand'
    <3>1. PICK above0 \in Nat : above0 = 0
      OBVIOUS
    <3>2. Standing(Full, subs, above0)
      BY <2>1, <3>1 DEF SubsStand
    <3>3. above = above0 + ChangedTo(subs, Len(subs))
      <4>1. ChangedTo(subs, Len(subs)) \in Nat
        BY <1>1, ChangesAreFinite
      <4> HIDE DEF above
      <4>2. QED
        BY <2>6, <3>1, <4>1
    <3>4. \E top \in 0..Len(Full) : Stands(Full, p, top, above)
      BY <1>2
    <3>5. Standing(Full, Append(subs, p), above0)
      <4> HIDE DEF above
      <4>1. QED
        BY <1>1, <3>2, <3>3, <3>4, StandingGrows
    <3>6. QED
      BY <1>1, <3>1, <3>5 DEF SubsStand
  <2>9. PassedInv'
    <3>1. CASE hi' = hi /\ PieceFrom' = to + 1
      <4>1. entry'.tops[hi'] + PieceFrom' - 1 = b
        BY <1>1, <2>2, <3>1
      <4>2. QED
        BY <1>1, <2>7, <4>1 DEF PassedInv
    <3>2. CASE hi' = hi + 1 /\ PieceFrom' = 1 /\ to = Len(h.lines)
      <4>1. ASSUME hi' <= Len(hunks)
            PROVE  ChangedTo(subs', Len(subs')) = CountIn(Full, Changes, 1, entry.tops[hi'])
        <5>1. b = entry.tops[hi] + Len(hunks[hi].lines)
          BY <3>2
        <5> HIDE DEF b
        <5>2. CountIn(Full, Changes, 1, b) = CountIn(Full, Changes, 1, entry.tops[hi'])
          BY <2>1, <2>2, <3>2, <4>1, <5>1, TheNextHunk
        <5>3. QED
          BY <2>7, <5>2
      <4>2. ASSUME hi' <= Len(hunks)
            PROVE  entry'.tops[hi'] + PieceFrom' - 1 = entry.tops[hi']
        <5>1. hi' \in 1..Len(hunks)
          BY <2>2, <3>2, <4>2
        <5>2. entry.tops \in Seq(Nat) /\ Len(entry.tops) = Len(hunks)
          BY <2>1, <2>2 DEF IsDiffOf
        <5>3. entry.tops[hi'] \in Nat
          BY <5>1, <5>2
        <5>4. QED
          BY <1>1, <3>2, <5>3
      <4>3. QED
        BY <1>1, <4>1, <4>2 DEF PassedInv
    <3>3. QED
      BY <3>1, <3>2
  <2>10. picked = <<>> /\ out = <<>>
    BY <1>1, <2>1 DEF PickedInv, At
  <2>11. PickedInv'
    <3>1. TakenTo(0) = 0
      <4>1. {i \in 1..0 : picked[i] # {}} = {}
        OBVIOUS
      <4>2. QED
        BY <4>1, FS_EmptySet DEF TakenTo
    <3>2. TakenTo(0)' = 0
      BY <3>1 DEF TakenTo
    <3>3. Len(picked') = 0 /\ Len(out') = 0 /\ DOMAIN picked' = {} /\ picked' = <<>> /\ out' = <<>>
      BY <2>10
    <3>4. Len(picked') <= Len(subs')
      <4>1. subs' \in Seq(Hunk)
        BY DEF IInv, TypeOK
      <4>2. QED
        BY <3>3, <4>1
    <3>5. QED
      BY <1>1, <3>2, <3>3, <3>4 DEF PickedInv
  <2>12. HandedOver' /\ SliceSides' /\ FixSides'
    BY <1>1 DEF HandedOver, SliceSides, FixSides, At
  <2>13. QED
    BY <2>8, <2>9, <2>11, <2>12 DEF Meant
<1>3. QED
  <2>1. FileInv' <=> IInv' /\ entry' \in Entries /\ (Ordered' => Meant')
    BY DEF FileInv, Ordered, Meant
  <2>2. QED
    BY <1>1, <1>2, <2>1

LEMMA KeepHunkMeans == FileInv /\ KeepHunk => FileInv'
<1> SUFFICES ASSUME FileInv, KeepHunk
             PROVE  FileInv'
  OBVIOUS
<1> DEFINE h == hunks[hi]
           to == Len(h.lines)
<1>1. /\ phase = "cut" /\ At("split") /\ hi <= Len(hunks) /\ hi' = hi + 1
      /\ Cardinality(RunStarts(h.lines)) <= 1 /\ subs' = Append(subs, h)
      /\ UNCHANGED <<entry, phase, step, hunks, out, picked, k>> /\ run' = run
  BY DEF KeepHunk, At, loop
<1>2. IInv /\ IInv'
  BY KeepHunkInv, FileInvIs
<1>3. h \in Hunk /\ h.lines \in Seq(Line) /\ to \in Nat /\ Sound(h)
  <2>1. hunks \in Seq(Hunk) /\ hi \in 1..Len(hunks) /\ AllSound(hunks) /\ DOMAIN hunks = 1..Len(hunks)
    BY <1>1, <1>2 DEF IInv, TypeOK, LoopInv, LoopTypeOK, AcceptedInv
  <2>2. Sound(h)
    BY <2>1 DEF AllSound
  <2>3. QED
    BY <2>1, <2>2, BodyOf
<1>4. run = 0
  <2>1. Cardinality(RunStarts(h.lines)) \in Nat
    BY <1>3, RunsAreFinite
  <2>2. run # 0 => Cardinality(RunStarts(h.lines)) > 1
    BY <1>1, <1>2 DEF IInv, SplitInv
  <2>3. QED
    BY <1>1, <2>1, <2>2
<1>5. PieceFrom = 1 /\ PieceFrom' = 1
  BY <1>1, <1>4 DEF PieceFrom
<1>6. 1 <= to
  <2>1. h.lines # <<>>
    BY <1>3, SoundMeans
  <2>2. QED
    BY <1>3, <2>1
<1>7. Count(h.lines, Changes) = CountIn(h.lines, Changes, PieceFrom, to)
  BY <1>5 DEF Count
<1>8. ASSUME Ordered
      PROVE  \E top \in 0..Len(Full) :
               Stands(Full, h, top, CountIn(Full, Changes, 1, entry.tops[hi])
                                      + CountIn(h.lines, Changes, 1, PieceFrom - 1))
  <2>1. /\ entry.tops[hi] \in 0..Len(Full)
        /\ Stands(Full, h, entry.tops[hi], CountIn(Full, Changes, 1, entry.tops[hi]))
    BY <1>1, <1>8, TheHunkStands DEF Ordered
  <2>2. CountIn(h.lines, Changes, 1, 0) = 0
    BY CountInType
  <2>3. PieceFrom - 1 = 0
    BY <1>5
  <2>4. CountIn(Full, Changes, 1, entry.tops[hi]) \in Int
    BY <2>1, CountInType
  <2>5. CountIn(Full, Changes, 1, entry.tops[hi]) + CountIn(h.lines, Changes, 1, PieceFrom - 1)
          = CountIn(Full, Changes, 1, entry.tops[hi])
    BY <2>2, <2>3, <2>4
  <2> HIDE DEF h
  <2>6. QED
    BY <2>1, <2>5
<1>9. PieceFrom \in Nat \ {0} /\ PieceFrom <= to /\ to <= Len(h.lines) /\ to \in Nat
  BY <1>3, <1>5, <1>6
<1>10. QED
  BY <1>1, <1>2, <1>3, <1>5, <1>7, <1>8, <1>9, PieceMeans

(* A piece stands in the files where its header says.                      *)
LEMMA ThePieceStands ==
  ASSUME FileInv, Ordered, At("split"), hi <= Len(hunks),
         Cardinality(RunStarts(hunks[hi].lines)) > 1,
         NEW to \in Nat, ThisRun <= to, to <= Len(hunks[hi].lines),
         CountIn(hunks[hi].lines, OldSide, 1, to) > 0
  PROVE  \E top \in 0..Len(Full) :
           Stands(Full, RebuildSubhunk(hunks[hi], PieceFrom, to), top,
                  CountIn(Full, Changes, 1, entry.tops[hi])
                    + CountIn(hunks[hi].lines, Changes, 1, PieceFrom - 1))
<1> DEFINE h == hunks[hi]
           f == entry.tops[hi]
           above == CountIn(Full, Changes, 1, f)
<1>1. /\ phase = "cut" /\ RealDiff /\ IInv /\ Real /\ Full \in Seq(Line) /\ WellMarked(Full)
  BY TheFiles DEF At, Ordered
<1>2. /\ f \in 0..Len(Full) /\ Stands(Full, h, f, above)
      /\ h \in Hunk /\ h.lines \in Seq(Line) /\ Len(h.lines) \in Nat
  BY <1>1, TheHunkStands
<1>3. /\ Sound(h) /\ OldAt(h) >= 1 /\ OldEnd(h) <= MaxU32
      /\ PieceFrom \in Nat \ {0} /\ PieceFrom <= ThisRun /\ ThisRun \in Nat
      /\ run # 0 => ThisRun = run /\ run > 1
      /\ ThisRun <= Len(h.lines)
  BY <1>1, PieceBegins
<1>4. PieceFrom <= to
  BY <1>3
<1>5. ASSUME NEW i \in 1..(PieceFrom - 1)
      PROVE  ~h.lines[i].nonl
  <2>1. run # 0
    BY <1>5 DEF PieceFrom
  <2>2. PieceFrom = run /\ run \in RunStarts(h.lines) /\ run > 1
    BY <1>1, <1>3, <2>1 DEF PieceFrom, IInv, SplitInv
  <2>3. PICK c : c = run - 1
    OBVIOUS
  <2>4. c \in 1..Len(h.lines) /\ c < Len(h.lines) /\ i \in 1..c
    BY <1>2, <1>3, <1>5, <2>1, <2>2, <2>3
  <2>5. h.lines[c].kind \notin Changes
    BY <2>2, <2>3 DEF RunStarts
  <2>6. h.lines[c] \in Line
    <3>1. \A j \in 1..Len(h.lines) : h.lines[j] \in Line
      BY <1>2
    <3>2. QED
      BY <2>4, <3>1
  <2>7. h.lines[c].kind = "ctx"
    <3>1. h.lines[c].kind \in Kinds
      BY <2>6 DEF Line
    <3>2. QED
      BY <2>5, <3>1 DEF Kinds, Changes
  <2>8. PICK u : u = f + Len(h.lines)
    OBVIOUS
  <2> HIDE DEF h, f, above
  <2>9. Placed(Full, f, h.lines, u)
    BY <1>1, <1>2, <2>8, StandsPlaced
  <2>10. QED
    BY <1>1, <2>4, <2>7, <2>9, NoMarkAboveContext
<1> HIDE DEF h, f, above
<1>6. \E top \in 0..Len(Full) :
        Stands(Full, RebuildSubhunk(h, PieceFrom, to), top,
               above + CountIn(h.lines, Changes, 1, PieceFrom - 1))
  BY <1>1, <1>2, <1>3, <1>4, <1>5, PieceIsPlaced DEF h
<1>7. QED
  BY <1>6 DEF h, f, above

LEMMA CutPieceMeans ==
  ASSUME FileInv, IInv', At("split"), hi <= Len(hunks),
         Cardinality(RunStarts(hunks[hi].lines)) > 1,
         NEW to \in Nat, ThisRun <= to, to <= Len(hunks[hi].lines),
         CountIn(hunks[hi].lines, OldSide, 1, to) > 0,
         subs' = Append(subs, RebuildSubhunk(hunks[hi], PieceFrom, to)),
         UNCHANGED <<entry, phase, step, hunks, out, picked, k>>,
         \/ hi' = hi /\ PieceFrom' = to + 1
         \/ hi' = hi + 1 /\ PieceFrom' = 1 /\ to = Len(hunks[hi].lines)
  PROVE  FileInv'
<1> DEFINE h == hunks[hi]
           p == RebuildSubhunk(h, PieceFrom, to)
<1>1. IInv
  BY FileInvIs
<1>2. /\ PieceFrom \in Nat \ {0} /\ PieceFrom <= ThisRun /\ ThisRun \in Nat /\ h.lines \in Seq(Line)
      /\ p \in Hunk
  BY <1>1, PieceBegins, AddPiece
<1>3. PieceFrom <= to
  BY <1>2
<1>4. Count(p.lines, Changes) = CountIn(h.lines, Changes, PieceFrom, to)
  <2>1. p.lines = SubSeq(h.lines, PieceFrom, to)
    BY DEF RebuildSubhunk
  <2>2. PieceFrom <= to + 1
    BY <1>2, <1>3
  <2> HIDE DEF p
  <2>3. Count(SubSeq(h.lines, PieceFrom, to), Changes) = CountIn(h.lines, Changes, PieceFrom, to)
    BY <1>2, <2>2, CountOfSlice
  <2>4. QED
    BY <2>1, <2>3
<1>5. Ordered => \E top \in 0..Len(Full) :
        Stands(Full, p, top, CountIn(Full, Changes, 1, entry.tops[hi])
                               + CountIn(h.lines, Changes, 1, PieceFrom - 1))
  BY ThePieceStands
<1>6. subs' = Append(subs, p)
  OBVIOUS
<1> HIDE DEF p
<1>7. QED
  BY <1>2, <1>3, <1>4, <1>5, <1>6, PieceMeans DEF h

LEMMA SplitInnerMeans == FileInv /\ SplitInner => FileInv'
<1> SUFFICES ASSUME FileInv, SplitInner
             PROVE  FileInv'
  OBVIOUS
<1> DEFINE h == hunks[hi]
           m == Min(LaterRuns)
           to == m - 1
<1>1. IInv /\ IInv'
  BY SplitInnerInv, FileInvIs
<1>2. /\ At("split") /\ hi <= Len(hunks) /\ Cardinality(RunStarts(h.lines)) > 1
      /\ LaterRuns # {} /\ subs' = Append(subs, RebuildSubhunk(h, PieceFrom, to))
      /\ run' = m /\ hi' = hi /\ UNCHANGED <<entry, phase, step, hunks, out, picked, k>>
  BY DEF SplitInner, loop
<1>3. /\ h.lines \in Seq(Line) /\ RunStarts(h.lines) \subseteq Nat
      /\ ThisRun \in RunStarts(h.lines) /\ ThisRun \in Nat
  BY <1>1, <1>2, PieceBegins
<1>4. m \in RunStarts(h.lines) /\ m > ThisRun
  <2>1. LaterRuns \subseteq Nat
    BY <1>3 DEF LaterRuns
  <2>2. m \in LaterRuns
    BY <1>2, <2>1, MinIsLeast
  <2>3. QED
    BY <2>2 DEF LaterRuns
<1> HIDE DEF m
<1>5. ThisRun # 0 /\ m \in Nat /\ m <= Len(h.lines)
  BY <1>3, <1>4, RunHasContextAbove
<1>6. m > 1 /\ to \in Nat /\ ThisRun <= to /\ to <= Len(h.lines) /\ m - 1 <= to
      /\ m = to + 1 /\ m # 0
  <2>1. Len(h.lines) \in Nat
    BY <1>3
  <2>2. QED
    BY <1>3, <1>4, <1>5, <2>1
<1>7. PieceFrom' = to + 1
  BY <1>2, <1>6 DEF PieceFrom
<1> HIDE DEF to
<1>8. CountIn(h.lines, OldSide, 1, to) > 0
  BY <1>3, <1>4, <1>6, RunHasContextAbove
<1>9. QED
  BY <1>1, <1>2, <1>6, <1>7, <1>8, CutPieceMeans

LEMMA SplitLastMeans == FileInv /\ SplitLast => FileInv'
<1> SUFFICES ASSUME FileInv, SplitLast
             PROVE  FileInv'
  OBVIOUS
<1> DEFINE h == hunks[hi]
           to == Len(h.lines)
<1>1. IInv /\ IInv'
  BY SplitLastInv, FileInvIs
<1>2. /\ At("split") /\ hi <= Len(hunks) /\ Cardinality(RunStarts(h.lines)) > 1
      /\ LaterRuns = {} /\ subs' = Append(subs, RebuildSubhunk(h, PieceFrom, to))
      /\ run' = 0 /\ hi' = hi + 1 /\ UNCHANGED <<entry, phase, step, hunks, out, picked, k>>
  BY DEF SplitLast, loop
<1>3. /\ h.lines \in Seq(Line) /\ RunStarts(h.lines) \subseteq Nat
      /\ ThisRun \in RunStarts(h.lines) /\ ThisRun \in Nat /\ ThisRun <= Len(h.lines)
      /\ run # 0 => ThisRun = run /\ run > 1
      /\ run = 0 => \A r \in RunStarts(h.lines) : ThisRun <= r
  BY <1>1, <1>2, PieceBegins
<1>4. run # 0
  <2>1. SUFFICES ASSUME run = 0
                 PROVE  FALSE
    OBVIOUS
  <2>2. \A r \in RunStarts(h.lines) : r = ThisRun
    BY <1>2, <1>3, <2>1 DEF LaterRuns
  <2>3. RunStarts(h.lines) = {ThisRun}
    BY <1>3, <2>2
  <2>4. Cardinality(RunStarts(h.lines)) = 1
    BY <2>3, FS_Singleton
  <2>5. QED
    BY <1>2, <2>4
<1>5. to \in Nat /\ ThisRun <= to /\ to <= Len(h.lines) /\ ThisRun > 1 /\ ThisRun - 1 <= to
  BY <1>3, <1>4
<1>6. CountIn(h.lines, OldSide, 1, to) > 0
  BY <1>3, <1>5, RunHasContextAbove
<1>7. PieceFrom' = 1
  BY <1>2 DEF PieceFrom
<1>8. QED
  BY <1>1, <1>2, <1>5, <1>6, <1>7, CutPieceMeans

LEMMA EndSplitMeans == FileInv /\ EndSplit => FileInv'
<1> SUFFICES ASSUME FileInv, EndSplit
             PROVE  FileInv'
  OBVIOUS
<1>1. /\ phase = "cut" /\ step = "split" /\ At("split") /\ step' = "pick" /\ phase' = phase
      /\ UNCHANGED <<entry, hunks, subs, k, out, picked>>
  BY DEF EndSplit, At, loop
<1>2. IInv /\ IInv' /\ entry' \in Entries /\ Full' = Full /\ (Ordered' <=> Ordered)
  BY <1>1, EndSplitInv, FileInvIs DEF Ordered, RealDiff, Full
<1>3. ASSUME Ordered
      PROVE  Meant'
  <2>1. SubsStand /\ PickedInv
    BY <1>3, FileInvIs DEF Meant
  <2>2. SubsStand'
    BY <1>1, <1>2, <2>1 DEF SubsStand
  <2>3. PassedInv' /\ HandedOver' /\ SliceSides' /\ FixSides'
    BY <1>1 DEF PassedInv, HandedOver, SliceSides, FixSides, At
  <2>4. k = 1 /\ picked = <<>>
    BY <1>1, <1>2, <2>1 DEF IInv, SplitInv, PickedInv
  <2>5. PickedInv'
    BY <1>1, <2>1, <2>4 DEF PickedInv, TakenTo, ChangedLines, At
  <2>6. QED
    BY <2>2, <2>3, <2>5 DEF Meant
<1>4. QED
  <2>1. FileInv' <=> IInv' /\ entry' \in Entries /\ (Ordered' => Meant')
    BY DEF FileInv, Ordered, Meant
  <2>2. QED
    BY <1>2, <1>3, <2>1

-----------------------------------------------------------------------------
(* The picks.                                                               *)

LEMMA PickedAre == PickedInv => Picks(picked, subs, out)
<1> SUFFICES ASSUME PickedInv
             PROVE  Picks(picked, subs, out)
  OBVIOUS
<1>1. \A j : TakenTo(j) = TakenOf(picked, j)
  BY DEF TakenTo, TakenOf
<1>2. Len(picked) <= Len(subs) /\ Len(out) = TakenTo(Len(picked))
  BY DEF PickedInv
<1>3. \A j \in DOMAIN picked :
        /\ picked[j] \subseteq ChangedLines(subs[j])
        /\ picked[j] # {} => Takes(out[TakenTo(j)], subs[j], picked[j])
  BY DEF PickedInv
<1>4. QED
  BY <1>1, <1>2, <1>3 DEF Picks

(* The step to the next sub-hunk.                                          *)
LEMMA PickMeans ==
  ASSUME FileInv, IInv', phase = "cut", step # "split", k <= Len(subs), NEW set,
         picked' = Append(picked, set), k' = k + 1, step' = "pick",
         UNCHANGED <<entry, phase, subs>>,
         Ordered => Picks(Append(picked, set), subs, out')
  PROVE  FileInv'
<1>1. IInv /\ entry' \in Entries /\ Full' = Full /\ (Ordered' <=> Ordered)
  BY FileInvIs DEF Ordered, RealDiff, Full
<1>2. ASSUME Ordered
      PROVE  Meant'
  <2>1. SubsStand /\ PickedInv
    BY <1>2, FileInvIs DEF Meant
  <2>2. SubsStand'
    BY <1>1, <2>1 DEF SubsStand
  <2>3. PassedInv' /\ HandedOver' /\ SliceSides' /\ FixSides'
    BY DEF PassedInv, HandedOver, SliceSides, FixSides, At
  <2>4. picked \in Seq(SUBSET Nat) /\ picked' \in Seq(SUBSET Nat) /\ k \in Nat
    BY <1>1 DEF IInv, TypeOK
  <2>5. Len(picked) = k - 1
    BY <2>1 DEF PickedInv
  <2>6. Len(picked') = k' - 1
    BY <2>4, <2>5
  <2>7. Picks(picked', subs, out')
    BY <1>2
  <2>8. \A j : TakenTo(j)' = TakenOf(picked', j)
    BY DEF TakenTo, TakenOf
  <2>9. DOMAIN picked' = 1..Len(picked')
    BY <2>4
  <2>10. PickedInv'
    BY <2>6, <2>7, <2>8, <2>9 DEF PickedInv, Picks, ChangedLines, At
  <2>11. QED
    BY <2>2, <2>3, <2>10 DEF Meant
<1>3. QED
  <2>1. FileInv' <=> IInv' /\ entry' \in Entries /\ (Ordered' => Meant')
    BY DEF FileInv, Ordered, Meant
  <2>2. QED
    BY <1>1, <1>2, <2>1

LEMMA PassByMeans == FileInv /\ PassBy => FileInv'
<1> SUFFICES ASSUME FileInv, PassBy
             PROVE  FileInv'
  OBVIOUS
<1>1. /\ phase = "cut" /\ step = "pick" /\ step' = "pick" /\ k <= Len(subs)
      /\ picked' = Append(picked, {}) /\ k' = k + 1 /\ UNCHANGED <<entry, phase, subs>>
      /\ out' = out
  BY DEF PassBy, At, loop
<1>2. IInv /\ IInv'
  BY PassByInv, FileInvIs
<1>3. ASSUME Ordered
      PROVE  Picks(Append(picked, {}), subs, out)
  <2>1. PickedInv
    BY <1>3, FileInvIs DEF Meant
  <2>2. picked \in Seq(SUBSET Nat) /\ subs \in Seq(Hunk) /\ k \in Nat
    BY <1>2 DEF IInv, TypeOK
  <2>3. Len(picked) = k - 1 /\ Len(subs) \in Nat
    BY <1>1, <2>1, <2>2 DEF PickedInv
  <2>4. Len(picked) < Len(subs)
    BY <1>1, <2>2, <2>3
  <2>5. Picks(picked, subs, out)
    BY <2>1, PickedAre
  <2>6. Picks(Add(picked, {}), subs, out)
    BY <2>2, <2>3, <2>4, <2>5, PicksPass
  <2>7. QED
    BY <2>6 DEF Add
<1>4. QED
  BY <1>1, <1>2, <1>3, PickMeans

(* A hunk that holds just the lines picked of sub-hunk k, taken.           *)
LEMMA TakeMeans ==
  ASSUME FileInv, IInv', phase = "cut", step # "split", k <= Len(subs),
         NEW set \in SUBSET Nat, set # {}, set \subseteq ChangedLines(subs[k]), NEW h \in Hunk,
         picked' = Append(picked, set), out' = Append(out, h), k' = k + 1, step' = "pick",
         UNCHANGED <<entry, phase, subs>>, Ordered => Takes(h, subs[k], set)
  PROVE  FileInv'
<1>1. IInv
  BY FileInvIs
<1>2. ASSUME Ordered
      PROVE  Picks(Append(picked, set), subs, out')
  <2>1. PickedInv
    BY <1>2, FileInvIs DEF Meant
  <2>2. picked \in Seq(SUBSET Nat) /\ subs \in Seq(Hunk) /\ k \in Nat /\ out \in Seq(Hunk)
    BY <1>1 DEF IInv, TypeOK
  <2>3. Len(picked) = k - 1 /\ Len(subs) \in Nat
    BY <2>1, <2>2 DEF PickedInv
  <2>4. Len(picked) < Len(subs) /\ k = Len(picked) + 1
    BY <2>2, <2>3
  <2>5. Picks(picked, subs, out)
    BY <2>1, PickedAre
  <2>6. Takes(h, subs[k], set)
    BY <1>2
  <2>7. Picks(Add(picked, set), subs, Add(out, h))
    BY <2>2, <2>3, <2>4, <2>5, <2>6, PicksTake
  <2>8. QED
    BY <2>7 DEF Add
<1>3. QED
  BY <1>2, PickMeans

(* Where a sub-hunk stands.                                                *)
LEMMA SubStands ==
  ASSUME FileInv, Ordered, NEW j \in 1..Len(subs)
  PROVE  \E f \in 0..Len(Full) : Stands(Full, subs[j], f, ChangedTo(subs, j - 1))
<1>1. IInv /\ subs \in Seq(Hunk) /\ SubsStand
  BY FileInvIs DEF IInv, TypeOK, Meant
<1>2. StandsAt(Full, subs, 0, j)
  BY <1>1, StandingIs DEF SubsStand
<1>3. 0 + ChangedTo(subs, j - 1) = ChangedTo(subs, j - 1)
  BY <1>1, ChangesAreFinite
<1>4. QED
  BY <1>2, <1>3 DEF StandsAt

LEMMA TakeWholeMeans == FileInv /\ TakeWhole => FileInv'
<1> SUFFICES ASSUME FileInv, TakeWhole
             PROVE  FileInv'
  OBVIOUS
<1> DEFINE h == subs[k]
           set == ChangedLines(h)
<1>1. /\ phase = "cut" /\ step = "pick" /\ step # "split" /\ step' = "pick" /\ k <= Len(subs)
      /\ picked' = Append(picked, set) /\ out' = Append(out, h) /\ k' = k + 1
      /\ UNCHANGED <<entry, phase, subs>>
  BY DEF TakeWhole, At, loop
<1>2. IInv /\ IInv'
  BY TakeWholeInv, FileInvIs
<1>3. h \in Hunk /\ Sound(h) /\ k \in DOMAIN subs /\ subs \in Seq(Hunk)
  BY <1>1, <1>2, PickedAbove DEF IInv, TypeOK
<1>4. set \in SUBSET Nat /\ set # {}
  <2>1. Count(h.lines, Changes) \in Nat /\ set \in SUBSET Nat
    BY <1>3, ChangedLinesType
  <2>2. Count(h.lines, Changes) # 0
    BY <1>3, SoundMeans
  <2>3. 1 \in 1..Count(h.lines, Changes)
    BY <2>1, <2>2
  <2>4. QED
    BY <2>1, <2>3 DEF ChangedLines
<1>5. ASSUME Ordered
      PROVE  Takes(h, h, set)
  <2>1. k \in 1..Len(subs)
    BY <1>3
  <2>2. PICK f \in 0..Len(Full) : Stands(Full, h, f, ChangedTo(subs, k - 1))
    BY <1>5, <2>1, SubStands
  <2>3. Full \in Seq(Line) /\ WellMarked(Full)
    BY <1>5, TheFiles DEF Ordered
  <2> HIDE DEF h
  <2>4. Takes(h, h, 1..Count(h.lines, Changes))
    BY <1>3, <2>2, <2>3, TakesAll
  <2>5. QED
    BY <2>4 DEF ChangedLines
<1> HIDE DEF set
<1>6. set \subseteq ChangedLines(subs[k])
  BY DEF set
<1>7. QED
  BY <1>1, <1>2, <1>3, <1>4, <1>5, <1>6, TakeMeans

-----------------------------------------------------------------------------
(* The slices.                                                              *)

(* A step of the slice loops.                                              *)
LEMMA SliceMeans ==
  ASSUME FileInv, IInv', phase = "cut", step # "split", step' \in {"slice", "fix"},
         UNCHANGED <<entry, phase, subs, k, out, picked>>,
         Ordered => SliceSides' /\ FixSides'
  PROVE  FileInv'
<1>1. IInv /\ entry' \in Entries /\ Full' = Full /\ (Ordered' <=> Ordered)
  BY FileInvIs DEF Ordered, RealDiff, Full
<1>2. ASSUME Ordered
      PROVE  Meant'
  <2>1. SubsStand /\ PickedInv
    BY <1>2, FileInvIs DEF Meant
  <2>2. SubsStand'
    BY <1>1, <2>1 DEF SubsStand
  <2>3. PassedInv' /\ HandedOver'
    BY DEF PassedInv, HandedOver, At
  <2>4. PickedInv'
    BY <2>1 DEF PickedInv, TakenTo, ChangedLines, At
  <2>5. QED
    BY <1>2, <2>2, <2>3, <2>4 DEF Meant
<1>3. QED
  <2>1. FileInv' <=> IInv' /\ entry' \in Entries /\ (Ordered' => Meant')
    BY DEF FileInv, Ordered, Meant
  <2>2. QED
    BY <1>1, <1>2, <2>1

(* The markers of a sub-hunk.                                              *)
LEMMA SubMarks ==
  ASSUME FileInv, Ordered, NEW j \in 1..Len(subs)
  PROVE  LocalMarks(subs[j].lines)
<1>1. PICK f \in 0..Len(Full) : Stands(Full, subs[j], f, ChangedTo(subs, j - 1))
  BY SubStands
<1>2. Full \in Seq(Line) /\ WellMarked(Full) /\ DeletionsFirst(Full)
  BY TheFiles DEF Ordered
<1>3. subs[j] \in Hunk
  <2>1. subs \in Seq(Hunk)
    BY FileInvIs DEF IInv, TypeOK
  <2>2. QED
    BY <2>1
<1>4. PICK u : u = f + Len(subs[j].lines)
  OBVIOUS
<1> DEFINE s == subs[j]
<1>5. s = subs[j]
  OBVIOUS
<1> HIDE DEF s
<1>6. Placed(Full, f, s.lines, u)
  BY <1>1, <1>2, <1>3, <1>4, <1>5, StandsPlaced
<1>7. QED
  BY <1>2, <1>5, <1>6, PlacedMarks

(* Nothing of anything.                                                    *)
LEMMA NothingSliced ==
  ASSUME NEW ls \in Seq(Line), NEW X
  PROVE  /\ Sliced(ls, X, <<>>, 0) /\ Marks(ls, <<>>, 0) /\ MarkedLast(<<>>)
         /\ Mended(ls, <<>>, 0)
<1>1. 0 \in Nat /\ 0 <= 0 /\ 0 <= Len(ls) /\ Len(<<>>) = 0 /\ DOMAIN <<>> = {} /\ Len(ls) \in Nat
  OBVIOUS
<1>2. FileLines(ls) \in Seq(FileLine) /\ Len(FileLines(ls)) = Len(ls)
  BY FileLinesAre
<1>3. Ended(FileLines(ls)) \in Seq(FileLine) /\ Len(Ended(FileLines(ls))) = Len(ls)
  BY <1>2, EndedIs
<1>4. \A S : Listing(FileLines(ls), S, 0, 0) = <<>>
  BY <1>1, <1>2, ListingSteps
<1>5. \A S : Listing(Ended(FileLines(ls)), S, 0, 0) = <<>>
  BY <1>1, <1>3, ListingSteps
<1>6. SideOf(<<>>, OldSide) = <<>> /\ SideOf(<<>>, NewSide) = <<>>
  BY NoLines
<1>7. QED
  BY <1>1, <1>4, <1>5, <1>6 DEF Sliced, Marks, MarkedLast, Mended

LEMMA BeginSliceMeans == \A set \in LineSets(subs[k]) : FileInv /\ BeginSlice(set) => FileInv'
<1> SUFFICES ASSUME NEW set \in LineSets(subs[k]), FileInv, BeginSlice(set)
             PROVE  FileInv'
  OBVIOUS
<1> DEFINE ls == subs[k].lines
<1>1. /\ phase = "cut" /\ step = "pick" /\ step # "split" /\ step' = "slice" /\ k <= Len(subs)
      /\ lineSet' = set /\ li' = 1 /\ body' = <<>>
      /\ UNCHANGED <<entry, phase, subs, k, out, picked>>
  BY DEF BeginSlice, At, loop
<1>2. IInv /\ IInv'
  BY BeginSliceInv, FileInvIs
<1>3. ls \in Seq(Line)
  <2>1. subs[k] \in Hunk
    BY <1>1, <1>2, PickedAbove
  <2>2. QED
    BY <2>1 DEF Hunk
<1>4. Sliced(ls, set, <<>>, 0) /\ MarkedLast(<<>>)
  <2> HIDE DEF ls
  <2>1. QED
    BY <1>3, NothingSliced
<1>5. li' - 1 = 0 /\ subs'[k'].lines = ls
  BY <1>1
<1> HIDE DEF ls
<1>6. SliceSides'
  <2>1. /\ SideOf(body', OldSide) = Listing(FileLines(ls), Side(ls, OldSide), 0, li' - 1)
        /\ SideOf(body', NewSide) = Listing(FileLines(ls), Staying(ls, lineSet'), 0, li' - 1)
    BY <1>1, <1>4, <1>5, Zenon DEF Sliced
  <2>2. MarkedLast(body')
    BY <1>1, <1>4
  <2>3. DOMAIN body' = {}
    BY <1>1
  <2>4. QED
    BY <1>5, <2>1, <2>2, <2>3 DEF SliceSides
<1>7. FixSides'
  BY <1>1 DEF FixSides, At
<1>8. QED
  BY <1>1, <1>2, <1>6, <1>7, SliceMeans

(* The sides of a slice, as far as it has come.                            *)
LEMMA SlicedSoFar ==
  ASSUME IInv, SliceSides, At("slice")
  PROVE  LET ls == subs[k].lines
         IN  Sliced(ls, lineSet, body, li - 1) /\ MarkedLast(body) /\ Marks(ls, body, li - 1)
<1>1. body \in Seq(Line)
  BY DEF IInv, TypeOK
<1>2. DOMAIN body = 1..Len(body)
  BY <1>1
<1>3. QED
  BY <1>2 DEF SliceSides, Sliced, Marks

LEMMA SliceLineMeans == FileInv /\ SliceLine => FileInv'
<1> SUFFICES ASSUME FileInv, SliceLine
             PROVE  FileInv'
  OBVIOUS
<1> DEFINE ls == subs[k].lines
           l == ls[li]
           ci == CountIn(ls, Changes, 1, li)
           taken == ci \in lineSet
           c == Slicing(body, l, taken)
<1>1. /\ phase = "cut" /\ step = "slice" /\ step # "split" /\ At("slice") /\ step' = step
      /\ li <= Len(ls) /\ li' = li + 1 /\ lineSet' = lineSet /\ body' = c
      /\ UNCHANGED <<entry, phase, subs, k, out, picked>>
  BY DEF SliceLine, At, loop, Slicing
<1>2. IInv /\ IInv'
  BY SliceLineInv, FileInvIs
<1>3. /\ ls \in Seq(Line) /\ k \in 1..Len(subs) /\ li \in Nat \ {0} /\ body \in Seq(Line)
      /\ li \in 1..Len(ls) /\ body' \in Seq(Line) /\ Len(ls) \in Nat
  <2>1. k <= Len(subs) /\ li \in Nat \ {0} /\ body \in Seq(Line) /\ body' \in Seq(Line)
    BY <1>1, <1>2 DEF IInv, PickInv, TypeOK
  <2>2. subs[k] \in Hunk /\ k \in DOMAIN subs /\ subs \in Seq(Hunk)
    BY <1>1, <1>2, <2>1, PickedAbove DEF IInv, TypeOK
  <2>3. ls \in Seq(Line)
    BY <2>2 DEF Hunk
  <2>4. Len(ls) \in Nat
    BY <2>3
  <2>5. k \in 1..Len(subs)
    BY <2>2
  <2> HIDE DEF ls
  <2>6. QED
    BY <1>1, <2>1, <2>3, <2>4, <2>5
<1>4. ASSUME Ordered
      PROVE  SliceSides'
  <2>1. SliceSides
    BY <1>4, FileInvIs DEF Meant
  <2>2. Sliced(ls, lineSet, body, li - 1) /\ MarkedLast(body) /\ Marks(ls, body, li - 1)
    BY <1>1, <1>2, <2>1, SlicedSoFar
  <2>3. LocalMarks(ls)
    BY <1>3, <1>4, SubMarks
  <2>4. Sliced(ls, lineSet, c, li)
    <3> HIDE DEF ls
    <3>1. QED
      BY <1>3, <2>2, SlicedGrows
  <2>5. Marks(ls, c, li) /\ MarkedLast(c)
    <3> HIDE DEF ls, ci, taken
    <3>1. QED
      BY <1>3, <2>2, <2>3, MarksGrow
  <2>6. li' - 1 = li /\ subs'[k'].lines = ls /\ DOMAIN body' = 1..Len(body')
    BY <1>1, <1>3
  <2> HIDE DEF c, ls
  <2>7. QED
    BY <1>1, <2>4, <2>5, <2>6 DEF SliceSides, Sliced, Marks
<1>5. FixSides'
  BY <1>1 DEF FixSides, At
<1>6. QED
  BY <1>1, <1>2, <1>4, <1>5, SliceMeans

LEMMA EndSliceMeans == FileInv /\ EndSlice => FileInv'
<1> SUFFICES ASSUME FileInv, EndSlice
             PROVE  FileInv'
  OBVIOUS
<1> DEFINE ls == subs[k].lines
<1>1. /\ phase = "cut" /\ step = "slice" /\ step # "split" /\ At("slice") /\ step' = "fix"
      /\ li > Len(ls) /\ li' = 1 /\ lineSet' = lineSet /\ body' = body /\ fixed' = <<>>
      /\ UNCHANGED <<entry, phase, subs, k, out, picked>>
  BY DEF EndSlice, At, loop
<1>2. IInv /\ IInv'
  BY EndSliceInv, FileInvIs
<1>3. ls \in Seq(Line) /\ body \in Seq(Line) /\ li - 1 = Len(ls)
  <2>1. k <= Len(subs) /\ li \in Nat \ {0} /\ body \in Seq(Line) /\ li <= Len(ls) + 1
    BY <1>1, <1>2 DEF IInv, PickInv, TypeOK, SliceInv
  <2>2. subs[k] \in Hunk
    BY <1>1, <1>2, <2>1, PickedAbove
  <2>3. ls \in Seq(Line)
    BY <2>2 DEF Hunk
  <2>4. QED
    BY <1>1, <2>1, <2>3
<1>4. ASSUME Ordered
      PROVE  FixSides'
  <2>1. SliceSides
    BY <1>4, FileInvIs DEF Meant
  <2>2. Sliced(ls, lineSet, body, Len(ls)) /\ MarkedLast(body)
    BY <1>1, <1>2, <1>3, <2>1, SlicedSoFar
  <2>3. SideOf(body, OldSide) = SideOf(ls, OldSide)
    BY <2>2 DEF Sliced, SideOf
  <2>4. Ended(SideOf(body, NewSide)) = FileWith(ls, lineSet)
    BY <2>2 DEF Sliced, FileWith
  <2>5. Mended(body, <<>>, 0)
    BY <1>3, NothingSliced
  <2>6. li' - 1 = 0 /\ subs'[k'].lines = ls
    BY <1>1
  <2>7. lineSet' # {} /\ lineSet' \subseteq ChangedLines(subs[k])'
    BY <1>1, <1>2 DEF IInv, SliceInv, ChangedLines
  <2> HIDE DEF ls
  <2>8. QED
    BY <1>1, <2>2, <2>3, <2>4, <2>5, <2>6, <2>7 DEF FixSides, Mended, ChangedLines
<1>5. SliceSides'
  BY <1>1 DEF SliceSides, At
<1>6. QED
  BY <1>1, <1>2, <1>4, <1>5, SliceMeans

LEMMA FixLineMeans == FileInv /\ FixLine => FileInv'
<1> SUFFICES ASSUME FileInv, FixLine
             PROVE  FileInv'
  OBVIOUS
<1> DEFINE ls == subs[k].lines
           l == body[li]
           d == Repairing(fixed, l, li = Len(body))
<1>1. /\ phase = "cut" /\ step = "fix" /\ step # "split" /\ At("fix") /\ step' = step
      /\ li <= Len(body) /\ li' = li + 1 /\ lineSet' = lineSet /\ fixed' = d /\ body' = body
      /\ UNCHANGED <<entry, phase, subs, k, out, picked>>
  BY DEF FixLine, At, loop, Repairing
<1>2. IInv /\ IInv'
  BY FixLineInv, FileInvIs
<1>3. body \in Seq(Line) /\ fixed \in Seq(Line) /\ li \in 1..Len(body) /\ li' - 1 = li
  <2>1. body \in Seq(Line) /\ fixed \in Seq(Line) /\ li \in Nat \ {0}
    BY <1>2 DEF IInv, TypeOK
  <2>2. QED
    BY <1>1, <2>1
<1>4. ASSUME Ordered
      PROVE  FixSides'
  <2>1. FixSides
    BY <1>4, FileInvIs DEF Meant
  <2>2. /\ SideOf(body, OldSide) = SideOf(ls, OldSide)
        /\ Ended(SideOf(body, NewSide)) = FileWith(ls, lineSet)
        /\ MarkedLast(body) /\ Mended(body, fixed, li - 1)
        /\ lineSet # {} /\ lineSet \subseteq ChangedLines(subs[k])
    BY <1>1, <2>1 DEF FixSides, Mended
  <2>3. Mended(body, d, li)
    BY <1>3, <2>2, MendedGrows
  <2>4. subs'[k'].lines = ls /\ ChangedLines(subs[k])' = ChangedLines(subs[k])
    BY <1>1 DEF ChangedLines
  <2> HIDE DEF d, ls
  <2>5. QED
    BY <1>1, <1>3, <2>2, <2>3, <2>4 DEF FixSides, Mended
<1>5. SliceSides'
  BY <1>1 DEF SliceSides, At
<1>6. QED
  BY <1>1, <1>2, <1>4, <1>5, SliceMeans

LEMMA TakeSliceMeans == FileInv /\ TakeSlice => FileInv'
<1> SUFFICES ASSUME FileInv, TakeSlice
             PROVE  FileInv'
  OBVIOUS
<1> DEFINE g == subs[k]
           ls == g.lines
           h == WithBody(g, fixed)
<1>1. /\ phase = "cut" /\ step = "fix" /\ step # "split" /\ At("fix") /\ step' = "pick"
      /\ li > Len(body) /\ out' = Append(out, h) /\ picked' = Append(picked, lineSet)
      /\ k' = k + 1 /\ UNCHANGED <<entry, phase, subs>>
  BY DEF TakeSlice, At, loop
<1>2. IInv /\ IInv'
  BY TakeSliceInv, FileInvIs
<1>3. /\ k <= Len(subs) /\ li \in Nat \ {0} /\ body \in Seq(Line) /\ fixed \in Seq(Line)
      /\ lineSet \in SUBSET Nat /\ FixInv
  BY <1>1, <1>2 DEF IInv, PickInv, TypeOK
<1>4. g \in Hunk
  BY <1>1, <1>2, <1>3, PickedAbove
<1>5. li - 1 = Len(body)
  BY <1>1, <1>3 DEF FixInv
<1>6. Count(fixed, OldSide) = g.old_lines
  BY <1>1, <1>3, <1>5 DEF FixInv, Count
<1>7. \A K : Count(fixed, K) \in Nat
  <2>1. 1 \in Int /\ Len(fixed) \in Int
    BY <1>3
  <2>2. QED
    BY <2>1, CountInType DEF Count
<1>8. /\ h \in Hunk /\ h.lines = fixed /\ h.old_start = g.old_start /\ h.old_lines = g.old_lines
  BY <1>3, <1>4, <1>6, <1>7 DEF WithBody, Hunk
<1> HIDE DEF h
<1>9. OldAt(h) = OldAt(g)
  BY <1>8 DEF OldAt, Anchor
<1>10. ASSUME Ordered
       PROVE  /\ Takes(h, g, lineSet)
              /\ lineSet # {} /\ lineSet \subseteq ChangedLines(g)
  <2>1. FixSides
    BY <1>10, FileInvIs DEF Meant
  <2>2. /\ SideOf(body, OldSide) = SideOf(ls, OldSide)
        /\ Ended(SideOf(body, NewSide)) = FileWith(ls, lineSet)
        /\ MarkedLast(body) /\ Mended(body, fixed, Len(body))
        /\ lineSet # {} /\ lineSet \subseteq ChangedLines(g)
    BY <1>1, <1>5, <2>1 DEF FixSides, Mended
  <2>3. SideOf(fixed, OldSide) = SideOf(ls, OldSide)
    BY <2>2 DEF Mended, SideOf
  <2>4. SideOf(fixed, NewSide) = FileWith(ls, lineSet)
    <3>1. Listing(Ended(FileLines(body)), Side(body, NewSide), 0, Len(body))
            = Ended(SideOf(body, NewSide))
      BY <1>3, <2>2, EndedTwice
    <3>2. QED
      BY <2>2, <3>1, Zenon DEF Mended
  <2>5. Takes(h, g, lineSet)
    BY <1>8, <1>9, <2>3, <2>4 DEF Takes
  <2>6. QED
    BY <2>2, <2>5
<1>11. QED
  <2>1. CASE Ordered
    BY <1>1, <1>2, <1>3, <1>8, <1>10, <2>1, TakeMeans
  <2>2. CASE ~Ordered
    BY <1>1, <1>2, <1>3, <2>2, PickMeans
  <2>3. QED
    BY <2>1, <2>2

-----------------------------------------------------------------------------
(* The result.                                                              *)

LEMMA EmitSelectionMeans == FileInv /\ EmitSelection => FileInv'
<1> SUFFICES ASSUME FileInv, EmitSelection
             PROVE  FileInv'
  OBVIOUS
<1>1. /\ phase = "cut" /\ phase' = "renumber" /\ hunks' = out /\ step = "pick" /\ k > Len(subs)
      /\ UNCHANGED <<entry, step, hi, run, subs, k, lineSet, li, body, fixed, out, picked>>
  BY DEF EmitSelection, At, StartRenumber, cutting
<1>2. IInv /\ IInv' /\ entry' \in Entries /\ Full' = Full /\ (Ordered' <=> Ordered)
  BY <1>1, EmitSelectionInv, FileInvIs DEF Ordered, RealDiff, Full
<1>3. ASSUME Ordered
      PROVE  Meant'
  <2>1. SubsStand /\ PickedInv
    BY <1>3, FileInvIs DEF Meant
  <2>2. SubsStand'
    BY <1>1, <1>2, <2>1 DEF SubsStand
  <2>3. PassedInv' /\ SliceSides' /\ FixSides'
    BY <1>1 DEF PassedInv, SliceSides, FixSides, At
  <2>4. PickedInv'
    BY <1>1, <2>1 DEF PickedInv, TakenTo, ChangedLines, At
  <2>5. Len(picked) = Len(subs)
    <3>1. Len(picked) = k - 1 /\ k <= Len(subs) + 1 /\ k \in Nat /\ subs \in Seq(Hunk)
      BY <1>1, <1>2, <2>1 DEF PickedInv, IInv, PickInv, TypeOK
    <3>2. QED
      BY <1>1, <3>1
  <2>6. HandedOver'
    BY <1>1, <2>5 DEF HandedOver
  <2>7. QED
    BY <2>2, <2>3, <2>4, <2>6 DEF Meant
<1>4. QED
  <2>1. FileInv' <=> IInv' /\ entry' \in Entries /\ (Ordered' => Meant')
    BY DEF FileInv, Ordered, Meant
  <2>2. QED
    BY <1>2, <1>3, <2>1

(* The loops touch nothing the command made, new-side starts aside.        *)
LEMMA LoopNextMeans == FileInv /\ LoopNext /\ UNCHANGED <<entry, cutting>> => FileInv'
<1> SUFFICES ASSUME FileInv, LoopNext, UNCHANGED <<entry, cutting>>
             PROVE  FileInv'
  OBVIOUS
<1>1. /\ UNCHANGED <<step, hi, run, subs, k, lineSet, li, body, fixed, out, picked>>
      /\ entry' = entry
  BY DEF cutting
<1>2. IInv /\ IInv' /\ entry' \in Entries /\ Full' = Full /\ (Ordered' <=> Ordered)
  BY <1>1, LoopNextInv, FileInvIs DEF Ordered, RealDiff, Full
<1>3. /\ phase # "cut" /\ (phase' \in {"input", "cut"} => phase = "input")
      /\ phase' \in {"renumber", "result", "emitted"} => phase \in {"renumber", "result"}
  BY DEF LoopNext, AcceptHunk, RejectHunk, EndCheck, RenumberHunk, EndRenumber, Checking
<1>4. ASSUME Ordered
      PROVE  Meant'
  <2>1. SubsStand /\ PickedInv /\ HandedOver
    BY <1>4, FileInvIs DEF Meant
  <2>2. SubsStand'
    BY <1>1, <1>2, <2>1 DEF SubsStand
  <2>3. phase' = "cut" => step = "split" /\ hi = 1 /\ run = 0 /\ subs = <<>>
    BY <1>2, <1>3 DEF IInv, UntouchedInv
  <2>4. SliceSides' /\ FixSides'
    BY <1>1, <2>3 DEF SliceSides, FixSides, At
  <2>5. PickedInv'
    <3>1. phase' = "input" \/ At("split")' => picked = <<>> /\ out = <<>>
      BY <1>3, <2>1 DEF PickedInv, At
    <3>2. phase' = "cut" => step' = "split"
      BY <1>1, <2>3
    <3>3. QED
      BY <1>1, <2>1, <3>1, <3>2 DEF PickedInv, TakenTo, ChangedLines
  <2>6. PassedInv'
    <3>1. SUFFICES ASSUME phase' = "cut", hi' <= Len(hunks')
                   PROVE  ChangedTo(subs', Len(subs'))
                            = CountIn(Full', Changes, 1, entry'.tops[hi'] + PieceFrom' - 1)
      BY DEF PassedInv, At
    <3>2. hi' = 1 /\ PieceFrom' = 1 /\ subs' = <<>>
      BY <1>1, <2>3, <3>1 DEF PieceFrom
    <3>3. hunks' \in Seq(Hunk) /\ hunks' = entry.hunks
      BY <1>1, <1>2, <3>1 DEF IInv, LoopInv, LoopTypeOK, AcceptedInv
    <3>4. IsDiffOf(Full, entry.tops, hunks') /\ Full \in Seq(Line)
      BY <1>4, <3>3, TheFiles DEF Ordered
    <3>5. 1 \in 1..Len(hunks')
      <4>1. Len(hunks') \in Nat
        BY <3>3
      <4>2. QED
        BY <3>1, <3>2, <4>1
    <3>6. CountIn(Full, Changes, 1, entry.tops[1]) = ChangedTo(hunks', 1 - 1)
      BY <3>3, <3>4, <3>5, InputStands
    <3>7. ChangedTo(hunks', 0) = 0
      BY <3>3, <3>5, ChangedToGrows
    <3>8. entry.tops[1] \in Nat
      <4>1. entry.tops \in Seq(Nat) /\ Len(entry.tops) = Len(hunks')
        BY <3>4 DEF IsDiffOf
      <4>2. QED
        BY <3>5, <4>1
    <3>9. entry'.tops[hi'] + PieceFrom' - 1 = entry.tops[1]
      BY <1>1, <3>2, <3>8
    <3>10. ChangedTo(subs', Len(subs')) = 0
      BY <3>2, NoHunksNoChanges
    <3>11. QED
      BY <1>2, <3>6, <3>7, <3>9, <3>10
  <2>7. HandedOver'
    <3>1. SUFFICES ASSUME phase' \in {"renumber", "result", "emitted"}
                   PROVE  /\ Len(picked) = Len(subs) /\ Len(hunks') = Len(out)
                          /\ \A m \in DOMAIN hunks' : OldAt(hunks'[m]) = OldAt(out[m])
                                                       /\ hunks'[m].lines = out[m].lines
      BY <1>1 DEF HandedOver
    <3>2. /\ Len(picked) = Len(subs) /\ Len(hunks) = Len(out)
          /\ \A m \in DOMAIN hunks : OldAt(hunks[m]) = OldAt(out[m]) /\ hunks[m].lines = out[m].lines
      BY <1>3, <2>1, <3>1 DEF HandedOver
    <3>3. CASE RenumberHunk
      <4>1. hunks' = [hunks EXCEPT ![at].new_start = ExpectedNewStart(hunks[at], delta)]
        BY <3>3 DEF RenumberHunk
      <4>2. hunks \in Seq(Hunk) /\ hunks' \in Seq(Hunk)
        BY <1>2 DEF IInv, LoopInv, LoopTypeOK
      <4>3. DOMAIN hunks' = DOMAIN hunks /\ \A j \in DOMAIN hunks : hunks[j] \in Hunk
        BY <4>1, <4>2
      <4>4. /\ DOMAIN hunks = 1..Len(hunks) /\ Len(hunks) \in Nat
            /\ DOMAIN hunks' = 1..Len(hunks') /\ Len(hunks') \in Nat
        BY <4>2
      <4>5. Len(hunks') = Len(hunks)
        BY <4>3, <4>4
      <4>6. \A j \in DOMAIN hunks : /\ hunks'[j].lines = hunks[j].lines
                                    /\ hunks'[j].old_start = hunks[j].old_start
                                    /\ hunks'[j].old_lines = hunks[j].old_lines
        BY <4>1, <4>3 DEF Hunk
      <4>7. \A j \in DOMAIN hunks : OldAt(hunks'[j]) = OldAt(hunks[j])
        BY <4>6 DEF OldAt
      <4>8. QED
        BY <3>2, <4>3, <4>5, <4>6, <4>7
    <3>4. CASE ~RenumberHunk
      <4>1. hunks' = hunks
        BY <3>4 DEF LoopNext, AcceptHunk, RejectHunk, EndCheck, EndRenumber
      <4>2. QED
        BY <3>2, <4>1
    <3>5. QED
      BY <3>3, <3>4
  <2>8. QED
    BY <2>2, <2>4, <2>5, <2>6, <2>7 DEF Meant
<1>5. QED
  <2>1. FileInv' <=> IInv' /\ entry' \in Entries /\ (Ordered' => Meant')
    BY DEF FileInv, Ordered, Meant
  <2>2. QED
    BY <1>2, <1>4, <2>1

(* A refusal leaves everything but the phase.                              *)
LEMMA RefuseMeans == FileInv /\ Refuse /\ UNCHANGED <<entry, cutting>> => FileInv'
<1> SUFFICES ASSUME FileInv, Refuse, UNCHANGED <<entry, cutting>>
             PROVE  FileInv'
  OBVIOUS
<1>1. /\ phase' = "usage" /\ UNCHANGED hunks
      /\ UNCHANGED <<entry, step, hi, run, subs, k, lineSet, li, body, fixed, out, picked>>
  BY DEF Refuse, cutting
<1>2. IInv /\ IInv' /\ entry' \in Entries /\ Full' = Full /\ (Ordered' <=> Ordered)
  BY <1>1, RefuseInv, FileInvIs DEF Ordered, RealDiff, Full
<1>3. ASSUME Ordered
      PROVE  Meant'
  <2>1. SubsStand /\ PickedInv
    BY <1>3, FileInvIs DEF Meant
  <2>2. SubsStand'
    BY <1>1, <1>2, <2>1 DEF SubsStand
  <2>3. PassedInv' /\ HandedOver' /\ SliceSides' /\ FixSides'
    BY <1>1 DEF PassedInv, HandedOver, SliceSides, FixSides, At
  <2>4. PickedInv'
    BY <1>1, <2>1 DEF PickedInv, TakenTo, ChangedLines, At
  <2>5. QED
    BY <2>2, <2>3, <2>4 DEF Meant
<1>4. QED
  <2>1. FileInv' <=> IInv' /\ entry' \in Entries /\ (Ordered' => Meant')
    BY DEF FileInv, Ordered, Meant
  <2>2. QED
    BY <1>2, <1>3, <2>1

LEMMA StutterMeans == FileInv /\ UNCHANGED vars => FileInv'
<1> SUFFICES ASSUME FileInv, UNCHANGED vars
             PROVE  FileInv'
  OBVIOUS
<1>1. /\ UNCHANGED <<phase, hunks>>
      /\ UNCHANGED <<entry, step, hi, run, subs, k, lineSet, li, body, fixed, out, picked>>
  BY DEF vars, loop, cutting
<1>2. IInv /\ IInv' /\ entry' \in Entries /\ Full' = Full /\ (Ordered' <=> Ordered)
  BY <1>1, StutterInv, FileInvIs DEF Ordered, RealDiff, Full
<1>3. ASSUME Ordered
      PROVE  Meant'
  <2>1. Meant
    BY <1>3, FileInvIs
  <2>2. SubsStand' /\ HandedOver'
    BY <1>1, <1>2, <2>1 DEF Meant, SubsStand, HandedOver
  <2>3. PassedInv'
    BY <1>1, <1>2, <2>1 DEF Meant, PassedInv, At, PieceFrom
  <2>4. PickedInv'
    BY <1>1, <2>1 DEF Meant, PickedInv, TakenTo, ChangedLines, At
  <2>5. SliceSides' /\ FixSides'
    BY <1>1, <2>1 DEF Meant, SliceSides, FixSides, ChangedLines, At
  <2>6. QED
    BY <2>2, <2>3, <2>4, <2>5 DEF Meant
<1>4. QED
  <2>1. FileInv' <=> IInv' /\ entry' \in Entries /\ (Ordered' => Meant')
    BY DEF FileInv, Ordered, Meant
  <2>2. QED
    BY <1>2, <1>3, <2>1

LEMMA FileInvStays == FileInv /\ [Next]_vars => FileInv'
<1> SUFFICES ASSUME FileInv, [Next]_vars
             PROVE  FileInv'
  OBVIOUS
<1>1. CASE LoopNext /\ UNCHANGED <<entry, cutting>>
  BY <1>1, LoopNextMeans
<1>2. CASE KeepHunk \/ SplitInner \/ SplitLast \/ EndSplit
  BY <1>2, KeepHunkMeans, SplitInnerMeans, SplitLastMeans, EndSplitMeans
<1>3. CASE PassBy \/ TakeWhole
  BY <1>3, PassByMeans, TakeWholeMeans
<1>4. ASSUME NEW set \in LineSets(subs[k]), BeginSlice(set) \/ RefuseSlice(set)
      PROVE  FileInv'
  <2>1. CASE BeginSlice(set)
    BY <2>1, BeginSliceMeans
  <2>2. CASE RefuseSlice(set)
    BY <2>2, RefuseMeans DEF RefuseSlice
  <2>3. QED
    BY <1>4, <2>1, <2>2
<1>5. CASE SliceLine \/ EndSlice \/ FixLine \/ TakeSlice
  BY <1>5, SliceLineMeans, EndSliceMeans, FixLineMeans, TakeSliceMeans
<1>6. CASE RefuseSelection
  BY <1>6, RefuseMeans DEF RefuseSelection
<1>7. CASE EmitSelection
  BY <1>7, EmitSelectionMeans
<1>8. CASE Exited \/ UNCHANGED vars
  BY <1>8, StutterMeans DEF Exited
<1>9. QED
  BY <1>1, <1>2, <1>3, <1>4, <1>5, <1>6, <1>7, <1>8 DEF Next, CutNext

LEMMA FilesStay == Spec => []FileInv
BY InitMeans, FileInvStays, PTL DEF Spec

-----------------------------------------------------------------------------
(* The result, applied.                                                     *)

(* With every run's deletions first, nothing of the old file is below a mark. *)
LEMMA SealedBelow ==
  ASSUME NEW full \in Seq(Line), WellMarked(full), DeletionsFirst(full), NEW to \in Nat
  PROVE  Sealed(full, to)
<1> SUFFICES ASSUME NEW i \in 1..to, full[i].nonl,
                    NEW j \in (to + 1)..Len(full), full[j].kind \in OldSide
             PROVE  FALSE
  BY DEF Sealed
<1>1. i \in 1..Len(full) /\ i # Len(full) /\ j \in (i + 1)..Len(full) /\ i \in DOMAIN full
  OBVIOUS
<1>2. full[i].kind # "add"
  BY <1>1 DEF DeletionsFirst
<1>3. full[i].kind \in OldSide
  <2>1. full[i] \in Line
    BY <1>1
  <2>2. full[i].kind \in Kinds
    BY <2>1 DEF Line
  <2>3. QED
    BY <1>2, <2>2 DEF Kinds, OldSide
<1>4. QED
  BY <1>1, <1>3, MarkedOldIsLast

(* The sub-hunks hold the changes of the diff, in order.                   *)
LEMMA SubsStacked ==
  ASSUME FileInv, Ordered
  PROVE  Stacked(Full, subs, Growing(subs))
<1> DEFINE n == Len(subs)
           cs == Growing(subs)
<1>1. /\ Full \in Seq(Line) /\ WellMarked(Full) /\ DeletionsFirst(Full) /\ subs \in Seq(Hunk)
  BY TheFiles DEF Ordered, IInv, TypeOK
<1>2. n \in Nat /\ 0 \in 0..n /\ \A j \in 1..n : j \in 0..n /\ j - 1 \in 0..n /\ subs[j] \in Hunk
  BY <1>1
<1>3. \A j \in 0..n : cs[j] = ChangedTo(subs, j) /\ cs[j] \in Nat
  <2>1. TAKE j \in 0..n
  <2>2. cs[j] = ChangedTo(subs, j)
    BY DEF Growing
  <2>3. QED
    BY <1>1, <2>2, ChangesAreFinite
<1>4. cs[0] = 0
  <2>1. CASE n = 0
    <3>1. subs = <<>>
      BY <1>1, <2>1
    <3>2. QED
      BY <1>2, <1>3, <3>1, NoHunksNoChanges
  <2>2. CASE n # 0
    <3>1. 1 \in 1..n
      BY <1>2, <2>2
    <3>2. QED
      BY <1>1, <1>2, <1>3, <3>1, ChangedToGrows
  <2>3. QED
    BY <2>1, <2>2
<1>5. ASSUME NEW j \in 1..n
      PROVE  /\ cs[j - 1] \in Nat /\ cs[j] = cs[j - 1] + Count(subs[j].lines, Changes)
             /\ \E f \in 0..Len(Full) : /\ Stands(Full, subs[j], f, cs[j - 1])
                                        /\ Sealed(Full, f + Len(subs[j].lines))
  <2>1. cs[j - 1] = ChangedTo(subs, j - 1) /\ cs[j - 1] \in Nat /\ cs[j] = ChangedTo(subs, j)
    BY <1>2, <1>3
  <2>2. cs[j] = cs[j - 1] + Count(subs[j].lines, Changes)
    BY <1>1, <2>1, ChangedToGrows
  <2>3. PICK f \in 0..Len(Full) : Stands(Full, subs[j], f, ChangedTo(subs, j - 1))
    BY SubStands
  <2> DEFINE to == f + Len(subs[j].lines)
  <2>4. to \in Nat
    <3>1. subs[j].lines \in Seq(Line)
      BY <1>2 DEF Hunk
    <3>2. QED
      BY <1>1, <3>1
  <2> HIDE DEF to
  <2>5. Sealed(Full, to)
    BY <1>1, <2>4, SealedBelow
  <2>6. QED
    BY <2>1, <2>2, <2>3, <2>5 DEF to
<1> HIDE DEF cs
<1>6. QED
  BY <1>1, <1>4, <1>5, Zenon DEF Stacked, cs

(* A hunk that stands and reads as another one takes what the other takes. *)
LEMMA TakesAsWell ==
  ASSUME NEW h, NEW o, NEW g, NEW set, Takes(o, g, set), OldAt(h) = OldAt(o), h.lines = o.lines
  PROVE  Takes(h, g, set)
BY DEF Takes

\* the hunks of the first j picks
PicksUpTo == [j \in 0..Len(subs) |-> TakenOf(picked, j)]

(* The result is the hunks of the picks.                                   *)
LEMMA EmittedIsSelected ==
  ASSUME FileInv, Ordered, phase = "emitted"
  PROVE  Selected(subs, picked, hunks, PicksUpTo)
<1> DEFINE n == Len(subs)
           ts == PicksUpTo
<1>1. /\ hunks \in Seq(Hunk) /\ subs \in Seq(Hunk) /\ n \in Nat
      /\ Len(picked) = n /\ Len(hunks) = Len(out) /\ Picks(picked, subs, out)
      /\ \A m \in DOMAIN hunks : OldAt(hunks[m]) = OldAt(out[m]) /\ hunks[m].lines = out[m].lines
  <2>1. IInv /\ HandedOver /\ PickedInv
    BY FileInvIs DEF Meant
  <2>2. hunks \in Seq(Hunk) /\ subs \in Seq(Hunk)
    BY <2>1 DEF IInv, TypeOK, LoopInv, LoopTypeOK
  <2>3. QED
    BY <2>1, <2>2, PickedAre DEF HandedOver
<1>2. DOMAIN hunks = 1..Len(hunks) /\ Len(hunks) \in Nat /\ 0 \in 0..n /\ n \in 0..n
  BY <1>1
<1>3. \A j \in 0..n : ts[j] = TakenOf(picked, j)
  BY DEF PicksUpTo
<1> HIDE DEF ts
<1>4. ts[0] = 0 /\ ts[n] = Len(hunks)
  BY <1>1, <1>2, <1>3, TakenSteps DEF Picks
<1>5. ASSUME NEW j \in 1..n
      PROVE  /\ picked[j] \subseteq 1..Count(subs[j].lines, Changes)
             /\ ts[j - 1] \in 0..Len(hunks)
             /\ picked[j] = {} => ts[j] = ts[j - 1]
             /\ picked[j] # {} => /\ ts[j] = ts[j - 1] + 1 /\ ts[j] <= Len(hunks)
                                  /\ Takes(hunks[ts[j]], subs[j], picked[j])
  <2> DEFINE i == j - 1
  <2>1. i \in Nat /\ i \in 0..n /\ j \in 0..n /\ i + 1 = j
    BY <1>1
  <2> HIDE DEF i
  <2>2. ts[i] = TakenOf(picked, i) /\ ts[j] = TakenOf(picked, j)
    BY <1>3, <2>1
  <2>3. /\ picked[j] \subseteq ChangedLines(subs[j])
        /\ picked[j] # {} => Takes(out[TakenOf(picked, j)], subs[j], picked[j])
    BY <1>1 DEF Picks
  <2>4. ts[i] \in 0..Len(hunks)
    <3>1. TakenOf(picked, i) \in Nat /\ TakenOf(picked, i) <= TakenOf(picked, n)
      BY <1>1, <2>1, TakenSteps
    <3>2. TakenOf(picked, n) = Len(hunks)
      BY <1>2, <1>3, <1>4
    <3>3. QED
      BY <1>2, <2>2, <3>1, <3>2
  <2>5. /\ picked[i + 1] = {} => TakenOf(picked, i + 1) = TakenOf(picked, i)
        /\ picked[i + 1] # {} => TakenOf(picked, i + 1) = TakenOf(picked, i) + 1
    BY <2>1, TakenSteps
  <2>6. ASSUME picked[j] # {}
        PROVE  ts[j] <= Len(hunks) /\ Takes(hunks[ts[j]], subs[j], picked[j])
    <3>1. ts[j] \in 1..Len(hunks)
      BY <1>1, <2>2, <2>6, PickAt
    <3>2. /\ OldAt(hunks[ts[j]]) = OldAt(out[ts[j]]) /\ hunks[ts[j]].lines = out[ts[j]].lines
          /\ ts[j] <= Len(hunks)
      BY <1>1, <1>2, <3>1
    <3>3. Takes(out[ts[j]], subs[j], picked[j])
      BY <2>2, <2>3, <2>6
    <3>4. QED
      BY <3>2, <3>3, TakesAsWell
  <2>7. QED
    BY <2>1, <2>2, <2>3, <2>4, <2>5, <2>6 DEF i, ChangedLines
<1>6. QED
  BY <1>1, <1>4, <1>5, Zenon DEF Selected, ts

(* The changes picked, hunk by hunk.                                       *)
LEMMA ChosenIs ==
  ASSUME FileInv, Ordered, phase = "emitted"
  PROVE  PickedTo(Growing(subs), picked, Len(subs)) = Chosen
<1> DEFINE n == Len(subs)
           B(j) == CountedBelow(Growing(subs)[j - 1], picked[j])
           C(j) == {ChangedTo(subs, j - 1) + c : c \in picked[j]}
<1>1. IInv /\ Len(picked) = n
  BY FileInvIs DEF Meant, HandedOver
<1>2. n \in Nat /\ DOMAIN picked = 1..n
  BY <1>1 DEF IInv, TypeOK
<1>3. \A j \in 1..n : B(j) = C(j)
  <2>1. TAKE j \in 1..n
  <2>2. j - 1 \in 0..n
    BY <1>2
  <2>3. Growing(subs)[j - 1] = ChangedTo(subs, j - 1)
    BY <2>2 DEF Growing
  <2>4. QED
    BY <2>3 DEF CountedBelow
<1>4. PickedTo(Growing(subs), picked, n) = UNION {B(j) : j \in 1..n}
  BY DEF PickedTo
<1>5. Chosen = UNION {C(j) : j \in 1..n}
  BY <1>2 DEF Chosen
<1> HIDE DEF B, C
<1>6. QED
  BY <1>3, <1>4, <1>5

(* What `git apply` does with the result.                                  *)
LEMMA EmittedApplies ==
  ASSUME FileInv, Ordered, phase = "emitted", ~OutOfPositions(hunks)
  PROVE  Apply(OldFile(Full), hunks) = FileWith(Full, Chosen)
<1>1. LoopInv /\ Real
  BY TheFiles DEF Ordered, IInv
<1>2. Moved(hunks, Growth)
  BY <1>1, EmittedMoves
<1>3. Stacked(Full, subs, Growing(subs)) /\ Selected(subs, picked, hunks, PicksUpTo)
  BY SubsStacked, EmittedIsSelected
<1>4. Apply(OldFile(Full), hunks) = FileWith(Full, PickedTo(Growing(subs), picked, Len(subs)))
  BY <1>2, <1>3, PicksApply
<1>5. QED
  BY <1>4, ChosenIs

-----------------------------------------------------------------------------
(* An entry that removes its file.                                          *)

Removal == RealDiff /\ entry.deletes

(* It is one hunk, and its lines are the deletions of the whole file.      *)
LEMMA TheRemoval ==
  ASSUME FileInv, Removal
  PROVE  /\ Ordered /\ entry.hunks \in Seq(Hunk) /\ Len(entry.hunks) = 1
         /\ entry.hunks[1] \in Hunk /\ entry.hunks[1].lines = Full /\ Full \in Seq(Line)
         /\ \A i \in DOMAIN Full : Full[i].kind = "del"
<1> DEFINE h == entry.hunks[1]
           f == entry.tops[1]
           ls == h.lines
<1>1. /\ IInv /\ RealDiff /\ IsDiffOf(Full, entry.tops, entry.hunks) /\ Full \in Seq(Line)
      /\ Len(entry.hunks) = 1 /\ Count(Full, NewSide) = 0
  <2>1. IInv /\ RealDiff /\ IsDiffOf(Full, entry.tops, entry.hunks) /\ Full \in Seq(Line)
    BY TheFiles DEF Removal
  <2>2. entry \in Entries /\ entry.real /\ entry.deletes
    BY FileInvIs DEF Removal, RealDiff
  <2>3. QED
    BY <2>1, <2>2, RealAssumption DEF Full
<1>2. entry.hunks \in Seq(Hunk) /\ 1 \in DOMAIN entry.hunks /\ h \in Hunk
  <2>1. entry.hunks \in Seq(Hunk)
    BY <1>1 DEF IInv, TypeOK
  <2>2. QED
    BY <1>1, <2>1
<1>3. \A i \in DOMAIN Full : Full[i].kind = "del"
  <2>1. TAKE i \in DOMAIN Full
  <2>2. i \in 1..Len(Full) /\ Full[i] \in Line /\ Len(Full) \in Int /\ 1 \in Int
    BY <1>1
  <2>3. CountIn(Full, NewSide, 1, Len(Full)) = 0
    BY <1>1 DEF Count
  <2>4. Full[i].kind \notin NewSide
    BY <2>2, <2>3, CountInPositive
  <2>5. QED
    BY <2>2, <2>4 DEF Line, Kinds, NewSide
<1>4. Ordered
  BY <1>1, <1>3 DEF Ordered, DeletionsFirst
<1>5. /\ f \in Nat /\ Stands(Full, h, f, CountIn(Full, Changes, 1, f))
      /\ \A i \in DOMAIN Full : i \in (f + 1)..(f + Len(ls))
  <2>1. entry.tops \in Seq(Nat) /\ Len(entry.tops) = 1
    BY <1>1 DEF IsDiffOf
  <2>2. Stands(Full, h, f, CountIn(Full, Changes, 1, f))
    BY <1>1, <1>2 DEF IsDiffOf
  <2>3. \A i \in DOMAIN Full : Full[i].kind \in Changes
    BY <1>3 DEF Changes
  <2>4. DOMAIN entry.hunks = {1}
    BY <1>1, <1>2
  <2>5. \A i \in DOMAIN Full :
          \E m \in DOMAIN entry.hunks : i \in (entry.tops[m] + 1)..(entry.tops[m] + Len(entry.hunks[m].lines))
    BY <1>1, <2>3 DEF IsDiffOf
  <2>6. QED
    BY <2>1, <2>2, <2>4, <2>5
<1>6. ls \in Seq(Line) /\ Len(ls) \in Nat /\ Len(Full) \in Nat /\ DOMAIN Full = 1..Len(Full)
  BY <1>1, <1>2 DEF Hunk
<1>7. f + Len(ls) <= Len(Full)
  BY <1>5 DEF Stands
<1>8. f = 0 /\ Len(ls) = Len(Full)
  <2>1. CASE Len(Full) = 0
    BY <1>5, <1>6, <1>7, <2>1
  <2>2. CASE Len(Full) # 0
    <3>1. 1 \in DOMAIN Full /\ Len(Full) \in DOMAIN Full
      BY <1>6, <2>2
    <3>2. 1 \in (f + 1)..(f + Len(ls)) /\ Len(Full) \in (f + 1)..(f + Len(ls))
      BY <1>5, <3>1
    <3>3. QED
      BY <1>5, <1>6, <1>7, <3>2
  <2>3. QED
    BY <2>1, <2>2
<1>9. ls = Full
  <2> DEFINE to == f + Len(ls)
  <2>1. f \in 0..Len(Full) /\ to = f + Len(h.lines)
    BY <1>5, <1>6, <1>7
  <2> HIDE DEF to
  <2>2. Placed(Full, f, h.lines, to)
    <3>1. Stands(Full, h, f, CountIn(Full, Changes, 1, f))
      BY <1>5
    <3>2. QED
      BY <1>1, <1>2, <2>1, <3>1, StandsPlaced
  <2>3. \A i \in 1..Len(ls) : ls[i] = Full[f + i]
    BY <2>2, Zenon DEF Placed, Within
  <2> HIDE DEF ls
  <2>4. \A i \in 1..Len(ls) : ls[i] = Full[i]
    BY <1>8, <2>3
  <2>5. QED
    BY <1>1, <1>6, <1>8, <2>4
<1>10. QED
  BY <1>1, <1>2, <1>3, <1>4, <1>9

(* ... so it holds one run of changes, and is not cut.                     *)
LEMMA TheRemovalIsOneRun ==
  ASSUME FileInv, Removal
  PROVE  Cardinality(RunStarts(entry.hunks[1].lines)) <= 1
<1>1. /\ entry.hunks[1].lines = Full /\ Full \in Seq(Line)
      /\ \A i \in DOMAIN Full : Full[i].kind = "del"
  BY TheRemoval
<1>2. \A i \in RunStarts(Full) : i = 1
  <2>1. TAKE i \in RunStarts(Full)
  <2>2. i \in DOMAIN Full /\ (i = 1 \/ Full[i - 1].kind \notin Changes)
    BY DEF RunStarts
  <2>3. i # 1 => i - 1 \in DOMAIN Full
    BY <1>1, <2>2
  <2>4. QED
    BY <1>1, <2>2, <2>3 DEF Changes
<1>3. RunStarts(Full) = {} \/ RunStarts(Full) = {1}
  BY <1>2
<1>4. Cardinality(RunStarts(Full)) <= 1
  <2>1. Cardinality({}) = 0 /\ Cardinality({1}) = 1
    BY FS_EmptySet, FS_Singleton
  <2>2. QED
    BY <1>3, <2>1
<1>5. QED
  BY <1>1, <1>4

LEMMA RemovalBegins == Init => (Removal => RemovalInv)
<1> SUFFICES ASSUME Init
             PROVE  RemovalInv
  OBVIOUS
<1>1. phase = "input" /\ subs = <<>> /\ out = <<>>
  BY DEF Init, LoopInit
<1>2. DOMAIN <<>> = {}
  OBVIOUS
<1>3. QED
  BY <1>1, <1>2 DEF RemovalInv, At

\* cutting into sub-hunks: the one hunk is kept
LEMMA RemovalKept ==
  ASSUME FileInv, Removal, RemovalInv, KeepHunk \/ SplitInner \/ SplitLast \/ EndSplit
  PROVE  RemovalInv'
<1>1. /\ phase = "cut" /\ step = "split" /\ IInv /\ At("split")
  BY FileInvIs DEF KeepHunk, SplitInner, SplitLast, EndSplit, At
<1>2. /\ hunks = entry.hunks /\ hi \in Nat \ {0} /\ hi <= Len(hunks) + 1
      /\ Len(entry.hunks) = 1 /\ entry.hunks \in Seq(Hunk)
      /\ subs = IF hi = 1 THEN <<>> ELSE entry.hunks
  <2>1. hunks = entry.hunks /\ hi \in Nat \ {0} /\ hi <= Len(hunks) + 1
    BY <1>1 DEF IInv, LoopInv, AcceptedInv, TypeOK, SplitInv
  <2>2. QED
    BY <1>1, <2>1, TheRemoval DEF RemovalInv
<1>3. \A m \in DOMAIN out : NoAdds(out[m].lines)
  BY DEF RemovalInv
<1>4. CASE KeepHunk
  <2>1. /\ hi <= Len(hunks) /\ subs' = Append(subs, hunks[hi]) /\ hi' = hi + 1
        /\ UNCHANGED <<phase, entry, step, out>>
    BY <1>4 DEF KeepHunk, loop
  <2>2. hi = 1 /\ hi' = 2
    BY <1>2, <2>1
  <2>3. subs' = entry.hunks
    <3>1. subs' = Append(<<>>, entry.hunks[1])
      BY <1>2, <2>1, <2>2
    <3>2. entry.hunks = <<entry.hunks[1]>>
      BY <1>2
    <3>3. Append(<<>>, entry.hunks[1]) = <<entry.hunks[1]>>
      OBVIOUS
    <3>4. QED
      BY <3>1, <3>2, <3>3, Zenon
  <2>4. QED
    BY <1>1, <1>3, <2>1, <2>2, <2>3 DEF RemovalInv, At
<1>5. CASE SplitInner \/ SplitLast
  <2>1. hi <= Len(hunks) /\ Cardinality(RunStarts(hunks[hi].lines)) > 1
    BY <1>5 DEF SplitInner, SplitLast
  <2>2. hi = 1
    BY <1>2, <2>1
  <2>3. RunStarts(hunks[hi].lines) = RunStarts(entry.hunks[1].lines)
    BY <1>2, <2>2
  <2>4. Cardinality(RunStarts(entry.hunks[1].lines)) \in Nat
    BY TheRemoval, RunsAreFinite
  <2>5. QED
    BY <2>1, <2>3, <2>4, TheRemovalIsOneRun
<1>6. CASE EndSplit
  <2>1. hi > Len(hunks) /\ step' = "pick" /\ UNCHANGED <<phase, entry, subs, out>>
    BY <1>6 DEF EndSplit, loop
  <2>2. hi # 1
    BY <1>2, <2>1
  <2>3. QED
    BY <1>1, <1>2, <1>3, <2>1, <2>2 DEF RemovalInv, At
<1>7. QED
  BY <1>4, <1>5, <1>6

(* A hunk without additions joins the others.                              *)
LEMMA NoAddsGrow ==
  ASSUME NEW hs \in Seq(Hunk), NEW h \in Hunk, NoAdds(h.lines),
         \A m \in DOMAIN hs : NoAdds(hs[m].lines), NEW us, us = Append(hs, h)
  PROVE  \A m \in DOMAIN us : NoAdds(us[m].lines)
<1>1. DOMAIN us = 1..(Len(hs) + 1) /\ DOMAIN hs = 1..Len(hs) /\ Len(hs) \in Nat
  OBVIOUS
<1>2. us[Len(hs) + 1] = h /\ \A m \in 1..Len(hs) : us[m] = hs[m]
  OBVIOUS
<1>3. \A m \in DOMAIN us : m \in DOMAIN hs \/ m = Len(hs) + 1
  BY <1>1
<1>4. QED
  BY <1>1, <1>2, <1>3

(* ... and a body the lines of another.                                    *)
LEMMA NoAddsJoin ==
  ASSUME NEW ls \in Seq(Line), NEW ms \in Seq(Line), NoAdds(ls), NoAdds(ms)
  PROVE  NoAdds(ls \o ms)
<1>1. \A i \in DOMAIN (ls \o ms) : \/ i \in DOMAIN ls /\ (ls \o ms)[i] = ls[i]
                                   \/ i - Len(ls) \in DOMAIN ms /\ (ls \o ms)[i] = ms[i - Len(ls)]
  OBVIOUS
<1>2. QED
  BY <1>1 DEF NoAdds

\* the pick loop
LEMMA RemovalPicked ==
  ASSUME FileInv, Removal, RemovalInv,
         PassBy \/ TakeWhole \/ \E set \in LineSets(subs[k]) : BeginSlice(set)
  PROVE  RemovalInv'
<1>1. /\ phase = "cut" /\ step = "pick" /\ step # "split" /\ k <= Len(subs) /\ UNCHANGED <<phase, entry, subs>>
  BY DEF PassBy, TakeWhole, BeginSlice, At, loop
<1>2. subs = entry.hunks /\ \A m \in DOMAIN out : NoAdds(out[m].lines)
  BY <1>1 DEF RemovalInv
<1>3. CASE PassBy
  <2>1. UNCHANGED <<step, out>>
    BY <1>3 DEF PassBy
  <2>2. QED
    BY <1>1, <1>2, <2>1 DEF RemovalInv, At
<1>4. CASE TakeWhole
  <2>1. UNCHANGED step /\ out' = Append(out, subs[k])
    BY <1>4 DEF TakeWhole
  <2>2. /\ k = 1 /\ subs[k] \in Hunk /\ subs[k].lines = Full
        /\ \A i \in DOMAIN Full : Full[i].kind = "del"
    <3>1. k \in Nat \ {0}
      BY FileInvIs DEF IInv, TypeOK
    <3>2. k = 1
      BY <1>1, <1>2, <3>1, TheRemoval
    <3>3. QED
      BY <1>2, <3>2, TheRemoval
  <2>3. NoAdds(subs[k].lines)
    BY <2>2 DEF NoAdds
  <2>4. out \in Seq(Hunk)
    BY FileInvIs DEF IInv, TypeOK
  <2>5. \A m \in DOMAIN out' : NoAdds(out'[m].lines)
    BY <1>2, <2>1, <2>2, <2>3, <2>4, NoAddsGrow
  <2>6. QED
    BY <1>1, <1>2, <2>1, <2>5 DEF RemovalInv, At
<1>5. CASE \E set \in LineSets(subs[k]) : BeginSlice(set)
  <2>1. step' = "slice" /\ body' = <<>> /\ UNCHANGED out
    BY <1>5 DEF BeginSlice
  <2>2. NoAdds(<<>>)
    BY DEF NoAdds
  <2>3. QED
    BY <1>1, <1>2, <2>1, <2>2 DEF RemovalInv, At
<1>6. QED
  BY <1>3, <1>4, <1>5

\* where the slice of a removal stands
LEMMA RemovalSliced ==
  ASSUME FileInv, Removal, RemovalInv, phase = "cut", step \in {"slice", "fix"}
  PROVE  /\ IInv /\ subs = entry.hunks /\ k = 1 /\ subs[k].lines = Full /\ subs[k] \in Hunk
         /\ \A i \in DOMAIN Full : Full[i].kind = "del" /\ Full[i] \in Line
         /\ body \in Seq(Line) /\ fixed \in Seq(Line) /\ out \in Seq(Hunk)
         /\ \A m \in DOMAIN out : NoAdds(out[m].lines)
<1>1. /\ IInv /\ step # "split" /\ step # "pick" /\ k \in Nat \ {0}
      /\ body \in Seq(Line) /\ fixed \in Seq(Line) /\ out \in Seq(Hunk)
  BY FileInvIs DEF IInv, TypeOK
<1>2. subs = entry.hunks /\ \A m \in DOMAIN out : NoAdds(out[m].lines)
  BY <1>1 DEF RemovalInv
<1>3. k <= Len(subs)
  BY <1>1 DEF IInv, PickInv
<1>4. /\ Len(entry.hunks) = 1 /\ entry.hunks[1] \in Hunk /\ entry.hunks[1].lines = Full
      /\ Full \in Seq(Line) /\ \A i \in DOMAIN Full : Full[i].kind = "del"
  BY TheRemoval
<1>5. k = 1
  BY <1>1, <1>2, <1>3, <1>4
<1>6. \A i \in DOMAIN Full : Full[i] \in Line
  BY <1>4
<1>7. QED
  BY <1>1, <1>2, <1>4, <1>5, <1>6

LEMMA RemovalSliceLine ==
  ASSUME FileInv, Removal, RemovalInv, SliceLine \/ EndSlice
  PROVE  RemovalInv'
<1>1. /\ phase = "cut" /\ step = "slice" /\ step # "split" /\ UNCHANGED <<phase, entry, subs, out>>
  BY DEF SliceLine, EndSlice, At, loop
<1>2. /\ subs = entry.hunks /\ NoAdds(body) /\ \A m \in DOMAIN out : NoAdds(out[m].lines)
      /\ body \in Seq(Line)
      /\ subs[k].lines = Full /\ \A i \in DOMAIN Full : Full[i].kind = "del" /\ Full[i] \in Line
  BY <1>1, RemovalSliced DEF RemovalInv, At
<1>3. CASE SliceLine
  <2> DEFINE l == subs[k].lines[li]
             taken == CountIn(subs[k].lines, Changes, 1, li) \in lineSet
             more == Retained(l, taken)
  <2>1. body' = body \o more /\ step' = step /\ li <= Len(subs[k].lines)
    BY <1>3 DEF SliceLine
  <2>2. l.kind = "del" /\ l \in Line
    <3>1. li \in Nat \ {0} /\ Full \in Seq(Line)
      BY FileInvIs, TheRemoval DEF IInv, TypeOK
    <3>2. li \in DOMAIN Full
      BY <1>2, <2>1, <3>1
    <3>3. QED
      BY <1>2, <3>2
  <2> HIDE DEF l, taken
  <2>3. more = <<l>> \/ more = <<[l EXCEPT !.kind = "ctx"]>>
    BY <2>2 DEF Retained
  <2>4. [l EXCEPT !.kind = "ctx"] \in Line /\ [l EXCEPT !.kind = "ctx"].kind = "ctx"
    BY <2>2 DEF Line, Kinds
  <2> HIDE DEF more
  <2>5. more \in Seq(Line) /\ NoAdds(more)
    <3>1. \A x \in Line : x.kind # "add" => <<x>> \in Seq(Line) /\ NoAdds(<<x>>)
      BY DEF NoAdds
    <3>2. QED
      BY <2>2, <2>3, <2>4, <3>1
  <2>6. NoAdds(body')
    BY <1>2, <2>1, <2>5, NoAddsJoin
  <2>7. QED
    BY <1>1, <1>2, <2>1, <2>6 DEF RemovalInv, At
<1>4. CASE EndSlice
  <2>1. step' = "fix" /\ fixed' = <<>> /\ body' = body
    BY <1>4 DEF EndSlice
  <2>2. NoAdds(<<>>)
    BY DEF NoAdds
  <2>3. QED
    BY <1>1, <1>2, <2>1, <2>2 DEF RemovalInv, At
<1>5. QED
  BY <1>3, <1>4

LEMMA RemovalFixLine ==
  ASSUME FileInv, Removal, RemovalInv, FixLine \/ TakeSlice
  PROVE  RemovalInv'
<1>1. /\ phase = "cut" /\ step = "fix" /\ step # "split" /\ At("fix") /\ UNCHANGED <<phase, entry, subs>>
  BY DEF FixLine, TakeSlice, At, loop
<1>2. /\ IInv /\ subs = entry.hunks /\ k = 1 /\ subs[k] \in Hunk /\ NoAdds(body) /\ NoAdds(fixed)
      /\ \A m \in DOMAIN out : NoAdds(out[m].lines)
      /\ body \in Seq(Line) /\ fixed \in Seq(Line) /\ out \in Seq(Hunk)
  BY <1>1, RemovalSliced DEF RemovalInv
<1>3. CASE FixLine
  <2> DEFINE l == body[li]
             more == Repaired(l, li = Len(body))
  <2>1. /\ fixed' = fixed \o more /\ UNCHANGED <<step, body, out>> /\ li <= Len(body)
    BY <1>3 DEF FixLine
  <2>2. li \in DOMAIN body /\ l \in Line /\ l.kind # "add"
    <3>1. li \in Nat \ {0}
      BY <1>2 DEF IInv, TypeOK
    <3>2. li \in DOMAIN body
      BY <1>2, <2>1, <3>1
    <3>3. QED
      BY <1>2, <3>2 DEF NoAdds
  <2>3. MarkedLast(body)
    BY <1>1, TheRemoval, FileInvIs DEF Meant, FixSides
  <2>4. l.nonl => li = Len(body)
    <3>1. SUFFICES ASSUME l.nonl, li # Len(body)
                   PROVE  FALSE
      OBVIOUS
    <3>2. Len(body) \in DOMAIN body /\ li < Len(body)
      BY <1>2, <2>2, <3>1
    <3>3. body[Len(body)].kind = "add"
      BY <2>2, <2>3, <3>1, <3>2 DEF MarkedLast
    <3>4. QED
      BY <1>2, <3>2, <3>3 DEF NoAdds
  <2>5. more = <<l>>
    BY <2>4 DEF Repaired
  <2> HIDE DEF l, more
  <2>6. <<l>> \in Seq(Line) /\ NoAdds(<<l>>)
    BY <2>2 DEF NoAdds
  <2>7. NoAdds(fixed')
    BY <1>2, <2>1, <2>5, <2>6, NoAddsJoin
  <2>8. QED
    BY <1>1, <1>2, <2>1, <2>7 DEF RemovalInv, At
<1>4. CASE TakeSlice
  <2> DEFINE h == WithBody(subs[k], fixed)
  <2>1. out' = Append(out, h) /\ step' = "pick"
    BY <1>4 DEF TakeSlice
  <2>2. h \in Hunk /\ h.lines = fixed
    <3>1. out' \in Seq(Hunk)
      BY <1>2, <1>4, TakeSliceInv DEF IInv, TypeOK
    <3>2. h.lines = fixed
      BY <1>2 DEF WithBody, Hunk
    <3> HIDE DEF h
    <3>3. Append(out, h)[Len(out) + 1] = h /\ Len(out) + 1 \in DOMAIN Append(out, h)
      BY <1>2
    <3>4. QED
      BY <2>1, <3>1, <3>2, <3>3
  <2> HIDE DEF h
  <2>3. \A m \in DOMAIN out' : NoAdds(out'[m].lines)
    BY <1>2, <2>1, <2>2, NoAddsGrow
  <2>4. QED
    BY <1>1, <1>2, <2>1, <2>3 DEF RemovalInv, At
<1>5. QED
  BY <1>3, <1>4

\* the end of the pick loop, and what follows it
LEMMA RemovalHandedOver ==
  ASSUME FileInv, Removal, RemovalInv, EmitSelection
  PROVE  RemovalInv'
<1>1. /\ phase = "cut" /\ step = "pick" /\ step # "split" /\ phase' = "renumber"
      /\ UNCHANGED <<entry, subs, out>> /\ ~NothingPicked /\ ~PartialDeletion
  BY DEF EmitSelection, At, StartRenumber, cutting
<1>2. subs = entry.hunks /\ subs # <<>> /\ \A m \in DOMAIN out : NoAdds(out[m].lines)
  <2>1. subs = entry.hunks /\ \A m \in DOMAIN out : NoAdds(out[m].lines)
    BY <1>1 DEF RemovalInv
  <2>2. Len(entry.hunks) = 1 /\ entry.hunks \in Seq(Hunk)
    BY TheRemoval
  <2>3. 1 \in DOMAIN entry.hunks /\ DOMAIN <<>> = {}
    BY <2>2
  <2>4. entry.hunks # <<>>
    BY <2>3, Zenon
  <2>5. QED
    BY <2>1, <2>4
<1>3. out # <<>>
  BY <1>1, <1>2 DEF NothingPicked
<1>4. \A m \in DOMAIN out : Count(out[m].lines, {"ctx"}) = 0
  <2>1. TAKE m \in DOMAIN out
  <2>2. ~(Count(out[m].lines, {"ctx"}) > 0)
    BY <1>1 DEF PartialDeletion, Removal
  <2>3. Count(out[m].lines, {"ctx"}) \in Nat
    <3>1. out \in Seq(Hunk)
      BY FileInvIs DEF IInv, TypeOK
    <3>2. out[m] \in Hunk
      BY <3>1
    <3>3. out[m].lines \in Seq(Line)
      BY <3>2 DEF Hunk
    <3>4. Len(out[m].lines) \in Int /\ 1 \in Int
      BY <3>3
    <3>5. QED
      BY <3>4, CountInType DEF Count
  <2>4. QED
    BY <2>2, <2>3
<1>5. QED
  BY <1>1, <1>2, <1>3, <1>4 DEF RemovalInv, At

LEMMA RemovalLooped ==
  ASSUME FileInv, Removal, RemovalInv, LoopNext, UNCHANGED <<entry, cutting>>
  PROVE  RemovalInv'
<1>1. UNCHANGED <<entry, step, hi, subs, out, body, fixed>>
  BY DEF cutting
<1>2. /\ phase' # "cut" \/ phase = "input"
      /\ phase' = "input" => phase = "input"
      /\ phase' \in {"renumber", "result", "emitted"} => phase \in {"renumber", "result"}
  BY DEF LoopNext, AcceptHunk, RejectHunk, EndCheck, RenumberHunk, EndRenumber, Checking
<1>3. phase = "input" => step = "split" /\ hi = 1
  BY FileInvIs DEF IInv, UntouchedInv
<1>4. QED
  BY <1>1, <1>2, <1>3 DEF RemovalInv, At

LEMMA RemovalRests ==
  ASSUME Removal, RemovalInv, UNCHANGED <<entry, step, hi, subs, out, body, fixed>>,
         phase' = "usage" \/ phase' = phase
  PROVE  RemovalInv'
BY DEF RemovalInv, At

LEMMA RemovalsStay == Spec => [](FileInv /\ (Removal => RemovalInv))
<1> DEFINE I == FileInv /\ (Removal => RemovalInv)
<1>1. Init => I
  BY InitMeans, RemovalBegins
<1>2. ASSUME FileInv, Removal, RemovalInv, [Next]_vars
      PROVE  RemovalInv'
  <2>1. CASE LoopNext /\ UNCHANGED <<entry, cutting>>
    BY <1>2, <2>1, RemovalLooped
  <2>2. CASE KeepHunk \/ SplitInner \/ SplitLast \/ EndSplit
    BY <1>2, <2>2, RemovalKept
  <2>3. CASE PassBy \/ TakeWhole \/ \E set \in LineSets(subs[k]) : BeginSlice(set)
    BY <1>2, <2>3, RemovalPicked
  <2>4. CASE SliceLine \/ EndSlice
    BY <1>2, <2>4, RemovalSliceLine
  <2>5. CASE FixLine \/ TakeSlice
    BY <1>2, <2>5, RemovalFixLine
  <2>6. CASE RefuseSelection \/ \E set \in LineSets(subs[k]) : RefuseSlice(set)
    <3>1. phase' = "usage" /\ UNCHANGED <<entry, step, hi, subs, out, body, fixed>>
      BY <2>6 DEF RefuseSelection, RefuseSlice, Refuse, cutting
    <3>2. QED
      BY <1>2, <3>1, RemovalRests
  <2>7. CASE EmitSelection
    BY <1>2, <2>7, RemovalHandedOver
  <2>8. CASE Exited \/ UNCHANGED vars
    <3>1. UNCHANGED <<phase, entry, step, hi, subs, out, body, fixed>>
      BY <2>8 DEF Exited, vars, loop, cutting
    <3>2. QED
      BY <1>2, <3>1, RemovalRests
  <2>9. QED
    BY <1>2, <2>1, <2>2, <2>3, <2>4, <2>5, <2>6, <2>7, <2>8 DEF Next, CutNext
<1>3. ASSUME [Next]_vars
      PROVE  entry' = entry
  <2>1. CASE Next
    BY <2>1 DEF Next, CutNext, KeepHunk, SplitInner, SplitLast, EndSplit, PassBy, TakeWhole,
       BeginSlice, RefuseSlice, SliceLine, EndSlice, FixLine, TakeSlice, RefuseSelection,
       EmitSelection, Exited, vars
  <2>2. CASE UNCHANGED vars
    BY <2>2 DEF vars
  <2>3. QED
    BY <1>3, <2>1, <2>2
<1>4. FileInv /\ [Next]_vars => FileInv'
  BY FileInvStays
<1>5. I /\ [Next]_vars => I'
  <2>1. ASSUME [Next]_vars
        PROVE  Removal' <=> Removal
    BY <1>3, <2>1 DEF Removal, RealDiff
  <2>2. QED
    BY <1>2, <1>4, <2>1
<1>6. QED
  BY <1>1, <1>5, PTL DEF Spec

(* What is left of a file by hunk lines that are all deletions: nothing.   *)
LEMMA NothingAdded ==
  ASSUME NEW ls \in Seq(Line), NoAdds(ls), Count(ls, {"ctx"}) = 0
  PROVE  SideOf(ls, NewSide) = <<>> /\ Count(ls, NewSide) = 0
<1>1. Len(ls) \in Nat /\ Len(ls) \in Int /\ 1 \in Int /\ DOMAIN ls = 1..Len(ls)
  OBVIOUS
<1>2. \A i \in 1..Len(ls) : ls[i].kind \notin NewSide
  <2>1. TAKE i \in 1..Len(ls)
  <2>2. CountIn(ls, {"ctx"}, 1, Len(ls)) = 0
    BY DEF Count
  <2>3. ls[i].kind \notin {"ctx"}
    BY <1>1, <2>2, CountInPositive
  <2>4. ls[i].kind # "add"
    BY <1>1 DEF NoAdds
  <2>5. QED
    BY <2>3, <2>4 DEF NewSide
<1>3. Count(ls, NewSide) = 0
  <2>1. CountIn(ls, NewSide, 1, Len(ls)) \in Nat /\ ~(CountIn(ls, NewSide, 1, Len(ls)) > 0)
    BY <1>1, <1>2, CountInType, CountInPositive
  <2>2. QED
    BY <2>1 DEF Count
<1>4. Len(SideOf(ls, NewSide)) = 0 /\ SideOf(ls, NewSide) \in Seq(FileLine)
  BY <1>3, SideSize DEF SideLen
<1>5. QED
  BY <1>3, <1>4

(* A result that removes its file starts at line 1, and its new side at 0. *)
LEMMA RemovalIsNumbered ==
  ASSUME FileInv, Removal, phase = "emitted", subs = entry.hunks, Len(hunks) = 1,
         OldAt(hunks[1]) = OldAt(subs[1]), Count(hunks[1].lines, NewSide) = 0
  PROVE  ~OutOfPositions(hunks)
<1> DEFINE h == hunks[1]
<1>1. /\ IInv /\ Real /\ RealDiff /\ Ordered /\ Full \in Seq(Line) /\ Len(entry.hunks) = 1
      /\ entry.hunks[1].lines = Full
  BY TheRemoval, TheFiles, FileInvIs DEF Removal
<1>2. 1 \in 1..Len(subs) /\ Len(Full) \in Nat
  BY <1>1
<1>3. PICK f \in 0..Len(Full) : Stands(Full, subs[1], f, ChangedTo(subs, 1 - 1))
  BY <1>1, <1>2, SubStands
<1>4. f + Len(Full) <= Len(Full) /\ OldAt(subs[1]) = CountIn(Full, OldSide, 1, f) + 1
  BY <1>1, <1>3 DEF Stands
<1>5. f = 0
  BY <1>2, <1>4
<1>6. CountIn(Full, OldSide, 1, 0) = 0
  BY CountInType
<1>7. OldAt(h) = 1
  BY <1>4, <1>5, <1>6
<1>8. /\ Len(shifts) = 1 /\ \A j \in 1..1 : Numbered(j)
      /\ AllSound(hunks) /\ hunks \in Seq(Hunk)
  BY <1>1 DEF IInv, LoopInv, LoopTypeOK, RenumberInv
<1>9. DOMAIN hunks = {1}
  BY <1>8
<1>10. h.new_start = ExpectedNewStart(h, 0)
  <2>1. Numbered(1)
    BY <1>8
  <2>2. shifts[1] = 0
    BY <2>1 DEF Numbered, ShiftAt
  <2>3. QED
    BY <2>1, <2>2 DEF Numbered
<1>11. h.new_lines = 0
  BY <1>8, <1>9, SoundMeans DEF AllSound
<1> HIDE DEF h
<1>12. h.new_start = Clamp(0)
  BY <1>7, <1>10, <1>11 DEF ExpectedNewStart
<1>13. h.new_start # MaxU32
  BY <1>12, MaxU32Assumption DEF Clamp
<1>14. QED
  BY <1>9, <1>13 DEF OutOfPositions, h

-----------------------------------------------------------------------------
(* The theorems about the files.                                            *)

(* MInv holds in every state of every run: wherever the hunks are cut and  *)
(* whatever is picked, every sub-hunk stands in the files where its header *)
(* says, and every hunk of the result makes exactly the changes picked.    *)
THEOREM MeaningInvariance == Spec => []MInv
<1>1. FileInv /\ (Removal => RemovalInv) => MInv
  BY DEF FileInv, MInv, Ordered, Meant, Removal
<1>2. QED
  BY <1>1, RemovalsStay, PTL

(* Any selection of any lines makes the changes picked and no other: what  *)
(* `git apply` makes of the old file with the result is that file with them. *)
THEOREM SelectionMakesThePickedChanges == Spec => []SelectionApplies
<1>1. FileInv => SelectionApplies
  BY EmittedApplies DEF SelectionApplies, MakesThePickedChanges, Ordered
<1>2. QED
  BY <1>1, FilesStay, PTL

(* A result that removes its file leaves no line of it: a partial deletion  *)
(* was refused, so no deletion left out stays as context.                 *)
THEOREM RemovalsLeaveNothing == Spec => []DeletionLeavesNothing
<1>1. FileInv /\ (Removal => RemovalInv) => DeletionLeavesNothing
  <2> SUFFICES ASSUME FileInv, RemovalInv, Removal, phase = "emitted"
               PROVE  Apply(OldFile(Full), hunks) = <<>>
    BY DEF DeletionLeavesNothing, Removal
  <2>1. /\ Ordered /\ IInv /\ Meant /\ Len(entry.hunks) = 1 /\ entry.hunks[1].lines = Full
        /\ subs = entry.hunks /\ out # <<>>
        /\ \A m \in DOMAIN out : NoAdds(out[m].lines) /\ Count(out[m].lines, {"ctx"}) = 0
    BY TheRemoval, FileInvIs DEF RemovalInv
  <2>2. /\ hunks \in Seq(Hunk) /\ out \in Seq(Hunk) /\ subs \in Seq(Hunk) /\ Len(hunks) = Len(out)
        /\ Len(picked) = 1 /\ \A m \in DOMAIN hunks : hunks[m].lines = out[m].lines
    BY <2>1 DEF IInv, TypeOK, LoopInv, LoopTypeOK, Meant, HandedOver
  <2>3. Selected(subs, picked, hunks, PicksUpTo)
    BY <2>1, EmittedIsSelected
  <2> DEFINE ts == PicksUpTo
             h == hunks[1]
  <2>4. Len(hunks) # 0
    BY <2>1, <2>2
  <2>5. /\ ts[0] = 0 /\ ts[1] = Len(hunks)
        /\ picked[1] = {} => ts[1] = ts[0]
        /\ picked[1] # {} => ts[1] = ts[0] + 1 /\ Takes(hunks[ts[1]], subs[1], picked[1])
    <3>1. Len(subs) = 1 /\ 1 \in 1..Len(subs) /\ 1 - 1 = 0
      BY <2>1
    <3>2. QED
      BY <2>3, <3>1 DEF Selected
  <2> HIDE DEF ts
  <2>6. Len(hunks) = 1 /\ Takes(h, subs[1], picked[1])
    BY <2>2, <2>4, <2>5
  <2>7. h \in Hunk /\ h.lines \in Seq(Line) /\ NoAdds(h.lines) /\ Count(h.lines, {"ctx"}) = 0
    <3>1. DOMAIN hunks = 1..Len(hunks) /\ DOMAIN out = 1..Len(out)
      BY <2>2
    <3>2. Len(hunks) = 1 /\ Len(out) = 1
      BY <2>2, <2>6
    <3>3. 1 \in DOMAIN hunks /\ 1 \in DOMAIN out
      BY <3>1, <3>2
    <3>4. h \in Hunk /\ h.lines = out[1].lines
      BY <2>2, <3>3
    <3>5. QED
      BY <2>1, <3>3, <3>4 DEF Hunk
  <2>8. SideOf(h.lines, NewSide) = <<>> /\ Count(h.lines, NewSide) = 0
    BY <2>7, NothingAdded
  <2>9. FileWith(Full, picked[1]) = <<>>
    BY <2>1, <2>6, <2>8 DEF Takes
  <2>10. Chosen = picked[1]
    <3>1. /\ DOMAIN picked = {1} /\ 1 - 1 = 0
      BY <2>1, <2>2, FileInvIs DEF IInv, TypeOK
    <3>2. ChangedTo(subs, 0) = 0
      <4>1. 1 \in 1..Len(subs)
        BY <2>1
      <4>2. QED
        BY <2>2, <4>1, ChangedToGrows
    <3>3. picked[1] \subseteq Nat
      BY <2>1, <3>1 DEF Meant, PickedInv, ChangedLines
    <3>4. {ChangedTo(subs, 1 - 1) + c : c \in picked[1]} = picked[1]
      BY <3>1, <3>2, <3>3
    <3>5. QED
      BY <3>1, <3>4 DEF Chosen
  <2>11. ~OutOfPositions(hunks)
    BY <2>1, <2>6, <2>8, RemovalIsNumbered DEF Takes
  <2>12. Apply(OldFile(Full), hunks) = FileWith(Full, Chosen)
    BY <2>1, <2>11, EmittedApplies
  <2>13. QED
    BY <2>9, <2>10, <2>12
<1>2. QED
  BY <1>1, RemovalsStay, PTL
=============================================================================

-------------------------- MODULE ResultDiff_proofs --------------------------
(***************************************************************************)
(* Proofs about the loops of ResultDiff, for every input and every u32     *)
(* bound: they keep LoopInv, and so do the ways a command goes on from     *)
(* them; what both commands promise of their result follows.               *)
(***************************************************************************)
EXTENDS ResultDiffInv, GitApply, HunksTheorems, SequenceTheorems

(* Adding a hunk below a tidy list keeps it tidy.                          *)
LEMMA AppendTidy ==
  ASSUME NEW hs \in Seq(Hunk), NEW h \in Hunk, Tidy(hs),
         Sound(h), OldAt(h) >= 1, OldEnd(h) <= MaxU32,
         hs # <<>> => OldEnd(hs[Len(hs)]) <= OldAt(h)
  PROVE  Tidy(Append(hs, h))
<1> DEFINE g == Append(hs, h)
<1>1. /\ Len(hs) \in Nat /\ g \in Seq(Hunk) /\ Len(g) = Len(hs) + 1 /\ DOMAIN g = 1..(Len(hs) + 1)
      /\ DOMAIN hs = 1..Len(hs)
      /\ \A j \in 1..Len(hs) : g[j] = hs[j]
      /\ g[Len(hs) + 1] = h
      /\ hs = <<>> <=> Len(hs) = 0
  OBVIOUS
<1> HIDE DEF g
<1>2. ASSUME NEW j \in DOMAIN g
      PROVE  OldAt(g[j]) >= 1 /\ OldEnd(g[j]) <= MaxU32 /\ Sound(g[j])
  <2>1. CASE j = Len(hs) + 1
    BY <1>1, <2>1
  <2>2. CASE j # Len(hs) + 1
    <3>1. j \in DOMAIN hs
      BY <1>1, <2>2
    <3>2. QED
      BY <1>1, <3>1 DEF Tidy
  <2>3. QED
    BY <2>1, <2>2
<1>3. ASSUME NEW j \in DOMAIN g, j > 1
      PROVE  OldEnd(g[j - 1]) <= OldAt(g[j])
  <2>1. CASE j = Len(hs) + 1
    <3>1. hs # <<>> /\ j - 1 = Len(hs) /\ j - 1 \in 1..Len(hs)
      BY <1>1, <1>3, <2>1
    <3>2. QED
      BY <1>1, <2>1, <3>1
  <2>2. CASE j # Len(hs) + 1
    <3>1. j \in DOMAIN hs /\ j - 1 \in 1..Len(hs) /\ j \in 1..Len(hs)
      BY <1>1, <1>3, <2>2
    <3>2. QED
      BY <1>1, <1>3, <3>1 DEF Tidy
  <2>3. QED
    BY <2>1, <2>2
<1>4. QED
  BY <1>2, <1>3 DEF Tidy, g

(* ... and sound.                                                          *)
LEMMA AppendSound ==
  ASSUME NEW hs \in Seq(Hunk), NEW h \in Hunk, AllSound(hs), Sound(h)
  PROVE  AllSound(Append(hs, h))
<1>1. ASSUME NEW j \in DOMAIN Append(hs, h)
      PROVE  Sound(Append(hs, h)[j])
  <2>1. CASE j = Len(hs) + 1
    BY <2>1
  <2>2. CASE j # Len(hs) + 1
    <3>1. j \in DOMAIN hs /\ Append(hs, h)[j] = hs[j]
      BY <2>2
    <3>2. QED
      BY <3>1 DEF AllSound
  <2>3. QED
    BY <2>1, <2>2
<1>2. QED
  BY <1>1 DEF AllSound

(* Positions are integers, and no hunk ends above its start.               *)
LEMMA Positions ==
  ASSUME NEW h \in Hunk
  PROVE  /\ OldAt(h) \in Nat /\ NewAt(h) \in Nat
         /\ OldEnd(h) \in Nat /\ NewEnd(h) \in Nat
         /\ OldAt(h) <= OldEnd(h)
BY MaxU32Assumption DEF Hunk, U32, OldAt, NewAt, OldEnd, NewEnd, Anchor

(* A net growth is an integer.                                             *)
LEMMA NetType ==
  ASSUME NEW ls \in Seq(Line)
  PROVE  Net(ls) \in Int
BY NetIsSideDifference

-----------------------------------------------------------------------------
(* The loops of ResultDiff.                                                 *)

(* A hunk the input check passes is sound and below the one before it; a   *)
(* hunk the result check passes leaves the delta in step with the shifts.  *)
LEMMA AcceptHunkInv ==
  LoopInv /\ AcceptHunk /\ UNCHANGED entry => LoopInv'
<1> SUFFICES ASSUME LoopInv, AcceptHunk, UNCHANGED entry
             PROVE  LoopInv'
  OBVIOUS
<1> USE DEF LoopInv
<1> DEFINE h == hunks[at]
<1>1. /\ phase \in {"input", "result"} /\ phase' = phase
      /\ at \in Nat \ {0} /\ at <= Len(hunks) /\ at' = at + 1
      /\ hunks \in Seq(Hunk) /\ hunks' = hunks /\ h \in Hunk
      /\ shifts' = shifts /\ fault' = fault
      /\ delta' = delta + Net(h.lines) /\ delta \in Int
      /\ oldEnd' = OldEnd(h) /\ newEnd' = NewEnd(h) /\ oldEnd \in Int /\ newEnd \in Int
  BY DEF LoopTypeOK, AcceptHunk, Checking
<1>2. entry' = entry
  OBVIOUS
<1>3. /\ OldAt(h) \in Nat /\ OldEnd(h) \in Nat /\ NewEnd(h) \in Nat
      /\ Net(h.lines) \in Int
  <2>1. OldAt(h) \in Nat /\ OldEnd(h) \in Nat /\ NewEnd(h) \in Nat
    BY <1>1, Positions
  <2>2. h.lines \in Seq(Line)
    BY <1>1 DEF Hunk
  <2>3. QED
    BY <2>1, <2>2, NetType
<1>4. LoopTypeOK'
  <2>1. /\ at' \in Nat \ {0} /\ delta' \in Int /\ oldEnd' \in Int /\ newEnd' \in Int
    BY <1>1, <1>3
  <2>2. QED
    BY <1>1, <1>2, <2>1 DEF LoopTypeOK
<1>5. InputInv'
  <2>1. CASE phase = "result"
    BY <1>1, <2>1 DEF InputInv
  <2>2. CASE phase = "input"
    <3>1. Fault(h, FALSE, delta) = "none" /\ ~(OldAt(h) < oldEnd)
      BY <2>2 DEF AcceptHunk, FaultHere
    <3>2. Sound(h)
      BY <3>1, SoundMeans
    <3>3. oldEnd <= OldAt(h)
      BY <3>1, <1>1, <1>3
    <3>4. \A j \in 1..at : Sound(hunks[j])
      BY <1>1, <2>2, <3>2 DEF InputInv
    <3>5. \A j \in 2..at : OldEnd(hunks[j - 1]) <= OldAt(hunks[j])
      <4>1. TAKE j \in 2..at
      <4>2. CASE j = at
        BY <1>1, <2>2, <3>3, <4>2 DEF InputInv
      <4>3. CASE j # at
        BY <1>1, <2>2, <4>3 DEF InputInv
      <4>4. QED
        BY <4>2, <4>3
    <3>6. at' - 1 = at /\ at' # 1 /\ at' <= Len(hunks) + 1
      BY <1>1
    <3>7. QED
      BY <1>1, <1>2, <2>2, <3>4, <3>5, <3>6 DEF InputInv
  <2>3. QED
    BY <1>1, <2>1, <2>2
<1>6. AcceptedInv'
  BY <1>1 DEF AcceptedInv
<1>7. RenumberInv'
  <2>1. CASE phase = "result"
    <3>1. Len(shifts) = Len(hunks) /\ delta = ShiftAt(at) /\ shifts[at] = ShiftAt(at)
      BY <1>1, <2>1 DEF RenumberInv, Numbered
    <3>2. delta' = ShiftAt(at + 1) /\ at + 1 <= Len(hunks) + 1
      BY <1>1, <3>1 DEF ShiftAt
    <3>3. QED
      BY <1>1, <1>2, <2>1, <3>2
         DEF RenumberInv, ShiftAt, Numbered, Real, AllSound
  <2>2. CASE phase = "input"
    BY <1>1, <1>2, <2>2 DEF RenumberInv
  <2>3. QED
    BY <1>1, <2>1, <2>2
<1>8. ResultInv'
  <2>1. at' - 1 = at /\ at' # 1
    BY <1>1
  <2>2. QED
    BY <1>1, <2>1 DEF ResultInv
<1>9. QED
  BY <1>4, <1>5, <1>6, <1>7, <1>8

(* Short of the last position, renumbering moves a hunk's new side by what *)
(* the hunks above it add.                                                 *)
LEMMA NumberedMoves ==
  ASSUME NEW x \in Hunk, NEW d \in Int, Sound(x), x.new_start = ExpectedNewStart(x, d),
         OldAt(x) + d >= 1, x.new_start # MaxU32
  PROVE  NewAt(x) = OldAt(x) + d
<1>4. OldAt(x) \in Nat /\ x.new_lines \in Nat
  BY Positions DEF Hunk
<1>5. CASE x.new_lines = 0
  <2>1. OldAt(x) + d - 1 \in Int /\ 0 <= OldAt(x) + d - 1
    BY <1>4
  <2>2. x.new_start = Clamp(OldAt(x) + d - 1)
    BY <1>5 DEF ExpectedNewStart
  <2>3. x.new_start = OldAt(x) + d - 1
    BY <2>1, <2>2, MaxU32Assumption DEF Clamp
  <2>4. QED
    BY <1>4, <1>5, <2>3 DEF NewAt, Anchor
<1>6. CASE x.new_lines # 0
  <2>1. OldAt(x) + d \in Int /\ 0 <= OldAt(x) + d
    BY <1>4
  <2>2. x.new_start = Clamp(OldAt(x) + d)
    BY <1>4, <1>6 DEF ExpectedNewStart
  <2>3. x.new_start = OldAt(x) + d
    BY <2>1, <2>2, MaxU32Assumption DEF Clamp
  <2>4. QED
    BY <1>6, <2>3 DEF NewAt, Anchor
<1>7. QED
  BY <1>5, <1>6

(* After renumbering, the new sides are as far apart as the old sides.     *)
LEMMA NewSidesInOrder ==
  ASSUME NEW g \in Hunk, NEW h \in Hunk, NEW s \in Int, NEW t \in Int,
         Sound(g), Sound(h),
         t = s + Net(g.lines), OldEnd(g) <= OldAt(h),
         g.new_start = ExpectedNewStart(g, s), h.new_start = ExpectedNewStart(h, t),
         OldAt(g) + s >= 1, OldAt(h) + t >= 1,
         g.new_start # MaxU32, h.new_start # MaxU32
  PROVE  NewEnd(g) <= NewAt(h)
<1>1. t \in Int
  BY NetType DEF Hunk
<1>2. NewAt(g) = OldAt(g) + s /\ NewAt(h) = OldAt(h) + t
  BY <1>1, NumberedMoves
<1>3. g.lines \in Seq(Line)
  BY DEF Hunk
<1>4. Net(g.lines) = g.new_lines - g.old_lines
  BY <1>3, NetIsSideDifference, SoundMeans
<1>5. OldAt(g) \in Nat /\ OldAt(h) \in Nat /\ g.new_lines \in Nat /\ g.old_lines \in Nat
  BY Positions DEF Hunk
<1>6. QED
  BY <1>2, <1>4, <1>5 DEF NewEnd, OldEnd

(* The result check can only fault the order of the hunks, and of a real   *)
(* diff only where the positions ran out.                                  *)
LEMMA RejectHunkInv ==
  LoopInv /\ RejectHunk /\ UNCHANGED entry => LoopInv'
<1> SUFFICES ASSUME LoopInv, RejectHunk, UNCHANGED entry
             PROVE  LoopInv'
  OBVIOUS
<1> USE DEF LoopInv
<1> DEFINE h == hunks[at]
           g == hunks[at - 1]
<1>1. /\ phase \in {"input", "result"}
      /\ phase' = IF phase = "input" THEN "usage" ELSE "verify"
      /\ at \in Nat \ {0} /\ at <= Len(hunks) /\ at' = at
      /\ hunks \in Seq(Hunk) /\ hunks' = hunks /\ h \in Hunk
      /\ shifts' = shifts /\ fault' = FaultHere /\ FaultHere # "none"
      /\ delta' = delta /\ oldEnd' = oldEnd /\ newEnd' = newEnd
  BY DEF LoopTypeOK, RejectHunk, Checking
<1>2. entry' = entry
  OBVIOUS
<1>3. LoopTypeOK'
  BY <1>1, <1>2 DEF LoopTypeOK, Phases
<1>4. InputInv' /\ AcceptedInv' /\ RenumberInv'
  BY <1>1 DEF InputInv, AcceptedInv, RenumberInv
<1>5. CASE phase = "input"
  BY <1>1, <1>3, <1>4, <1>5 DEF ResultInv
<1>6. CASE phase = "result"
  <2>1. /\ Sound(h) /\ delta = shifts[at] /\ h.new_start = ExpectedNewStart(h, shifts[at])
        /\ Len(shifts) = Len(hunks)
    BY <1>1, <1>6 DEF RenumberInv, AllSound, Numbered
  <2>2. Fault(h, TRUE, delta) = "none"
    BY <2>1, SoundMeans
  <2>3. FaultHere = "OverlappingHunks" /\ (OldAt(h) < oldEnd \/ NewAt(h) < newEnd)
    BY <1>1, <1>6, <2>2 DEF FaultHere
  <2>4. ASSUME Real, ~OutOfPositions(hunks)
        PROVE  FALSE
    <3>1. Tidy(hunks) /\ OldAt(h) \in Nat /\ NewAt(h) \in Nat
      BY <1>1, <1>6, <2>4, Positions DEF RenumberInv
    <3>2. at > 1
      BY <1>1, <1>6, <2>3, <3>1 DEF ResultInv
    <3>3. /\ at - 1 \in 1..Len(hunks) /\ at \in 1..Len(hunks) /\ at - 1 \in DOMAIN hunks
          /\ at \in DOMAIN hunks /\ g \in Hunk /\ h \in Hunk /\ at # 1
      BY <1>1, <3>2
    <3>4. oldEnd = OldEnd(g) /\ newEnd = NewEnd(g)
      BY <1>6, <3>3 DEF ResultInv
    <3>5. OldEnd(g) <= OldAt(h)
      BY <3>1, <3>2, <3>3 DEF Tidy
    <3>6. Numbered(at - 1) /\ Numbered(at) /\ Sound(g)
      BY <1>1, <1>6, <2>1, <3>3 DEF RenumberInv, AllSound
    <3>7. /\ shifts[at] = shifts[at - 1] + Net(g.lines)
          /\ g.new_start = ExpectedNewStart(g, shifts[at - 1])
          /\ OldAt(g) + shifts[at - 1] >= 1 /\ OldAt(h) + shifts[at] >= 1
      BY <3>3, <3>6, <2>4 DEF Numbered, ShiftAt
    <3>8. g.new_start # MaxU32 /\ h.new_start # MaxU32
      BY <2>4, <3>3 DEF OutOfPositions
    <3>9. shifts[at] \in Int /\ shifts[at - 1] \in Int
      BY <2>1, <3>3 DEF LoopTypeOK
    <3>10. NewEnd(g) <= NewAt(h)
      BY <2>1, <3>3, <3>5, <3>6, <3>7, <3>8, <3>9, NewSidesInOrder
    <3>11. OldEnd(g) \in Nat /\ NewEnd(g) \in Nat
      BY <3>3, Positions
    <3>12. QED
      BY <2>3, <3>1, <3>4, <3>5, <3>10, <3>11
  <2>5. ResultInv'
    BY <1>1, <1>2, <1>6, <2>3, <2>4 DEF ResultInv, Real
  <2>6. QED
    BY <1>3, <1>4, <2>5
<1>7. QED
  BY <1>1, <1>5, <1>6

LEMMA EndCheckInv ==
  LoopInv /\ EndCheck /\ UNCHANGED entry => LoopInv'
<1> SUFFICES ASSUME LoopInv, EndCheck, UNCHANGED entry
             PROVE  LoopInv'
  OBVIOUS
<1> USE DEF LoopInv
<1>1. /\ phase \in {"input", "result"}
      /\ phase' = IF phase = "input" THEN "cut" ELSE "emitted"
      /\ at \in Nat \ {0} /\ at > Len(hunks) /\ at' = at
      /\ hunks \in Seq(Hunk) /\ hunks' = hunks
      /\ shifts' = shifts /\ fault' = fault
      /\ delta' = delta /\ oldEnd' = oldEnd /\ newEnd' = newEnd
  BY DEF LoopTypeOK, EndCheck, Checking
<1>2. entry' = entry
  OBVIOUS
<1>3. LoopTypeOK'
  BY <1>1, <1>2 DEF LoopTypeOK, Phases
<1>4. CASE phase = "input"
  <2>1. /\ hunks = entry.hunks /\ at = Len(hunks) + 1
        /\ \A j \in 1..Len(hunks) : Sound(hunks[j])
        /\ \A j \in 2..Len(hunks) : OldEnd(hunks[j - 1]) <= OldAt(hunks[j])
    BY <1>1, <1>4 DEF InputInv
  <2>2. AllSound(hunks)
    BY <1>1, <2>1 DEF AllSound
  <2>3. ASSUME Real
        PROVE  Tidy(hunks)
    <3>1. \A j \in DOMAIN hunks : OldAt(hunks[j]) >= 1 /\ OldEnd(hunks[j]) <= MaxU32
      BY <2>1, <2>3 DEF Real, GitShaped
    <3>2. DOMAIN hunks = 1..Len(hunks)
      BY <1>1
    <3>3. \A j \in DOMAIN hunks : Sound(hunks[j])
      BY <2>1, <3>2
    <3>4. \A j \in DOMAIN hunks : j > 1 => OldEnd(hunks[j - 1]) <= OldAt(hunks[j])
      <4>1. TAKE j \in DOMAIN hunks
      <4>2. HAVE j > 1
      <4>3. j \in 2..Len(hunks)
        BY <1>1, <3>2, <4>2
      <4>4. QED
        BY <2>1, <4>3
    <3>5. QED
      BY <3>1, <3>3, <3>4 DEF Tidy
  <2>4. AcceptedInv'
    BY <1>1, <1>2, <2>1, <2>2, <2>3 DEF AcceptedInv, Real, AllSound
  <2>5. InputInv' /\ RenumberInv' /\ ResultInv'
    BY <1>1, <1>4 DEF InputInv, RenumberInv, ResultInv
  <2>6. QED
    BY <1>3, <2>4, <2>5
<1>5. CASE phase = "result"
  <2>1. InputInv' /\ AcceptedInv'
    BY <1>1, <1>5 DEF InputInv, AcceptedInv
  <2>2. RenumberInv'
    BY <1>1, <1>2, <1>5 DEF RenumberInv, Real, AllSound, Numbered, ShiftAt
  <2>3. ResultInv'
    BY <1>1, <1>5 DEF ResultInv
  <2>4. QED
    BY <1>3, <2>1, <2>2, <2>3
<1>6. QED
  BY <1>1, <1>4, <1>5

(* Renumbering a hunk leaves everything but its new-side start alone.      *)
LEMMA NewStartOnly ==
  ASSUME NEW h \in Hunk, NEW d \in Int
  PROVE  LET g == [h EXCEPT !.new_start = ExpectedNewStart(h, d)]
         IN  /\ g \in Hunk /\ g.lines = h.lines /\ g.new_start = ExpectedNewStart(g, d)
             /\ Sound(h) => Sound(g)
             /\ OldAt(g) = OldAt(h) /\ OldEnd(g) = OldEnd(h)
<1> DEFINE g == [h EXCEPT !.new_start = ExpectedNewStart(h, d)]
<1>1. ExpectedNewStart(h, d) \in U32
  <2>1. OldAt(h) \in Nat
    BY Positions
  <2>2. OldAt(h) + d - 1 \in Int /\ OldAt(h) + d - 0 \in Int
    BY <2>1
  <2>3. QED
    BY <2>2, ClampInRange DEF ExpectedNewStart
<1>2. /\ g \in Hunk /\ g.lines = h.lines /\ g.old_start = h.old_start
      /\ g.old_lines = h.old_lines /\ g.new_lines = h.new_lines
      /\ g.new_start = ExpectedNewStart(h, d)
  BY <1>1 DEF Hunk
<1> HIDE DEF g
<1>3. OldAt(g) = OldAt(h) /\ OldEnd(g) = OldEnd(h)
  BY <1>2 DEF OldAt, OldEnd, Anchor
<1>4. g.new_start = ExpectedNewStart(g, d)
  BY <1>2, <1>3 DEF ExpectedNewStart
<1>5. Sound(h) => Sound(g)
  BY <1>2, SoundMeans
<1>6. QED
  BY <1>2, <1>3, <1>4, <1>5 DEF g

(* The running delta of the loop is the net growth above the hunk it       *)
(* numbers, and never reaches above the first line.                        *)
LEMMA RenumberHunkInv ==
  LoopInv /\ RenumberHunk /\ UNCHANGED entry => LoopInv'
<1> SUFFICES ASSUME LoopInv, RenumberHunk, UNCHANGED entry
             PROVE  LoopInv'
  OBVIOUS
<1> USE DEF LoopInv
<1> DEFINE h == hunks[at]
           g == hunks[at - 1]
           h2 == [h EXCEPT !.new_start = ExpectedNewStart(h, delta)]
<1>1. /\ phase = "renumber" /\ phase' = "renumber"
      /\ at \in Nat \ {0} /\ at <= Len(hunks) /\ at' = at + 1
      /\ hunks \in Seq(Hunk) /\ h \in Hunk
      /\ hunks' = [hunks EXCEPT ![at] = h2]
      /\ shifts \in Seq(Int) /\ shifts' = Append(shifts, delta) /\ fault' = fault
      /\ delta \in Int /\ delta' = delta + Net(h.lines)
      /\ oldEnd' = oldEnd /\ newEnd' = newEnd
  <2>1. /\ at \in Nat \ {0} /\ at <= Len(hunks) /\ hunks \in Seq(Hunk)
        /\ shifts \in Seq(Int) /\ delta \in Int
    BY DEF LoopTypeOK, RenumberHunk
  <2>2. h \in Hunk
    BY <2>1
  <2>3. h2 = [hunks[at] EXCEPT !.new_start = ExpectedNewStart(hunks[at], delta)]
    OBVIOUS
  <2>4. [hunks EXCEPT ![at].new_start = ExpectedNewStart(hunks[at], delta)]
          = [hunks EXCEPT ![at] = h2]
    OBVIOUS
  <2>5. QED
    BY <2>1, <2>2, <2>4 DEF RenumberHunk
<1>2. entry' = entry
  OBVIOUS
<1>3. /\ h2 \in Hunk /\ h2.lines = h.lines /\ h2.new_start = ExpectedNewStart(h2, delta)
      /\ Sound(h) => Sound(h2)
      /\ OldAt(h2) = OldAt(h) /\ OldEnd(h2) = OldEnd(h)
  BY <1>1, NewStartOnly
<1> HIDE DEF h2
<1>4. /\ hunks' \in Seq(Hunk) /\ Len(hunks') = Len(hunks) /\ DOMAIN hunks' = DOMAIN hunks
      /\ hunks'[at] = h2 /\ at \in DOMAIN hunks /\ DOMAIN hunks = 1..Len(hunks)
      /\ \A j \in DOMAIN hunks : j # at => hunks'[j] = hunks[j]
  BY <1>1, <1>3
<1>5. /\ Len(shifts) = at - 1 /\ shifts' \in Seq(Int) /\ Len(shifts') = at
      /\ shifts'[at] = delta
      /\ \A j \in 1..Len(shifts) : shifts'[j] = shifts[j]
  <2>1. Len(shifts) = at - 1
    BY <1>1 DEF RenumberInv
  <2>2. QED
    BY <1>1, <2>1
<1>6. \A j \in DOMAIN hunks :
        /\ hunks[j] \in Hunk
        /\ OldAt(hunks'[j]) = OldAt(hunks[j]) /\ OldEnd(hunks'[j]) = OldEnd(hunks[j])
        /\ hunks'[j].lines = hunks[j].lines
        /\ Sound(hunks[j]) => Sound(hunks'[j])
  BY <1>1, <1>3, <1>4
<1>7. h.lines \in Seq(Line) /\ Net(h.lines) \in Int
  <2>1. h.lines \in Seq(Line)
    BY <1>1 DEF Hunk
  <2>2. QED
    BY <2>1, NetType
<1>8. LoopTypeOK'
  <2>1. at' \in Nat \ {0} /\ delta' \in Int
    BY <1>1, <1>7
  <2>2. QED
    BY <1>1, <1>2, <1>4, <1>5, <2>1 DEF LoopTypeOK
<1>9. InputInv' /\ AcceptedInv' /\ ResultInv'
  BY <1>1 DEF InputInv, AcceptedInv, ResultInv
<1>10. AllSound(hunks')
  <2>1. AllSound(hunks)
    BY <1>1 DEF RenumberInv
  <2>2. QED
    BY <1>4, <1>6, <2>1 DEF AllSound
<1>11. Real => Tidy(hunks')
  <2>1. SUFFICES ASSUME Real
                 PROVE  Tidy(hunks')
    OBVIOUS
  <2>2. Tidy(hunks)
    BY <1>1, <2>1 DEF RenumberInv
  <2>3. \A j \in DOMAIN hunks : j > 1 => j - 1 \in DOMAIN hunks
    BY <1>4
  <2>4. \A j \in DOMAIN hunks' :
          OldAt(hunks'[j]) >= 1 /\ OldEnd(hunks'[j]) <= MaxU32 /\ Sound(hunks'[j])
    BY <1>4, <1>6, <2>2 DEF Tidy
  <2>5. \A j \in DOMAIN hunks' : j > 1 => OldEnd(hunks'[j - 1]) <= OldAt(hunks'[j])
    <3>1. TAKE j \in DOMAIN hunks'
    <3>2. HAVE j > 1
    <3>3. j \in DOMAIN hunks /\ j - 1 \in DOMAIN hunks
      BY <1>4, <2>3, <3>2
    <3>4. OldEnd(hunks[j - 1]) <= OldAt(hunks[j])
      BY <2>2, <3>2, <3>3 DEF Tidy
    <3>5. QED
      BY <1>6, <3>3, <3>4
  <2>6. QED
    BY <2>4, <2>5 DEF Tidy
<1>12. delta = ShiftAt(at)
  BY <1>1 DEF RenumberInv
<1>13. Real => OldAt(h) + delta >= 1
  <2>1. SUFFICES ASSUME Real
                 PROVE  OldAt(h) + delta >= 1
    OBVIOUS
  <2>2. Tidy(hunks) /\ OldAt(h) \in Nat /\ OldAt(h) >= 1
    BY <1>1, <1>4, <2>1, Positions DEF RenumberInv, Tidy
  <2>3. CASE at = 1
    BY <1>12, <2>2, <2>3 DEF ShiftAt
  <2>4. CASE at # 1
    <3>1. at - 1 \in 1..Len(shifts) /\ at - 1 \in DOMAIN hunks /\ at > 1 /\ g \in Hunk
      BY <1>1, <1>4, <1>5, <2>4
    <3>2. Numbered(at - 1) /\ Sound(g)
      BY <1>1, <3>1 DEF RenumberInv, AllSound
    <3>3. OldAt(g) + shifts[at - 1] >= 1 /\ OldEnd(g) <= OldAt(h)
      BY <1>4, <2>1, <2>2, <3>1, <3>2 DEF Numbered, Tidy
    <3>4. g.lines \in Seq(Line) /\ g.new_lines \in Nat /\ g.old_lines \in Nat
      BY <3>1 DEF Hunk
    <3>5. Net(g.lines) = g.new_lines - g.old_lines
      BY <3>2, <3>4, NetIsSideDifference, SoundMeans
    <3>6. delta = shifts[at - 1] + Net(g.lines)
      BY <1>12, <2>4 DEF ShiftAt
    <3>7. shifts[at - 1] \in Int
      BY <1>1, <3>1
    <3>8. OldAt(g) \in Nat
      BY <3>1, Positions
    <3>9. QED
      BY <2>2, <3>3, <3>4, <3>5, <3>6, <3>7, <3>8 DEF OldEnd
  <2>5. QED
    BY <2>3, <2>4
<1> DEFINE NewShiftAt(n) == IF n = 1 THEN 0 ELSE shifts'[n - 1] + Net(hunks'[n - 1].lines)
<1>14. ASSUME NEW n \in 1..(at + 1), n = 1 \/ n - 1 \in 1..at
       PROVE  NewShiftAt(n) = IF n = at + 1 THEN delta + Net(h.lines) ELSE ShiftAt(n)
  <2>1. CASE n = at + 1
    <3>1. n - 1 = at /\ n # 1
      BY <1>1, <2>1
    <3>2. QED
      BY <1>3, <1>4, <1>5, <2>1, <3>1 DEF ShiftAt
  <2>2. CASE n # at + 1 /\ n # 1
    <3>1. n - 1 \in 1..Len(shifts) /\ n - 1 \in DOMAIN hunks
      BY <1>1, <1>4, <1>5, <1>14, <2>2
    <3>2. hunks'[n - 1].lines = hunks[n - 1].lines /\ shifts'[n - 1] = shifts[n - 1]
      BY <1>5, <1>6, <3>1
    <3>3. QED
      BY <2>2, <3>2 DEF ShiftAt
  <2>3. CASE n = 1
    BY <1>1, <2>3 DEF ShiftAt
  <2>4. QED
    BY <2>1, <2>2, <2>3
<1>15. \A j \in 1..at : Numbered(j)'
  <2>1. TAKE j \in 1..at
  <2>2. j \in 1..(at + 1) /\ (j = 1 \/ j - 1 \in 1..at) /\ j # at + 1 /\ j \in DOMAIN hunks
    BY <1>1, <1>4
  <2>3. ShiftAt(j)' = ShiftAt(j)
    <3>1. NewShiftAt(j) = ShiftAt(j)
      BY <1>14, <2>2
    <3>2. QED
      BY <3>1 DEF ShiftAt
  <2>4. Real' = Real
    BY <1>2 DEF Real
  <2>5. CASE j = at
    BY <1>1, <1>3, <1>4, <1>5, <1>12, <1>13, <2>3, <2>4, <2>5 DEF Numbered
  <2>6. CASE j # at
    <3>1. j \in 1..Len(shifts) /\ hunks'[j] = hunks[j] /\ shifts'[j] = shifts[j]
      BY <1>1, <1>4, <1>5, <2>2, <2>6
    <3>2. Numbered(j)
      BY <1>1, <3>1 DEF RenumberInv
    <3>3. QED
      BY <2>3, <2>4, <3>1, <3>2 DEF Numbered
  <2>7. QED
    BY <2>5, <2>6
<1>16. RenumberInv'
  <2>1. at + 1 \in 1..(at + 1) /\ (at + 1) - 1 \in 1..at
    BY <1>1
  <2>2. NewShiftAt(at + 1) = delta + Net(h.lines)
    BY <1>14, <2>1
  <2>3. (ShiftAt(at))' = delta'
    BY <1>1, <2>2 DEF ShiftAt
  <2>4. Real' = Real
    BY <1>2 DEF Real
  <2>5. at' <= Len(hunks') + 1 /\ Len(shifts') <= Len(hunks') /\ at' = Len(shifts') + 1
    BY <1>1, <1>4, <1>5
  <2>6. AllSound(hunks)' /\ (Real => Tidy(hunks))'
    BY <1>10, <1>11, <2>4 DEF AllSound
  <2>7. \A j \in 1..Len(shifts') : Numbered(j)'
    BY <1>5, <1>15
  <2>8. QED
    BY <1>1, <2>3, <2>5, <2>6, <2>7 DEF RenumberInv
<1>17. QED
  BY <1>8, <1>9, <1>16

LEMMA EndRenumberInv ==
  LoopInv /\ EndRenumber /\ UNCHANGED entry => LoopInv'
<1> SUFFICES ASSUME LoopInv, EndRenumber, UNCHANGED entry
             PROVE  LoopInv'
  OBVIOUS
<1> USE DEF LoopInv
<1>1. /\ phase = "renumber" /\ phase' = "result"
      /\ at \in Nat \ {0} /\ at > Len(hunks) /\ at' = 1
      /\ hunks \in Seq(Hunk) /\ hunks' = hunks
      /\ shifts' = shifts /\ fault' = fault
      /\ delta' = 0 /\ oldEnd' = 0 /\ newEnd' = 0
  BY DEF LoopTypeOK, EndRenumber
<1>2. entry' = entry
  OBVIOUS
<1>3. LoopTypeOK'
  BY <1>1, <1>2 DEF LoopTypeOK, Phases
<1>4. InputInv' /\ AcceptedInv' /\ ResultInv'
  BY <1>1 DEF InputInv, AcceptedInv, ResultInv
<1>5. Len(shifts) = Len(hunks)
  BY <1>1 DEF RenumberInv, LoopTypeOK
<1>6. RenumberInv'
  BY <1>1, <1>2, <1>5 DEF RenumberInv, Real, AllSound, Numbered, ShiftAt
<1>7. QED
  BY <1>3, <1>4, <1>6

-----------------------------------------------------------------------------
(* The loops begin with the input, and keep what they establish.           *)
LEMMA LoopBegins ==
  LoopInit /\ entry.hunks \in Seq(Hunk) => LoopInv
<1> SUFFICES ASSUME LoopInit, entry.hunks \in Seq(Hunk)
             PROVE  LoopInv
  OBVIOUS
<1> USE DEF LoopInit
<1>1. LoopTypeOK
  BY DEF LoopTypeOK, Phases
<1>2. InputInv
  BY DEF InputInv
<1>3. AcceptedInv /\ RenumberInv /\ ResultInv
  BY DEF AcceptedInv, RenumberInv, ResultInv
<1>4. QED
  BY <1>1, <1>2, <1>3 DEF LoopInv

LEMMA LoopStep ==
  LoopInv /\ LoopNext /\ UNCHANGED entry => LoopInv'
BY AcceptHunkInv, RejectHunkInv, EndCheckInv, RenumberHunkInv, EndRenumberInv DEF LoopNext

(* While the command works, the loops stand still.                         *)
LEMMA LoopRests ==
  LoopInv /\ UNCHANGED <<loop, entry>> => LoopInv'
<1> SUFFICES ASSUME LoopInv, UNCHANGED <<loop, entry>>
             PROVE  LoopInv'
  OBVIOUS
<1>1. /\ UNCHANGED <<phase, hunks, at, delta, oldEnd, newEnd, fault, shifts>>
      /\ entry' = entry
  BY DEF loop
<1>2. LoopTypeOK' /\ InputInv' /\ AcceptedInv'
  BY <1>1 DEF LoopInv, LoopTypeOK, InputInv, AcceptedInv, Real, AllSound
<1>3. RenumberInv' /\ ResultInv'
  BY <1>1 DEF LoopInv, RenumberInv, ResultInv, Real, AllSound, Numbered, ShiftAt
<1>4. QED
  BY <1>2, <1>3 DEF LoopInv

(* A refused request leaves nothing to check.                              *)
LEMMA LoopRefuses ==
  LoopInv /\ Refuse /\ UNCHANGED entry => LoopInv'
<1> SUFFICES ASSUME LoopInv, Refuse, UNCHANGED entry
             PROVE  LoopInv'
  OBVIOUS
<1>1. phase' = "usage" /\ UNCHANGED <<hunks, at, delta, oldEnd, newEnd, fault, shifts>>
  BY DEF Refuse
<1>2. LoopTypeOK'
  BY <1>1 DEF LoopInv, LoopTypeOK, Phases
<1>3. InputInv' /\ AcceptedInv' /\ RenumberInv' /\ ResultInv'
  BY <1>1 DEF InputInv, AcceptedInv, RenumberInv, ResultInv
<1>4. QED
  BY <1>2, <1>3 DEF LoopInv

(* A result of sound hunks, in order if the input is real, may be handed   *)
(* over to renumbering.                                                    *)
LEMMA LoopTakesOver ==
  ASSUME LoopInv, phase = "cut", NEW result \in Seq(Hunk), StartRenumber(result),
         UNCHANGED entry, AllSound(result), Real => Tidy(result)
  PROVE  LoopInv'
<1>1. /\ phase' = "renumber" /\ hunks' = result /\ at' = 1 /\ delta' = 0
      /\ UNCHANGED <<oldEnd, newEnd, fault, shifts>>
  BY DEF StartRenumber
<1>2. shifts = <<>>
  BY DEF LoopInv, RenumberInv
<1>3. LoopTypeOK'
  BY <1>1 DEF LoopInv, LoopTypeOK, Phases
<1>4. InputInv' /\ AcceptedInv' /\ ResultInv'
  BY <1>1 DEF InputInv, AcceptedInv, ResultInv
<1>5. RenumberInv'
  <2>1. Len(shifts) = 0 /\ 0 <= Len(result) /\ 1 <= Len(result) + 1
    BY <1>2
  <2>2. (ShiftAt(at))' = 0
    BY <1>1 DEF ShiftAt
  <2>3. QED
    BY <1>1, <1>2, <2>1, <2>2 DEF RenumberInv, Real, AllSound
<1>6. QED
  BY <1>3, <1>4, <1>5 DEF LoopInv

-----------------------------------------------------------------------------
(* What both commands promise of their result.                             *)

LEMMA LoopAcceptsResult == LoopInv => OwnResultAccepted /\ OnlyOrderCanFail
BY DEF LoopInv, ResultInv, OwnResultAccepted, OnlyOrderCanFail, Real

LEMMA LoopStaysPositive == LoopInv => PositionsStayPositive
<1>1. ASSUME LoopInv, Real, phase \in {"renumber", "result", "emitted"}, NEW j \in DOMAIN hunks,
             ~(phase = "renumber" /\ j >= at)
      PROVE  NewAt(hunks[j]) >= 1
  <2>1. /\ hunks \in Seq(Hunk) /\ hunks[j] \in Hunk /\ j \in 1..Len(hunks)
        /\ shifts \in Seq(Int) /\ at \in Nat \ {0}
    BY <1>1 DEF LoopInv, LoopTypeOK
  <2>2. j \in 1..Len(shifts)
    BY <1>1, <2>1 DEF LoopInv, RenumberInv
  <2>3. Numbered(j) /\ shifts[j] \in Int
    BY <1>1, <2>1, <2>2 DEF LoopInv, RenumberInv
  <2>4. /\ hunks[j].new_start = ExpectedNewStart(hunks[j], shifts[j])
        /\ OldAt(hunks[j]) + shifts[j] >= 1
    BY <1>1, <2>3 DEF Numbered
  <2>5. OldAt(hunks[j]) \in Nat /\ hunks[j].new_lines \in Nat /\ hunks[j].new_start \in Nat
    BY <2>1, Positions DEF Hunk, U32
  <2>6. CASE hunks[j].new_lines = 0
    BY <2>5, <2>6 DEF NewAt, Anchor
  <2>7. CASE hunks[j].new_lines # 0
    <3>1. hunks[j].new_start = Clamp(OldAt(hunks[j]) + shifts[j])
      BY <2>3, <2>4, <2>5, <2>7 DEF ExpectedNewStart
    <3>2. OldAt(hunks[j]) + shifts[j] \in Int
      BY <2>3, <2>5
    <3>3. hunks[j].new_start >= 1
      BY <2>4, <3>1, <3>2, ClampInRange
    <3>4. QED
      BY <2>7, <3>3 DEF NewAt, Anchor
  <2>8. QED
    BY <2>6, <2>7
<1>2. LoopInv => PositionsStayPositive
  BY <1>1 DEF PositionsStayPositive, Real
<1>3. QED
  BY <1>2

-----------------------------------------------------------------------------
(* Counting the changes of a list of hunks.                                 *)

(* What a concatenation holds, and where.                                  *)
LEMMA ConcatHolds ==
  ASSUME NEW a \in Seq(Hunk), NEW b \in Seq(Hunk)
  PROVE  /\ a \o b \in Seq(Hunk) /\ Len(a \o b) = Len(a) + Len(b)
         /\ Len(a) \in Nat /\ Len(b) \in Nat
         /\ DOMAIN a = 1..Len(a) /\ DOMAIN b = 1..Len(b)
         /\ DOMAIN (a \o b) = 1..(Len(a) + Len(b))
         /\ \A j \in 1..Len(a) : (a \o b)[j] = a[j]
         /\ \A j \in 1..Len(b) : (a \o b)[j + Len(a)] = b[j]
OBVIOUS

AllChanges(hs, n) == UNION {ChangesOf(hs, j) : j \in {j \in DOMAIN hs : j <= n}}

(* A changed line is a hunk and a line of it.                              *)
LEMMA ChangesAre ==
  ASSUME NEW hs, NEW n, NEW p
  PROVE  p \in AllChanges(hs, n) <=>
           \E j, i : /\ j \in DOMAIN hs /\ i \in DOMAIN hs[j].lines /\ j <= n
                     /\ hs[j].lines[i].kind \in Changes /\ p = <<j, i>>
BY DEF AllChanges, ChangesOf

(* A hunk has as many changed lines as its body counts.                    *)
LEMMA ChangesOfOne ==
  ASSUME NEW hs \in Seq(Hunk), NEW j \in DOMAIN hs
  PROVE  /\ IsFiniteSet(ChangesOf(hs, j))
         /\ Cardinality(ChangesOf(hs, j)) = Count(hs[j].lines, Changes)
<1> DEFINE ls == hs[j].lines
           S == {i \in 1..Len(ls) : ls[i].kind \in Changes}
           T == ChangesOf(hs, j)
           f == [i \in S |-> <<j, i>>]
<1>1. ls \in Seq(Line) /\ Len(ls) \in Nat /\ DOMAIN ls = 1..Len(ls)
  <2>1. hs[j] \in Hunk
    OBVIOUS
  <2>2. QED
    BY <2>1 DEF Hunk
<1>2. IsFiniteSet(S)
  <2>1. 1 \in Int /\ Len(ls) \in Int
    BY <1>1
  <2> HIDE DEF ls
  <2>2. QED
    BY <2>1, CountedAreFinite
<1>3. T = {<<j, i>> : i \in S}
  <2>1. {i \in DOMAIN ls : ls[i].kind \in Changes} = S
    BY <1>1
  <2>2. QED
    BY <2>1 DEF ChangesOf
<1>4. f \in Bijection(S, T)
  <2> HIDE DEF S, T
  <2>1. f \in [S -> T]
    BY <1>3
  <2>2. \A a, b \in S : f[a] = f[b] => a = b
    OBVIOUS
  <2>3. \A t \in T : \E s \in S : f[s] = t
    BY <1>3
  <2>4. QED
    BY <2>1, <2>2, <2>3 DEF Bijection, Injection, Surjection, IsInjective
<1>5. ExistsBijection(S, T)
  BY <1>4 DEF ExistsBijection
<1>6. IsFiniteSet(T) /\ Cardinality(T) = Cardinality(S)
  <2> HIDE DEF S, T
  <2>1. QED
    BY <1>2, <1>5, FS_Bijection
<1>7. QED
  BY <1>6 DEF Count, CountIn

(* The changed lines of a list are finitely many.                          *)
LEMMA ChangesAreFinite ==
  ASSUME NEW hs \in Seq(Hunk), NEW n
  PROVE  IsFiniteSet(AllChanges(hs, n)) /\ ChangedTo(hs, n) \in Nat
<1> DEFINE J == {j \in DOMAIN hs : j <= n}
           S == {ChangesOf(hs, j) : j \in J}
           f == [j \in J |-> ChangesOf(hs, j)]
<1>1. IsFiniteSet(J)
  <2>1. IsFiniteSet(1..Len(hs))
    BY FS_Interval
  <2>2. J \in SUBSET (1..Len(hs))
    OBVIOUS
  <2>3. QED
    BY <2>1, <2>2, FS_Subset
<1>2. f \in Surjection(J, S)
  BY DEF Surjection
<1>3. IsFiniteSet(S)
  <2> HIDE DEF J, S, f
  <2>1. QED
    BY <1>1, <1>2, FS_Surjection
<1>4. \A T \in S : IsFiniteSet(T)
  BY ChangesOfOne
<1>5. IsFiniteSet(UNION S)
  <2> HIDE DEF S
  <2>1. QED
    BY <1>3, <1>4, FS_UNION
<1>6. UNION S = AllChanges(hs, n)
  BY DEF AllChanges
<1>7. ChangedTo(hs, n) = Cardinality(UNION S)
  BY DEF ChangedTo
<1>8. QED
  BY <1>5, <1>6, <1>7, FS_CardinalityType

(* Lists of the same bodies have the same changes.                         *)
LEMMA SameBodiesSameChanges ==
  ASSUME NEW hs, NEW gs, NEW n,
         \A j : j <= n => (j \in DOMAIN hs <=> j \in DOMAIN gs),
         \A j \in DOMAIN hs : j <= n => hs[j].lines = gs[j].lines
  PROVE  ChangedTo(hs, n) = ChangedTo(gs, n)
<1>1. {ChangesOf(hs, j) : j \in {j \in DOMAIN hs : j <= n}}
        = {ChangesOf(gs, j) : j \in {j \in DOMAIN gs : j <= n}}
  BY DEF ChangesOf
<1>2. QED
  BY <1>1 DEF ChangedTo

(* The changes of two lists put together are those of the first and, moved *)
(* down, those of the second.                                              *)
LEMMA ConcatChanges ==
  ASSUME NEW a \in Seq(Hunk), NEW b \in Seq(Hunk), NEW n \in Nat
  PROVE  ChangedTo(a \o b, Len(a) + n) = ChangedTo(a, Len(a)) + ChangedTo(b, n)
<1> DEFINE c == a \o b
           m == Len(a)
           A == AllChanges(a, m)
           B == AllChanges(b, n)
           C == AllChanges(c, m + n)
           D == {<<p[1] + m, p[2]>> : p \in B}
           f == [p \in B |-> <<p[1] + m, p[2]>>]
<1>1. /\ m \in Nat /\ Len(b) \in Nat /\ DOMAIN c = 1..(m + Len(b))
      /\ DOMAIN a = 1..m /\ DOMAIN b = 1..Len(b) /\ c \in Seq(Hunk)
      /\ \A j \in 1..m : c[j] = a[j]
      /\ \A j \in 1..Len(b) : c[j + m] = b[j]
  BY ConcatHolds
<1> HIDE DEF c, m
<1>2. A \subseteq C
  <2> SUFFICES ASSUME NEW p \in A
               PROVE  p \in C
    OBVIOUS
  <2>1. PICK j, i : /\ j \in DOMAIN a /\ i \in DOMAIN a[j].lines
                     /\ j <= m /\ a[j].lines[i].kind \in Changes /\ p = <<j, i>>
    BY ChangesAre
  <2>2. j \in DOMAIN c /\ j <= m + n /\ c[j] = a[j]
    BY <1>1, <2>1
  <2>3. QED
    BY <2>1, <2>2, ChangesAre
<1>3. D \subseteq C
  <2> SUFFICES ASSUME NEW p \in B
               PROVE  <<p[1] + m, p[2]>> \in C
    OBVIOUS
  <2>1. PICK j, i : /\ j \in DOMAIN b /\ i \in DOMAIN b[j].lines
                     /\ j <= n /\ b[j].lines[i].kind \in Changes /\ p = <<j, i>>
    BY ChangesAre
  <2>2. j + m \in DOMAIN c /\ j + m <= m + n /\ c[j + m] = b[j] /\ p[1] = j /\ p[2] = i
    BY <1>1, <2>1
  <2>3. QED
    BY <2>1, <2>2, ChangesAre
<1>4. C \subseteq A \cup D
  <2> SUFFICES ASSUME NEW p \in C
               PROVE  p \in A \/ p \in D
    OBVIOUS
  <2>1. PICK j, i : /\ j \in DOMAIN c /\ i \in DOMAIN c[j].lines
                     /\ j <= m + n /\ c[j].lines[i].kind \in Changes /\ p = <<j, i>>
    BY ChangesAre
  <2>2. CASE j <= m
    <3>1. j \in DOMAIN a /\ c[j] = a[j]
      BY <1>1, <2>1, <2>2
    <3>2. QED
      BY <2>1, <2>2, <3>1, ChangesAre
  <2>3. CASE j > m
    <3>1. j - m \in 1..Len(b) /\ (j - m) + m = j /\ j - m <= n
      BY <1>1, <2>1, <2>3
    <3>2. c[j] = b[j - m]
      BY <1>1, <3>1
    <3>3. <<j - m, i>> \in B
      BY <1>1, <2>1, <3>1, <3>2, ChangesAre
    <3>4. p = <<<<j - m, i>>[1] + m, <<j - m, i>>[2]>>
      BY <2>1, <3>1
    <3>5. QED
      BY <3>3, <3>4
  <2>4. QED
    BY <1>1, <2>1, <2>2, <2>3
<1>5. A \cap D = {}
  <2> SUFFICES ASSUME NEW p \in A, NEW q \in B, p = <<q[1] + m, q[2]>>
               PROVE  FALSE
    OBVIOUS
  <2>1. PICK j, i : j \in DOMAIN a /\ p = <<j, i>>
    BY ChangesAre
  <2>2. PICK k, l : k \in DOMAIN b /\ q = <<k, l>>
    BY ChangesAre
  <2>3. j = k + m
    BY <2>1, <2>2
  <2>4. QED
    BY <1>1, <2>1, <2>2, <2>3
<1>6. f \in Bijection(B, D)
  <2>1. \A p \in B : p[1] \in Nat /\ p = <<p[1], p[2]>>
    <3> SUFFICES ASSUME NEW p \in B
                 PROVE  p[1] \in Nat /\ p = <<p[1], p[2]>>
      OBVIOUS
    <3>1. PICK k, l : k \in DOMAIN b /\ p = <<k, l>>
      BY ChangesAre
    <3>2. QED
      BY <1>1, <3>1
  <2> HIDE DEF B
  <2>2. f \in [B -> D]
    OBVIOUS
  <2>3. \A p, q \in B : f[p] = f[q] => p = q
    <3> SUFFICES ASSUME NEW p \in B, NEW q \in B, f[p] = f[q]
                 PROVE  p = q
      OBVIOUS
    <3>1. p[1] + m = q[1] + m /\ p[2] = q[2]
      OBVIOUS
    <3>2. p[1] = q[1]
      BY <1>1, <2>1, <3>1
    <3>3. QED
      BY <2>1, <3>1, <3>2
  <2>4. \A d \in D : \E p \in B : f[p] = d
    OBVIOUS
  <2>5. QED
    BY <2>2, <2>3, <2>4 DEF Bijection, Injection, Surjection, IsInjective
<1>7. IsFiniteSet(A) /\ IsFiniteSet(B)
  BY ChangesAreFinite
<1>8. IsFiniteSet(D) /\ Cardinality(D) = Cardinality(B)
  <2>1. ExistsBijection(B, D)
    BY <1>6 DEF ExistsBijection
  <2> HIDE DEF B, D
  <2>2. QED
    BY <1>7, <2>1, FS_Bijection
<1>9. C = A \cup D
  BY <1>2, <1>3, <1>4
<1>10. /\ ChangedTo(c, m + n) = Cardinality(C)
       /\ ChangedTo(a, m) = Cardinality(A)
       /\ ChangedTo(b, n) = Cardinality(B)
  BY DEF ChangedTo, AllChanges
<1> HIDE DEF A, B, C, D
<1>11. Cardinality(A \cup D) = Cardinality(A) + Cardinality(D) - Cardinality(A \cap D)
  BY <1>7, <1>8, FS_Union
<1>12. Cardinality(A \cap D) = 0
  BY <1>5, FS_EmptySet
<1>13. Cardinality(A) \in Nat /\ Cardinality(B) \in Nat
  BY <1>7, FS_CardinalityType
<1>14. ChangedTo(c, m + n) = ChangedTo(a, m) + ChangedTo(b, n)
  BY <1>8, <1>9, <1>10, <1>11, <1>12, <1>13
<1>15. QED
  BY <1>14 DEF c, m

(* Above the seam, only the first list counts.                             *)
LEMMA PrefixChanges ==
  ASSUME NEW a \in Seq(Hunk), NEW b \in Seq(Hunk), NEW n \in Nat, n <= Len(a)
  PROVE  ChangedTo(a \o b, n) = ChangedTo(a, n)
<1>1. /\ Len(a) \in Nat /\ Len(b) \in Nat
      /\ DOMAIN a = 1..Len(a) /\ DOMAIN (a \o b) = 1..(Len(a) + Len(b))
      /\ \A j \in 1..Len(a) : (a \o b)[j] = a[j]
  BY ConcatHolds
<1>2. \A j \in DOMAIN (a \o b) : j <= n => (a \o b)[j].lines = a[j].lines
  BY <1>1
<1>3. \A j : j <= n => (j \in DOMAIN (a \o b) <=> j \in DOMAIN a)
  BY <1>1
<1>4. QED
  BY <1>2, <1>3, SameBodiesSameChanges

(* A list of one hunk.                                                     *)
LEMMA OneHunkChanges ==
  ASSUME NEW h \in Hunk
  PROVE  /\ <<h>> \in Seq(Hunk) /\ Len(<<h>>) = 1
         /\ ChangedTo(<<h>>, 1) = Count(h.lines, Changes)
<1>1. <<h>> \in Seq(Hunk) /\ Len(<<h>>) = 1 /\ DOMAIN <<h>> = {1} /\ <<h>>[1] = h
  OBVIOUS
<1>2. UNION {ChangesOf(<<h>>, j) : j \in {j \in DOMAIN <<h>> : j <= 1}} = ChangesOf(<<h>>, 1)
  BY <1>1
<1>3. Cardinality(ChangesOf(<<h>>, 1)) = Count(h.lines, Changes)
  BY <1>1, ChangesOfOne
<1>4. QED
  BY <1>1, <1>2, <1>3 DEF ChangedTo

(* No hunks, no changes; one more hunk, its changes more.                  *)
LEMMA AppendChanges ==
  ASSUME NEW hs \in Seq(Hunk), NEW h \in Hunk
  PROVE  ChangedTo(Append(hs, h), Len(Append(hs, h)))
           = ChangedTo(hs, Len(hs)) + Count(h.lines, Changes)
<1>1. Append(hs, h) = hs \o <<h>> /\ Len(Append(hs, h)) = Len(hs) + 1
  OBVIOUS
<1>2. <<h>> \in Seq(Hunk) /\ ChangedTo(<<h>>, 1) = Count(h.lines, Changes)
  BY OneHunkChanges
<1>3. ChangedTo(hs \o <<h>>, Len(hs) + 1) = ChangedTo(hs, Len(hs)) + ChangedTo(<<h>>, 1)
  BY <1>2, ConcatChanges
<1>4. QED
  BY <1>1, <1>2, <1>3

LEMMA NoHunksNoChanges == ChangedTo(<<>>, 0) = 0
<1>1. UNION {ChangesOf(<<>>, j) : j \in {j \in DOMAIN <<>> : j <= 0}} = {}
  OBVIOUS
<1>2. QED
  BY <1>1, FS_EmptySet DEF ChangedTo

-----------------------------------------------------------------------------
(* Listing is defined, and builds the list line by line.                    *)

\* g lists the lines of f in S from a to b
Lists(g, f, S, a, b) ==
  g = [i \in a..b |-> IF i = a THEN <<>>
                      ELSE IF i \in S THEN Append(g[i - 1], f[i]) ELSE g[i - 1]]

LEMMA ListingExists ==
  ASSUME NEW f \in Seq(FileLine), NEW S, NEW a \in Nat, NEW b \in Nat, a <= b, b <= Len(f)
  PROVE  \E g : g \in [a..b -> Seq(FileLine)] /\ Lists(g, f, S, a, b) /\ Listing(f, S, a, b) = g[b]
<1> DEFINE D == Seq(FileLine)
           F == [p \in D \X ((a + 1)..b) |-> IF p[2] \in S THEN Append(p[1], f[p[2]]) ELSE p[1]]
<1>1. <<>> \in D
  OBVIOUS
<1>2. F \in [D \X ((a + 1)..b) -> D]
  <2>1. ASSUME NEW p \in D \X ((a + 1)..b)
        PROVE  (IF p[2] \in S THEN Append(p[1], f[p[2]]) ELSE p[1]) \in D
    <3>1. p[1] \in Seq(FileLine) /\ p[2] \in 1..Len(f) /\ f[p[2]] \in FileLine
      OBVIOUS
    <3>2. Append(p[1], f[p[2]]) \in Seq(FileLine)
      BY <3>1
    <3>3. QED
      BY <3>1, <3>2
  <2>2. QED
    BY <2>1
<1>2a. \A q \in D, i \in (a + 1)..b : F[<<q, i>>] = IF i \in S THEN Append(q, f[i]) ELSE q
  OBVIOUS
<1> HIDE DEF F, D
<1> DEFINE none == <<>>
<1>3. PICK g : IsWalk(g, D, none, a, b, F)
  <2>1. none \in D
    BY <1>1
  <2> HIDE DEF none
  <2>2. QED
    BY <2>1, <1>2, WalkExists
<1>3a. g \in [a..b -> D] /\ g[a] = <<>> /\ \A i \in (a + 1)..b : g[i] = F[<<g[i - 1], i>>]
  BY <1>3 DEF IsWalk, none
<1>4. Lists(g, f, S, a, b)
  <2>1. ASSUME NEW i \in a..b
        PROVE  g[i] = IF i = a THEN <<>>
                      ELSE IF i \in S THEN Append(g[i - 1], f[i]) ELSE g[i - 1]
    <3>1. CASE i = a
      BY <3>1, <1>3a
    <3>2. CASE i # a
      <4>1. i \in (a + 1)..b /\ i - 1 \in a..b
        BY <3>2
      <4>2. g[i - 1] \in D
        BY <4>1, <1>3a
      <4>3. QED
        BY <4>1, <4>2, <1>2a, <1>3a, <3>2
    <3>3. QED
      BY <3>1, <3>2
  <2>2. QED
    BY <2>1, <1>3a DEF Lists
<1> DEFINE w == CHOOSE list : Lists(list, f, S, a, b)
<1>5. Lists(w, f, S, a, b)
  BY <1>4
<1>6. Listing(f, S, a, b) = w[b]
  BY DEF Listing, Lists
<1> HIDE DEF w
<1>7. w \in [a..b -> Seq(FileLine)]
  <2> DEFINE C == {i \in a..b : w[i] \notin Seq(FileLine)}
  <2>1. SUFFICES ASSUME C # {} PROVE FALSE
    BY <1>5 DEF Lists
  <2>1a. C \subseteq Nat
    OBVIOUS
  <2>2. PICK n \in C : \A m \in C : n <= m
    <3> HIDE DEF C
    <3>1. QED
      BY <2>1, <2>1a, MinIsLeast
  <2>3. w[n] = IF n = a THEN <<>>
               ELSE IF n \in S THEN Append(w[n - 1], f[n]) ELSE w[n - 1]
    BY <1>5, <2>2 DEF Lists
  <2>4. n # a
    <3>1. w[n] \notin Seq(FileLine)
      BY <2>2
    <3>2. <<>> \in Seq(FileLine)
      OBVIOUS
    <3>3. QED
      BY <2>3, <3>1, <3>2
  <2>5. n - 1 \in a..b /\ n - 1 \notin C /\ n \in 1..Len(f)
    BY <2>2, <2>4
  <2>6. w[n - 1] \in Seq(FileLine) /\ f[n] \in FileLine
    BY <2>5
  <2>7. w[n] \in Seq(FileLine)
    BY <2>3, <2>4, <2>6
  <2>8. QED
    BY <2>2, <2>7
<1>8. QED
  BY <1>5, <1>6, <1>7

(* A listing holds lines, none of an empty range, and one more for one      *)
(* more line of the set.                                                   *)
LEMMA ListingSteps ==
  ASSUME NEW f \in Seq(FileLine), NEW S, NEW a \in Nat, NEW b \in Nat, a <= b, b <= Len(f)
  PROVE  /\ Listing(f, S, a, b) \in Seq(FileLine)
         /\ Listing(f, S, a, a) = <<>>
         /\ a < b /\ b \in S => Listing(f, S, a, b) = Append(Listing(f, S, a, b - 1), f[b])
         /\ a < b /\ b \notin S => Listing(f, S, a, b) = Listing(f, S, a, b - 1)
<1>1. PICK g : g \in [a..b -> Seq(FileLine)] /\ Lists(g, f, S, a, b) /\ Listing(f, S, a, b) = g[b]
  BY ListingExists
<1>2. \A i \in a..b : g[i] = IF i = a THEN <<>>
                             ELSE IF i \in S THEN Append(g[i - 1], f[i]) ELSE g[i - 1]
  BY <1>1 DEF Lists
<1>3. ASSUME NEW m \in a..b
      PROVE  Listing(f, S, a, m) = g[m]
  <2>1. m \in Nat /\ a <= m /\ m <= Len(f)
    OBVIOUS
  <2>2. PICK h : h \in [a..m -> Seq(FileLine)] /\ Lists(h, f, S, a, m) /\ Listing(f, S, a, m) = h[m]
    BY <2>1, ListingExists
  <2>3. \A i \in a..m : h[i] = IF i = a THEN <<>>
                               ELSE IF i \in S THEN Append(h[i - 1], f[i]) ELSE h[i - 1]
    BY <2>2 DEF Lists
  <2> DEFINE C == {i \in a..m : h[i] # g[i]}
  <2>4. C \subseteq Nat
    OBVIOUS
  <2>5. SUFFICES ASSUME C # {} PROVE FALSE
    <3>1. m \in a..m
      OBVIOUS
    <3>2. C = {} => h[m] = g[m]
      BY <3>1
    <3>3. QED
      BY <2>2, <3>2
  <2>6. PICK n \in C : \A i \in C : n <= i
    <3> HIDE DEF C
    <3>1. QED
      BY <2>4, <2>5, MinIsLeast
  <2>7. n \in a..m /\ n \in a..b /\ h[n] # g[n]
    BY <2>6
  <2>8. n # a
    BY <2>7, <2>3, <1>2
  <2>9. n - 1 \in a..m /\ n - 1 \notin C
    BY <2>6, <2>7, <2>8
  <2>10. h[n - 1] = g[n - 1]
    BY <2>9
  <2>11. QED
    BY <2>7, <2>8, <2>10, <2>3, <1>2
<1>4. b \in a..b /\ a \in a..b /\ g[b] \in Seq(FileLine)
  BY <1>1
<1>5. Listing(f, S, a, a) = <<>>
  BY <1>2, <1>3, <1>4
<1>6. ASSUME a < b
      PROVE  Listing(f, S, a, b) = IF b \in S THEN Append(Listing(f, S, a, b - 1), f[b])
                                   ELSE Listing(f, S, a, b - 1)
  <2>1. b - 1 \in a..b /\ b # a
    BY <1>6
  <2>2. QED
    BY <2>1, <1>2, <1>3, <1>4
<1>7. QED
  BY <1>1, <1>4, <1>5, <1>6

LEMMA ListingTakes ==
  ASSUME NEW f \in Seq(FileLine), NEW S, NEW a \in Nat, NEW b \in Nat, a < b, b <= Len(f), b \in S
  PROVE  Listing(f, S, a, b) = Append(Listing(f, S, a, b - 1), f[b])
<1>1. a <= b
  OBVIOUS
<1>2. QED
  BY <1>1, ListingSteps

LEMMA ListingSkips ==
  ASSUME NEW f \in Seq(FileLine), NEW S, NEW a \in Nat, NEW b \in Nat, a < b, b <= Len(f), b \notin S
  PROVE  Listing(f, S, a, b) = Listing(f, S, a, b - 1)
<1>1. a <= b
  OBVIOUS
<1>2. QED
  BY <1>1, ListingSteps

\* two listings show the same places, line for line
Paired(f, c, S, a, b) ==
  /\ Len(Listing(c, S, a, b)) = Len(Listing(f, S, a, b))
  /\ \A n \in 1..Len(Listing(f, S, a, b)) : \E i \in (a + 1)..b :
       /\ i \in S
       /\ Listing(f, S, a, b)[n] = f[i] /\ Listing(c, S, a, b)[n] = c[i]
       /\ n < Len(Listing(f, S, a, b)) <=> \E j \in (i + 1)..b : j \in S

(* What two lists of lines show of the same places is line for line alike. *)
LEMMA ListingPairs ==
  ASSUME NEW f \in Seq(FileLine), NEW c \in Seq(FileLine), Len(c) = Len(f), NEW S,
         NEW a \in Nat, NEW b \in Nat, a <= b, b <= Len(f)
  PROVE  Paired(f, c, S, a, b)
<1> DEFINE L(m) == Listing(f, S, a, m)
           M(m) == Listing(c, S, a, m)
           From(m, n, i) == /\ i \in S /\ L(m)[n] = f[i] /\ M(m)[n] = c[i]
                            /\ n < Len(L(m)) <=> \E j \in (i + 1)..m : j \in S
           Alike(m) == /\ Len(M(m)) = Len(L(m))
                       /\ \A n \in 1..Len(L(m)) : \E i \in (a + 1)..m : From(m, n, i)
           C == {m \in a..b : ~Alike(m)}
<1>1. SUFFICES ASSUME C # {} PROVE FALSE
  <2>1. b \in a..b /\ b \notin C
    <3> HIDE DEF Alike
    <3>1. QED
      BY <1>1
  <2>2. Alike(b)
    <3> HIDE DEF Alike
    <3>1. QED
      BY <2>1
  <2>3. QED
    BY <2>2 DEF Paired
<1>2. C \subseteq Nat
  OBVIOUS
<1>3. PICK m \in C : \A i \in C : m <= i
  <2> HIDE DEF C
  <2>1. QED
    BY <1>1, <1>2, MinIsLeast
<1>4. m \in a..b /\ ~Alike(m)
  <2> HIDE DEF Alike
  <2>1. QED
    BY <1>3
<1>5. m \in Nat /\ a <= m /\ m <= Len(f) /\ m <= Len(c)
  BY <1>4
<1>6. m # a
  <2>1. SUFFICES ASSUME m = a PROVE FALSE
    OBVIOUS
  <2>2. L(m) = <<>> /\ M(m) = <<>>
    BY <1>5, <2>1, ListingSteps
  <2>3. QED
    BY <2>2, <1>4
<1>7. m - 1 \in a..b /\ m - 1 \notin C
  <2> HIDE DEF Alike
  <2>1. QED
    BY <1>3, <1>4, <1>6
<1>8. Alike(m - 1)
  <2> HIDE DEF Alike
  <2>1. QED
    BY <1>7
<1>9. /\ L(m) = IF m \in S THEN Append(L(m - 1), f[m]) ELSE L(m - 1)
      /\ M(m) = IF m \in S THEN Append(M(m - 1), c[m]) ELSE M(m - 1)
  <2>1. a < m
    BY <1>5, <1>6
  <2>2. (m \in S => L(m) = Append(L(m - 1), f[m])) /\ (m \notin S => L(m) = L(m - 1))
    BY <1>5, <2>1, ListingTakes, ListingSkips
  <2>3. (m \in S => M(m) = Append(M(m - 1), c[m])) /\ (m \notin S => M(m) = M(m - 1))
    BY <1>5, <2>1, ListingTakes, ListingSkips
  <2>4. QED
    BY <2>2, <2>3
<1>10. L(m - 1) \in Seq(FileLine) /\ M(m - 1) \in Seq(FileLine)
  <2>1. m - 1 \in Nat /\ a <= m - 1 /\ m - 1 <= Len(f) /\ m - 1 <= Len(c)
    BY <1>5, <1>6
  <2>2. QED
    BY <2>1, ListingSteps
<1> DEFINE l == L(m - 1)
           r == M(m - 1)
<1>11. Len(l) \in Nat /\ Len(r) = Len(l) /\ l \in Seq(FileLine) /\ r \in Seq(FileLine)
  BY <1>8, <1>10
<1>12. ASSUME m \notin S
       PROVE  Alike(m)
  <2>1. L(m) = l /\ M(m) = r
    BY <1>9, <1>12
  <2>2. ASSUME NEW n \in 1..Len(L(m))
        PROVE  \E i \in (a + 1)..m : From(m, n, i)
    <3>1. PICK i \in (a + 1)..(m - 1) : From(m - 1, n, i)
      BY <1>8, <2>1
    <3>2. (\E j \in (i + 1)..m : j \in S) <=> (\E j \in (i + 1)..(m - 1) : j \in S)
      BY <1>12, <1>5
    <3>3. From(m, n, i) /\ i \in (a + 1)..m
      BY <3>1, <3>2, <2>1, <1>5
    <3>4. QED
      BY <3>3
  <2>3. QED
    BY <2>1, <2>2, <1>11
<1>13. ASSUME m \in S
       PROVE  Alike(m)
  <2>1. L(m) = Append(l, f[m]) /\ M(m) = Append(r, c[m])
    BY <1>9, <1>13
  <2> HIDE DEF l, r
  <2>2. /\ Len(L(m)) = Len(l) + 1 /\ Len(M(m)) = Len(l) + 1
        /\ \A n \in 1..Len(l) : L(m)[n] = l[n] /\ M(m)[n] = r[n]
        /\ L(m)[Len(l) + 1] = f[m] /\ M(m)[Len(l) + 1] = c[m]
    BY <2>1, <1>11
  <2>3. ASSUME NEW n \in 1..Len(L(m))
        PROVE  \E i \in (a + 1)..m : From(m, n, i)
    <3>1. CASE n = Len(l) + 1
      <4>1. m \in (a + 1)..m /\ ~ \E j \in (m + 1)..m : j \in S
        BY <1>4, <1>5, <1>6
      <4>2. From(m, n, m)
        BY <4>1, <3>1, <2>2, <1>11, <1>13
      <4>3. QED
        BY <4>1, <4>2
    <3>2. CASE n # Len(l) + 1
      <4>1. n \in 1..Len(l)
        BY <3>2, <2>2, <1>11
      <4>2. PICK i \in (a + 1)..(m - 1) : From(m - 1, n, i)
        BY <4>1, <1>8 DEF l
      <4>3. i \in (a + 1)..m /\ m \in (i + 1)..m
        BY <1>5, <1>6
      <4>4. i \in S /\ l[n] = f[i] /\ r[n] = c[i]
        BY <4>2 DEF l, r
      <4>5. n < Len(L(m))
        BY <4>1, <2>2, <1>11
      <4>6. From(m, n, i)
        BY <4>1, <4>3, <4>4, <4>5, <2>2, <1>13
      <4>7. QED
        BY <4>3, <4>6
    <3>3. QED
      BY <3>1, <3>2
  <2>4. QED
    BY <2>2, <2>3
<1>14. QED
  BY <1>4, <1>12, <1>13

LEMMA AppendToConcat ==
  ASSUME NEW p \in Seq(FileLine), NEW q \in Seq(FileLine), NEW x \in FileLine
  PROVE  Append(p \o q, x) = p \o Append(q, x)
<1>1. p \o q \in Seq(FileLine) /\ <<x>> \in Seq(FileLine)
  OBVIOUS
<1>2. Append(p \o q, x) = (p \o q) \o <<x>>
  BY <1>1, AppendIsConcat
<1>3. Append(q, x) = q \o <<x>>
  BY AppendIsConcat
<1>4. (p \o q) \o <<x>> = p \o (q \o <<x>>)
  BY <1>1, ConcatAssociative
<1>5. QED
  BY <1>2, <1>3, <1>4

(* A listing ends where the next begins.                                    *)
LEMMA ListingSplits ==
  ASSUME NEW f \in Seq(FileLine), NEW S, NEW a \in Nat, NEW m \in Nat, NEW b \in Nat,
         a <= m, m <= b, b <= Len(f)
  PROVE  Listing(f, S, a, b) = Listing(f, S, a, m) \o Listing(f, S, m, b)
<1> DEFINE top == Listing(f, S, a, m)
           P(n) == Listing(f, S, a, n) = top \o Listing(f, S, m, n)
           G == {n \in m..b : P(n)}
<1>1. top \in Seq(FileLine)
  <2>1. m <= Len(f)
    OBVIOUS
  <2>2. QED
    BY <2>1, ListingSteps
<1>2. m \in G
  <2>1. m <= m /\ m <= Len(f)
    OBVIOUS
  <2>2. Listing(f, S, m, m) = <<>>
    BY <2>1, ListingSteps
  <2>3. top \o <<>> = top
    BY <1>1, ConcatEmptySeq
  <2>4. P(m)
    BY <2>2, <2>3
  <2>5. m \in m..b
    OBVIOUS
  <2> HIDE DEF P
  <2>6. QED
    BY <2>4, <2>5
<1>3. ASSUME NEW n \in (m + 1)..b, n - 1 \in G
      PROVE  n \in G
  <2>1. n \in Nat /\ a < n /\ m < n /\ n <= Len(f) /\ n \in m..b
    OBVIOUS
  <2>2. n - 1 \in Nat /\ m <= n - 1 /\ n - 1 <= Len(f)
    OBVIOUS
  <2> DEFINE rest == Listing(f, S, m, n - 1)
  <2>3. Listing(f, S, a, n - 1) = top \o rest
    BY <1>3
  <2>4. rest \in Seq(FileLine)
    BY <2>2, ListingSteps
  <2>5. CASE n \in S
    <3>1. Listing(f, S, a, n) = Append(Listing(f, S, a, n - 1), f[n])
      BY <2>1, <2>5, ListingTakes
    <3>2. Listing(f, S, m, n) = Append(rest, f[n])
      BY <2>1, <2>5, ListingTakes
    <3>3. f[n] \in FileLine
      BY <2>1
    <3> HIDE DEF top, rest
    <3>4. Append(top \o rest, f[n]) = top \o Append(rest, f[n])
      BY <1>1, <2>4, <3>3, AppendToConcat
    <3>5. P(n)
      BY <3>1, <3>2, <3>4, <2>3
    <3> HIDE DEF P
    <3>6. QED
      BY <3>5, <2>1
  <2>6. CASE n \notin S
    <3>1. Listing(f, S, a, n) = Listing(f, S, a, n - 1)
      BY <2>1, <2>6, ListingSkips
    <3>2. Listing(f, S, m, n) = rest
      BY <2>1, <2>6, ListingSkips
    <3>3. P(n)
      BY <3>1, <3>2, <2>3
    <3> HIDE DEF P
    <3>4. QED
      BY <3>3, <2>1
  <2>7. QED
    BY <2>5, <2>6
<1>4. b \in G
  <2> HIDE DEF G
  <2>1. QED
    BY <1>2, <1>3, Upward
<1>5. QED
  BY <1>4

\* the lines of c numbered in S, from a to b, are those of f numbered in T, d further down
Agree(c, S, f, T, a, b, d) ==
  \A i \in (a + 1)..b : (i \in S <=> d + i \in T) /\ (i \in S => c[i] = f[d + i])

(* Listings of places that hold the same lines are the same.                *)
LEMMA ListingShifts ==
  ASSUME NEW c \in Seq(FileLine), NEW S, NEW f \in Seq(FileLine), NEW T,
         NEW a \in Nat, NEW b \in Nat, a <= b, b <= Len(c), NEW d \in Nat, d + b <= Len(f),
         Agree(c, S, f, T, a, b, d), NEW from, from = d + a, NEW to, to = d + b
  PROVE  Listing(c, S, a, b) = Listing(f, T, from, to)
<1>0. \A i \in (a + 1)..b : (i \in S <=> d + i \in T) /\ (i \in S => c[i] = f[d + i])
  BY DEF Agree
<1> DEFINE P(n) == Listing(c, S, a, n) = Listing(f, T, d + a, d + n)
           G == {n \in a..b : P(n)}
<1>1. a \in G
  <2>1. a <= Len(c) /\ d + a \in Nat /\ d + a <= Len(f)
    OBVIOUS
  <2>2. Listing(c, S, a, a) = <<>>
    BY <2>1, ListingSteps
  <2>3. Listing(f, T, d + a, d + a) = <<>>
    BY <2>1, ListingSteps
  <2>4. QED
    BY <2>2, <2>3
<1>2. ASSUME NEW n \in (a + 1)..b, n - 1 \in G
      PROVE  n \in G
  <2>1. /\ n \in Nat /\ a < n /\ n <= Len(c) /\ n \in a..b
        /\ d + a \in Nat /\ d + n \in Nat /\ d + a < d + n /\ d + n <= Len(f)
        /\ (d + n) - 1 = d + (n - 1)
    OBVIOUS
  <2>2. Listing(c, S, a, n - 1) = Listing(f, T, d + a, (d + n) - 1)
    BY <1>2, <2>1
  <2>3. CASE n \in S
    <3>1. d + n \in T /\ c[n] = f[d + n]
      BY <2>3, <1>0
    <3>2. Listing(c, S, a, n) = Append(Listing(c, S, a, n - 1), c[n])
      BY <2>1, <2>3, ListingTakes
    <3>3. Listing(f, T, d + a, d + n) = Append(Listing(f, T, d + a, (d + n) - 1), f[d + n])
      BY <2>1, <3>1, ListingTakes
    <3>4. P(n)
      BY <3>1, <3>2, <3>3, <2>2
    <3> HIDE DEF P
    <3>5. QED
      BY <3>4, <2>1
  <2>4. CASE n \notin S
    <3>1. d + n \notin T
      BY <2>4, <1>0
    <3>2. Listing(c, S, a, n) = Listing(c, S, a, n - 1)
      BY <2>1, <2>4, ListingSkips
    <3>3. Listing(f, T, d + a, d + n) = Listing(f, T, d + a, (d + n) - 1)
      BY <2>1, <3>1, ListingSkips
    <3>4. P(n)
      BY <3>2, <3>3, <2>2
    <3> HIDE DEF P
    <3>5. QED
      BY <3>4, <2>1
  <2>5. QED
    BY <2>3, <2>4
<1>3. b \in G
  <2> HIDE DEF G
  <2>1. QED
    BY <1>1, <1>2, Upward
<1>4. QED
  BY <1>3

\* S numbers the lines of those kinds, from a to b
OfKinds(S, lines, K, a, b) == \A i \in (a + 1)..b : i \in S <=> lines[i].kind \in K

(* A side holds as many lines as are counted for it.                        *)
LEMMA ListingSize ==
  ASSUME NEW lines, NEW f \in Seq(FileLine), NEW K, NEW S, NEW a \in Nat, NEW b \in Nat,
         a <= b, b <= Len(f), OfKinds(S, lines, K, a, b), NEW from, from = a + 1
  PROVE  Len(Listing(f, S, a, b)) = CountIn(lines, K, from, b)
<1>0. \A i \in (a + 1)..b : i \in S <=> lines[i].kind \in K
  BY DEF OfKinds
<1> DEFINE P(n) == Len(Listing(f, S, a, n)) = CountIn(lines, K, a + 1, n)
           G == {n \in a..b : P(n)}
<1>1. a \in G
  <2>1. a <= Len(f) /\ a <= a
    OBVIOUS
  <2>2. Listing(f, S, a, a) = <<>>
    BY <2>1, ListingSteps
  <2>3. CountIn(lines, K, a + 1, a) = 0
    <3>1. a + 1 \in Int /\ a \in Int /\ a < a + 1
      OBVIOUS
    <3>2. QED
      BY <3>1, CountInType
  <2>4. QED
    BY <2>2, <2>3
<1>2. ASSUME NEW n \in (a + 1)..b, n - 1 \in G
      PROVE  n \in G
  <2>1. n \in Nat /\ a < n /\ n <= Len(f) /\ n \in a..b /\ n - 1 \in Nat /\ n - 1 <= Len(f) /\ a <= n - 1
    OBVIOUS
  <2> DEFINE l == Listing(f, S, a, n - 1)
  <2>2. l \in Seq(FileLine) /\ f[n] \in FileLine
    <3>1. l \in Seq(FileLine)
      BY <2>1, ListingSteps
    <3>2. QED
      BY <3>1, <2>1
  <2>3. CountIn(lines, K, a + 1, n) = CountIn(lines, K, a + 1, n - 1) + CountIn(lines, K, n, n)
    <3>1. a + 1 \in Int /\ n - 1 \in Int /\ n \in Int /\ a + 1 <= (n - 1) + 1 /\ n - 1 <= n
          /\ (n - 1) + 1 = n
      BY <2>1
    <3>2. QED
      BY <3>1, CountInSplits
  <2>4. CountIn(lines, K, n, n) = IF n \in S THEN 1 ELSE 0
    BY <1>0, <2>1, CountInOne
  <2>5. Len(l) = CountIn(lines, K, a + 1, n - 1) /\ Len(l) \in Nat
    BY <1>2, <2>2
  <2>6. CASE n \in S
    <3>1. Listing(f, S, a, n) = Append(l, f[n])
      BY <2>1, <2>6, ListingTakes
    <3> HIDE DEF l
    <3>2. Len(Listing(f, S, a, n)) = Len(l) + 1
      BY <3>1, <2>2
    <3>3. P(n)
      BY <3>2, <2>3, <2>4, <2>5, <2>6
    <3> HIDE DEF P
    <3>4. QED
      BY <3>3, <2>1
  <2>7. CASE n \notin S
    <3>1. Listing(f, S, a, n) = l
      BY <2>1, <2>7, ListingSkips
    <3>2. P(n)
      BY <3>1, <2>3, <2>4, <2>5, <2>7
    <3> HIDE DEF P
    <3>3. QED
      BY <3>2, <2>1
  <2>8. QED
    BY <2>6, <2>7
<1>3. b \in G
  <2> HIDE DEF G
  <2>1. QED
    BY <1>1, <1>2, Upward
<1>4. QED
  BY <1>3

-----------------------------------------------------------------------------
(* Files.                                                                   *)

LEMMA FileLinesAre ==
  ASSUME NEW lines \in Seq(Line)
  PROVE  /\ FileLines(lines) \in Seq(FileLine) /\ Len(FileLines(lines)) = Len(lines)
         /\ \A i \in 1..Len(lines) :
              FileLines(lines)[i] = [text |-> lines[i].text, nonl |-> lines[i].nonl]
<1> DEFINE c(i) == [text |-> lines[i].text, nonl |-> lines[i].nonl]
<1>1. ASSUME NEW i \in 1..Len(lines)
      PROVE  c(i) \in FileLine
  <2>1. lines[i] \in Line
    OBVIOUS
  <2>2. lines[i].text \in Texts /\ lines[i].nonl \in BOOLEAN
    BY <2>1 DEF Line
  <2>3. QED
    BY <2>2 DEF FileLine
<1>2. FileLines(lines) = [i \in 1..Len(lines) |-> c(i)]
  BY DEF FileLines
<1> HIDE DEF c
<1>3. /\ FileLines(lines) \in Seq(FileLine) /\ Len(FileLines(lines)) = Len(lines)
      /\ \A i \in 1..Len(lines) : FileLines(lines)[i] = c(i)
  BY <1>1, <1>2
<1>4. QED
  BY <1>3 DEF c

LEMMA NewlineIs ==
  ASSUME NEW l \in FileLine
  PROVE  /\ WithNewline(l) \in FileLine /\ ~WithNewline(l).nonl
         /\ ~l.nonl => WithNewline(l) = l
<1>1. l = [text |-> l.text, nonl |-> l.nonl] /\ l.text \in Texts /\ l.nonl \in BOOLEAN
  BY DEF FileLine
<1>2. WithNewline(l) = [text |-> l.text, nonl |-> FALSE]
  BY <1>1 DEF WithNewline
<1>3. WithNewline(l) \in FileLine
  BY <1>1, <1>2 DEF FileLine
<1>4. ~WithNewline(l).nonl
  BY <1>2
<1>5. ~l.nonl => l.nonl = FALSE
  BY <1>1
<1>6. ~l.nonl => WithNewline(l) = l
  BY <1>1, <1>2, <1>5
<1>7. QED
  BY <1>3, <1>4, <1>6

LEMMA EndedIs ==
  ASSUME NEW file \in Seq(FileLine)
  PROVE  /\ Ended(file) \in Seq(FileLine) /\ Len(Ended(file)) = Len(file)
         /\ \A i \in 1..Len(file) :
              Ended(file)[i] = IF i = Len(file) THEN file[i] ELSE WithNewline(file[i])
         /\ Terminated(Ended(file)) /\ Ended(file) # Corrupt
<1> DEFINE e(i) == IF i = Len(file) THEN file[i] ELSE WithNewline(file[i])
<1>1. \A i \in 1..Len(file) : file[i] \in FileLine
  OBVIOUS
<1>2. \A i \in 1..Len(file) : e(i) \in FileLine
  BY <1>1, NewlineIs
<1>3. Ended(file) = [i \in 1..Len(file) |-> e(i)]
  BY DEF Ended
<1> HIDE DEF e
<1>4. /\ Ended(file) \in Seq(FileLine) /\ Len(Ended(file)) = Len(file)
      /\ \A i \in 1..Len(file) : Ended(file)[i] = e(i)
  BY <1>2, <1>3
<1>5. ASSUME NEW i \in DOMAIN Ended(file), i < Len(Ended(file))
      PROVE  ~Ended(file)[i].nonl
  <2>1. i \in 1..Len(file) /\ i # Len(file)
    BY <1>4, <1>5
  <2>2. Ended(file)[i] = WithNewline(file[i])
    BY <1>4, <2>1 DEF e
  <2>3. ~WithNewline(file[i]).nonl
    BY <1>1, <2>1, NewlineIs
  <2>4. QED
    BY <2>2, <2>3
<1>6. Terminated(Ended(file))
  BY <1>5 DEF Terminated
<1>7. ~Terminated(Corrupt)
  <2>1. Len(Corrupt) = 2 /\ 1 \in DOMAIN Corrupt /\ Corrupt[1].nonl = TRUE
    BY DEF Corrupt
  <2>2. 1 < Len(Corrupt)
    BY <2>1
  <2>3. QED
    BY <2>1, <2>2 DEF Terminated
<1>8. Ended(file) # Corrupt
  BY <1>6, <1>7
<1>9. QED
  BY <1>4, <1>6, <1>8 DEF e

\* the lines of file that are no longer the last once only S stands, ended
Closed(f, S) ==
  [i \in DOMAIN f |-> IF \E j \in (i + 1)..Len(f) : j \in S THEN WithNewline(f[i]) ELSE f[i]]

LEMMA ClosedIs ==
  ASSUME NEW f \in Seq(FileLine), NEW S
  PROVE  /\ Closed(f, S) \in Seq(FileLine) /\ Len(Closed(f, S)) = Len(f)
         /\ \A i \in 1..Len(f) :
              Closed(f, S)[i] = IF \E j \in (i + 1)..Len(f) : j \in S THEN WithNewline(f[i])
                                ELSE f[i]
<1> DEFINE later(i) == \E j \in (i + 1)..Len(f) : j \in S
           c(i) == IF later(i) THEN WithNewline(f[i]) ELSE f[i]
<1>1. \A i \in 1..Len(f) : f[i] \in FileLine
  OBVIOUS
<1>2. \A i \in 1..Len(f) : c(i) \in FileLine
  <2> HIDE DEF later
  <2>1. QED
    BY <1>1, NewlineIs
<1>3. Closed(f, S) = [i \in 1..Len(f) |-> c(i)]
  BY DEF Closed
<1> HIDE DEF c
<1>4. /\ Closed(f, S) \in Seq(FileLine) /\ Len(Closed(f, S)) = Len(f)
      /\ \A i \in 1..Len(f) : Closed(f, S)[i] = c(i)
  BY <1>2, <1>3
<1>5. QED
  BY <1>4 DEF c

(* Ending a listing is listing what is ended.                               *)
LEMMA EndedListing ==
  ASSUME NEW f \in Seq(FileLine), NEW S
  PROVE  Ended(Listing(f, S, 0, Len(f))) = Listing(Closed(f, S), S, 0, Len(f))
<1> DEFINE c == Closed(f, S)
           n == Len(f)
           l == Listing(f, S, 0, n)
           m == Listing(c, S, 0, n)
           later(i) == \E j \in (i + 1)..n : j \in S
<1>1. c \in Seq(FileLine) /\ Len(c) = n /\ n \in Nat
  BY ClosedIs
<1>2. \A i \in 1..n : c[i] = IF later(i) THEN WithNewline(f[i]) ELSE f[i]
  BY ClosedIs
<1> HIDE DEF c
<1>3. 0 <= n /\ n <= Len(f) /\ n <= Len(c) /\ Len(c) = Len(f) /\ 0 \in Nat
  BY <1>1
<1>4. l \in Seq(FileLine) /\ m \in Seq(FileLine)
  <2>1. l \in Seq(FileLine)
    BY <1>1, <1>3, ListingSteps
  <2>2. m \in Seq(FileLine)
    BY <1>1, <1>3, ListingSteps
  <2>3. QED
    BY <2>1, <2>2
<1>5. /\ Len(m) = Len(l)
      /\ \A k \in 1..Len(l) : \E i \in (0 + 1)..n :
           /\ i \in S /\ l[k] = f[i] /\ m[k] = c[i]
           /\ k < Len(l) <=> later(i)
  <2>1. Paired(f, c, S, 0, n)
    BY <1>1, <1>3, ListingPairs
  <2>2. QED
    BY <2>1 DEF Paired
<1> HIDE DEF l, m, later
<1>6. ASSUME NEW k \in 1..Len(l)
      PROVE  m[k] = IF k = Len(l) THEN l[k] ELSE WithNewline(l[k])
  <2>1. PICK i \in (0 + 1)..n : i \in S /\ l[k] = f[i] /\ m[k] = c[i] /\ (k < Len(l) <=> later(i))
    BY <1>5
  <2>2. k = Len(l) <=> ~(k < Len(l))
    BY <1>4
  <2>3. c[i] = IF later(i) THEN WithNewline(f[i]) ELSE f[i]
    BY <1>2, <1>1
  <2>4. QED
    BY <2>1, <2>2, <2>3
<1>7. Ended(l) = m
  <2>1. Ended(l) \in Seq(FileLine) /\ Len(Ended(l)) = Len(l)
        /\ \A k \in 1..Len(l) : Ended(l)[k] = IF k = Len(l) THEN l[k] ELSE WithNewline(l[k])
    BY <1>4, EndedIs
  <2>2. \A k \in 1..Len(Ended(l)) : Ended(l)[k] = m[k]
    BY <2>1, <1>6
  <2>3. QED
    BY <1>4, <1>5, <2>1, <2>2, SeqEqual
<1>8. QED
  BY <1>7 DEF l, m, c

-----------------------------------------------------------------------------
(* One hunk's changes made in a file whose changes above are settled.       *)

\* the places of the changes P of a hunk with `above` changes above it
CountedBelow(above, P) == {above + c : c \in P}

LEMMA StayingIs ==
  ASSUME NEW lines \in Seq(Line), NEW X, NEW i \in 1..Len(lines)
  PROVE  /\ i \in Side(lines, OldSide) <=> lines[i].kind \in OldSide
         /\ i \in Side(lines, NewSide) <=> lines[i].kind \in NewSide
         /\ lines[i].kind = "ctx" => i \in Staying(lines, X)
         /\ lines[i].kind = "del" =>
              (i \in Staying(lines, X) <=> CountIn(lines, Changes, 1, i) \notin X)
         /\ lines[i].kind = "add" =>
              (i \in Staying(lines, X) <=> CountIn(lines, Changes, 1, i) \in X)
         /\ lines[i].kind \in {"ctx", "add", "del"}
<1>1. lines[i] \in Line
  OBVIOUS
<1>2. lines[i].kind \in {"ctx", "add", "del"}
  BY <1>1 DEF Line, Kinds
<1>3. i \in DOMAIN lines
  OBVIOUS
<1>4. QED
  BY <1>2, <1>3 DEF Side, Staying

(* The changes of a range come after those above it.                        *)
LEMMA NumbersInRange ==
  ASSUME NEW full \in Seq(Line), NEW f \in Nat, NEW i \in 1..Len(full), f <= Len(full),
         full[i].kind \in Changes
  PROVE  LET n == CountIn(full, Changes, 1, i)
             above == CountIn(full, Changes, 1, f)
         IN  /\ n \in Nat \ {0} /\ above \in Nat
             /\ i <= f => n <= above
             /\ i > f  => n = above + CountIn(full, Changes, f + 1, i) /\ n > above
<1> DEFINE C(a, b) == CountIn(full, Changes, a, b)
<1>1. \A a, b \in Int : C(a, b) \in Nat
  BY CountInType
<1>2. C(1, i) = C(1, i - 1) + C(i, i)
  <2>1. 1 \in Int /\ i - 1 \in Int /\ i \in Int /\ 1 <= (i - 1) + 1 /\ i - 1 <= i /\ (i - 1) + 1 = i
    OBVIOUS
  <2>2. QED
    BY <2>1, CountInSplits
<1>3. C(i, i) = 1
  BY CountInOne
<1>4. ASSUME i <= f
      PROVE  C(1, f) = C(1, i) + C(i + 1, f)
  <2>1. 1 \in Int /\ i \in Int /\ f \in Int /\ 1 <= i + 1
    OBVIOUS
  <2>2. QED
    BY <2>1, <1>4, CountInSplits
<1>5. ASSUME i > f
      PROVE  C(1, i) = C(1, f) + C(f + 1, i) /\ C(f + 1, i) = C(f + 1, i - 1) + C(i, i)
  <2>1. 1 \in Int /\ i \in Int /\ f \in Int /\ 1 <= f + 1 /\ f <= i
    BY <1>5
  <2>2. C(1, i) = C(1, f) + C(f + 1, i)
    BY <2>1, CountInSplits
  <2>3. f + 1 \in Int /\ i - 1 \in Int /\ f + 1 <= (i - 1) + 1 /\ i - 1 <= i /\ (i - 1) + 1 = i
    BY <1>5
  <2>4. C(f + 1, i) = C(f + 1, i - 1) + C(i, i)
    BY <2>3, CountInSplits
  <2>5. QED
    BY <2>2, <2>4
<1>6. /\ C(1, i) \in Nat /\ C(1, f) \in Nat /\ C(1, i - 1) \in Nat /\ C(i + 1, f) \in Nat
      /\ C(f + 1, i) \in Nat /\ C(f + 1, i - 1) \in Nat
  <2>1. 1 \in Int /\ i \in Int /\ f \in Int /\ i - 1 \in Int /\ i + 1 \in Int /\ f + 1 \in Int
    OBVIOUS
  <2> HIDE DEF C
  <2>2. QED
    BY <1>1, <2>1
<1> HIDE DEF C
<1>7. /\ C(1, i) \in Nat \ {0} /\ C(1, f) \in Nat
      /\ i <= f => C(1, i) <= C(1, f)
      /\ i > f  => C(1, i) = C(1, f) + C(f + 1, i) /\ C(1, i) > C(1, f)
  BY <1>2, <1>3, <1>4, <1>5, <1>6
<1>8. QED
  BY <1>7 DEF C

(* Counting in a slice is counting in the lines it was cut from.           *)
SameKinds(full, ls, from, n) == \A m \in 1..n : full[m + (from - 1)].kind = ls[m].kind

LEMMA CountBelow ==
  ASSUME NEW full, NEW ls, NEW K, NEW from \in Int, NEW n \in Int, NEW to \in Int,
         to = n + (from - 1), SameKinds(full, ls, from, n)
  PROVE  CountIn(full, K, from, to) = CountIn(ls, K, 1, n)
<1>1. 1 \in Int /\ to - from = n - 1
  OBVIOUS
<1>2. QED
  BY <1>1, CountInShifted DEF SameKinds

\* ls is what full holds below its line f
Within(ls, full, f) == \A i \in 1..Len(ls) : ls[i] = full[f + i]

(* A body that stands below line f of the full diff, down to line `to`.    *)
Placed(full, f, ls, to) ==
  /\ full \in Seq(Line) /\ ls \in Seq(Line) /\ f \in Nat /\ to \in Nat
  /\ to = f + Len(ls) /\ to <= Len(full)
  /\ Within(ls, full, f)

\* X numbers changes above it, X2 these and those of the body numbered in P
Adds(full, f, ls, X, P, X2) ==
  LET above == CountIn(full, Changes, 1, f)
  IN  /\ X \in SUBSET (1..above) /\ P \in SUBSET (1..Count(ls, Changes))
      /\ X2 = X \cup CountedBelow(above, P)

StaysAround(full, f, ls, to, X, P, X2) ==
  /\ \A i \in 1..f : i \in Staying(full, X) <=> i \in Staying(full, X2)
  /\ \A i \in (f + 1)..Len(full) : i \in Staying(full, X) <=> i \in Side(full, OldSide)
  /\ \A i \in 1..Len(ls) : f + i \in Staying(full, X2) <=> i \in Staying(ls, P)
  /\ \A i \in (to + 1)..Len(full) : i \in Staying(full, X2) <=> i \in Side(full, OldSide)

LEMMA StayingAround ==
  ASSUME NEW full, NEW f, NEW ls, NEW to, NEW X, NEW P, NEW X2,
         Placed(full, f, ls, to), Adds(full, f, ls, X, P, X2)
  PROVE  StaysAround(full, f, ls, to, X, P, X2)
<1> DEFINE n == Len(ls)
           above == CountIn(full, Changes, 1, f)
<1>0. /\ full \in Seq(Line) /\ ls \in Seq(Line) /\ f \in Nat /\ Within(ls, full, f)
      /\ n \in Nat /\ f + n <= Len(full) /\ n = Len(ls) /\ (f + n) + 1 = to + 1
      /\ X \in SUBSET (1..above) /\ P \in SUBSET (1..Count(ls, Changes))
      /\ X2 = X \cup CountedBelow(above, P) /\ above = CountIn(full, Changes, 1, f)
  BY DEF Placed, Adds
<1> HIDE DEF n, above
<1> USE <1>0
<1> DEFINE N(i) == CountIn(full, Changes, 1, i)
           M(i) == CountIn(ls, Changes, 1, i)
           total == Count(ls, Changes)
<1>1. ls \in Seq(Line) /\ Len(ls) = n /\ \A i \in 1..n : ls[i] = full[f + i]
  BY DEF Within
<1>2. above \in Nat /\ total \in Nat /\ M(n) = total
  <2>1. 1 \in Int /\ f \in Int /\ Len(ls) \in Int
    BY <1>1
  <2>2. QED
    BY <1>1, <2>1, CountInType DEF Count
<1>3. ASSUME NEW i \in 1..n
      PROVE  N(f + i) = above + M(i) /\ M(i) \in Nat /\ M(i) <= total
  <2> DEFINE from == f + 1
             upto == f + i
  <2>1. /\ 1 \in Int /\ f \in Int /\ upto \in Int /\ 1 <= f + 1 /\ f <= upto
        /\ from = f + 1 /\ upto = f + i
    OBVIOUS
  <2>2. N(upto) = above + CountIn(full, Changes, from, upto)
    BY <2>1, CountInSplits
  <2>3. CountIn(full, Changes, from, upto) = CountIn(ls, Changes, 1, i)
    <3>1. \A m \in 1..i : full[m + (from - 1)].kind = ls[m].kind
      <4>1. TAKE m \in 1..i
      <4>2. m \in 1..n
        OBVIOUS
      <4>3. m + (from - 1) = f + m
        OBVIOUS
      <4>4. ls[m] = full[f + m]
        BY <4>2, <1>1
      <4>5. QED
        BY <4>3, <4>4, Zenon
    <3>2. i \in Int /\ from \in Int /\ upto = i + (from - 1)
      BY <2>1
    <3>3. SameKinds(full, ls, from, i)
      BY <3>1, Zenon DEF SameKinds
    <3> HIDE DEF from, upto
    <3>4. QED
      BY <2>1, <3>2, <3>3, CountBelow
  <2>4. M(i) \in Nat /\ M(i) <= total
    <3>1. 1 \in Nat \ {0} /\ i \in Nat /\ 1 <= i + 1 /\ i <= Len(ls)
      BY <1>1
    <3>2. QED
      BY <3>1, <1>1, CountInBounds
  <2>5. QED
    BY <2>2, <2>3, <2>4
<1>4. \A i \in 1..Len(full) : full[i].kind \in Changes =>
        /\ N(i) \in Nat \ {0}
        /\ i <= f => N(i) <= above
        /\ i > f  => N(i) > above
  BY NumbersInRange
<1>5. \A x : x \in X2 <=> x \in X \/ \E c \in P : x = above + c
  BY DEF CountedBelow
<1>6. \A x \in Nat : x <= above => (x \in X <=> x \in X2)
  BY <1>2, <1>5
<1>7. \A x \in Nat : x > above => x \notin X
  BY <1>2
<1>8. \A x \in Nat : above + x \in X2 /\ x > 0 => x \in P
  <2>1. TAKE x \in Nat
  <2>2. SUFFICES ASSUME above + x \in X2, x > 0 PROVE x \in P
    OBVIOUS
  <2>3. above + x \notin X
    BY <2>2, <1>2, <1>7
  <2>4. PICK c \in P : above + x = above + c
    BY <2>2, <2>3, <1>5
  <2>5. c \in Nat /\ total \in Nat
    BY <1>2
  <2>6. x = c
    BY <2>4, <2>5, <1>2
  <2>7. QED
    BY <2>4, <2>6
<1>9. \A x \in P : above + x \in X2
  BY <1>5
<1> HIDE DEF N, M, total
<1>10. ASSUME NEW i \in 1..f
       PROVE  i \in Staying(full, X) <=> i \in Staying(full, X2)
  <2>1. i \in 1..Len(full) /\ i <= f
    OBVIOUS
  <2>2. full[i].kind \in Changes => (N(i) \in X <=> N(i) \in X2)
    BY <2>1, <1>4, <1>6
  <2>3. "del" \in Changes /\ "add" \in Changes
    BY DEF Changes
  <2>4. QED
    BY <2>1, <2>2, <2>3, StayingIs DEF N
<1>11. ASSUME NEW i \in (f + 1)..Len(full)
       PROVE  i \in Staying(full, X) <=> i \in Side(full, OldSide)
  <2>1. i \in 1..Len(full) /\ i > f
    OBVIOUS
  <2>2. full[i].kind \in Changes => N(i) \notin X
    BY <2>1, <1>4, <1>7
  <2>3. "del" \in Changes /\ "add" \in Changes
        /\ "ctx" \in OldSide /\ "del" \in OldSide /\ "add" \notin OldSide
    BY DEF Changes, OldSide
  <2>4. QED
    BY <2>1, <2>2, <2>3, StayingIs DEF N
<1>12. ASSUME NEW i \in 1..n
       PROVE  f + i \in Staying(full, X2) <=> i \in Staying(ls, P)
  <2>1. f + i \in 1..Len(full) /\ f + i > f /\ i \in 1..Len(ls) /\ ls[i] = full[f + i]
    <3>1. f + i \in 1..Len(full) /\ f + i > f
      OBVIOUS
    <3>2. QED
      BY <3>1, <1>1
  <2>2. ASSUME full[f + i].kind \in Changes
        PROVE  N(f + i) \in X2 <=> M(i) \in P
    <3>1. N(f + i) = above + M(i) /\ M(i) \in Nat /\ N(f + i) > above
      BY <1>3, <2>1, <2>2, <1>4
    <3>2. M(i) > 0
      BY <3>1, <1>2
    <3>3. QED
      BY <3>1, <3>2, <1>8, <1>9
  <2>3. "del" \in Changes /\ "add" \in Changes
    BY DEF Changes
  <2>4. /\ full[f + i].kind = "ctx" => f + i \in Staying(full, X2)
        /\ full[f + i].kind = "del" => (f + i \in Staying(full, X2) <=> N(f + i) \notin X2)
        /\ full[f + i].kind = "add" => (f + i \in Staying(full, X2) <=> N(f + i) \in X2)
        /\ full[f + i].kind \in {"ctx", "add", "del"}
    BY <2>1, StayingIs DEF N
  <2>5. /\ ls[i].kind = "ctx" => i \in Staying(ls, P)
        /\ ls[i].kind = "del" => (i \in Staying(ls, P) <=> M(i) \notin P)
        /\ ls[i].kind = "add" => (i \in Staying(ls, P) <=> M(i) \in P)
    BY <2>1, <1>1, StayingIs DEF M
  <2>6. QED
    BY <2>1, <2>2, <2>3, <2>4, <2>5
<1>13. ASSUME NEW i \in ((f + n) + 1)..Len(full)
       PROVE  i \in Staying(full, X2) <=> i \in Side(full, OldSide)
  <2>1. i \in 1..Len(full) /\ i > f /\ i > f + n
    OBVIOUS
  <2>2. ASSUME full[i].kind \in Changes
        PROVE  N(i) \notin X2
    <3>1. N(f + n) = above + total
      <4>1. CASE n = 0
        <5>1. total = 0
          <6>1. M(0) = 0
            <7>1. 1 \in Int /\ 0 \in Int /\ 0 < 1
              OBVIOUS
            <7>2. QED
              BY <7>1, CountInType DEF M
          <6>2. QED
            BY <6>1, <4>1, <1>2
        <5>2. QED
          BY <5>1, <4>1, <1>2 DEF N
      <4>2. CASE n # 0
        <5>1. n \in 1..n
          BY <4>2
        <5>2. QED
          BY <5>1, <1>2, <1>3
      <4>3. QED
        BY <4>1, <4>2
    <3>2. N(i) > N(f + n) /\ N(i) \in Nat
      <4>1. f + n \in Nat /\ f + n <= Len(full)
        OBVIOUS
      <4>2. QED
        BY <4>1, <2>1, <2>2, NumbersInRange DEF N
    <3>3. N(i) > above + total
      BY <3>1, <3>2
    <3>4. N(i) \notin X
      BY <3>2, <3>3, <1>2, <1>7
    <3>5. \A c \in P : N(i) # above + c
      BY <3>2, <3>3, <1>2 DEF total
    <3>6. QED
      BY <3>4, <3>5, <1>5
  <2>3. "del" \in Changes /\ "add" \in Changes
        /\ "ctx" \in OldSide /\ "del" \in OldSide /\ "add" \notin OldSide
    BY DEF Changes, OldSide
  <2>4. QED
    BY <2>1, <2>2, <2>3, StayingIs DEF N
<1>14. \A i \in (to + 1)..Len(full) : i \in Staying(full, X2) <=> i \in Side(full, OldSide)
  BY <1>13, Zenon
<1>15. \A i \in 1..Len(ls) : f + i \in Staying(full, X2) <=> i \in Staying(ls, P)
  BY <1>12, Zenon
<1>16. QED
  BY <1>10, <1>11, <1>14, <1>15 DEF StaysAround


(* A concatenation kept whole: the provers take `\o` apart element by element. *)
Join(p, q) == p \o q

LEMMA JoinIs ==
  ASSUME NEW p \in Seq(FileLine), NEW q \in Seq(FileLine)
  PROVE  Join(p, q) \in Seq(FileLine) /\ Len(Join(p, q)) = Len(p) + Len(q)
BY DEF Join

LEMMA ListingType ==
  ASSUME NEW f \in Seq(FileLine), NEW S, NEW a \in Nat, NEW b \in Nat, a <= b, b <= Len(f)
  PROVE  Listing(f, S, a, b) \in Seq(FileLine)
BY ListingSteps, Zenon

LEMMA ListingJoins ==
  ASSUME NEW f \in Seq(FileLine), NEW S, NEW a \in Nat, NEW m \in Nat, NEW b \in Nat,
         a <= m, m <= b, b <= Len(f)
  PROVE  Listing(f, S, a, b) = Join(Listing(f, S, a, m), Listing(f, S, m, b))
BY ListingSplits, Zenon DEF Join

\* f has lines from a + 1 to b
Listed(f, a, b) == f \in Seq(FileLine) /\ a \in Nat /\ b \in Nat /\ a <= b /\ b <= Len(f)

(* The same lines listed from two files that agree on them.                *)
LEMMA ListingSame ==
  ASSUME NEW c, NEW S, NEW f, NEW T, NEW a, NEW b,
         Listed(c, a, b), Listed(f, a, b), Agree(c, S, f, T, a, b, 0)
  PROVE  Listing(c, S, a, b) = Listing(f, T, a, b)
<1>1. /\ c \in Seq(FileLine) /\ f \in Seq(FileLine) /\ a \in Nat /\ b \in Nat
      /\ a <= b /\ b <= Len(c) /\ b <= Len(f)
  BY DEF Listed
<1>2. 0 \in Nat /\ 0 + b <= Len(f) /\ a = 0 + a /\ b = 0 + b
  BY <1>1
<1>3. QED
  BY <1>1, <1>2, ListingShifts

(* A file listed from the top, found again further down another one.       *)
LEMMA ListingMoves ==
  ASSUME NEW c, NEW S, NEW f, NEW T, NEW n, NEW top, NEW to,
         Listed(c, 0, n), Listed(f, top, to), to = top + n, Agree(c, S, f, T, 0, n, top)
  PROVE  Listing(c, S, 0, n) = Listing(f, T, top, to)
<1>1. /\ c \in Seq(FileLine) /\ f \in Seq(FileLine) /\ n \in Nat /\ top \in Nat
      /\ 0 <= n /\ n <= Len(c) /\ to <= Len(f)
  BY DEF Listed
<1>2. 0 \in Nat /\ 0 <= n /\ top + n <= Len(f) /\ top = top + 0 /\ to = top + n
  BY <1>1
<1>3. QED
  BY <1>1, <1>2, ListingShifts

(* A listing is as long as the range has lines of the kinds it lists.      *)
Sized(l, n) == Len(l) = n

LEMMA ListingSized ==
  ASSUME NEW lines, NEW f, NEW K, NEW S, NEW a, NEW b, NEW from,
         Listed(f, a, b), OfKinds(S, lines, K, a, b), from = a + 1
  PROVE  Sized(Listing(f, S, a, b), CountIn(lines, K, from, b))
<1>1. f \in Seq(FileLine) /\ a \in Nat /\ b \in Nat /\ a <= b /\ b <= Len(f)
  BY DEF Listed
<1>2. Len(Listing(f, S, a, b)) = CountIn(lines, K, from, b)
  BY <1>1, ListingSize
<1>3. QED
  BY <1>2 DEF Sized

(* The lines of a file that a listing ends.                                *)
IsClosed(c, f, S) ==
  /\ c \in Seq(FileLine) /\ Len(c) = Len(f)
  /\ \A i \in 1..Len(f) :
       c[i] = IF \E j \in (i + 1)..Len(f) : j \in S THEN WithNewline(f[i]) ELSE f[i]

LEMMA ClosedIsClosed ==
  ASSUME NEW f \in Seq(FileLine), NEW S
  PROVE  IsClosed(Closed(f, S), f, S)
BY ClosedIs, Zenon DEF IsClosed

LEMMA ClosedLine ==
  ASSUME NEW c, NEW f, NEW S, IsClosed(c, f, S), NEW i \in 1..Len(f)
  PROVE  /\ (\E j \in (i + 1)..Len(f) : j \in S) => c[i] = WithNewline(f[i])
         /\ ~(\E j \in (i + 1)..Len(f) : j \in S) => c[i] = f[i]
<1> DEFINE later == \E j \in (i + 1)..Len(f) : j \in S
<1>1. c[i] = IF later THEN WithNewline(f[i]) ELSE f[i]
  BY DEF IsClosed
<1> HIDE DEF later
<1>2. later => c[i] = WithNewline(f[i])
  BY <1>1
<1>3. ~later => c[i] = f[i]
  BY <1>1
<1>4. QED
  BY <1>2, <1>3 DEF later

(* A line of a file carries the marker of the body line it stands for.     *)
LEMMA FileLineAt ==
  ASSUME NEW lines \in Seq(Line), NEW i \in 1..Len(lines)
  PROVE  /\ FileLines(lines)[i] \in FileLine
         /\ FileLines(lines)[i].nonl = lines[i].nonl
         /\ ~lines[i].nonl => WithNewline(FileLines(lines)[i]) = FileLines(lines)[i]
<1> DEFINE l == FileLines(lines)[i]
<1>1. FileLines(lines) \in Seq(FileLine) /\ Len(FileLines(lines)) = Len(lines)
      /\ l = [text |-> lines[i].text, nonl |-> lines[i].nonl]
  BY FileLinesAre
<1>2. l \in FileLine
  BY <1>1
<1>3. l.nonl = lines[i].nonl
  BY <1>1
<1> HIDE DEF l
<1>4. ~lines[i].nonl => WithNewline(l) = l
  BY <1>2, <1>3, NewlineIs
<1>5. QED
  BY <1>2, <1>3, <1>4 DEF l

(* The same line stands for the same body line.                            *)
LEMMA SameFileLine ==
  ASSUME NEW lines \in Seq(Line), NEW ms \in Seq(Line),
         NEW i \in 1..Len(lines), NEW j \in 1..Len(ms), lines[i] = ms[j]
  PROVE  FileLines(lines)[i] = FileLines(ms)[j]
BY DEF FileLines

(* Nothing the old file has stands below a marked old line.                *)
LEMMA MarkedOldIsLast ==
  ASSUME NEW full \in Seq(Line), WellMarked(full), NEW i \in 1..Len(full),
         full[i].nonl, full[i].kind \in OldSide, NEW j \in (i + 1)..Len(full)
  PROVE  full[j].kind \notin OldSide
<1> DEFINE from == i + 1
<1>1. from \in Int /\ Len(full) \in Int /\ j \in from..Len(full) /\ i \in DOMAIN full
  OBVIOUS
<1>2. full[i].kind \in {"ctx", "del"} /\ full[j].kind \in Kinds
  <2>1. full[j] \in Line
    OBVIOUS
  <2>2. QED
    BY <2>1 DEF OldSide, Line
<1>3. \/ full[i].kind = "ctx" /\ ~(CountIn(full, Kinds, from, Len(full)) > 0)
      \/ full[i].kind = "del" /\ ~(CountIn(full, OldSide, from, Len(full)) > 0)
  BY <1>1, <1>2 DEF WellMarked
<1> HIDE DEF from
<1>4. CASE ~(CountIn(full, Kinds, from, Len(full)) > 0)
  BY <1>1, <1>2, <1>4, CountInPositive
<1>5. CASE ~(CountIn(full, OldSide, from, Len(full)) > 0)
  BY <1>1, <1>5, CountInPositive
<1>6. QED
  BY <1>3, <1>4, <1>5

Unmarked(full, f) == \A i \in 1..f : ~full[i].nonl

\* nothing the old file has stands below a mark that is above line `to` + 1
Sealed(full, to) ==
  \A i \in 1..to : full[i].nonl => \A j \in (to + 1)..Len(full) : full[j].kind \notin OldSide

LEMMA FileStep ==
  ASSUME NEW full, NEW f, NEW ls, NEW to, NEW X, NEW P, NEW X2,
         Placed(full, f, ls, to), Adds(full, f, ls, X, P, X2),
         WellMarked(full), Sealed(full, to), Unmarked(full, f)
  PROVE  \E A, C : /\ A \in Seq(FileLine) /\ C \in Seq(FileLine)
                   /\ FileWith(full, X) = Join(Join(A, SideOf(ls, OldSide)), C)
                   /\ FileWith(full, X2) = Join(Join(A, FileWith(ls, P)), C)
                   /\ Len(FileWith(full, X)) = Len(A) + CountIn(full, OldSide, f + 1, Len(full))
<1> DEFINE n == Len(ls)
           N == Len(full)
           F == FileLines(full)
           G == FileLines(ls)
           S1 == Staying(full, X)
           S2 == Staying(full, X2)
           SP == Staying(ls, P)
           c1 == Closed(F, S1)
           c2 == Closed(F, S2)
           cP == Closed(G, SP)
<1>0. full \in Seq(Line) /\ ls \in Seq(Line) /\ f \in Nat /\ to \in Nat
  BY DEF Placed
<1>1. /\ n \in Nat /\ N \in Nat /\ to \in Nat /\ f \in Nat /\ f <= to /\ to <= N /\ f <= N
      /\ 0 \in Nat /\ 0 <= f /\ 0 <= to /\ 0 <= N /\ 0 <= n /\ to = f + n
  BY DEF Placed
<1>2. /\ F \in Seq(FileLine) /\ Len(F) = N
      /\ G \in Seq(FileLine) /\ Len(G) = n
  BY <1>0, FileLinesAre
<1>3. /\ \A i \in 1..f : i \in S1 <=> i \in S2
      /\ \A i \in (f + 1)..N : i \in S1 <=> i \in Side(full, OldSide)
      /\ \A i \in 1..n : f + i \in S2 <=> i \in SP
      /\ \A i \in (to + 1)..N : i \in S2 <=> i \in Side(full, OldSide)
  <2>1. StaysAround(full, f, ls, to, X, P, X2)
    BY StayingAround
  <2>2. QED
    BY <2>1, Zenon DEF StaysAround
<1>4. IsClosed(c1, F, S1) /\ IsClosed(c2, F, S2) /\ IsClosed(cP, G, SP)
  <2> HIDE DEF F, G, S1, S2, SP
  <2>1. QED
    BY <1>2, ClosedIsClosed
<1>5. /\ c1 \in Seq(FileLine) /\ Len(c1) = N
      /\ c2 \in Seq(FileLine) /\ Len(c2) = N
      /\ cP \in Seq(FileLine) /\ Len(cP) = n
  <2> HIDE DEF c1, c2, cP, F, G, N, n
  <2>1. QED
    BY <1>2, <1>4 DEF IsClosed
<1>6. /\ \A i \in 1..N : ~full[i].nonl => WithNewline(F[i]) = F[i]
      /\ \A i \in 1..n : f + i \in 1..N /\ f + i \in (f + 1)..N /\ F[f + i] = G[i] /\ ls[i] = full[f + i]
  <2>1. \A i \in 1..N : ~full[i].nonl => WithNewline(F[i]) = F[i]
    BY <1>0, FileLineAt
  <2>2. ASSUME NEW i \in 1..n
        PROVE  f + i \in 1..N /\ f + i \in (f + 1)..N /\ F[f + i] = G[i] /\ ls[i] = full[f + i]
    <3>1. ls[i] = full[f + i]
      BY DEF Placed, Within
    <3>2. f + i \in 1..N /\ f + i \in (f + 1)..N
      <4> HIDE DEF N, n
      <4>1. QED
        BY <1>1
    <3>3. F[f + i] = G[i]
      BY <1>0, <3>1, <3>2, SameFileLine
    <3>4. QED
      BY <3>1, <3>2, <3>3
  <2>3. QED
    BY <2>1, <2>2
<1>7. /\ FileWith(full, X) = Listing(c1, S1, 0, N)
      /\ FileWith(full, X2) = Listing(c2, S2, 0, N)
      /\ FileWith(ls, P) = Listing(cP, SP, 0, n)
  <2>1. Ended(Listing(F, S1, 0, Len(F))) = Listing(c1, S1, 0, Len(F))
    BY <1>2, EndedListing
  <2>2. Ended(Listing(F, S2, 0, Len(F))) = Listing(c2, S2, 0, Len(F))
    BY <1>2, EndedListing
  <2>3. Ended(Listing(G, SP, 0, Len(G))) = Listing(cP, SP, 0, Len(G))
    BY <1>2, EndedListing
  <2>4. Len(F) = N /\ Len(G) = n
    BY <1>2
  <2>5. QED
    BY <2>1, <2>2, <2>3, <2>4, Zenon DEF FileWith, F, G, S1, S2, SP, N, n
<1> DEFINE A == Listing(c1, S1, 0, f)
           M == Listing(c1, S1, f, to)
           C == Listing(c1, S1, to, N)
           M2 == Listing(c2, S2, f, to)
<1> HIDE DEF n, N, F, G, S1, S2, SP, c1, c2, cP
<1>8. /\ Listed(c1, 0, f) /\ Listed(c1, f, to) /\ Listed(c1, to, N) /\ Listed(c1, f, N)
      /\ Listed(c2, 0, f) /\ Listed(c2, f, to) /\ Listed(c2, to, N) /\ Listed(cP, 0, n)
      /\ Listed(G, 0, n)
  BY <1>1, <1>2, <1>5 DEF Listed
<1>9. Listing(c1, S1, 0, N) = Join(Join(A, M), C)
  <2>1. Listing(c1, S1, 0, N) = Join(Listing(c1, S1, 0, to), Listing(c1, S1, to, N))
    BY <1>1, <1>5, ListingJoins
  <2>2. Listing(c1, S1, 0, to) = Join(Listing(c1, S1, 0, f), Listing(c1, S1, f, to))
    BY <1>1, <1>5, ListingJoins
  <2>3. QED
    BY <2>1, <2>2
<1>10. Listing(c2, S2, 0, N) = Join(Join(A, M2), C)
  <2>1. Listing(c2, S2, 0, N) = Join(Listing(c2, S2, 0, to), Listing(c2, S2, to, N))
    BY <1>1, <1>5, ListingJoins
  <2>2. Listing(c2, S2, 0, to) = Join(Listing(c2, S2, 0, f), Listing(c2, S2, f, to))
    BY <1>1, <1>5, ListingJoins
  <2>3. Listing(c1, S1, 0, f) = Listing(c2, S2, 0, f)
    <3>1. ASSUME NEW i \in (0 + 1)..f
          PROVE  (i \in S1 <=> 0 + i \in S2) /\ (i \in S1 => c1[i] = c2[0 + i])
      <4>1. i \in 1..f /\ i \in 1..N /\ 0 + i = i
        BY <1>1
      <4>2. WithNewline(F[i]) = F[i]
        BY <4>1, <1>6 DEF Unmarked
      <4>3. c1[i] = F[i] /\ c2[i] = F[i]
        <5>1. i \in 1..Len(F)
          BY <4>1, <1>2
        <5>2. QED
          BY <5>1, <4>2, <1>4, ClosedLine
      <4>4. QED
        BY <4>1, <4>3, <1>3
    <3>2. Agree(c1, S1, c2, S2, 0, f, 0)
      BY <3>1, Zenon DEF Agree
    <3>3. QED
      BY <3>2, <1>8, ListingSame
  <2>4. Listing(c1, S1, to, N) = Listing(c2, S2, to, N)
    <3>1. ASSUME NEW i \in (to + 1)..N
          PROVE  (i \in S1 <=> 0 + i \in S2) /\ (i \in S1 => c1[i] = c2[0 + i])
      <4>1. i \in 1..N /\ i \in (f + 1)..N /\ i \in 1..Len(F) /\ 0 + i = i /\ Len(F) = N
        BY <1>1, <1>2
      <4>2. \A j \in (i + 1)..N : j \in S1 <=> j \in S2
        <5>1. TAKE j \in (i + 1)..N
        <5>2. j \in (f + 1)..N /\ j \in (to + 1)..N
          BY <1>1, <4>1
        <5>3. QED
          BY <5>2, <1>3
      <4>3. (\E j \in (i + 1)..Len(F) : j \in S1) <=> (\E j \in (i + 1)..Len(F) : j \in S2)
        BY <4>1, <4>2
      <4>4. c1[i] = c2[i]
        BY <4>1, <4>3, <1>4, ClosedLine
      <4>5. i \in S1 <=> i \in S2
        BY <4>1, <1>3
      <4>6. QED
        BY <4>1, <4>4, <4>5
    <3>2. Agree(c1, S1, c2, S2, to, N, 0)
      BY <3>1, Zenon DEF Agree
    <3>3. QED
      BY <3>2, <1>8, ListingSame
  <2>5. QED
    BY <2>1, <2>2, <2>3, <2>4
<1>11. \A i \in 1..n : /\ i \in Side(ls, OldSide) <=> ls[i].kind \in OldSide
                       /\ f + i \in Side(full, OldSide) <=> ls[i].kind \in OldSide
                       /\ f + i \in (f + 1)..N /\ f + i \in 1..N
  <2>1. TAKE i \in 1..n
  <2>2. f + i \in (f + 1)..N /\ f + i \in 1..N
    BY <1>6
  <2>3. ls[i] = full[f + i]
    BY <1>6
  <2>4. i \in Side(ls, OldSide) <=> ls[i].kind \in OldSide
    BY <1>0, StayingIs DEF n
  <2>5. f + i \in Side(full, OldSide) <=> full[f + i].kind \in OldSide
    BY <1>0, <2>2, StayingIs DEF N
  <2>6. QED
    BY <2>2, <2>3, <2>4, <2>5
<1>12. \A i, j \in 1..N : full[i].nonl /\ full[i].kind \in OldSide /\ j > i
                            => j \notin Side(full, OldSide)
  <2>1. TAKE i, j \in 1..N
  <2>2. HAVE full[i].nonl /\ full[i].kind \in OldSide /\ j > i
  <2>3. j \in (i + 1)..N
    BY <2>2, <1>1
  <2>4. full[j].kind \notin OldSide
    BY <1>0, <2>2, <2>3, MarkedOldIsLast DEF N
  <2>5. QED
    BY <1>0, <2>4, StayingIs DEF N
<1>13. M = SideOf(ls, OldSide)
  <2>1. ASSUME NEW i \in 1..n
        PROVE  /\ i \in Side(ls, OldSide) <=> f + i \in S1
               /\ i \in Side(ls, OldSide) => G[i] = c1[f + i]
    <3>1. i \in Side(ls, OldSide) <=> f + i \in S1
      BY <1>3, <1>11
    <3>2. ASSUME i \in Side(ls, OldSide)
          PROVE  G[i] = c1[f + i]
      <4>1. full[f + i].kind \in OldSide /\ f + i \in 1..N /\ f + i \in (f + 1)..N
        BY <3>2, <1>6, <1>11
      <4>2. CASE full[f + i].nonl
        <5>1. ~ \E j \in ((f + i) + 1)..N : j \in S1
          <6>1. SUFFICES ASSUME NEW j \in ((f + i) + 1)..N PROVE j \notin S1
            OBVIOUS
          <6>2. j \in 1..N /\ j \in (f + 1)..N /\ j > f + i
            BY <4>1, <1>1
          <6>3. QED
            BY <6>2, <4>1, <4>2, <1>3, <1>12
        <5>2. f + i \in 1..Len(F) /\ Len(F) = N
          BY <4>1, <1>2
        <5>3. QED
          BY <5>1, <5>2, <1>4, <1>6, ClosedLine
      <4>3. CASE ~full[f + i].nonl
        <5>1. f + i \in 1..Len(F) /\ WithNewline(F[f + i]) = F[f + i]
          BY <4>1, <4>3, <1>2, <1>6
        <5>2. QED
          BY <5>1, <1>4, <1>6, ClosedLine
      <4>4. QED
        BY <4>2, <4>3
    <3>3. QED
      BY <3>1, <3>2
  <2>2. Listing(G, Side(ls, OldSide), 0, n) = Listing(c1, S1, f, to)
    <3>1. Agree(G, Side(ls, OldSide), c1, S1, 0, n, f)
      BY <2>1 DEF Agree
    <3>2. QED
      BY <3>1, <1>1, <1>8, ListingMoves
  <2>3. QED
    BY <2>2 DEF SideOf, G, n
<1>14. M2 = FileWith(ls, P)
  <2>1. ASSUME NEW i \in 1..n
        PROVE  /\ i \in SP <=> f + i \in S2
               /\ i \in SP => cP[i] = c2[f + i]
    <3>1. i \in SP <=> f + i \in S2
      BY <1>3
    <3>2. f + i \in 1..N /\ f + i \in (f + 1)..N /\ F[f + i] = G[i]
      BY <1>6, <1>11
    <3>3. ASSUME NEW j \in (i + 1)..n, j \in SP
          PROVE  cP[i] = c2[f + i]
      <4>1. j \in 1..n /\ f + j \in ((f + i) + 1)..N
        BY <1>1
      <4>0. f + i \in 1..Len(F) /\ Len(F) = N /\ i \in 1..Len(G) /\ Len(G) = n
        BY <3>2, <1>2
      <4>2. f + j \in S2
        BY <4>1, <3>3, <1>3
      <4>3. cP[i] = WithNewline(G[i])
        BY <3>3, <4>0, <1>4, ClosedLine
      <4>4. c2[f + i] = WithNewline(F[f + i])
        BY <4>0, <4>1, <4>2, <1>4, ClosedLine
      <4>5. QED
        BY <4>3, <4>4, <3>2
    <3>4. ASSUME ~ \E j \in (i + 1)..n : j \in SP, i \in SP
          PROVE  cP[i] = c2[f + i]
      <4>0. f + i \in 1..Len(F) /\ Len(F) = N /\ i \in 1..Len(G) /\ Len(G) = n
        BY <3>2, <1>2
      <4>1. cP[i] = G[i]
        BY <3>4, <4>0, <1>4, ClosedLine
      <4>2. c2[f + i] = F[f + i]
        <5>1. CASE ~full[f + i].nonl
          BY <5>1, <4>0, <3>2, <1>4, <1>6, ClosedLine
        <5>2. CASE full[f + i].nonl
          <6>1. SUFFICES ASSUME NEW j \in ((f + i) + 1)..N, j \in S2 PROVE FALSE
            BY <4>0, <1>4, ClosedLine
          <6>2. j \in 1..N /\ j > f + i
            BY <1>1, <3>2
          <6>6. CASE j > to
            <7>1. j \in (to + 1)..N /\ f + i \in 1..to
              BY <6>6, <6>2, <3>2, <1>1
            <7>2. full[j].kind \notin OldSide
              BY <7>1, <5>2 DEF Sealed, N
            <7>3. j \notin Side(full, OldSide)
              BY <1>0, <6>2, <7>2, StayingIs DEF N
            <7>4. QED
              BY <7>1, <7>3, <6>1, <1>3
          <6>7. CASE ~(j > to)
            <7>1. j - f \in (i + 1)..n /\ j - f \in 1..n /\ f + (j - f) = j
              BY <6>7, <6>2, <1>1
            <7>2. j - f \in SP
              BY <7>1, <6>1, <1>3
            <7>3. QED
              BY <7>1, <7>2, <3>4
          <6>8. QED
            BY <6>6, <6>7
        <5>3. QED
          BY <5>1, <5>2
      <4>3. QED
        BY <4>1, <4>2, <3>2
    <3>5. QED
      BY <3>1, <3>3, <3>4
  <2>2. Listing(cP, SP, 0, n) = Listing(c2, S2, f, to)
    <3>1. Agree(cP, SP, c2, S2, 0, n, f)
      BY <2>1 DEF Agree
    <3>2. QED
      BY <3>1, <1>1, <1>8, ListingMoves
  <2>3. QED
    BY <2>2, <1>7
<1>15. Len(Listing(c1, S1, 0, N)) = Len(A) + CountIn(full, OldSide, f + 1, N)
  <2> DEFINE R == Listing(c1, S1, f, N)
             from == f + 1
             cnt == CountIn(full, OldSide, from, N)
  <2>1. Listing(c1, S1, 0, N) = Join(A, R)
    BY <1>1, <1>5, ListingJoins
  <2>2. R \in Seq(FileLine) /\ A \in Seq(FileLine)
    BY <1>1, <1>5, ListingType
  <2>3. OfKinds(S1, full, OldSide, f, N)
    <3>1. \A i \in (f + 1)..N : i \in S1 <=> full[i].kind \in OldSide
      <4>1. TAKE i \in (f + 1)..N
      <4>2. i \in 1..N
        BY <1>1
      <4>3. i \in Side(full, OldSide) <=> full[i].kind \in OldSide
        BY <1>0, <4>2, StayingIs DEF N
      <4>4. QED
        BY <4>3, <1>3
    <3>2. QED
      BY <3>1 DEF OfKinds
  <2>4. Sized(R, cnt)
    <3>1. from = f + 1
      OBVIOUS
    <3> HIDE DEF from
    <3>2. QED
      BY <3>1, <2>3, <1>8, ListingSized
  <2> HIDE DEF A, R, cnt
  <2>5. Len(R) = cnt
    BY <2>4 DEF Sized
  <2>6. Len(Join(A, R)) = Len(A) + Len(R)
    BY <2>2, JoinIs
  <2>7. Len(Listing(c1, S1, 0, N)) = Len(A) + cnt
    BY <2>1, <2>5, <2>6
  <2>8. QED
    BY <2>7 DEF cnt
<1>16. A \in Seq(FileLine) /\ C \in Seq(FileLine)
  BY <1>1, <1>5, ListingType
<1> HIDE DEF A, M, C, M2
<1>17. /\ FileWith(full, X) = Join(Join(A, SideOf(ls, OldSide)), C)
       /\ FileWith(full, X2) = Join(Join(A, FileWith(ls, P)), C)
  BY <1>7, <1>9, <1>10, <1>13, <1>14
<1>18. Len(FileWith(full, X)) = Len(A) + CountIn(full, OldSide, f + 1, Len(full))
  BY <1>7, <1>15 DEF N
<1>19. QED
  BY <1>16, <1>17, <1>18, Zenon


(* A listing none of whose lines but the last is marked is ended already.  *)
LEMMA EndedAlready ==
  ASSUME NEW ls \in Seq(Line), NEW S,
         \A i, j \in 1..Len(ls) : i \in S /\ j \in S /\ i < j => ~ls[i].nonl
  PROVE  Ended(Listing(FileLines(ls), S, 0, Len(ls))) = Listing(FileLines(ls), S, 0, Len(ls))
<1> DEFINE F == FileLines(ls)
           n == Len(ls)
           c == Closed(F, S)
<1>1. F \in Seq(FileLine) /\ Len(F) = n /\ n \in Nat /\ n = Len(F)
  BY FileLinesAre
<1>2. Ended(Listing(F, S, 0, Len(F))) = Listing(c, S, 0, Len(F))
  BY <1>1, EndedListing
<1>3. IsClosed(c, F, S)
  <2> HIDE DEF F
  <2>1. QED
    BY <1>1, ClosedIsClosed
<1>4. \A i \in 1..n : ~ls[i].nonl => WithNewline(F[i]) = F[i]
  BY FileLineAt
<1>4a. \A i, j \in 1..n : i \in S /\ j \in S /\ i < j => ~ls[i].nonl
  OBVIOUS
<1> HIDE DEF F, n, c
<1>5. Agree(c, S, F, S, 0, n, 0)
  <2>1. ASSUME NEW i \in (0 + 1)..n
        PROVE  (i \in S <=> 0 + i \in S) /\ (i \in S => c[i] = F[0 + i])
    <3>1. i \in 1..n /\ 0 + i = i /\ i \in 1..Len(F) /\ Len(F) = n
      BY <1>1
    <3>2. ASSUME i \in S
          PROVE  c[i] = F[i]
      <4>1. CASE \E j \in (i + 1)..Len(F) : j \in S
        <5>1. PICK j \in (i + 1)..Len(F) : j \in S
          BY <4>1
        <5>2. j \in 1..n /\ i < j
          BY <5>1, <3>1, <1>1
        <5>3. WithNewline(F[i]) = F[i]
          BY <3>1, <3>2, <5>1, <5>2, <1>4, <1>4a
        <5>4. QED
          BY <4>1, <5>3, <3>1, <1>3, ClosedLine
      <4>2. CASE ~ \E j \in (i + 1)..Len(F) : j \in S
        BY <4>2, <3>1, <1>3, ClosedLine
      <4>3. QED
        BY <4>1, <4>2
    <3>3. QED
      BY <3>1, <3>2
  <2>2. QED
    BY <2>1, Zenon DEF Agree
<1>6. Listed(c, 0, n) /\ Listed(F, 0, n)
  <2>1. c \in Seq(FileLine) /\ Len(c) = Len(F)
    BY <1>3 DEF IsClosed
  <2>2. QED
    BY <2>1, <1>1 DEF Listed
<1>7. Listing(c, S, 0, n) = Listing(F, S, 0, n)
  BY <1>5, <1>6, ListingSame
<1>8. QED
  BY <1>1, <1>2, <1>7 DEF F, n

(* With none of its changes made a diff gives the old file, with all of    *)
(* them the new side.                                                      *)
LEMMA FileWithNone ==
  ASSUME NEW full \in Seq(Line), WellMarked(full)
  PROVE  FileWith(full, {}) = OldFile(full)
<1> DEFINE F == FileLines(full)
           n == Len(full)
           S == Staying(full, {})
           T == Side(full, OldSide)
<1>1. F \in Seq(FileLine) /\ Len(F) = n /\ n \in Nat
  BY FileLinesAre
<1>2. \A i \in 1..n : (i \in S <=> i \in T) /\ (i \in T <=> full[i].kind \in OldSide)
  <2>1. TAKE i \in 1..n
  <2>2. "ctx" \in OldSide /\ "del" \in OldSide /\ "add" \notin OldSide
    BY DEF OldSide
  <2>3. QED
    BY <2>2, StayingIs
<1> HIDE DEF F, S, T
<1>3. Ended(Listing(F, S, 0, n)) = Listing(F, S, 0, n)
  <2>1. \A i, j \in 1..n : i \in S /\ j \in S /\ i < j => ~full[i].nonl
    <3>1. TAKE i, j \in 1..n
    <3>2. HAVE i \in S /\ j \in S /\ i < j
    <3>3. j \in (i + 1)..n /\ full[i].kind \in OldSide /\ full[j].kind \in OldSide
      BY <3>2, <1>1, <1>2
    <3>4. QED
      BY <3>3, MarkedOldIsLast
  <2>2. QED
    BY <2>1, EndedAlready, Zenon DEF F
<1> HIDE DEF n
<1>4. Listing(F, S, 0, n) = Listing(F, T, 0, n)
  <2>1. Agree(F, S, F, T, 0, n, 0)
    <3>1. \A i \in (0 + 1)..n : i \in 1..n /\ 0 + i = i
      BY <1>1
    <3>2. QED
      BY <3>1, <1>2 DEF Agree
  <2>2. Listed(F, 0, n)
    BY <1>1 DEF Listed
  <2>3. QED
    BY <2>1, <2>2, ListingSame
<1>5. FileWith(full, {}) = Listing(F, T, 0, n)
  BY <1>3, <1>4 DEF FileWith, F, S, n
<1>6. QED
  BY <1>5, Zenon DEF OldFile, SideOf, F, T, n

(* Nothing the new file has stands below a marked new line.                *)
LEMMA MarkedNewIsLast ==
  ASSUME NEW full \in Seq(Line), WellMarked(full), NEW i \in 1..Len(full),
         full[i].nonl, full[i].kind \in NewSide, NEW j \in (i + 1)..Len(full)
  PROVE  full[j].kind \notin NewSide
<1> DEFINE from == i + 1
<1>1. from \in Int /\ Len(full) \in Int /\ j \in from..Len(full) /\ i \in DOMAIN full
  OBVIOUS
<1>2. full[i].kind \in {"ctx", "add"} /\ full[j].kind \in Kinds
  <2>1. full[j] \in Line
    OBVIOUS
  <2>2. QED
    BY <2>1 DEF NewSide, Line
<1>3. \/ full[i].kind = "ctx" /\ ~(CountIn(full, Kinds, from, Len(full)) > 0)
      \/ full[i].kind = "add" /\ ~(CountIn(full, NewSide, from, Len(full)) > 0)
  BY <1>1, <1>2 DEF WellMarked
<1> HIDE DEF from
<1>4. CASE ~(CountIn(full, Kinds, from, Len(full)) > 0)
  BY <1>1, <1>2, <1>4, CountInPositive
<1>5. CASE ~(CountIn(full, NewSide, from, Len(full)) > 0)
  BY <1>1, <1>5, CountInPositive
<1>6. QED
  BY <1>3, <1>4, <1>5

LEMMA FileWithAll ==
  ASSUME NEW full, NEW f, NEW ls, NEW to, Placed(full, f, ls, to), WellMarked(full)
  PROVE  FileWith(ls, 1..Count(ls, Changes)) = SideOf(ls, NewSide)
<1> DEFINE F == FileLines(ls)
           n == Len(ls)
           all == 1..Count(ls, Changes)
           S == Staying(ls, all)
           T == Side(ls, NewSide)
           N(i) == CountIn(ls, Changes, 1, i)
<1>0. /\ full \in Seq(Line) /\ ls \in Seq(Line) /\ f \in Nat /\ n \in Nat
      /\ f + n <= Len(full)
      /\ \A i \in 1..n : ls[i] = full[f + i]
  BY DEF Placed, Within
<1>1. F \in Seq(FileLine) /\ Len(F) = n /\ n \in Nat
  BY <1>0, FileLinesAre
<1>2. \A i \in 1..n : ls[i].kind \in Changes => N(i) \in all
  <2>1. TAKE i \in 1..n
  <2>2. HAVE ls[i].kind \in Changes
  <2>3. i \in Nat \ {0} /\ i \in Nat /\ i <= i + 1 /\ i <= Len(ls)
    BY <1>0
  <2>4. N(i) <= Count(ls, Changes) /\ N(i) \in Nat /\ Count(ls, Changes) \in Nat
    BY <1>0, <2>3, CountInBounds
  <2>5. N(i) > 0
    <3>1. 1 \in Int /\ i \in Int /\ i \in 1..i
      BY <2>3
    <3>2. QED
      BY <2>2, <3>1, CountInPositive
  <2> HIDE DEF N
  <2>6. QED
    BY <2>4, <2>5
<1>3. \A i \in 1..n : (i \in S <=> i \in T) /\ (i \in T <=> ls[i].kind \in NewSide)
  <2>1. TAKE i \in 1..n
  <2>2. /\ "ctx" \in NewSide /\ "add" \in NewSide /\ "del" \notin NewSide
        /\ "del" \in Changes /\ "add" \in Changes
    BY DEF NewSide, Changes
  <2>3. ls[i].kind \in Changes => N(i) \in all
    BY <1>2
  <2>4. ls \in Seq(Line) /\ i \in 1..Len(ls)
    BY <1>0
  <2> HIDE DEF all
  <2>5. /\ i \in T <=> ls[i].kind \in NewSide
        /\ ls[i].kind = "ctx" => i \in S
        /\ ls[i].kind = "del" => (i \in S <=> N(i) \notin all)
        /\ ls[i].kind = "add" => (i \in S <=> N(i) \in all)
        /\ ls[i].kind \in {"ctx", "add", "del"}
    BY <2>4, StayingIs
  <2> HIDE DEF S, T, N
  <2>6. QED
    BY <2>2, <2>3, <2>5
<1> HIDE DEF F, S, T, all, n
<1>4. Ended(Listing(F, S, 0, n)) = Listing(F, S, 0, n)
  <2>1. \A i, j \in 1..n : i \in S /\ j \in S /\ i < j => ~ls[i].nonl
    <3>1. TAKE i, j \in 1..n
    <3>2. HAVE i \in S /\ j \in S /\ i < j
    <3> DEFINE p == f + i
               q == f + j
    <3>3. p \in 1..Len(full) /\ q \in (p + 1)..Len(full)
      BY <3>2, <1>0, <1>1
    <3>4. full[p].kind \in NewSide /\ full[q].kind \in NewSide /\ full[p] = ls[i]
      BY <3>2, <1>0, <1>3
    <3> HIDE DEF p, q
    <3>5. ~full[p].nonl
      BY <1>0, <3>3, <3>4, MarkedNewIsLast
    <3>6. QED
      BY <3>4, <3>5
  <2>2. QED
    BY <1>0, <2>1, EndedAlready, Zenon DEF F, n
<1>5. Listing(F, S, 0, n) = Listing(F, T, 0, n)
  <2>1. Agree(F, S, F, T, 0, n, 0)
    <3>1. \A i \in (0 + 1)..n : i \in 1..n /\ 0 + i = i
      BY <1>1
    <3>2. QED
      BY <3>1, <1>3 DEF Agree
  <2>2. Listed(F, 0, n)
    BY <1>1 DEF Listed
  <2>3. QED
    BY <2>1, <2>2, ListingSame
<1>6. FileWith(ls, all) = Listing(F, T, 0, n)
  BY <1>4, <1>5 DEF FileWith, F, S, n
<1>7. QED
  BY <1>6, Zenon DEF SideOf, F, T, n, all


Slice(s, from, to) == SubSeq(s, from, to)

\* s holds t below its line a, in its lines from..to
Holds(s, t, a, from, to) ==
  /\ s \in Seq(FileLine) /\ t \in Seq(FileLine) /\ from \in Int /\ to \in Int
  /\ a \in Nat /\ from = a + 1 /\ to = a + Len(t) /\ to <= Len(s)
  /\ \A i \in 1..Len(t) : s[a + i] = t[i]

LEMMA SliceIs ==
  ASSUME NEW s, NEW t, NEW from, NEW to, NEW a, Holds(s, t, a, from, to)
  PROVE  Slice(s, from, to) = t
<1> USE DEF Holds
<1> DEFINE r == SubSeq(s, from, to)
<1>1. \A i \in from..to : s[i] \in FileLine
  OBVIOUS
<1>2. /\ r \in Seq(FileLine)
      /\ Len(r) = IF from <= to THEN to - from + 1 ELSE 0
      /\ \A i \in 1..(to - from + 1) : r[i] = s[from + i - 1]
  <2>1. from \in Int /\ to \in Int
    OBVIOUS
  <2>2. QED
    BY <1>1, <2>1, SubSeqProperties
<1> HIDE DEF r
<1>3. Len(r) = Len(t)
  BY <1>2
<1>4. ASSUME NEW i \in 1..Len(t)
      PROVE  r[i] = t[i]
  <2>1. i \in 1..(to - from + 1) /\ from + i - 1 = a + i
    OBVIOUS
  <2>2. QED
    BY <1>2, <2>1
<1>5. r = t
  BY <1>2, <1>3, <1>4, SeqEqual
<1>6. QED
  BY <1>5 DEF r, Slice

(* A part cut out of the middle of a file, and what it stood between.       *)
LEMMA JoinSlices ==
  ASSUME NEW A \in Seq(FileLine), NEW M \in Seq(FileLine), NEW C \in Seq(FileLine),
         NEW file, file = Join(Join(A, M), C), NEW from \in Int, from = Len(A) + 1,
         NEW to \in Int, to = Len(A) + Len(M), NEW above, above = from - 1,
         NEW below, below = to + 1
  PROVE  /\ file \in Seq(FileLine) /\ Len(file) = Len(A) + Len(M) + Len(C)
         /\ Slice(file, 1, above) = A
         /\ Slice(file, from, to) = M
         /\ Slice(file, below, Len(file)) = C
<1>1. file = (A \o M) \o C
  BY DEF Join
<1>2. file \in Seq(FileLine) /\ Len(file) = Len(A) + Len(M) + Len(C)
  BY <1>1
<1>3. /\ \A i \in 1..Len(A) : file[0 + i] = A[i]
      /\ \A i \in 1..Len(M) : file[Len(A) + i] = M[i]
      /\ \A i \in 1..Len(C) : file[to + i] = C[i]
  BY <1>1
<1>4. /\ Len(A) \in Nat /\ Len(M) \in Nat /\ Len(C) \in Nat
      /\ to \in Nat /\ to <= Len(file) /\ Len(file) = to + Len(C)
      /\ above = 0 + Len(A) /\ above \in Int /\ above <= Len(file)
      /\ below = to + 1 /\ below \in Int /\ Len(file) \in Int /\ 1 = 0 + 1
  BY <1>2
<1>4a. /\ Holds(file, A, 0, 1, above)
       /\ Holds(file, M, Len(A), from, to)
       /\ Holds(file, C, to, below, Len(file))
  BY <1>2, <1>3, <1>4 DEF Holds
<1>5. Slice(file, 1, above) = A
  BY <1>4a, SliceIs
<1>6. Slice(file, from, to) = M
  BY <1>4a, SliceIs
<1>7. Slice(file, below, Len(file)) = C
  BY <1>4a, SliceIs
<1>8. QED
  BY <1>2, <1>5, <1>6, <1>7

LEMMA HunkApplies ==
  ASSUME NEW h, NEW A \in Seq(FileLine), NEW M \in Seq(FileLine), NEW N \in Seq(FileLine),
         NEW C \in Seq(FileLine), NEW file, NEW new,
         file = Join(Join(A, M), C), new = Join(Join(A, N), C), file # Corrupt,
         NewAt(h) = Len(A) + 1, M = SideOf(h.lines, OldSide), N = SideOf(h.lines, NewSide),
         Terminated(new)
  PROVE  ApplyHunk(file, h) = new
<1> DEFINE from == NewAt(h)
           to == from + Len(M) - 1
           above == from - 1
           below == to + 1
<1>1. /\ from \in Int /\ from = Len(A) + 1 /\ to \in Int /\ to = Len(A) + Len(M) /\ from >= 1
      /\ above = from - 1 /\ below = to + 1
  OBVIOUS
<1>2. /\ file \in Seq(FileLine) /\ Len(file) = Len(A) + Len(M) + Len(C)
      /\ Slice(file, 1, above) = A
      /\ Slice(file, from, to) = M
      /\ Slice(file, below, Len(file)) = C
  <2> HIDE DEF from, to, above, below
  <2>1. QED
    BY <1>1, JoinSlices
<1>3. to <= Len(file)
  <2>1. Len(C) \in Nat
    OBVIOUS
  <2> HIDE DEF to
  <2>2. QED
    BY <1>1, <1>2, <2>1
<1> HIDE DEF from
<1>4. ApplyHunk(file, h) =
        IF file # Corrupt /\ from >= 1 /\ to <= Len(file) /\ M = M /\ Terminated(Join(Join(A, N), C))
        THEN Join(Join(A, N), C) ELSE Corrupt
  BY <1>2, Zenon DEF ApplyHunk, from, to, above, below, Join, Slice
<1>5. QED
  BY <1>1, <1>3, <1>4, Zenon

-----------------------------------------------------------------------------
Applies(g, file, hs) ==
  g = [m \in 0..Len(hs) |-> IF m = 0 THEN file ELSE ApplyHunk(g[m - 1], hs[m])]

LEMMA ApplyHunkType ==
  ASSUME NEW file, file \in Seq(FileLine) \/ file = Corrupt, NEW h \in Hunk
  PROVE  ApplyHunk(file, h) \in Seq(FileLine) \/ ApplyHunk(file, h) = Corrupt
<1>1. CASE file = Corrupt
  BY <1>1 DEF ApplyHunk
<1>2. CASE file \in Seq(FileLine)
  <2> DEFINE from == NewAt(h)
             to == from + Len(SideOf(h.lines, OldSide)) - 1
             a == SubSeq(file, 1, from - 1)
             b == SideOf(h.lines, NewSide)
             c == SubSeq(file, to + 1, Len(file))
  <2>1. h.lines \in Seq(Line) /\ h.new_start \in Nat /\ h.new_lines \in Nat
    BY DEF Hunk, U32
  <2>2. from \in Nat
    BY <2>1 DEF NewAt, Anchor
  <2>3. \A side : SideOf(h.lines, side) \in Seq(FileLine)
    <3>1. FileLines(h.lines) \in Seq(FileLine) /\ Len(FileLines(h.lines)) = Len(h.lines)
          /\ Len(h.lines) \in Nat /\ 0 <= Len(h.lines)
      BY <2>1, FileLinesAre
    <3>2. QED
      BY <3>1, ListingType DEF SideOf
  <2>4. b \in Seq(FileLine) /\ Len(SideOf(h.lines, OldSide)) \in Nat
    BY <2>3
  <2>5. to \in Int
    BY <2>2, <2>4
  <2> HIDE DEF from, to, b
  <2>6. a \in Seq(FileLine) \/ ~(from >= 1 /\ to <= Len(file))
    <3>1. ASSUME from >= 1, to <= Len(file)
          PROVE  \A i \in 1..(from - 1) : file[i] \in FileLine
      <4>1. to >= from - 1
        BY <2>2, <2>4 DEF to
      <4>2. QED
        BY <1>2, <2>2, <2>5, <3>1, <4>1
    <3>2. 1 \in Int /\ from - 1 \in Int
      BY <2>2
    <3>3. QED
      BY <3>1, <3>2, SubSeqProperties
  <2>7. c \in Seq(FileLine) \/ ~(from >= 1 /\ to <= Len(file))
    <3>1. ASSUME from >= 1, to <= Len(file)
          PROVE  \A i \in (to + 1)..Len(file) : file[i] \in FileLine
      <4>1. to >= from - 1
        BY <2>2, <2>4 DEF to
      <4>2. QED
        BY <1>2, <2>2, <2>5, <3>1, <4>1
    <3>2. to + 1 \in Int /\ Len(file) \in Int
      BY <1>2, <2>5
    <3>3. QED
      BY <3>1, <3>2, SubSeqProperties
  <2> HIDE DEF a, c
  <2>8. from >= 1 /\ to <= Len(file) => (a \o b) \o c \in Seq(FileLine)
    BY <2>4, <2>6, <2>7
  <2>9. \/ ApplyHunk(file, h) = (a \o b) \o c /\ from >= 1 /\ to <= Len(file)
        \/ ApplyHunk(file, h) = Corrupt
    BY Zenon DEF ApplyHunk, from, to, a, b, c
  <2>10. QED
    BY <2>8, <2>9
<1>3. QED
  BY <1>1, <1>2

LEMMA ApplyExists ==
  ASSUME NEW file \in Seq(FileLine), NEW hs \in Seq(Hunk)
  PROVE  \E g : Applies(g, file, hs) /\ Apply(file, hs) = g[Len(hs)]
<1> DEFINE D == Seq(FileLine) \cup {Corrupt}
           n == Len(hs)
           F == [p \in D \X ((0 + 1)..n) |-> ApplyHunk(p[1], hs[p[2]])]
<1>1. file \in D /\ 0 \in Nat /\ n \in Nat /\ 0 <= n
  OBVIOUS
<1>2. F \in [D \X ((0 + 1)..n) -> D]
  <2>1. ASSUME NEW p \in D \X ((0 + 1)..n)
        PROVE  ApplyHunk(p[1], hs[p[2]]) \in D
    <3>1. p[1] \in D /\ p[2] \in 1..Len(hs) /\ hs[p[2]] \in Hunk
      OBVIOUS
    <3>2. p[1] \in Seq(FileLine) \/ p[1] = Corrupt
      BY <3>1
    <3>3. ApplyHunk(p[1], hs[p[2]]) \in Seq(FileLine) \/ ApplyHunk(p[1], hs[p[2]]) = Corrupt
      BY <3>1, <3>2, ApplyHunkType
    <3>4. QED
      BY <3>3
  <2> HIDE DEF D
  <2>2. QED
    BY <2>1
<1>3. \A q \in D, i \in (0 + 1)..n : F[<<q, i>>] = ApplyHunk(q, hs[i])
  <2> HIDE DEF D
  <2>1. QED
    OBVIOUS
<1> HIDE DEF F, D
<1>4. PICK g : IsWalk(g, D, file, 0, n, F)
  <2> HIDE DEF n
  <2>1. QED
    BY <1>1, <1>2, WalkExists
<1>5. g \in [0..n -> D] /\ g[0] = file /\ \A i \in (0 + 1)..n : g[i] = F[<<g[i - 1], i>>]
  BY <1>4 DEF IsWalk
<1>6. Applies(g, file, hs)
  <2>1. ASSUME NEW m \in 0..n
        PROVE  g[m] = IF m = 0 THEN file ELSE ApplyHunk(g[m - 1], hs[m])
    <3>1. CASE m = 0
      BY <3>1, <1>5
    <3>2. CASE m # 0
      <4>1. m \in (0 + 1)..n /\ m - 1 \in 0..n
        BY <3>2
      <4>2. g[m - 1] \in D
        BY <4>1, <1>5
      <4>3. QED
        BY <4>1, <4>2, <1>3, <1>5, <3>2
    <3>3. QED
      BY <3>1, <3>2
  <2>2. QED
    BY <2>1, <1>5 DEF Applies
<1> DEFINE w == CHOOSE after : Applies(after, file, hs)
<1>7. Applies(w, file, hs)
  BY <1>6
<1>8. Apply(file, hs) = w[n]
  BY DEF Apply, Applies
<1>9. QED
  BY <1>7, <1>8

LEMMA ApplyWalks ==
  ASSUME NEW file \in Seq(FileLine), NEW hs \in Seq(Hunk)
  PROVE  \E g : /\ g[0] = file /\ Apply(file, hs) = g[Len(hs)]
                /\ \A m \in 1..Len(hs) : g[m] = ApplyHunk(g[m - 1], hs[m])
<1>1. PICK g : Applies(g, file, hs) /\ Apply(file, hs) = g[Len(hs)]
  BY ApplyExists
<1>2. \A m \in 0..Len(hs) : g[m] = IF m = 0 THEN file ELSE ApplyHunk(g[m - 1], hs[m])
  BY <1>1 DEF Applies
<1>3. g[0] = file /\ \A m \in 1..Len(hs) : g[m] = ApplyHunk(g[m - 1], hs[m])
  BY <1>2
<1>4. QED
  BY <1>1, <1>3


\* how long a file is after the chosen changes, `grown` lines longer than the old one
Grown(full, X, grown) ==
  Len(FileWith(full, X)) = Len(OldFile(full)) + grown

SideLen(ls, K) == Len(SideOf(ls, K))

(* A side of a body has as many lines as are counted for it.               *)
LEMMA SideSize ==
  ASSUME NEW ls \in Seq(Line), NEW K
  PROVE  SideOf(ls, K) \in Seq(FileLine) /\ SideLen(ls, K) = Count(ls, K)
<1> DEFINE F == FileLines(ls)
           n == Len(ls)
           T == Side(ls, K)
           from == 0 + 1
<1>1. F \in Seq(FileLine) /\ Len(F) = n /\ n \in Nat /\ 0 \in Nat /\ 0 <= n
  BY FileLinesAre
<1>2. OfKinds(T, ls, K, 0, n)
  <2>1. \A i \in (0 + 1)..n : i \in T <=> ls[i].kind \in K
    BY DEF Side
  <2>2. QED
    BY <2>1 DEF OfKinds
<1>3. Listed(F, 0, n)
  BY <1>1 DEF Listed
<1>4. from = 0 + 1 /\ from = 1
  OBVIOUS
<1> HIDE DEF F, T, n, from
<1>5. Sized(Listing(F, T, 0, n), CountIn(ls, K, from, n))
  BY <1>2, <1>3, <1>4, ListingSized
<1>6. Len(Listing(F, T, 0, n)) = CountIn(ls, K, 1, n)
  BY <1>4, <1>5 DEF Sized
<1>7. Listing(F, T, 0, n) \in Seq(FileLine)
  BY <1>1, ListingType
<1>8. QED
  BY <1>6, <1>7, Zenon DEF SideOf, SideLen, Count, F, T, n

FileSize(full, X) == Len(FileWith(full, X))

LEMMA FileWithIs ==
  ASSUME NEW full \in Seq(Line), NEW X
  PROVE  /\ FileWith(full, X) \in Seq(FileLine) /\ FileSize(full, X) \in Nat
         /\ Terminated(FileWith(full, X)) /\ FileWith(full, X) # Corrupt
<1> DEFINE l == Listing(FileLines(full), Staying(full, X), 0, Len(full))
<1>1. l \in Seq(FileLine)
  <2>1. FileLines(full) \in Seq(FileLine) /\ Len(FileLines(full)) = Len(full)
        /\ 0 \in Nat /\ Len(full) \in Nat /\ 0 <= Len(full)
    BY FileLinesAre
  <2>2. QED
    BY <2>1, ListingType
<1>2. FileWith(full, X) = Ended(l)
  BY DEF FileWith
<1> HIDE DEF l
<1>3. QED
  BY <1>1, <1>2, EndedIs DEF FileSize

(* One hunk of the result: it finds its old side where its header says and *)
(* puts its new side there.                                                *)
StepHolds(full, f, ls, to, X, P, X2) ==
  /\ Placed(full, f, ls, to) /\ Adds(full, f, ls, X, P, X2)
  /\ WellMarked(full) /\ Sealed(full, to) /\ Unmarked(full, f)

HunkFits(full, f, ls, h, P, grown) ==
  /\ h \in Hunk /\ grown \in Int
  /\ SideOf(h.lines, OldSide) = SideOf(ls, OldSide)
  /\ SideOf(h.lines, NewSide) = FileWith(ls, P)
  /\ NewAt(h) = CountIn(full, OldSide, 1, f) + 1 + grown

LEMMA StepApplies ==
  ASSUME NEW full, NEW f, NEW ls, NEW to, NEW X, NEW P, NEW X2, NEW h, NEW grown,
         StepHolds(full, f, ls, to, X, P, X2), HunkFits(full, f, ls, h, P, grown),
         Grown(full, X, grown)
  PROVE  /\ ApplyHunk(FileWith(full, X), h) = FileWith(full, X2)
         /\ Grown(full, X2, grown + Net(h.lines))
<1>0. /\ full \in Seq(Line) /\ ls \in Seq(Line) /\ f \in Nat /\ f <= Len(full)
      /\ h.lines \in Seq(Line) /\ grown \in Int
  BY DEF StepHolds, Placed, HunkFits, Hunk
<1>1. PICK A : \E C : /\ A \in Seq(FileLine) /\ C \in Seq(FileLine)
                   /\ FileWith(full, X) = Join(Join(A, SideOf(ls, OldSide)), C)
                   /\ FileWith(full, X2) = Join(Join(A, FileWith(ls, P)), C)
                   /\ Len(FileWith(full, X)) = Len(A) + CountIn(full, OldSide, f + 1, Len(full))
  BY FileStep DEF StepHolds
<1>2. PICK C : /\ A \in Seq(FileLine) /\ C \in Seq(FileLine)
               /\ FileWith(full, X) = Join(Join(A, SideOf(ls, OldSide)), C)
               /\ FileWith(full, X2) = Join(Join(A, FileWith(ls, P)), C)
               /\ Len(FileWith(full, X)) = Len(A) + CountIn(full, OldSide, f + 1, Len(full))
  BY <1>1
<1> DEFINE M == SideOf(h.lines, OldSide)
           N == SideOf(h.lines, NewSide)
           above == CountIn(full, OldSide, 1, f)
           below == CountIn(full, OldSide, f + 1, Len(full))
           file == FileWith(full, X)
           new == FileWith(full, X2)
           old == Len(OldFile(full))
<1>3. /\ A \in Seq(FileLine) /\ C \in Seq(FileLine)
      /\ file = Join(Join(A, M), C) /\ new = Join(Join(A, N), C)
      /\ Len(file) = Len(A) + below
  BY <1>2, Zenon DEF HunkFits
<1>4. M \in Seq(FileLine) /\ N \in Seq(FileLine)
      /\ Len(M) = Count(h.lines, OldSide) /\ Len(N) = Count(h.lines, NewSide)
  BY <1>0, SideSize DEF SideLen
<1>5. Net(h.lines) = Len(N) - Len(M)
  BY <1>0, <1>4, NetIsSideDifference
<1>6. above \in Nat /\ below \in Nat /\ old = above + below
  <2>1. SideLen(full, OldSide) = CountIn(full, OldSide, 1, Len(full))
    BY <1>0, SideSize DEF Count
  <2>2. 1 \in Int /\ f \in Int /\ Len(full) \in Int /\ 1 <= f + 1 /\ f <= Len(full) /\ f + 1 \in Int
    BY <1>0
  <2>3. CountIn(full, OldSide, 1, Len(full)) = above + below
    BY <2>2, CountInSplits
  <2>4. above \in Nat /\ below \in Nat
    BY <2>2, CountInType
  <2>5. old = SideLen(full, OldSide)
    BY DEF SideLen, OldFile
  <2>6. QED
    BY <2>1, <2>3, <2>4, <2>5
<1>7. Len(file) = old + grown /\ NewAt(h) = above + 1 + grown
  BY DEF Grown, HunkFits
<1>8. file # Corrupt /\ Terminated(new)
  BY <1>0, FileWithIs
<1> HIDE DEF M, N, above, below, file, new, old
<1>9. NewAt(h) = Len(A) + 1
  <2>1. Len(A) \in Nat
    BY <1>3
  <2>2. QED
    BY <1>0, <1>3, <1>6, <1>7, <2>1
<1>10. ApplyHunk(file, h) = new
  BY <1>3, <1>4, <1>8, <1>9, HunkApplies DEF M, N
<1>11. Len(file) = Len(A) + Len(M) + Len(C) /\ Len(new) = Len(A) + Len(N) + Len(C)
  <2>1. Join(A, M) \in Seq(FileLine) /\ Len(Join(A, M)) = Len(A) + Len(M)
    BY <1>3, <1>4, JoinIs
  <2>2. Join(A, N) \in Seq(FileLine) /\ Len(Join(A, N)) = Len(A) + Len(N)
    BY <1>3, <1>4, JoinIs
  <2>3. QED
    BY <1>3, <2>1, <2>2, JoinIs
<1>12. Len(new) = old + (grown + Net(h.lines))
  <2>1. Len(A) \in Nat /\ Len(C) \in Nat /\ Len(M) \in Nat /\ Len(N) \in Nat /\ old \in Nat
    BY <1>3, <1>4, <1>6
  <2>2. QED
    BY <1>0, <1>5, <1>7, <1>11, <2>1
<1>13. QED
  BY <1>10, <1>12, Zenon DEF file, new, old, Grown


\* the sub-hunks hold the changes of the diff, cs[j] of them up to number j
Stacked(full, subs, cs) ==
  /\ full \in Seq(Line) /\ WellMarked(full)
  /\ subs \in Seq(Hunk)
  /\ cs[0] = 0
  /\ \A j \in 1..Len(subs) :
       /\ cs[j - 1] \in Nat /\ cs[j] = cs[j - 1] + Count(subs[j].lines, Changes)
       /\ \E f \in 0..Len(full) : /\ Stands(full, subs[j], f, cs[j - 1])
                                  /\ Sealed(full, f + Len(subs[j].lines))

\* hs holds the picked ones, the last of those up to j at ts[j]
Selected(subs, picked, hs, ts) ==
  /\ hs \in Seq(Hunk)
  /\ ts[0] = 0 /\ ts[Len(subs)] = Len(hs)
  /\ \A j \in 1..Len(subs) :
       /\ picked[j] \subseteq 1..Count(subs[j].lines, Changes)
       /\ ts[j - 1] \in 0..Len(hs)
       /\ picked[j] = {} => ts[j] = ts[j - 1]
       /\ picked[j] # {} => /\ ts[j] = ts[j - 1] + 1 /\ ts[j] <= Len(hs)
                            /\ Takes(hs[ts[j]], subs[j], picked[j])

\* every new side stands as far below its old side as the hunks above it add lines
Moved(hs, gs) ==
  /\ gs[0] = 0
  /\ \A m \in 1..Len(hs) :
       /\ gs[m - 1] \in Int /\ gs[m] = gs[m - 1] + Net(hs[m].lines)
       /\ NewAt(hs[m]) = OldAt(hs[m]) + gs[m - 1]

\* the picked changes of the first j sub-hunks
PickedTo(cs, picked, j) == UNION {CountedBelow(cs[i - 1], picked[i]) : i \in 1..j}

LEMMA PickedToGrows ==
  ASSUME NEW cs, NEW picked, NEW j \in Nat \ {0}
  PROVE  PickedTo(cs, picked, j) = PickedTo(cs, picked, j - 1) \cup CountedBelow(cs[j - 1], picked[j])
<1> DEFINE B(i) == CountedBelow(cs[i - 1], picked[i])
<1>1. 1..j = (1..(j - 1)) \cup {j}
  OBVIOUS
<1> HIDE DEF B
<1>2. UNION {B(i) : i \in 1..j} = (UNION {B(i) : i \in 1..(j - 1)}) \cup B(j)
  BY <1>1
<1>3. QED
  BY <1>2 DEF PickedTo, B

(* Where a sub-hunk stands, as the step that applies it needs it.          *)
LEMMA StandsPlaced ==
  ASSUME NEW full \in Seq(Line), NEW s \in Hunk, NEW f \in 0..Len(full), NEW above,
         Stands(full, s, f, above), NEW to, to = f + Len(s.lines)
  PROVE  /\ Placed(full, f, s.lines, to) /\ Unmarked(full, f)
         /\ above = CountIn(full, Changes, 1, f) /\ f \in Nat /\ f <= Len(full)
         /\ OldAt(s) = CountIn(full, OldSide, 1, f) + 1
<1> DEFINE ls == s.lines
           from == f + 1
           n == Len(ls)
<1>1. ls \in Seq(Line) /\ n \in Nat /\ f \in Nat /\ to \in Nat
  BY DEF Hunk
<1>2. to <= Len(full) /\ ls = SubSeq(full, from, to)
  BY DEF Stands
<1>3. \A i \in 1..n : ls[i] = full[f + i]
  <2>1. from \in Int /\ to \in Int /\ to - from + 1 = n
    BY <1>1
  <2> HIDE DEF ls
  <2>2. \A i \in from..to : full[i] \in Line
    BY <1>1, <1>2
  <2>3. \A i \in 1..(to - from + 1) : SubSeq(full, from, to)[i] = full[from + i - 1]
    <3> HIDE DEF from
    <3>1. QED
      BY <2>1, <2>2, SubSeqProperties
  <2>4. \A i \in 1..n : from + i - 1 = f + i
    BY <1>1
  <2>5. QED
    BY <2>1, <2>3, <2>4, <1>2
<1>4. Within(ls, full, f)
  BY <1>3, Zenon DEF Within
<1>5. Placed(full, f, ls, to)
  <2> HIDE DEF ls
  <2>1. QED
    BY <1>1, <1>2, <1>4 DEF Placed
<1>6. Unmarked(full, f)
  BY Zenon DEF Stands, Unmarked
<1>7. QED
  BY <1>1, <1>5, <1>6 DEF Stands

LEMMA PicksApply ==
  ASSUME NEW full, NEW subs, NEW cs, NEW picked, NEW hs, NEW ts, NEW gs,
         Stacked(full, subs, cs), Selected(subs, picked, hs, ts), Moved(hs, gs)
  PROVE  Apply(OldFile(full), hs) = FileWith(full, PickedTo(cs, picked, Len(subs)))
<1> DEFINE n == Len(subs)
           X(j) == PickedTo(cs, picked, j)
<1>0. /\ full \in Seq(Line) /\ WellMarked(full)
      /\ subs \in Seq(Hunk) /\ hs \in Seq(Hunk) /\ n \in Nat /\ 0 \in Nat /\ 0 <= n
  BY DEF Stacked, Selected
<1>1. OldFile(full) \in Seq(FileLine) /\ Len(OldFile(full)) \in Nat
  BY <1>0, SideSize DEF OldFile
<1>2. PICK g : /\ g[0] = OldFile(full) /\ Apply(OldFile(full), hs) = g[Len(hs)]
               /\ \A m \in 1..Len(hs) : g[m] = ApplyHunk(g[m - 1], hs[m])
  BY <1>0, <1>1, ApplyWalks
<1> DEFINE P(j) == /\ g[ts[j]] = FileWith(full, X(j))
                   /\ Grown(full, X(j), gs[ts[j]])
                   /\ X(j) \subseteq 1..cs[j]
           G == {j \in 0..n : P(j)}
<1>3. P(0)
  <2>1. X(0) = {}
    BY DEF PickedTo
  <2>2. ts[0] = 0 /\ gs[0] = 0
    BY DEF Selected, Moved
  <2> HIDE DEF X
  <2>3. FileWith(full, {}) = OldFile(full)
    BY <1>0, FileWithNone
  <2>4. Grown(full, {}, 0)
    BY <1>1, <2>3 DEF Grown
  <2>5. QED
    BY <1>2, <2>1, <2>2, <2>3, <2>4
<1>4. ASSUME NEW j \in (0 + 1)..n, P(j - 1)
      PROVE  P(j)
  <2> DEFINE i == j - 1
             s == subs[j]
             p == picked[j]
             h == hs[ts[j]]
             m == ts[j]
  <2>1. j \in 1..n /\ i \in Nat /\ j \in Nat \ {0} /\ s \in Hunk /\ s.lines \in Seq(Line)
    <3>1. j \in 1..n /\ i \in Nat /\ j \in Nat \ {0} /\ s \in Hunk
      BY <1>0
    <3>2. QED
      BY <3>1 DEF Hunk
  <2>2. /\ cs[i] \in Nat /\ cs[j] = cs[i] + Count(s.lines, Changes)
        /\ \E f \in 0..Len(full) : Stands(full, s, f, cs[i]) /\ Sealed(full, f + Len(s.lines))
    BY <2>1 DEF Stacked
  <2>3. /\ p \subseteq 1..Count(s.lines, Changes)
        /\ ts[i] \in 0..Len(hs)
        /\ p = {} => ts[j] = ts[i]
        /\ p # {} => ts[j] = ts[i] + 1 /\ ts[j] <= Len(hs) /\ Takes(h, s, p)
    BY <2>1 DEF Selected
  <2>4. X(j) = X(i) \cup CountedBelow(cs[i], p)
    BY <2>1, PickedToGrows
  <2>5. /\ g[ts[i]] = FileWith(full, X(i))
        /\ Grown(full, X(i), gs[ts[i]])
        /\ X(i) \subseteq 1..cs[i]
    BY <1>4
  <2>6. Count(s.lines, Changes) \in Nat
    BY <2>1, NetIsSideDifference, CountInType DEF Count
  <2> HIDE DEF X, i, s, p, h, m
  <2>7. X(j) \subseteq 1..cs[j]
    <3>1. CountedBelow(cs[i], p) \subseteq 1..cs[j]
      BY <2>2, <2>3, <2>6 DEF CountedBelow
    <3>2. 1..cs[i] \subseteq 1..cs[j]
      BY <2>2, <2>6
    <3>3. QED
      BY <2>4, <2>5, <3>1, <3>2
  <2>8. CASE p = {}
    <3>1. X(j) = X(i)
      BY <2>4, <2>8 DEF CountedBelow
    <3>2. QED
      BY <2>3, <2>5, <2>7, <2>8, <3>1
  <2>9. CASE p # {}
    <3>1. PICK f \in 0..Len(full) : Stands(full, s, f, cs[i]) /\ Sealed(full, f + Len(s.lines))
      BY <2>2
    <3> DEFINE to == f + Len(s.lines)
               grown == gs[ts[i]]
    <3>2. /\ Placed(full, f, s.lines, to) /\ Unmarked(full, f)
          /\ cs[i] = CountIn(full, Changes, 1, f)
          /\ OldAt(s) = CountIn(full, OldSide, 1, f) + 1
      <4>1. to = f + Len(s.lines)
        OBVIOUS
      <4> HIDE DEF to
      <4>2. QED
        BY <1>0, <2>1, <3>1, <4>1, StandsPlaced
    <3>3. /\ m \in 1..Len(hs) /\ m - 1 = ts[i] /\ h = hs[m] /\ h \in Hunk
          /\ Takes(h, s, p)
      <4>1. m = ts[i] + 1 /\ m <= Len(hs) /\ Takes(h, s, p) /\ h = hs[m]
        BY <2>3, <2>9 DEF m, h
      <4> DEFINE q == ts[i]
      <4>2. q \in 0..Len(hs) /\ m = q + 1 /\ m <= Len(hs) /\ Len(hs) \in Nat
        BY <1>0, <2>3, <4>1
      <4> HIDE DEF q
      <4>2a. m \in 1..Len(hs) /\ m - 1 = q
        BY <4>2
      <4> USE DEF q
      <4>3. QED
        BY <1>0, <4>1, <4>2a
    <3>4. /\ grown \in Int /\ gs[m] = grown + Net(h.lines)
          /\ NewAt(h) = OldAt(h) + grown
      <4>1. gs[m - 1] \in Int /\ gs[m] = gs[m - 1] + Net(hs[m].lines)
            /\ NewAt(hs[m]) = OldAt(hs[m]) + gs[m - 1]
        BY <3>3 DEF Moved
      <4>2. QED
        BY <3>3, <4>1
    <3>5. g[m] = ApplyHunk(g[ts[i]], h) /\ Sealed(full, to)
      BY <1>2, <3>1, <3>3
    <3> HIDE DEF to, grown
    <3>6. StepHolds(full, f, s.lines, to, X(i), p, X(j))
      <4>1. Adds(full, f, s.lines, X(i), p, X(j))
        BY <2>3, <2>4, <2>5, <3>2, Zenon DEF Adds
      <4>2. QED
        BY <1>0, <3>2, <3>5, <4>1, Zenon DEF StepHolds
    <3>7. HunkFits(full, f, s.lines, h, p, grown)
      <4>1. OldAt(h) = OldAt(s) /\ SideOf(h.lines, OldSide) = SideOf(s.lines, OldSide)
            /\ SideOf(h.lines, NewSide) = FileWith(s.lines, p)
        BY <3>3 DEF Takes
      <4>2. NewAt(h) = CountIn(full, OldSide, 1, f) + 1 + grown
        BY <3>2, <3>4, <4>1
      <4>3. QED
        BY <3>3, <3>4, <4>1, <4>2 DEF HunkFits
    <3>8. Grown(full, X(i), grown)
      BY <2>5 DEF grown
    <3>9. /\ ApplyHunk(FileWith(full, X(i)), h) = FileWith(full, X(j))
          /\ Grown(full, X(j), grown + Net(h.lines))
      BY <3>6, <3>7, <3>8, StepApplies
    <3>10. g[m] = FileWith(full, X(j)) /\ Grown(full, X(j), gs[m])
      BY <2>5, <3>4, <3>5, <3>9
    <3>11. QED
      BY <2>7, <3>10 DEF m
  <2>10. QED
    BY <2>8, <2>9
<1> HIDE DEF P
<1>5. n \in G
  <2>1. 0 \in G
    BY <1>0, <1>3
  <2>2. \A j \in (0 + 1)..n : j - 1 \in G => j \in G
    BY <1>0, <1>4
  <2> HIDE DEF G
  <2>3. QED
    BY <1>0, <2>1, <2>2, Upward
<1>6. P(n)
  BY <1>5
<1>7. ts[n] = Len(hs)
  BY DEF Selected
<1>8. QED
  BY <1>2, <1>6, <1>7 DEF P

-----------------------------------------------------------------------------
(* Hunks that stand in a full diff.                                         *)

\* hs[j] stands somewhere
StandsAt(full, hs, above, j) ==
  \E f \in 0..Len(full) : Stands(full, hs[j], f, above + ChangedTo(hs, j - 1))

LEMMA StandingIs ==
  ASSUME NEW full, NEW hs \in Seq(Hunk), NEW above
  PROVE  Standing(full, hs, above) <=> \A j \in 1..Len(hs) : StandsAt(full, hs, above, j)
<1>1. DOMAIN hs = 1..Len(hs)
  OBVIOUS
<1>2. QED
  BY <1>1, Zenon DEF Standing, StandsAt

(* A hunk stands in two lists alike, if what is above it counts alike.     *)
LEMMA StandsAlike ==
  ASSUME NEW full, NEW hs, NEW gs, NEW above, NEW more, NEW i, NEW j,
         StandsAt(full, hs, above, i), gs[j].lines = hs[i].lines, OldAt(gs[j]) = OldAt(hs[i]),
         above + ChangedTo(hs, i - 1) = more + ChangedTo(gs, j - 1)
  PROVE  StandsAt(full, gs, more, j)
<1>1. PICK f \in 0..Len(full) : Stands(full, hs[i], f, above + ChangedTo(hs, i - 1))
  BY DEF StandsAt
<1>2. Stands(full, gs[j], f, more + ChangedTo(gs, j - 1))
  BY <1>1, Zenon DEF Stands
<1>3. QED
  BY <1>2 DEF StandsAt

LEMMA StandingJoins ==
  ASSUME NEW full, NEW a \in Seq(Hunk), NEW b \in Seq(Hunk), NEW above \in Nat,
         NEW more, more = above + ChangedTo(a, Len(a))
  PROVE  Standing(full, a \o b, above) <=> Standing(full, a, above) /\ Standing(full, b, more)
<1> DEFINE c == a \o b
<1>1. /\ c \in Seq(Hunk) /\ Len(c) = Len(a) + Len(b) /\ Len(a) \in Nat /\ Len(b) \in Nat
      /\ \A j \in 1..Len(a) : c[j] = a[j]
      /\ \A j \in 1..Len(b) : c[j + Len(a)] = b[j]
  BY ConcatHolds
<1>2. \A j \in 1..Len(a) : ChangedTo(c, j - 1) = ChangedTo(a, j - 1)
  <2>1. TAKE j \in 1..Len(a)
  <2>2. j - 1 \in Nat /\ j - 1 <= Len(a)
    BY <1>1
  <2>3. QED
    BY <2>2, PrefixChanges
<1>3. \A j \in 1..Len(b) :
        /\ ChangedTo(c, (j + Len(a)) - 1) = ChangedTo(a, Len(a)) + ChangedTo(b, j - 1)
        /\ ChangedTo(b, j - 1) \in Nat
  <2>1. TAKE j \in 1..Len(b)
  <2> DEFINE i == j - 1
  <2>2. i \in Nat /\ (j + Len(a)) - 1 = Len(a) + i
    BY <1>1
  <2> HIDE DEF i
  <2>3. ChangedTo(c, Len(a) + i) = ChangedTo(a, Len(a)) + ChangedTo(b, i)
    BY <2>2, ConcatChanges
  <2>4. ChangedTo(b, i) \in Nat
    BY ChangesAreFinite
  <2>5. QED
    BY <2>2, <2>3, <2>4 DEF i
<1>4. ChangedTo(a, Len(a)) \in Nat
  BY ChangesAreFinite
<1> HIDE DEF c
<1>5. \A j \in 1..Len(a) : j \in 1..Len(c) /\ (StandsAt(full, c, above, j) <=> StandsAt(full, a, above, j))
  <2>1. TAKE j \in 1..Len(a)
  <2>2. c[j] = a[j] /\ above + ChangedTo(c, j - 1) = above + ChangedTo(a, j - 1) /\ j \in 1..Len(c)
    BY <1>1, <1>2
  <2>3. QED
    BY <2>2, StandsAlike
<1>6. \A j \in 1..Len(b) : j + Len(a) \in 1..Len(c)
                            /\ (StandsAt(full, c, above, j + Len(a)) <=> StandsAt(full, b, more, j))
  <2>1. TAKE j \in 1..Len(b)
  <2> DEFINE i == j + Len(a)
  <2>2. c[i] = b[j] /\ above + ChangedTo(c, i - 1) = more + ChangedTo(b, j - 1) /\ i \in 1..Len(c)
    BY <1>1, <1>3, <1>4
  <2> HIDE DEF i
  <2>3. StandsAt(full, c, above, i) <=> StandsAt(full, b, more, j)
    BY <2>2, StandsAlike
  <2>4. QED
    BY <2>2, <2>3 DEF i
<1>7. \A i \in 1..Len(c) : i \in 1..Len(a) \/ \E j \in 1..Len(b) : i = j + Len(a)
  <2>1. TAKE i \in 1..Len(c)
  <2>2. CASE i > Len(a)
    <3>1. i - Len(a) \in 1..Len(b) /\ i = (i - Len(a)) + Len(a)
      BY <1>1, <2>2
    <3>2. QED
      BY <3>1
  <2>3. QED
    BY <1>1, <2>2
<1>8. Standing(full, c, above) <=> Standing(full, a, above) /\ Standing(full, b, more)
  BY <1>1, <1>5, <1>6, <1>7, StandingIs
<1>9. QED
  BY <1>8 DEF c

(* New-side starts do not matter.                                          *)
LEMMA StandingSame ==
  ASSUME NEW full, NEW hs \in Seq(Hunk), NEW gs \in Seq(Hunk), NEW above,
         Standing(full, hs, above), Len(gs) = Len(hs),
         \A j \in 1..Len(hs) : gs[j].lines = hs[j].lines /\ OldAt(gs[j]) = OldAt(hs[j])
  PROVE  Standing(full, gs, above) /\ ChangedTo(gs, Len(gs)) = ChangedTo(hs, Len(hs))
<1>1. \A n : ChangedTo(gs, n) = ChangedTo(hs, n)
  <2>1. DOMAIN gs = 1..Len(hs) /\ DOMAIN hs = 1..Len(hs)
    OBVIOUS
  <2>2. QED
    BY <2>1, SameBodiesSameChanges
<1>2. \A j \in 1..Len(gs) : StandsAt(full, gs, above, j)
  <2>1. TAKE j \in 1..Len(gs)
  <2>2. StandsAt(full, hs, above, j)
    BY StandingIs
  <2>3. above + ChangedTo(hs, j - 1) = above + ChangedTo(gs, j - 1)
    BY <1>1
  <2>4. QED
    BY <2>2, <2>3, StandsAlike
<1>3. QED
  BY <1>1, <1>2, StandingIs

(* The first n + 1 hunks have the changes of the first n and of one more.  *)
LEMMA ChangedToGrows ==
  ASSUME NEW hs \in Seq(Hunk), NEW j \in 1..Len(hs)
  PROVE  /\ ChangedTo(hs, j) = ChangedTo(hs, j - 1) + Count(hs[j].lines, Changes)
         /\ ChangedTo(hs, j - 1) \in Nat /\ Count(hs[j].lines, Changes) \in Nat
         /\ ChangedTo(hs, 0) = 0
<1> DEFINE A == {i \in DOMAIN hs : i <= j}
           B == {i \in DOMAIN hs : i <= j - 1}
           a == UNION {ChangesOf(hs, i) : i \in A}
           b == UNION {ChangesOf(hs, i) : i \in B}
           c == ChangesOf(hs, j)
<1>1. a = b \cup c
  <2>1. A = B \cup {j}
    OBVIOUS
  <2> HIDE DEF A, B
  <2>2. QED
    BY <2>1
<1>2. b \cap c = {}
  <2> SUFFICES ASSUME NEW p \in b, p \in c
               PROVE  FALSE
    OBVIOUS
  <2>1. PICK i \in B : p \in ChangesOf(hs, i)
    OBVIOUS
  <2>2. p[1] = i /\ p[1] = j /\ i # j
    BY <2>1 DEF ChangesOf
  <2>3. QED
    BY <2>2
<1>3. IsFiniteSet(c) /\ Cardinality(c) = Count(hs[j].lines, Changes)
  BY ChangesOfOne
<1>4. IsFiniteSet(b) /\ Cardinality(b) = ChangedTo(hs, j - 1) /\ ChangedTo(hs, j - 1) \in Nat
  BY ChangesAreFinite DEF AllChanges, ChangedTo
<1>5. Cardinality(a) = ChangedTo(hs, j)
  BY DEF ChangedTo
<1> HIDE DEF a, b, c
<1>6. Cardinality(b \cup c) = Cardinality(b) + Cardinality(c) - Cardinality(b \cap c)
  BY <1>3, <1>4, FS_Union
<1>7. Cardinality(b \cap c) = 0
  BY <1>2, FS_EmptySet
<1>8. ChangedTo(hs, 0) = 0
  <2>1. {i \in DOMAIN hs : i <= 0} = {}
    OBVIOUS
  <2>2. UNION {ChangesOf(hs, i) : i \in {i \in DOMAIN hs : i <= 0}} = {}
    BY <2>1
  <2>3. QED
    BY <2>2, FS_EmptySet DEF ChangedTo
<1>9. Cardinality(c) \in Nat
  BY <1>3, FS_CardinalityType
<1>10. QED
  BY <1>1, <1>3, <1>4, <1>5, <1>6, <1>7, <1>8, <1>9

(* One more hunk stands below those of a list.                             *)
LEMMA StandingGrows ==
  ASSUME NEW full, NEW hs \in Seq(Hunk), NEW p \in Hunk, NEW above \in Nat,
         Standing(full, hs, above), NEW more, more = above + ChangedTo(hs, Len(hs)),
         \E f \in 0..Len(full) : Stands(full, p, f, more)
  PROVE  Standing(full, Append(hs, p), above)
<1> DEFINE one == <<p>>
<1>1. one \in Seq(Hunk) /\ Len(one) = 1 /\ one[1] = p /\ hs \o one = Append(hs, p)
  OBVIOUS
<1> HIDE DEF one
<1>2. ChangedTo(hs, Len(hs)) \in Nat /\ more \in Nat
  BY ChangesAreFinite
<1>3. 1 \in 1..Len(one)
  BY <1>1
<1>4. ChangedTo(one, 0) = 0
  BY <1>1, <1>3, ChangedToGrows
<1>5. more + ChangedTo(one, 1 - 1) = more
  BY <1>2, <1>4
<1>6. StandsAt(full, one, more, 1)
  BY <1>1, <1>5 DEF StandsAt
<1>7. \A j \in 1..Len(one) : j = 1
  BY <1>1
<1>8. Standing(full, one, more)
  BY <1>1, <1>6, <1>7, StandingIs
<1>9. Standing(full, hs \o one, above)
  BY <1>1, <1>8, StandingJoins
<1>10. QED
  BY <1>1, <1>9

\* the line hunk j of a diff ends on
EndsAt(tops, hs, j) == IF j = 0 THEN 0 ELSE tops[j] + Len(hs[j].lines)

(* Between two hunks of a diff, and below the last, nothing changes.       *)
LEMMA NothingBetween ==
  ASSUME NEW full, NEW tops, NEW hs \in Seq(Hunk), IsDiffOf(full, tops, hs),
         NEW j \in 0..Len(hs), NEW upto \in Nat, upto <= Len(full),
         j < Len(hs) => upto = tops[j + 1]
  PROVE  CountIn(full, Changes, EndsAt(tops, hs, j) + 1, upto) = 0
<1> DEFINE e == EndsAt(tops, hs, j)
           from == e + 1
           n == Len(hs)
<1>1. /\ full \in Seq(Line) /\ tops \in Seq(Nat) /\ Len(tops) = n
      /\ \A k \in 1..n : \A i \in 1..(k - 1) : tops[i] + Len(hs[i].lines) <= tops[k]
      /\ \A i \in 1..Len(full) : full[i].kind \in Changes =>
           \E k \in 1..n : i \in (tops[k] + 1)..(tops[k] + Len(hs[k].lines))
  <2>1. DOMAIN hs = 1..n /\ (full \in Seq(Line) => DOMAIN full = 1..Len(full))
    OBVIOUS
  <2>2. QED
    BY <2>1, Zenon DEF IsDiffOf
<1>2. n \in Nat /\ \A k \in 1..n : tops[k] \in Nat /\ Len(hs[k].lines) \in Nat
  <2>1. \A k \in 1..n : hs[k] \in Hunk /\ tops[k] \in Nat
    BY <1>1
  <2>2. \A k \in 1..n : hs[k].lines \in Seq(Line)
    BY <2>1 DEF Hunk
  <2>3. QED
    BY <2>1, <2>2
<1>3. e \in Nat
  BY <1>2 DEF EndsAt
<1>4. ASSUME NEW i \in from..upto, full[i].kind \in Changes
      PROVE  FALSE
  <2>1. i \in 1..Len(full) /\ i > e /\ i <= upto
    BY <1>1, <1>3
  <2>2. PICK k \in 1..n : i \in (tops[k] + 1)..(tops[k] + Len(hs[k].lines))
    BY <1>1, <1>4, <2>1
  <2>3. i > tops[k] /\ i <= tops[k] + Len(hs[k].lines) /\ i \in Int /\ e \in Int
    BY <1>2, <1>3, <2>1, <2>2
  <2>3b. tops[k] \in Nat /\ Len(hs[k].lines) \in Nat /\ k \in 1..n
    BY <1>2, <2>2
  <2>4. CASE k <= j
    <3>1. j \in 1..n /\ e = tops[j] + Len(hs[j].lines)
      BY <1>2, <2>4 DEF EndsAt
    <3> HIDE DEF e, from
    <3>2. CASE k = j
      BY <2>1, <2>3, <2>3b, <3>1, <3>2
    <3>3. CASE k # j
      <4>1. k \in 1..(j - 1)
        BY <2>4, <3>3
      <4>2. tops[k] + Len(hs[k].lines) <= tops[j]
        BY <1>1, <3>1, <4>1
      <4>3. tops[j] \in Nat /\ Len(hs[j].lines) \in Nat
        BY <1>2, <3>1
      <4> DEFINE a == tops[k]
                 la == Len(hs[k].lines)
                 c == tops[j]
                 lc == Len(hs[j].lines)
      <4>4. /\ a \in Nat /\ la \in Nat /\ c \in Nat /\ lc \in Nat /\ i \in Int
            /\ a + la <= c /\ i <= a + la /\ i > e /\ e = c + lc
        BY <2>1, <2>3, <2>3b, <3>1, <4>2, <4>3
      <4> HIDE DEF a, la, c, lc
      <4>5. QED
        BY <4>4
    <3>4. QED
      BY <3>2, <3>3
  <2>5. CASE k > j
    <3> DEFINE m == j + 1
    <3>1. m \in 1..n /\ upto = tops[m] /\ k >= m
      BY <1>2, <2>2, <2>5
    <3>1a. tops[m] \in Nat /\ Len(hs[m].lines) \in Nat
      BY <1>2, <3>1
    <3> HIDE DEF e, from
    <3>2. CASE k = m
      BY <2>1, <2>3, <3>1, <3>2
    <3>3. CASE k # m
      <4>1. m \in 1..(k - 1)
        BY <3>1, <3>3
      <4> HIDE DEF m
      <4>2. tops[m] + Len(hs[m].lines) <= tops[k]
        BY <1>1, <2>2, <4>1
      <4>3. QED
        BY <2>1, <2>3, <2>3b, <3>1, <3>1a, <4>2
    <3>4. QED
      BY <3>2, <3>3
  <2>6. QED
    BY <2>4, <2>5, <1>2
<1>5. from \in Int /\ upto \in Int
  BY <1>3
<1> HIDE DEF from
<1>6. ~(CountIn(full, Changes, from, upto) > 0)
  BY <1>4, <1>5, CountInPositive
<1>7. CountIn(full, Changes, from, upto) \in Nat
  BY <1>5, CountInType
<1>8. CountIn(full, Changes, from, upto) = 0
  BY <1>6, <1>7
<1>9. QED
  BY <1>8 DEF from

(* A body counts what the diff holds where it stands.                      *)
LEMMA PlacedCounts ==
  ASSUME NEW full, NEW t, NEW ls, NEW u, Placed(full, t, ls, u), NEW K, NEW from, from = t + 1,
         NEW m \in Nat, m <= Len(ls), NEW v, v = t + m
  PROVE  CountIn(full, K, from, v) = CountIn(ls, K, 1, m)
<1>1. t \in Nat /\ \A i \in 1..Len(ls) : ls[i] = full[t + i]
  BY DEF Placed, Within
<1>2. Len(ls) \in Nat /\ t \in Nat
  BY DEF Placed
<1>3. \A i \in 1..m : full[i + (from - 1)].kind = ls[i].kind
  <2>1. TAKE i \in 1..m
  <2>2. i \in 1..Len(ls) /\ i + (from - 1) = t + i
    BY <1>1, <1>2
  <2>3. QED
    BY <1>1, <2>2, Zenon
<1>4. m \in Int /\ from \in Int /\ v \in Int /\ v = m + (from - 1)
  BY <1>2
<1>5. SameKinds(full, ls, from, m)
  BY <1>3, Zenon DEF SameKinds
<1>6. QED
  BY <1>4, <1>5, CountBelow

(* The hunks of a diff stand in it, and it has no other changes.           *)
LEMMA InputStands ==
  ASSUME NEW full, NEW tops, NEW hs \in Seq(Hunk), IsDiffOf(full, tops, hs)
  PROVE  /\ Standing(full, hs, 0)
         /\ ChangedTo(hs, Len(hs)) = Count(full, Changes)
         /\ \A j \in 1..Len(hs) : CountIn(full, Changes, 1, tops[j]) = ChangedTo(hs, j - 1)
<1> DEFINE e(j) == EndsAt(tops, hs, j)
           n == Len(hs)
           C(a, b) == CountIn(full, Changes, a, b)
           P(j) == ChangedTo(hs, j) = C(1, e(j))
           G == {j \in 0..n : P(j)}
<1>1. /\ full \in Seq(Line) /\ tops \in Seq(Nat) /\ Len(tops) = n /\ n \in Nat
      /\ \A k \in 1..n : /\ Stands(full, hs[k], tops[k], CountIn(full, Changes, 1, tops[k]))
                         /\ \A i \in 1..(k - 1) : tops[i] + Len(hs[i].lines) <= tops[k]
  <2>1. DOMAIN hs = 1..n /\ n \in Nat
    OBVIOUS
  <2>2. QED
    BY <2>1, Zenon DEF IsDiffOf
<1>2. \A k \in 1..n : /\ tops[k] \in 0..Len(full) /\ hs[k] \in Hunk
                      /\ Len(hs[k].lines) \in Nat /\ tops[k] + Len(hs[k].lines) <= Len(full)
  <2>1. TAKE k \in 1..n
  <2>2. tops[k] \in Nat /\ hs[k] \in Hunk /\ tops[k] + Len(hs[k].lines) <= Len(full)
    BY <1>1 DEF Stands
  <2>3. hs[k].lines \in Seq(Line)
    BY <2>2 DEF Hunk
  <2>4. Len(hs[k].lines) \in Nat /\ Len(full) \in Nat
    BY <1>1, <2>3
  <2>5. QED
    BY <2>2, <2>4
<1>3. \A j \in 0..n : e(j) \in 0..Len(full) /\ (j < n => e(j) <= tops[j + 1])
  <2>1. TAKE j \in 0..n
  <2>2. CASE j = 0
    <3>1. e(j) = 0
      BY <2>2 DEF EndsAt
    <3>2. j < n => tops[j + 1] \in 0..Len(full)
      BY <1>1, <1>2, <2>2
    <3>3. QED
      BY <1>1, <3>1, <3>2
  <2>3. CASE j # 0
    <3>1. j \in 1..n /\ e(j) = tops[j] + Len(hs[j].lines)
      BY <2>3 DEF EndsAt
    <3>2. ASSUME j < n
          PROVE  e(j) <= tops[j + 1]
      <4> DEFINE k == j + 1
      <4>1. k \in 1..n /\ j \in 1..(k - 1)
        BY <1>1, <3>1, <3>2
      <4> HIDE DEF k
      <4>2. tops[j] + Len(hs[j].lines) <= tops[k]
        BY <1>1, <4>1
      <4>3. QED
        BY <3>1, <4>2 DEF k
    <3>3. QED
      BY <1>1, <1>2, <3>1, <3>2
  <2>4. QED
    BY <2>2, <2>3
<1>4. \A j \in 0..n, upto \in Nat :
        e(j) <= upto /\ upto <= Len(full) /\ (j < n => upto = tops[j + 1]) => C(1, upto) = C(1, e(j))
  <2>1. TAKE j \in 0..n, upto \in Nat
  <2>2. HAVE e(j) <= upto /\ upto <= Len(full) /\ (j < n => upto = tops[j + 1])
  <2>3. C(e(j) + 1, upto) = 0
    BY <2>2, NothingBetween
  <2>4. e(j) \in Int /\ upto \in Int /\ 1 \in Int /\ 1 <= e(j) + 1 /\ e(j) <= upto
    BY <1>3, <2>2
  <2>5. C(1, upto) = C(1, e(j)) + C(e(j) + 1, upto)
    <3> DEFINE x == e(j)
    <3>1. x \in Int /\ upto \in Int /\ 1 \in Int /\ 1 <= x + 1 /\ x <= upto
      BY <2>4
    <3> HIDE DEF x
    <3>2. CountIn(full, Changes, 1, upto)
            = CountIn(full, Changes, 1, x) + CountIn(full, Changes, x + 1, upto)
      BY <3>1, CountInSplits
    <3>3. QED
      BY <3>2 DEF x
  <2>6. C(1, e(j)) \in Nat
    BY <2>4, CountInType
  <2> HIDE DEF C, e
  <2>7. QED
    BY <2>3, <2>5, <2>6
<1>5. P(0)
  <2>1. e(0) = 0
    BY DEF EndsAt
  <2>2. C(1, 0) = 0
    BY CountInType
  <2>3. ChangedTo(hs, 0) = 0
    <3>1. {i \in DOMAIN hs : i <= 0} = {}
      OBVIOUS
    <3>2. UNION {ChangesOf(hs, i) : i \in {i \in DOMAIN hs : i <= 0}} = {}
      BY <3>1
    <3>3. QED
      BY <3>2, FS_EmptySet DEF ChangedTo
  <2>4. QED
    BY <2>1, <2>2, <2>3
<1>6. ASSUME NEW j \in (0 + 1)..n, P(j - 1)
      PROVE  P(j) /\ C(1, tops[j]) = ChangedTo(hs, j - 1)
  <2>1. j \in 1..n /\ j - 1 \in 0..n /\ j - 1 < n /\ (j - 1) + 1 = j /\ j # 0
    BY <1>1
  <2> DEFINE t == tops[j]
             ls == hs[j].lines
             u == e(j)
             m == Len(ls)
             from == t + 1
  <2>2. t \in Nat /\ t \in Int /\ u \in Int /\ u = t + m /\ m \in Nat /\ t <= u /\ from = t + 1
        /\ from \in Int /\ u = m + (from - 1) /\ ls \in Seq(Line) /\ u <= Len(full)
    <3>1. t \in Nat /\ m \in Nat /\ hs[j] \in Hunk /\ t + m <= Len(full)
      BY <1>2, <2>1
    <3>2. u = t + m
      BY <2>1 DEF EndsAt
    <3>3. ls \in Seq(Line)
      BY <3>1 DEF Hunk
    <3>4. from = t + 1
      OBVIOUS
    <3> HIDE DEF t, u, m, ls, from
    <3>5. u \in Int /\ t <= u /\ from \in Int /\ u = m + (from - 1) /\ t \in Int
      BY <3>1, <3>2, <3>4
    <3>6. u <= Len(full)
      BY <3>1, <3>2 DEF m, ls
    <3>7. QED
      BY <3>1, <3>2, <3>3, <3>4, <3>5, <3>6
  <2>3. C(1, t) = C(1, e(j - 1))
    <3>1. e(j - 1) <= t /\ t <= Len(full) /\ t \in Nat
      BY <1>2, <1>3, <2>1
    <3> HIDE DEF e, C, t
    <3>2. (j - 1 < n => t = tops[(j - 1) + 1])
      BY <2>1 DEF t
    <3>3. QED
      BY <1>4, <2>1, <3>1, <3>2
  <2>4. C(1, t) = ChangedTo(hs, j - 1)
    BY <1>6, <2>3
  <2>5. Placed(full, t, ls, u)
    <3>1. Stands(full, hs[j], t, C(1, t))
      BY <1>1, <2>1
    <3>2. t \in 0..Len(full) /\ hs[j] \in Hunk
      BY <1>2, <2>1
    <3>3. u = t + Len(hs[j].lines)
      BY <2>2
    <3> HIDE DEF t, u, C
    <3>4. QED
      BY <1>1, <3>1, <3>2, <3>3, StandsPlaced
  <2> HIDE DEF t, u, from
  <2>6. C(from, u) = Count(ls, Changes)
    <3>1. m <= Len(ls) /\ m = Len(ls)
      BY <2>2
    <3> HIDE DEF ls, m
    <3>2. CountIn(full, Changes, from, u) = CountIn(ls, Changes, 1, m)
      BY <2>2, <2>5, <3>1, PlacedCounts
    <3>3. QED
      BY <3>1, <3>2 DEF Count
  <2>7. C(1, u) = C(1, t) + C(from, u)
    <3>1. 1 \in Int /\ 1 <= t + 1
      BY <2>2
    <3>2. QED
      BY <2>2, <3>1, CountInSplits
  <2>8. ChangedTo(hs, j) = ChangedTo(hs, j - 1) + Count(ls, Changes)
    BY <2>1, ChangedToGrows
  <2> HIDE DEF C, e, ls
  <2>9. ChangedTo(hs, j) = C(1, u) /\ C(1, t) = ChangedTo(hs, j - 1)
    BY <2>4, <2>6, <2>7, <2>8
  <2>10. QED
    BY <2>9 DEF t, u
<1>7. \A j \in 0..n : P(j)
  <2>1. TAKE j \in 0..n
  <2> HIDE DEF P
  <2> DEFINE H == {i \in 0..j : P(i)}
  <2>2. 0 \in H /\ \A i \in (0 + 1)..j : i - 1 \in H => i \in H
    BY <1>1, <1>5, <1>6
  <2>3. 0 \in Nat /\ j \in Nat /\ 0 <= j
    BY <1>1
  <2> HIDE DEF H
  <2>4. j \in H
    BY <2>2, <2>3, Upward
  <2>5. QED
    BY <2>4 DEF H
<1>8. \A j \in 1..n : CountIn(full, Changes, 1, tops[j]) = ChangedTo(hs, j - 1)
  <2>1. TAKE j \in 1..n
  <2>2. j \in (0 + 1)..n /\ j - 1 \in 0..n
    BY <1>1
  <2> HIDE DEF P, C
  <2>3. C(1, tops[j]) = ChangedTo(hs, j - 1)
    BY <1>6, <1>7, <2>2
  <2>4. QED
    BY <2>3 DEF C
<1>9. Standing(full, hs, 0)
  <2>1. ASSUME NEW j \in 1..n
        PROVE  StandsAt(full, hs, 0, j)
    <3>1. Stands(full, hs[j], tops[j], ChangedTo(hs, j - 1)) /\ tops[j] \in 0..Len(full)
      BY <1>1, <1>2, <1>8
    <3>2. 0 + ChangedTo(hs, j - 1) = ChangedTo(hs, j - 1)
      BY ChangesAreFinite
    <3>3. QED
      BY <3>1, <3>2 DEF StandsAt
  <2>2. QED
    BY <2>1, StandingIs
<1>10. ChangedTo(hs, Len(hs)) = Count(full, Changes)
  <2>1. n \in 0..n /\ Len(full) \in Nat /\ Len(full) <= Len(full) /\ ~(n < n) /\ e(n) <= Len(full)
    BY <1>1, <1>3
  <2> HIDE DEF e, C, n
  <2>2. C(1, Len(full)) = C(1, e(n))
    BY <1>4, <2>1
  <2>3. ChangedTo(hs, n) = C(1, e(n))
    BY <1>7, <2>1
  <2>4. QED
    BY <2>2, <2>3 DEF C, Count, n
<1>11. QED
  BY <1>8, <1>9, <1>10

(* Above a context line that is not the last nothing lacks its newline.    *)
LEMMA NoMarkAboveContext ==
  ASSUME NEW full, NEW f, NEW ls, NEW to, Placed(full, f, ls, to), WellMarked(full),
         NEW i \in 1..Len(ls), ls[i].kind = "ctx", i < Len(ls), NEW m \in 1..i
  PROVE  ~ls[m].nonl
<1> DEFINE p == f + m
           q == f + i
           r == q + 1
<1>1. /\ full \in Seq(Line) /\ ls \in Seq(Line) /\ f \in Nat /\ f + Len(ls) <= Len(full)
      /\ Len(ls) \in Nat
  BY DEF Placed
<1>2. /\ p \in 1..Len(full) /\ q \in 1..Len(full) /\ r \in 1..Len(full)
      /\ r \in (q + 1)..Len(full)
      /\ m # i => q \in (p + 1)..Len(full)
      /\ m = i => p = q
  BY <1>1
<1>3. full[p] = ls[m] /\ full[q] = ls[i]
  <2>1. m \in 1..Len(ls)
    OBVIOUS
  <2>2. QED
    BY <2>1 DEF Placed, Within
<1> HIDE DEF p, q, r
<1>4. SUFFICES ASSUME full[p].nonl
               PROVE  FALSE
  BY <1>3
<1>5. /\ full[q].kind = "ctx"
      /\ full[p].kind \in {"ctx", "add", "del"} /\ full[r].kind \in {"ctx", "add", "del"}
  <2>1. full[p] \in Line /\ full[r] \in Line
    BY <1>1, <1>2
  <2>2. QED
    BY <1>3, <2>1 DEF Line, Kinds
<1>6. CASE m = i
  <2>1. full[q].nonl /\ full[q].kind \in OldSide /\ full[q].kind \in NewSide
    BY <1>2, <1>4, <1>5, <1>6 DEF OldSide, NewSide
  <2>2. full[r].kind \notin OldSide /\ full[r].kind \notin NewSide
    BY <1>1, <1>2, <2>1, MarkedOldIsLast, MarkedNewIsLast
  <2>3. QED
    BY <1>5, <2>2 DEF OldSide, NewSide
<1>7. CASE m # i
  <2>1. full[q].kind \in OldSide /\ full[q].kind \in NewSide
    BY <1>5 DEF OldSide, NewSide
  <2>2. full[p].kind \in OldSide \/ full[p].kind \in NewSide
    BY <1>5 DEF OldSide, NewSide
  <2>3. QED
    BY <1>1, <1>2, <1>4, <1>7, <2>1, <2>2, MarkedOldIsLast, MarkedNewIsLast
<1>8. QED
  BY <1>6, <1>7

(* A piece of a hunk that stands in the diff stands in it too.             *)
LEMMA PieceIsPlaced ==
  ASSUME NEW full \in Seq(Line), NEW h \in Hunk, Sound(h), OldAt(h) >= 1, OldEnd(h) <= MaxU32,
         NEW f \in 0..Len(full), NEW above, Stands(full, h, f, above),
         NEW from \in Nat \ {0}, NEW to \in Nat, from <= to, to <= Len(h.lines),
         CountIn(h.lines, OldSide, 1, to) > 0, \A i \in 1..(from - 1) : ~h.lines[i].nonl
  PROVE  \E top \in 0..Len(full) :
           Stands(full, RebuildSubhunk(h, from, to), top,
                  above + CountIn(h.lines, Changes, 1, from - 1))
<1> DEFINE ls == h.lines
           n == from - 1
           top == f + n
           p == RebuildSubhunk(h, from, to)
           size == to - n
           bottom == top + size
           first == top + 1
<1>1. /\ f \in Nat /\ n \in Nat /\ top \in Nat /\ size \in Nat /\ size = to - n /\ size = to - from + 1
      /\ top = f + n /\ bottom \in Nat /\ n <= Len(ls)
      /\ bottom = top + size /\ first = top + 1 /\ first \in Int /\ bottom - first + 1 = size
  OBVIOUS
<1>2. /\ Placed(full, f, ls, f + Len(ls)) /\ Unmarked(full, f)
      /\ above = CountIn(full, Changes, 1, f)
      /\ OldAt(h) = CountIn(full, OldSide, 1, f) + 1
  <2> DEFINE u == f + Len(ls)
  <2>1. u = f + Len(h.lines)
    OBVIOUS
  <2> HIDE DEF u
  <2>2. Placed(full, f, h.lines, u) /\ Unmarked(full, f)
        /\ above = CountIn(full, Changes, 1, f)
        /\ OldAt(h) = CountIn(full, OldSide, 1, f) + 1
    BY <2>1, StandsPlaced
  <2>3. QED
    BY <2>1, <2>2
<1>3. /\ ls \in Seq(Line) /\ Len(ls) \in Nat /\ f + Len(ls) <= Len(full)
      /\ \A i \in 1..Len(ls) : ls[i] = full[f + i]
  BY <1>2 DEF Placed, Within
<1>3a. bottom <= Len(full) /\ top <= Len(full)
  <2>1. f + Len(ls) <= Len(full) /\ Len(ls) \in Nat
    BY <1>2 DEF Placed
  <2>2. Len(full) \in Nat
    OBVIOUS
  <2>3. bottom = f + to /\ to <= Len(ls)
    BY <1>1
  <2> HIDE DEF ls, bottom, top
  <2>4. QED
    BY <1>1, <2>1, <2>2, <2>3
<1>4. p.lines = SubSeq(ls, from, to)
  BY DEF RebuildSubhunk
<1>5. /\ p.lines \in Seq(Line) /\ Len(p.lines) = size
      /\ \A i \in 1..size : p.lines[i] = ls[from + i - 1]
  <2>1. \A i \in from..to : ls[i] \in Line
    BY <1>3
  <2>2. from \in Int /\ to \in Int
    OBVIOUS
  <2> HIDE DEF p, ls
  <2>3. /\ SubSeq(ls, from, to) \in Seq(Line)
        /\ Len(SubSeq(ls, from, to)) = IF from <= to THEN to - from + 1 ELSE 0
        /\ \A i \in 1..(to - from + 1) : SubSeq(ls, from, to)[i] = ls[from + i - 1]
    BY <2>1, <2>2, SubSeqProperties
  <2>4. QED
    BY <1>1, <1>4, <2>3
<1>6. p.lines = SubSeq(full, first, bottom)
  <2> DEFINE s == SubSeq(full, first, bottom)
  <2>1. \A i \in first..bottom : full[i] \in Line
    BY <1>1, <1>3a
  <2> HIDE DEF first, bottom, p, ls, top, size
  <2>2. /\ s \in Seq(Line)
        /\ Len(s) = IF first <= bottom THEN bottom - first + 1 ELSE 0
        /\ \A i \in 1..(bottom - first + 1) : s[i] = full[first + i - 1]
    BY <1>1, <2>1, SubSeqProperties
  <2>3. Len(s) = size
    <3> HIDE DEF s
    <3>1. QED
      BY <1>1, <2>2
  <2>4. ASSUME NEW i \in 1..size
        PROVE  p.lines[i] = s[i]
    <3> DEFINE x == from + i - 1
               y == first + i - 1
    <3>1. x \in 1..Len(ls) /\ f + x = y /\ i \in 1..(bottom - first + 1)
      <4>1. i \in Nat /\ i >= 1 /\ i <= size /\ Len(ls) \in Nat /\ to <= Len(ls)
        BY <1>1, <1>3 DEF ls
      <4>2. QED
        BY <4>1, <1>1
    <3>2. p.lines[i] = ls[x] /\ s[i] = full[y]
      BY <1>5, <2>2, <3>1
    <3> HIDE DEF x, y
    <3>3. ls[x] = full[f + x]
      BY <1>3, <3>1
    <3>4. QED
      BY <3>1, <3>2, <3>3
  <2> HIDE DEF s
  <2>5. p.lines = s
    BY <1>5, <2>2, <2>3, <2>4, SeqEqual
  <2>6. QED
    BY <2>5 DEF s
<1>7. \A K : CountIn(full, K, 1, top) = CountIn(full, K, 1, f) + CountIn(ls, K, 1, n)
             /\ CountIn(full, K, 1, f) \in Nat /\ CountIn(ls, K, 1, n) \in Nat
  <2>1. TAKE K
  <2> DEFINE u == f + Len(ls)
             g == f + 1
  <2>2. Placed(full, f, ls, u)
    BY <1>2
  <2>3. g = f + 1 /\ f \in Int /\ top \in Int /\ 1 \in Int /\ 1 <= f + 1 /\ f <= top /\ n \in Int
    BY <1>1
  <2>4. n \in Nat /\ n <= Len(ls) /\ top = f + n
    BY <1>1
  <2> HIDE DEF u, g, ls, n, top
  <2>5. CountIn(full, K, g, top) = CountIn(ls, K, 1, n)
    BY <2>2, <2>3, <2>4, PlacedCounts
  <2>6. CountIn(full, K, 1, top) = CountIn(full, K, 1, f) + CountIn(full, K, f + 1, top)
    BY <2>3, CountInSplits
  <2>7. CountIn(full, K, 1, f) \in Nat /\ CountIn(ls, K, 1, n) \in Nat
    BY <2>3, CountInType
  <2>8. QED
    BY <2>3, <2>5, <2>6, <2>7
<1>8. OldAt(p) = OldAt(h) + CountIn(ls, OldSide, 1, n)
  BY PieceStands
<1>9. Unmarked(full, top)
  <2>1. ASSUME NEW i \in 1..top
        PROVE  ~full[i].nonl
    <3>1. CASE i <= f
      <4>1. i \in 1..f
        BY <1>1, <3>1
      <4>2. QED
        BY <1>2, <4>1 DEF Unmarked
    <3>2. CASE i > f
      <4> DEFINE j == i - f
      <4>1. j \in 1..n /\ j \in 1..Len(ls) /\ f + j = i
        BY <1>1, <1>3, <3>2
      <4>2. ~ls[j].nonl
        BY <4>1
      <4> HIDE DEF j, ls
      <4>3. ls[j] = full[f + j]
        BY <1>3, <4>1
      <4>4. QED
        BY <4>1, <4>2, <4>3
    <3>3. QED
      BY <1>1, <3>1, <3>2
  <2>2. QED
    BY <2>1, Zenon DEF Unmarked
<1> HIDE DEF p, ls, n, top, bottom, first, size
<1>10. Stands(full, p, top, above + CountIn(ls, Changes, 1, n))
  <2>1. top + Len(p.lines) = bottom /\ top + 1 = first
    BY <1>1, <1>5
  <2>2. OldAt(p) = CountIn(full, OldSide, 1, top) + 1
    BY <1>2, <1>7, <1>8
  <2>3. CountIn(full, Changes, 1, top) = above + CountIn(ls, Changes, 1, n)
    BY <1>2, <1>7
  <2>4. \A i \in 1..top : ~full[i].nonl
    BY <1>9 DEF Unmarked
  <2>5. QED
    BY <1>3a, <1>6, <2>1, <2>2, <2>3, <2>4, Zenon DEF Stands
<1>11. top \in 0..Len(full)
  BY <1>1, <1>3a
<1>12. QED
  BY <1>10, <1>11 DEF p, ls, n

(* A hunk taken whole makes all its changes.                               *)
LEMMA TakesAll ==
  ASSUME NEW full \in Seq(Line), WellMarked(full), NEW h \in Hunk, NEW f \in 0..Len(full),
         NEW above, Stands(full, h, f, above)
  PROVE  Takes(h, h, 1..Count(h.lines, Changes))
<1> DEFINE u == f + Len(h.lines)
<1>1. u = f + Len(h.lines)
  OBVIOUS
<1> HIDE DEF u
<1>2. Placed(full, f, h.lines, u)
  BY <1>1, StandsPlaced
<1>3. FileWith(h.lines, 1..Count(h.lines, Changes)) = SideOf(h.lines, NewSide)
  BY <1>2, FileWithAll
<1>4. QED
  BY <1>3, Zenon DEF Takes

\* the net growth above each hunk of the result, and below the last
Growth == [m \in 0..Len(hunks) |-> ShiftAt(m + 1)]

(* A result short of the last position is numbered as `git apply` counts.   *)
LEMMA EmittedMoves ==
  ASSUME LoopInv, Real, phase = "emitted", ~OutOfPositions(hunks)
  PROVE  Moved(hunks, Growth)
<1> DEFINE n == Len(hunks)
<1>1. /\ hunks \in Seq(Hunk) /\ n \in Nat /\ shifts \in Seq(Int) /\ Len(shifts) = n
      /\ \A j \in 1..n : Sound(hunks[j]) /\ hunks[j].new_start # MaxU32 /\ hunks[j] \in Hunk
      /\ \A j \in 1..n : /\ hunks[j].new_start = ExpectedNewStart(hunks[j], shifts[j])
                         /\ shifts[j] = ShiftAt(j) /\ shifts[j] \in Int
                         /\ OldAt(hunks[j]) + shifts[j] >= 1
  BY DEF LoopInv, LoopTypeOK, RenumberInv, AllSound, Numbered, OutOfPositions
<1>2. \A j \in 1..n : Net(hunks[j].lines) \in Int
  <2>1. TAKE j \in 1..n
  <2>2. hunks[j].lines \in Seq(Line)
    BY <1>1 DEF Hunk
  <2>3. QED
    BY <2>2, NetType
<1>3. \A m \in 0..n : Growth[m] = ShiftAt(m + 1)
  BY <1>1 DEF Growth
<1>4. Growth[0] = 0
  BY <1>1, <1>3 DEF ShiftAt
<1>5. \A m \in 1..n : /\ Growth[m - 1] \in Int
                      /\ Growth[m] = Growth[m - 1] + Net(hunks[m].lines)
                      /\ NewAt(hunks[m]) = OldAt(hunks[m]) + Growth[m - 1]
  <2>1. TAKE m \in 1..n
  <2>2. m \in Nat /\ m # 0 /\ m - 1 \in 0..n /\ m \in 0..n /\ m + 1 # 1 /\ (m + 1) - 1 = m
        /\ (m - 1) + 1 = m
    BY <1>1
  <2>3. Growth[m - 1] = shifts[m]
    BY <1>1, <1>3, <2>2
  <2>4. Growth[m] = shifts[m] + Net(hunks[m].lines)
    <3>1. ShiftAt(m + 1) = shifts[m] + Net(hunks[m].lines)
      BY <2>2 DEF ShiftAt
    <3>2. QED
      BY <1>3, <2>2, <3>1
  <2>5. NewAt(hunks[m]) = OldAt(hunks[m]) + shifts[m]
    BY <1>1, NumberedMoves
  <2>6. QED
    BY <1>1, <2>3, <2>4, <2>5
<1>6. QED
  BY <1>4, <1>5 DEF Moved

\* everything a list of hunks changes, hunk by hunk
Growing(hs) == [j \in 0..Len(hs) |-> ChangedTo(hs, j)]
Whole(hs)   == [j \in 1..Len(hs) |-> 1..Count(hs[j].lines, Changes)]

(* All the changes of the first j hunks are all the changes up to there.   *)
LEMMA AllPicked ==
  ASSUME NEW hs \in Seq(Hunk)
  PROVE  PickedTo(Growing(hs), Whole(hs), Len(hs)) = 1..ChangedTo(hs, Len(hs))
<1> DEFINE n == Len(hs)
           cs == Growing(hs)
           ps == Whole(hs)
           P(j) == PickedTo(cs, ps, j) = 1..cs[j]
           G == {j \in 0..n : P(j)}
<1>1. n \in Nat /\ 0 \in Nat /\ 0 <= n
  OBVIOUS
<1>2. \A j \in 0..n : cs[j] = ChangedTo(hs, j) /\ cs[j] \in Nat
  <2>1. TAKE j \in 0..n
  <2>2. cs[j] = ChangedTo(hs, j)
    BY DEF Growing
  <2>3. QED
    BY <2>2, ChangesAreFinite
<1>3. \A j \in 1..n : /\ cs[j] = cs[j - 1] + Count(hs[j].lines, Changes)
                      /\ ps[j] = 1..Count(hs[j].lines, Changes)
                      /\ Count(hs[j].lines, Changes) \in Nat
  <2>1. TAKE j \in 1..n
  <2>2. j - 1 \in 0..n /\ j \in 0..n
    BY <1>1
  <2>3. ps[j] = 1..Count(hs[j].lines, Changes)
    BY DEF Whole
  <2>4. QED
    BY <1>2, <2>2, <2>3, ChangedToGrows
<1>4. cs[0] = 0
  <2>1. CASE n = 0
    <3>1. hs = <<>>
      BY <2>1
    <3>2. 0 \in 0..n
      BY <1>1
    <3>3. QED
      BY <1>2, <3>1, <3>2, NoHunksNoChanges
  <2>2. CASE n # 0
    <3>1. 1 \in 1..n /\ 0 \in 0..n
      BY <1>1, <2>2
    <3>2. QED
      BY <1>2, <3>1, ChangedToGrows
  <2>3. QED
    BY <2>1, <2>2
<1> HIDE DEF cs, ps
<1>5. P(0)
  <2>1. 1..0 = {}
    OBVIOUS
  <2>2. PickedTo(cs, ps, 0) = {}
    BY <2>1 DEF PickedTo
  <2>3. QED
    BY <1>4, <2>1, <2>2
<1>6. ASSUME NEW j \in (0 + 1)..n, P(j - 1)
      PROVE  P(j)
  <2>1. j \in 1..n /\ j \in Nat \ {0} /\ j - 1 \in 0..n
    BY <1>1
  <2>2. PickedTo(cs, ps, j) = PickedTo(cs, ps, j - 1) \cup CountedBelow(cs[j - 1], ps[j])
    BY <2>1, PickedToGrows
  <2> DEFINE a == cs[j - 1]
             c == Count(hs[j].lines, Changes)
  <2>3. a \in Nat /\ c \in Nat /\ cs[j] = a + c /\ ps[j] = 1..c
    BY <1>2, <1>3, <2>1
  <2>4. PickedTo(cs, ps, j - 1) = 1..a
    BY <1>6
  <2> HIDE DEF a, c
  <2>5. CountedBelow(a, 1..c) = (a + 1)..(a + c)
    <3>1. \A x \in (a + 1)..(a + c) : x - a \in 1..c /\ x = a + (x - a)
      BY <2>3
    <3>2. \A k \in 1..c : a + k \in (a + 1)..(a + c)
      BY <2>3
    <3>3. CountedBelow(a, 1..c) = {a + k : k \in 1..c}
      BY Zenon DEF CountedBelow
    <3>4. QED
      BY <3>1, <3>2, <3>3
  <2>6. (1..a) \cup ((a + 1)..(a + c)) = 1..(a + c)
    BY <2>3
  <2>7. PickedTo(cs, ps, j) = 1..(a + c)
    BY <2>2, <2>3, <2>4, <2>5, <2>6 DEF a
  <2>8. QED
    BY <2>3, <2>7
<1>7. n \in G
  <2> DEFINE H == G
  <2>1. 0 \in H
    BY <1>1, <1>5
  <2>2. \A j \in (0 + 1)..n : j - 1 \in H => j \in H
    BY <1>1, <1>6
  <2> HIDE DEF H, P
  <2>3. \A j \in 0..n : j \in H
    BY <1>1, <2>1, <2>2, Upward
  <2>4. QED
    BY <1>1, <2>3 DEF H
<1>8. QED
  BY <1>1, <1>2, <1>7 DEF cs, ps

(* No hunk ends between a mark and an old line: where the hunks hold every *)
(* change, those below one that ends on a marked addition would stand      *)
(* below that mark.                                                        *)
LEMMA NothingOldBelowMarks ==
  ASSUME NEW full \in Seq(Line), WellMarked(full), NEW hs \in Seq(Hunk),
         Standing(full, hs, 0), ChangedTo(hs, Len(hs)) = Count(full, Changes),
         NEW j \in 1..Len(hs), NEW f \in 0..Len(full),
         Stands(full, hs[j], f, ChangedTo(hs, j - 1)), NEW to, to = f + Len(hs[j].lines)
  PROVE  Sealed(full, to)
<1> SUFFICES ASSUME NEW i \in 1..to, full[i].nonl,
                    NEW k \in (to + 1)..Len(full), full[k].kind \in OldSide
             PROVE  FALSE
  BY DEF Sealed
<1> DEFINE N == Len(full)
           passed == ChangedTo(hs, j)
           next == to + 1
<1>1. /\ hs[j] \in Hunk /\ hs[j].lines \in Seq(Line) /\ f \in Nat /\ N \in Nat
      /\ to \in Nat /\ to <= N /\ f <= to
  <2>1. hs[j] \in Hunk
    OBVIOUS
  <2>2. hs[j].lines \in Seq(Line)
    BY <2>1 DEF Hunk
  <2>3. f + Len(hs[j].lines) <= Len(full)
    BY DEF Stands
  <2>4. QED
    BY <2>1, <2>2, <2>3
<1>2. /\ Placed(full, f, hs[j].lines, to) /\ Unmarked(full, f)
      /\ ChangedTo(hs, j - 1) = CountIn(full, Changes, 1, f)
  BY <1>1, StandsPlaced
<1>3. i \in 1..N /\ k \in 1..N /\ i < k /\ k \in (i + 1)..N
  BY <1>1
<1>4. full[i].kind = "add" /\ full[k].kind = "del"
  <2> DEFINE from == i + 1
  <2>1. from \in Int /\ N \in Int /\ k \in from..N /\ i \in DOMAIN full
    BY <1>3
  <2>2. full[i].kind \in Kinds /\ full[k].kind \in {"ctx", "del"}
    <3>1. full[i] \in Line /\ full[k] \in Line
      BY <1>3
    <3>2. QED
      BY <3>1 DEF OldSide, Line
  <2>3. full[i].kind \notin OldSide
    BY <1>3, MarkedOldIsLast
  <2>4. full[i].kind = "add"
    BY <2>2, <2>3 DEF OldSide, Kinds
  <2>5. ~(CountIn(full, NewSide, from, N) > 0)
    BY <2>1, <2>4 DEF WellMarked
  <2> HIDE DEF from, N
  <2>6. full[k].kind \notin NewSide
    BY <2>1, <2>5, CountInPositive
  <2>7. QED
    BY <2>2, <2>4, <2>6 DEF NewSide
<1>5. passed = CountIn(full, Changes, 1, to)
  <2>1. passed = ChangedTo(hs, j - 1) + Count(hs[j].lines, Changes)
    BY ChangedToGrows
  <2> DEFINE ls == hs[j].lines
             m == Len(ls)
             from == f + 1
  <2>4. /\ m \in Nat /\ m <= Len(ls) /\ to = f + m /\ from = f + 1 /\ Placed(full, f, ls, to)
        /\ 1 \in Int /\ f \in Int /\ to \in Int /\ 1 <= f + 1 /\ f <= to
    BY <1>1, <1>2
  <2>7. Count(ls, Changes) = CountIn(ls, Changes, 1, m)
    BY DEF Count
  <2> HIDE DEF ls, m, from
  <2>6. CountIn(full, Changes, from, to) = CountIn(ls, Changes, 1, m)
    BY <2>4, PlacedCounts
  <2>5. CountIn(full, Changes, 1, to) = CountIn(full, Changes, 1, f) + CountIn(full, Changes, from, to)
    BY <2>4, CountInSplits
  <2>2. CountIn(full, Changes, 1, to) = CountIn(full, Changes, 1, f) + Count(hs[j].lines, Changes)
    BY <2>7, <2>6, <2>5 DEF ls
  <2>3. QED
    BY <1>2, <2>1, <2>2
<1> HIDE DEF passed, N, next
<1>6. passed < Count(full, Changes)
  <2>1. /\ 1 \in Int /\ to \in Int /\ N \in Int /\ next \in Int /\ 1 <= to + 1 /\ to <= N
        /\ next = to + 1
    BY <1>1 DEF next
  <2>2. CountIn(full, Changes, 1, N) = CountIn(full, Changes, 1, to) + CountIn(full, Changes, next, N)
    BY <2>1, CountInSplits
  <2>3. k \in next..N /\ full[k].kind \in Changes
    BY <1>4, <2>1 DEF Changes, N
  <2>4. CountIn(full, Changes, next, N) > 0 /\ CountIn(full, Changes, next, N) \in Nat
    BY <2>1, <2>3, CountInPositive, CountInType
  <2>5. CountIn(full, Changes, 1, to) \in Nat
    BY <2>1, CountInType
  <2>6. Count(full, Changes) = CountIn(full, Changes, 1, N)
    BY DEF Count, N
  <2>7. QED
    BY <1>5, <2>2, <2>4, <2>5, <2>6
<1>7. j + 1 \in 1..Len(hs)
  <2>1. j # Len(hs)
    <3>1. passed # Count(full, Changes)
      <4>1. passed \in Nat
        BY ChangesAreFinite DEF passed
      <4>2. QED
        BY <1>6, <4>1
    <3>2. QED
      BY <3>1 DEF passed
  <2>2. QED
    BY <2>1
<1>8. PICK g \in 0..Len(full) : Stands(full, hs[j + 1], g, passed)
  <2> DEFINE m == j + 1
  <2>1. m \in 1..Len(hs) /\ m - 1 = j
    BY <1>7
  <2> HIDE DEF m
  <2>2. StandsAt(full, hs, 0, m)
    BY <2>1, StandingIs
  <2>3. 0 + ChangedTo(hs, m - 1) = passed
    <3>1. ChangedTo(hs, j) \in Nat
      BY ChangesAreFinite
    <3>2. QED
      BY <2>1, <3>1 DEF passed
  <2>4. QED
    BY <2>2, <2>3, Zenon DEF StandsAt, m
<1>9. CountIn(full, Changes, 1, g) = passed /\ ~(i <= g)
  <2>1. CountIn(full, Changes, 1, g) = passed /\ \A p \in 1..g : ~full[p].nonl
    BY <1>8, Zenon DEF Stands
  <2>2. QED
    BY <2>1
<1>10. CountIn(full, Changes, 1, g) < CountIn(full, Changes, 1, to)
  <2> DEFINE after == g + 1
  <2>1. /\ 1 \in Int /\ g \in Int /\ to \in Int /\ after \in Int /\ 1 <= g + 1 /\ g <= to
        /\ i \in after..to /\ after = g + 1
    BY <1>1, <1>9
  <2> HIDE DEF after
  <2>2. CountIn(full, Changes, 1, to) = CountIn(full, Changes, 1, g) + CountIn(full, Changes, after, to)
    BY <2>1, CountInSplits
  <2>3. full[i].kind \in Changes
    BY <1>4 DEF Changes
  <2>4. CountIn(full, Changes, after, to) > 0 /\ CountIn(full, Changes, after, to) \in Nat
    BY <2>1, <2>3, CountInPositive, CountInType
  <2>5. CountIn(full, Changes, 1, g) \in Nat
    BY <2>1, CountInType
  <2>6. QED
    BY <2>2, <2>4, <2>5
<1>11. QED
  <2>0. g \in Int /\ to \in Int /\ 1 \in Int
    BY <1>1
  <2>1. CountIn(full, Changes, 1, g) \in Nat /\ CountIn(full, Changes, 1, to) \in Nat
    BY ONLY <2>0, CountInType
  <2>2. QED
    BY <1>5, <1>9, <1>10, <2>1

(* Hunks that stand in a diff, hold all its changes and are numbered as    *)
(* `git apply` counts take the one file to the other.                      *)
LEMMA AppliesTheSame ==
  ASSUME NEW full \in Seq(Line), WellMarked(full),
         NEW hs \in Seq(Hunk), AllSound(hs), Standing(full, hs, 0),
         ChangedTo(hs, Len(hs)) = Count(full, Changes), NEW gs, Moved(hs, gs)
  PROVE  Apply(OldFile(full), hs) = FileWith(full, 1..Count(full, Changes))
<1> DEFINE n == Len(hs)
           cs == Growing(hs)
           ps == Whole(hs)
           ts == [j \in 0..n |-> j]
<1>1. n \in Nat /\ DOMAIN hs = 1..n /\ \A j \in 1..n : hs[j] \in Hunk
  OBVIOUS
<1>2. \A j \in 0..n : cs[j] = ChangedTo(hs, j) /\ cs[j] \in Nat
  <2>1. TAKE j \in 0..n
  <2>2. cs[j] = ChangedTo(hs, j)
    BY DEF Growing
  <2>3. QED
    BY <2>2, ChangesAreFinite
<1>3. \A j \in 1..n : /\ cs[j - 1] \in Nat /\ cs[j] = cs[j - 1] + Count(hs[j].lines, Changes)
                      /\ ps[j] = 1..Count(hs[j].lines, Changes)
                      /\ Count(hs[j].lines, Changes) \in Nat \ {0}
  <2>1. TAKE j \in 1..n
  <2>2. j - 1 \in 0..n /\ j \in 0..n
    BY <1>1
  <2>3. ps[j] = 1..Count(hs[j].lines, Changes)
    BY DEF Whole
  <2>4. Count(hs[j].lines, Changes) # 0
    BY <1>1, SoundMeans DEF AllSound
  <2>5. QED
    BY <1>2, <2>2, <2>3, <2>4, ChangedToGrows
<1>4. cs[0] = 0
  <2>1. CASE n = 0
    <3>1. hs = <<>>
      BY <2>1
    <3>2. 0 \in 0..n
      BY <1>1
    <3>3. QED
      BY <1>2, <3>1, <3>2, NoHunksNoChanges
  <2>2. CASE n # 0
    <3>1. 1 \in 1..n /\ 0 \in 0..n
      BY <1>1, <2>2
    <3>2. QED
      BY <1>2, <3>1, ChangedToGrows
  <2>3. QED
    BY <2>1, <2>2
<1>5. \A j \in 1..n : \E f \in 0..Len(full) : /\ Stands(full, hs[j], f, cs[j - 1])
                                           /\ Sealed(full, f + Len(hs[j].lines))
  <2>1. TAKE j \in 1..n
  <2>2. StandsAt(full, hs, 0, j)
    BY StandingIs
  <2>3. j - 1 \in 0..n
    BY <1>1
  <2>4. 0 + ChangedTo(hs, j - 1) = cs[j - 1] /\ ChangedTo(hs, j - 1) = cs[j - 1]
    BY <1>2, <2>3
  <2>5. PICK f \in 0..Len(full) : Stands(full, hs[j], f, cs[j - 1])
    BY <2>2, <2>4, Zenon DEF StandsAt
  <2> DEFINE to == f + Len(hs[j].lines)
  <2>6. to = f + Len(hs[j].lines)
    OBVIOUS
  <2> HIDE DEF to, cs
  <2>7. Stands(full, hs[j], f, ChangedTo(hs, j - 1))
    BY <2>4, <2>5
  <2>8. Sealed(full, to)
    BY <2>6, <2>7, NothingOldBelowMarks
  <2>9. QED
    BY <2>5, <2>8 DEF to
<1> HIDE DEF cs, ps
<1>6. Stacked(full, hs, cs)
  BY <1>3, <1>4, <1>5 DEF Stacked
<1>7. \A j \in 1..n : Takes(hs[j], hs[j], ps[j])
  <2>1. TAKE j \in 1..n
  <2>2. PICK f \in 0..Len(full) : Stands(full, hs[j], f, cs[j - 1])
    BY <1>5
  <2>3. Takes(hs[j], hs[j], 1..Count(hs[j].lines, Changes))
    BY <1>1, <2>2, TakesAll
  <2>4. QED
    BY <1>3, <2>3
<1>8. Selected(hs, ps, hs, ts)
  <2>1. \A j \in 0..n : ts[j] = j
    OBVIOUS
  <2>2. 0 \in 0..n /\ n \in 0..n
    BY <1>1
  <2>3. \A j \in 1..n : /\ j - 1 \in 0..n /\ j \in 0..n /\ j = (j - 1) + 1 /\ j <= n
    BY <1>1
  <2>4. \A j \in 1..n : ps[j] # {} /\ ps[j] \subseteq 1..Count(hs[j].lines, Changes)
    <3>1. TAKE j \in 1..n
    <3>2. 1 \in 1..Count(hs[j].lines, Changes)
      BY <1>3
    <3>3. QED
      BY <1>3, <3>2
  <2> HIDE DEF ts
  <2>5. \A j \in 1..n : /\ ts[j - 1] \in 0..n /\ ts[j] = ts[j - 1] + 1 /\ ts[j] <= n
                        /\ Takes(hs[ts[j]], hs[j], ps[j])
    <3>1. TAKE j \in 1..n
    <3>2. ts[j] = j /\ ts[j - 1] = j - 1
      BY <2>1, <2>3
    <3>3. QED
      BY <1>7, <2>3, <3>2
  <2>6. ts[0] = 0 /\ ts[n] = n
    BY <2>1, <2>2
  <2>7. QED
    BY <2>4, <2>5, <2>6, Zenon DEF Selected
<1> HIDE DEF ts
<1>9. Apply(OldFile(full), hs) = FileWith(full, PickedTo(cs, ps, n))
  BY <1>6, <1>8, PicksApply
<1>10. PickedTo(cs, ps, n) = 1..Count(full, Changes)
  BY AllPicked DEF cs, ps
<1>11. QED
  BY <1>9, <1>10
=============================================================================

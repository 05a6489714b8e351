-------------------------- MODULE SplitFile_proofs --------------------------
(***************************************************************************)
(* Proofs about SplitFile, for every entry, every u32 bound, every hunk    *)
(* and every set of cuts: IInv is inductive, and the properties of split   *)
(* follow from it.                                                         *)
(***************************************************************************)
EXTENDS SplitMeaning, ResultDiff_proofs

-----------------------------------------------------------------------------
(* Lists of hunks put together.                                             *)

(* It ends on the second list when there is one.                           *)
LEMMA ConcatEnds ==
  ASSUME NEW a \in Seq(Hunk), NEW b \in Seq(Hunk), b # <<>>
  PROVE  a \o b # <<>> /\ (a \o b)[Len(a \o b)] = b[Len(b)]
<1>1. /\ Len(a \o b) = Len(a) + Len(b) /\ Len(a) \in Nat /\ Len(b) \in Nat
      /\ \A j \in 1..Len(b) : (a \o b)[j + Len(a)] = b[j]
  BY ConcatHolds
<1>2. Len(b) \in 1..Len(b) /\ Len(b) + Len(a) = Len(a \o b) /\ Len(a \o b) # 0
  BY <1>1
<1>3. QED
  BY <1>1, <1>2

(* Sound lists make a sound list.                                          *)
LEMMA ConcatSound ==
  ASSUME NEW a \in Seq(Hunk), NEW b \in Seq(Hunk), AllSound(a), AllSound(b)
  PROVE  AllSound(a \o b)
<1> DEFINE c == a \o b
<1>1. /\ Len(a) \in Nat /\ Len(b) \in Nat /\ DOMAIN c = 1..(Len(a) + Len(b))
      /\ DOMAIN a = 1..Len(a) /\ DOMAIN b = 1..Len(b)
      /\ \A j \in 1..Len(a) : c[j] = a[j]
      /\ \A j \in 1..Len(b) : c[j + Len(a)] = b[j]
  BY ConcatHolds
<1> HIDE DEF c
<1>2. ASSUME NEW j \in DOMAIN c
      PROVE  Sound(c[j])
  <2>1. CASE j <= Len(a)
    BY <1>1, <2>1 DEF AllSound
  <2>2. CASE j > Len(a)
    <3>1. j - Len(a) \in 1..Len(b) /\ (j - Len(a)) + Len(a) = j
      BY <1>1, <2>2
    <3>2. c[j] = b[j - Len(a)]
      BY <1>1, <3>1
    <3>3. QED
      BY <1>1, <3>1, <3>2 DEF AllSound
  <2>3. QED
    BY <1>1, <2>1, <2>2
<1>3. QED
  BY <1>2 DEF AllSound, c

(* Tidy lists make a tidy list when the second stands below the first.     *)
LEMMA ConcatTidy ==
  ASSUME NEW a \in Seq(Hunk), NEW b \in Seq(Hunk), Tidy(a), Tidy(b),
         a # <<>> /\ b # <<>> => OldEnd(a[Len(a)]) <= OldAt(b[1])
  PROVE  Tidy(a \o b)
<1> DEFINE c == a \o b
<1>1. /\ Len(a) \in Nat /\ Len(b) \in Nat /\ DOMAIN c = 1..(Len(a) + Len(b))
      /\ DOMAIN a = 1..Len(a) /\ DOMAIN b = 1..Len(b)
      /\ \A j \in 1..Len(a) : c[j] = a[j]
      /\ \A j \in 1..Len(b) : c[j + Len(a)] = b[j]
  BY ConcatHolds
<1> HIDE DEF c
<1>2. ASSUME NEW j \in DOMAIN c
      PROVE  \/ j \in DOMAIN a /\ c[j] = a[j]
             \/ j - Len(a) \in DOMAIN b /\ c[j] = b[j - Len(a)]
  <2>1. CASE j <= Len(a)
    BY <1>1, <2>1
  <2>2. CASE j > Len(a)
    <3>1. j - Len(a) \in 1..Len(b) /\ (j - Len(a)) + Len(a) = j
      BY <1>1, <2>2
    <3>2. QED
      BY <1>1, <3>1
  <2>3. QED
    BY <1>1, <2>1, <2>2
<1>3. \A j \in DOMAIN c : OldAt(c[j]) >= 1 /\ OldEnd(c[j]) <= MaxU32 /\ Sound(c[j])
  BY <1>2 DEF Tidy
<1>4. ASSUME NEW j \in DOMAIN c, j > 1
      PROVE  OldEnd(c[j - 1]) <= OldAt(c[j])
  <2>1. CASE j <= Len(a)
    <3>1. j \in DOMAIN a /\ j - 1 \in 1..Len(a) /\ c[j] = a[j] /\ c[j - 1] = a[j - 1]
      BY <1>1, <1>4, <2>1
    <3>2. QED
      BY <1>4, <3>1 DEF Tidy
  <2>2. CASE j = Len(a) + 1
    <3>1. 1 \in 1..Len(b) /\ j - 1 \in 1..Len(a) /\ j - 1 = Len(a) /\ 1 + Len(a) = j
      BY <1>1, <1>4, <2>2
    <3>2. c[j] = b[1] /\ c[j - 1] = a[Len(a)] /\ a # <<>> /\ b # <<>>
      BY <1>1, <3>1
    <3>3. QED
      BY <3>2
  <2>3. CASE j > Len(a) + 1
    <3>1. /\ j - Len(a) \in 1..Len(b) /\ (j - Len(a)) + Len(a) = j
          /\ (j - Len(a)) - 1 \in 1..Len(b) /\ ((j - Len(a)) - 1) + Len(a) = j - 1
      BY <1>1, <2>3
    <3>2. c[j] = b[j - Len(a)] /\ c[j - 1] = b[(j - Len(a)) - 1]
      BY <1>1, <3>1
    <3>3. j - Len(a) > 1
      BY <1>1, <2>3
    <3>4. QED
      BY <1>1, <3>1, <3>2, <3>3 DEF Tidy
  <2>4. QED
    BY <1>1, <2>1, <2>2, <2>3
<1>5. QED
  BY <1>3, <1>4 DEF Tidy, c

(* A stretch of a list is as sound and as tidy as the list.                *)
LEMMA StretchHolds ==
  ASSUME NEW hs \in Seq(Hunk), NEW from \in Nat \ {0}, NEW to \in Nat,
         from <= to + 1, to <= Len(hs)
  PROVE  LET s == SubSeq(hs, from, to)
         IN  /\ s \in Seq(Hunk) /\ Len(s) = to - from + 1
             /\ \A j \in 1..Len(s) : s[j] = hs[j + from - 1] /\ j + from - 1 \in DOMAIN hs
             /\ AllSound(hs) => AllSound(s)
             /\ Tidy(hs) => Tidy(s)
<1> DEFINE s == SubSeq(hs, from, to)
<1>1. /\ s \in Seq(Hunk) /\ Len(s) = to - from + 1 /\ Len(s) \in Nat /\ DOMAIN s = 1..Len(s)
      /\ Len(hs) \in Nat /\ DOMAIN hs = 1..Len(hs)
      /\ \A j \in 1..Len(s) : s[j] = hs[j + from - 1]
  OBVIOUS
<1> HIDE DEF s
<1>2. \A j \in 1..Len(s) : j + from - 1 \in DOMAIN hs
  BY <1>1
<1>3. AllSound(hs) => AllSound(s)
  BY <1>1, <1>2 DEF AllSound
<1>4. ASSUME Tidy(hs)
      PROVE  Tidy(s)
  <2>1. \A j \in DOMAIN s : OldAt(s[j]) >= 1 /\ OldEnd(s[j]) <= MaxU32 /\ Sound(s[j])
    BY <1>1, <1>2, <1>4 DEF Tidy
  <2>2. ASSUME NEW j \in DOMAIN s, j > 1
        PROVE  OldEnd(s[j - 1]) <= OldAt(s[j])
    <3>1. /\ j - 1 \in 1..Len(s) /\ j + from - 1 \in DOMAIN hs /\ j + from - 1 > 1
          /\ (j - 1) + from - 1 = (j + from - 1) - 1
      BY <1>1, <1>2, <2>2
    <3>2. s[j] = hs[j + from - 1] /\ s[j - 1] = hs[(j + from - 1) - 1]
      BY <1>1, <3>1
    <3>3. QED
      BY <1>4, <3>1, <3>2 DEF Tidy
  <2>3. QED
    BY <2>1, <2>2 DEF Tidy
<1>5. QED
  BY <1>1, <1>2, <1>3, <1>4 DEF s

-----------------------------------------------------------------------------
(* Line numbers: u32, so they wrap.                                         *)

LEMMA Quotient ==
  ASSUME NEW x \in Nat, NEW m \in Nat \ {0}
  PROVE  x = m * (x \div m) + (x % m) /\ x % m \in 0..(m - 1) /\ x \div m \in Nat
OBVIOUS

LEMMA SmallStays ==
  ASSUME NEW x \in Nat, NEW m \in Nat \ {0}, x < m
  PROVE  x % m = x
OBVIOUS

(* Whole rounds leave nothing.                                             *)
LEMMA RoundsVanish ==
  ASSUME NEW q \in Nat, NEW m \in Nat \ {0}
  PROVE  (m * q) % m = 0
<1> DEFINE x == m * q
           d == x \div m
           r == x % m
<1>1. x \in Nat /\ x = m * q
  OBVIOUS
<1>2. x = m * d + r /\ r \in 0..(m - 1) /\ d \in Nat
  BY <1>1, Quotient
<1> HIDE DEF x, d, r
<1>3. r = m * (q - d) /\ q - d \in Int
  BY <1>1, <1>2
<1>4. ~(q - d >= 1)
  BY <1>2, <1>3
<1>5. ~(q - d <= -1)
  BY <1>2, <1>3
<1>6. q - d = 0
  BY <1>3, <1>4, <1>5
<1>7. r = 0
  BY <1>3, <1>6
<1>8. QED
  BY <1>7 DEF r, x

(* Counting on from a number that wrapped gives the number that a count    *)
(* from the start does.                                                    *)
LEMMA WrapsOnce ==
  ASSUME NEW x \in Nat, NEW m \in Nat \ {0}
  PROVE  ((x % m) + 1) % m = (x + 1) % m
<1>1. x = m * (x \div m) + (x % m) /\ x % m \in 0..(m - 1) /\ x \div m \in Nat
  BY Quotient
<1>2. CASE x % m = m - 1
  <2>1. x + 1 = m * ((x \div m) + 1) /\ (x \div m) + 1 \in Nat
    BY <1>1, <1>2
  <2>2. (x + 1) % m = 0
    BY <2>1, RoundsVanish
  <2>3. ((x % m) + 1) % m = 0
    BY <1>2
  <2>4. QED
    BY <2>2, <2>3
<1>3. CASE x % m < m - 1
  <2>1. x + 1 = m * (x \div m) + ((x % m) + 1)
    BY <1>1, <1>3
  <2>2. (x + 1) % m = (x % m) + 1
    BY <2>1, <1>1, <1>3
  <2>3. ((x % m) + 1) % m = (x % m) + 1
    BY <1>1, <1>3, SmallStays
  <2>4. QED
    BY <2>2, <2>3
<1>4. QED
  BY <1>1, <1>2, <1>3

-----------------------------------------------------------------------------
(* The start, the loops, and a refused request.                             *)

LEMMA InitInv == Init => IInv
<1> SUFFICES ASSUME Init
             PROVE  IInv
  OBVIOUS
<1>1. IsEntry(entry) /\ cuts \in SUBSET U32 /\ wanted = cuts /\ cuts # {} /\ target \in Nat \ {0}
  <2>1. IsEntry(entry) /\ cuts \in SUBSET U32 /\ wanted = cuts /\ cuts # {}
    BY SplitAssumption DEF Init
  <2>2. entry.hunks \in Seq(Hunk)
    BY <2>1 DEF IsEntry
  <2>3. target \in 1..(Len(entry.hunks) + 1)
    BY DEF Init
  <2>4. QED
    BY <2>1, <2>2, <2>3
<1>2. entry.hunks \in Seq(Hunk) /\ entry.trailer \in Seq(Nat) /\ entry.cropped \in BOOLEAN
  BY <1>1 DEF IsEntry
<1>3. LoopInv
  BY <1>2, LoopBegins DEF Init
<1>4. /\ step = "resolve" /\ li = 1 /\ newNo = 0 /\ seen = 0 /\ ends = <<>> /\ pieces = <<>>
      /\ trailer = entry.trailer /\ cropped = entry.cropped /\ phase = "input"
  BY DEF Init, LoopInit
<1>5. TypeOK
  <2>1. 0 \in U32
    BY MaxU32Assumption DEF U32
  <2>2. QED
    BY <1>1, <1>2, <1>3, <1>4, <2>1 DEF TypeOK, Steps, LoopInv
<1>6. /\ UntouchedInv /\ PlacesInv /\ TargetInv /\ ScanInv /\ AskedInv
      /\ BuildInv /\ PiecesInv /\ SplicedInv
  BY <1>1, <1>4
     DEF UntouchedInv, PlacesInv, TargetInv, ScanInv, AskedInv, BuildInv, PiecesInv, SplicedInv, At
<1>7. QED
  BY <1>3, <1>5, <1>6 DEF IInv

(* What was put in place stays there: renumbering changes no body, and the *)
(* check changes nothing.                                                  *)
LEMMA LoopsKeepSpliced ==
  IInv /\ LoopNext /\ UNCHANGED <<entry, cutting>> => SplicedInv'
<1> SUFFICES ASSUME IInv, LoopNext, UNCHANGED <<entry, cutting>>,
                    phase' \in {"renumber", "result", "emitted"}
             PROVE  SplicedInv'
  BY DEF SplicedInv
<1>1. trailer' = trailer /\ cropped' = cropped /\ entry' = entry
  BY DEF cutting
<1>2. phase \in {"renumber", "result"} /\ SplicedInv /\ hunks \in Seq(Hunk)
  BY DEF IInv, LoopInv, LoopTypeOK, LoopNext, AcceptHunk, RejectHunk, EndCheck, RenumberHunk,
         EndRenumber, Checking
<1>3. /\ DOMAIN hunks' = DOMAIN hunks /\ Len(hunks') = Len(hunks)
      /\ \A j \in DOMAIN hunks : hunks'[j].lines = hunks[j].lines
  <2>1. CASE RenumberHunk
    <3>1. hunks' = [hunks EXCEPT ![at].new_start = ExpectedNewStart(hunks[at], delta)]
      BY <2>1 DEF RenumberHunk
    <3>2. \A j \in DOMAIN hunks : hunks[j] \in Hunk
      BY <1>2
    <3>3. \A j \in DOMAIN hunks : hunks'[j].lines = hunks[j].lines
      BY <3>1, <3>2 DEF Hunk
    <3>4. DOMAIN hunks' = DOMAIN hunks
      BY <3>1
    <3>5. Len(hunks') = Len(hunks)
      BY <1>2, <3>1, <3>4
    <3>6. QED
      BY <3>3, <3>4, <3>5
  <2>2. CASE ~RenumberHunk
    <3>1. hunks' = hunks
      BY <2>2 DEF LoopNext, AcceptHunk, RejectHunk, EndCheck, EndRenumber
    <3>2. QED
      BY <3>1
  <2>3. QED
    BY <2>1, <2>2
<1>4. \A n : ChangedTo(hunks', n) = ChangedTo(hunks, n)
  BY <1>3, SameBodiesSameChanges
<1>5. EndsOnTheInputsLastLine => EndsOnTheInputsLastLine'
  <2>1. HasTail(trailer, hunks) => HasTail(trailer', hunks')
    BY <1>1, <1>3 DEF HasTail
  <2>2. ASSUME ~HasTail(trailer, hunks), EndsOnTheInputsLastLine
        PROVE  EndsOn(hunks') = EndsOn(entry.hunks)
    <3>1. EndsOn(hunks) = EndsOn(entry.hunks)
      BY <2>2 DEF EndsOnTheInputsLastLine
    <3>2. CASE hunks # <<>>
      <4>1. Len(hunks) \in DOMAIN hunks
        BY <1>2, <3>2
      <4>2. QED
        BY <1>3, <3>1, <4>1 DEF EndsOn
    <3>3. CASE hunks = <<>>
      <4>1. hunks' = hunks
        BY <1>2, <3>3 DEF IInv, LoopInv, LoopTypeOK, LoopNext, AcceptHunk, RejectHunk,
                          EndCheck, RenumberHunk, EndRenumber
      <4>2. QED
        BY <3>1, <4>1
    <3>4. QED
      BY <3>2, <3>3
  <2>3. QED
    BY <1>1, <2>1, <2>2 DEF EndsOnTheInputsLastLine
<1>6. QED
  BY <1>1, <1>2, <1>3, <1>4, <1>5 DEF SplicedInv

LEMMA LoopNextInv == IInv /\ LoopNext /\ UNCHANGED <<entry, cutting>> => IInv'
<1> SUFFICES ASSUME IInv, LoopNext, UNCHANGED <<entry, cutting>>
             PROVE  IInv'
  OBVIOUS
<1>1. LoopInv'
  BY LoopStep DEF IInv
<1>2. UNCHANGED <<entry, target, step, li, newNo, cuts, wanted, ends, pieces, seen, trailer, cropped>>
  BY DEF cutting
<1>3. phase # "cut" /\ (phase' \in {"input", "cut"} => phase = "input")
  BY DEF LoopNext, AcceptHunk, RejectHunk, EndCheck, RenumberHunk, EndRenumber, Checking
<1>4. TypeOK'
  BY <1>1, <1>2 DEF IInv, TypeOK, LoopInv
<1>5. UntouchedInv' /\ PlacesInv'
  BY <1>2, <1>3 DEF IInv, UntouchedInv, PlacesInv, At
<1>6. phase' = "cut" => step' = "resolve"
  BY <1>2, <1>3 DEF IInv, UntouchedInv
<1>7. TargetInv' /\ ScanInv' /\ AskedInv' /\ BuildInv' /\ PiecesInv'
  BY <1>2, <1>3, <1>6 DEF IInv, TargetInv, ScanInv, AskedInv, BuildInv, PiecesInv, At
<1>8. SplicedInv'
  BY LoopsKeepSpliced
<1>9. QED
  BY <1>1, <1>4, <1>5, <1>7, <1>8 DEF IInv

LEMMA RefuseInv == IInv /\ Refuse /\ UNCHANGED <<entry, cutting>> => IInv'
<1> SUFFICES ASSUME IInv, Refuse, UNCHANGED <<entry, cutting>>
             PROVE  IInv'
  OBVIOUS
<1>1. phase' = "usage"
  BY DEF Refuse
<1>2. LoopInv'
  BY LoopRefuses DEF IInv
<1>3. TypeOK'
  BY <1>2 DEF IInv, TypeOK, LoopInv, cutting
<1>4. /\ UntouchedInv' /\ PlacesInv' /\ TargetInv' /\ ScanInv' /\ AskedInv'
      /\ BuildInv' /\ PiecesInv' /\ SplicedInv'
  BY <1>1
     DEF UntouchedInv, PlacesInv, TargetInv, ScanInv, AskedInv, BuildInv, PiecesInv, SplicedInv, At
<1>5. QED
  BY <1>2, <1>3, <1>4 DEF IInv

(* A step that changes nothing.                                            *)
LEMMA StutterInv == IInv /\ UNCHANGED vars => IInv'
<1> SUFFICES ASSUME IInv, UNCHANGED vars
             PROVE  IInv'
  OBVIOUS
<1>1. /\ UNCHANGED <<phase, hunks, at, delta, oldEnd, newEnd, fault, shifts, entry>>
      /\ UNCHANGED <<target, step, li, newNo, cuts, wanted, ends, pieces, seen, trailer, cropped>>
  BY DEF vars, loop, cutting
<1>2. LoopInv'
  BY <1>1, LoopRests DEF IInv, loop
<1>3. TypeOK'
  BY <1>1, <1>2 DEF IInv, TypeOK, LoopInv
<1>4. UntouchedInv' /\ PlacesInv' /\ TargetInv'
  BY <1>1 DEF IInv, UntouchedInv, PlacesInv, TargetInv, At
<1>5. ScanInv' /\ AskedInv' /\ BuildInv'
  BY <1>1 DEF IInv, ScanInv, AskedInv, NumberOf, CutNumbers, BuildInv, At, Lines, OnContext
<1>6. PiecesInv' /\ SplicedInv'
  BY <1>1 DEF IInv, PiecesInv, SplicedInv, At, Lines, Real, AllSound, PieceFrom,
              EndsOnTheInputsLastLine, HasTail, EndsOn
<1>7. QED
  BY <1>2, <1>3, <1>4, <1>5, <1>6 DEF IInv

-----------------------------------------------------------------------------
(* Scanning for the cuts.                                                   *)

(* Once the hunk is found, it is one of the input's.                       *)
LEMMA TheHunk ==
  ASSUME IInv, phase = "cut", target <= Len(hunks)
  PROVE  /\ hunks \in Seq(Hunk) /\ target \in Nat \ {0} /\ target \in DOMAIN hunks
         /\ hunks[target] \in Hunk /\ Lines = hunks[target].lines
         /\ Lines \in Seq(Line) /\ Len(Lines) \in Nat /\ DOMAIN Lines = 1..Len(Lines)
         /\ Sound(hunks[target]) /\ AllSound(hunks)
         /\ Real => Tidy(hunks) /\ OldAt(hunks[target]) >= 1 /\ OldEnd(hunks[target]) <= MaxU32
<1>1. hunks \in Seq(Hunk) /\ target \in Nat \ {0}
  BY DEF IInv, LoopInv, LoopTypeOK, TypeOK
<1>2. target \in DOMAIN hunks /\ hunks[target] \in Hunk
  BY <1>1
<1>3. AllSound(hunks) /\ (Real => Tidy(hunks))
  BY DEF IInv, LoopInv, AcceptedInv
<1>4. Sound(hunks[target]) /\ (Real => OldAt(hunks[target]) >= 1 /\ OldEnd(hunks[target]) <= MaxU32)
  BY <1>2, <1>3 DEF AllSound, Tidy
<1>5. Lines = hunks[target].lines /\ Lines \in Seq(Line)
  BY <1>2 DEF Lines, Hunk
<1>6. Len(Lines) \in Nat /\ DOMAIN Lines = 1..Len(Lines)
  BY <1>5
<1>7. QED
  BY <1>1, <1>2, <1>3, <1>4, <1>5, <1>6

(* The number of a body line, from that of the line above it.              *)
LEMMA NextNumber ==
  ASSUME IInv, phase = "cut", target <= Len(hunks), NEW i \in Nat \ {0}
  PROVE  /\ NumberOf(1) = hunks[target].new_start
         /\ NumberOf(i + 1) = IF Lines[i].kind \in NewSide
                                 THEN (NumberOf(i) + 1) % (MaxU32 + 1) ELSE NumberOf(i)
<1> DEFINE start == hunks[target].new_start
           c == CountIn(Lines, NewSide, 1, i - 1)
           one == IF Lines[i].kind \in NewSide THEN 1 ELSE 0
           m == MaxU32 + 1
<1>1. start \in U32 /\ m \in Nat \ {0} /\ start \in Nat /\ start < m
  BY TheHunk, MaxU32Assumption DEF Hunk, U32
<1>2. c \in Nat /\ CountIn(Lines, NewSide, 1, 0) = 0
  BY CountInType
<1>3. CountIn(Lines, NewSide, 1, i) = c + one
  <2>1. i - 1 \in Int /\ 1 <= (i - 1) + 1 /\ i - 1 <= i /\ (i - 1) + 1 = i
    OBVIOUS
  <2>2. CountIn(Lines, NewSide, 1, i) = c + CountIn(Lines, NewSide, (i - 1) + 1, i)
    BY <2>1, CountInSplits
  <2>3. QED
    BY <2>1, <2>2, CountInOne
<1>4. /\ NumberOf(1) = (start + CountIn(Lines, NewSide, 1, 0)) % m
      /\ NumberOf(i) = (start + c) % m
      /\ NumberOf(i + 1) = (start + CountIn(Lines, NewSide, 1, i)) % m
  BY DEF NumberOf
<1> HIDE DEF start, c, m
<1>5. NumberOf(1) = start
  BY <1>1, <1>2, <1>4, SmallStays
<1>6. Lines[i].kind \in NewSide => NumberOf(i + 1) = (NumberOf(i) + 1) % m
  <2>1. start + c \in Nat /\ start + (c + 1) = (start + c) + 1
    BY <1>1, <1>2
  <2>2. (((start + c) % m) + 1) % m = ((start + c) + 1) % m
    BY <1>1, <2>1, WrapsOnce
  <2>3. QED
    BY <1>3, <1>4, <2>1, <2>2
<1>7. Lines[i].kind \notin NewSide => NumberOf(i + 1) = NumberOf(i)
  <2>1. Lines[i].kind \notin NewSide => CountIn(Lines, NewSide, 1, i) = c
    BY <1>2, <1>3
  <2>2. QED
    BY <1>4, <2>1
<1>8. QED
  BY <1>5, <1>6, <1>7 DEF start, m

(* While a hunk is cut, what is not about it stands still.                 *)
LEMMA CutFrame ==
  ASSUME IInv, phase = "cut", step' \in {"scan", "build"}, target <= Len(hunks),
         UNCHANGED <<loop, entry, target, trailer, cropped>>
  PROVE  /\ LoopInv' /\ UntouchedInv' /\ PlacesInv' /\ TargetInv' /\ SplicedInv'
         /\ phase' = "cut" /\ hunks' = hunks /\ Lines' = Lines /\ (Real' <=> Real)
         /\ \A i : NumberOf(i)' = NumberOf(i)
<1>1. phase' = "cut" /\ hunks' = hunks
  BY DEF loop
<1>2. LoopInv'
  BY LoopRests DEF IInv
<1>3. UntouchedInv' /\ PlacesInv' /\ TargetInv' /\ SplicedInv'
  BY <1>1 DEF IInv, UntouchedInv, PlacesInv, TargetInv, SplicedInv, At
<1>4. Lines' = Lines /\ (Real' <=> Real)
  BY <1>1 DEF Lines, Real
<1>5. \A i : NumberOf(i)' = NumberOf(i)
  BY <1>1, <1>4 DEF NumberOf
<1>6. QED
  BY <1>1, <1>2, <1>3, <1>4, <1>5

LEMMA BeginScanInv == IInv /\ BeginScan => IInv'
<1> SUFFICES ASSUME IInv, BeginScan
             PROVE  IInv'
  OBVIOUS
<1>1. /\ phase = "cut" /\ step = "resolve" /\ At("resolve") /\ target <= Len(hunks)
      /\ step' = "scan" /\ newNo' = hunks[target].new_start
      /\ UNCHANGED <<loop, entry, target, li, cuts, wanted, ends, pieces, seen, trailer, cropped>>
  BY DEF BeginScan, At
<1>2. hunks[target] \in Hunk /\ Lines \in Seq(Line) /\ Len(Lines) \in Nat
  BY <1>1, TheHunk
<1>3. /\ LoopInv' /\ UntouchedInv' /\ PlacesInv' /\ TargetInv' /\ SplicedInv'
      /\ Lines' = Lines /\ \A i : NumberOf(i)' = NumberOf(i)
  BY <1>1, CutFrame
<1>4. li = 1 /\ seen = 0 /\ ends = <<>> /\ pieces = <<>> /\ wanted # {} /\ wanted = cuts
  BY <1>1 DEF IInv, UntouchedInv, AskedInv
<1>5. TypeOK'
  <2>1. newNo' \in U32 /\ step' \in Steps
    BY <1>1, <1>2 DEF Hunk, Steps
  <2>2. QED
    BY <1>1, <1>3, <2>1 DEF IInv, TypeOK, LoopInv
<1>6. ScanInv'
  BY <1>1, <1>2, <1>3, <1>4 DEF ScanInv
<1>7. AskedInv'
  <2>1. newNo' = NumberOf(li)'
    BY <1>1, <1>3, <1>4, NextNumber
  <2>2. CutNumbers(Len(ends))' = {}
    BY <1>1, <1>4 DEF CutNumbers
  <2>3. QED
    BY <1>1, <1>4, <2>1, <2>2 DEF AskedInv, At
<1>8. BuildInv' /\ PiecesInv'
  BY <1>1 DEF BuildInv, PiecesInv, At
<1>9. QED
  BY <1>3, <1>5, <1>6, <1>7, <1>8 DEF IInv

(* The line number wraps, and so stays a u32.                              *)
LEMMA AdvanceType ==
  ASSUME newNo \in U32, li \in Nat \ {0}, Advance
  PROVE  newNo' \in U32 /\ li' \in Nat \ {0} /\ li' = li + 1
<1>1. (newNo + 1) % (MaxU32 + 1) \in 0..MaxU32
  BY MaxU32Assumption DEF U32
<1>2. QED
  BY <1>1 DEF Advance, U32

(* Passing a line, the number kept is the next line's.                     *)
LEMMA AdvanceNumber ==
  ASSUME IInv, phase = "cut", target <= Len(hunks), newNo = NumberOf(li),
         li \in DOMAIN Lines, Advance
  PROVE  newNo' = NumberOf(li + 1)
<1>1. Lines[li] \in Line /\ li \in Nat \ {0}
  BY TheHunk
<1>2. Lines[li].kind \in NewSide <=> Lines[li].kind # "del"
  BY <1>1 DEF Line, Kinds, NewSide
<1>3. QED
  BY <1>1, <1>2, NextNumber DEF Advance

LEMMA PassLineInv == IInv /\ PassLine => IInv'
<1> SUFFICES ASSUME IInv, PassLine
             PROVE  IInv'
  OBVIOUS
<1>1. /\ phase = "cut" /\ At("scan") /\ step = "scan" /\ li <= Len(Lines) /\ Advance
      /\ UNCHANGED <<loop, entry, target, step, cuts, wanted, ends, pieces, seen, trailer, cropped>>
  BY DEF PassLine, Scanning, At
<1>2. target <= Len(hunks) /\ li \in Nat \ {0} /\ newNo \in U32 /\ ends \in Seq(Nat)
  BY <1>1 DEF IInv, TypeOK, TargetInv
<1>3. Len(Lines) \in Nat
  BY <1>1, <1>2, TheHunk
<1>4. /\ LoopInv' /\ UntouchedInv' /\ PlacesInv' /\ TargetInv' /\ SplicedInv'
      /\ Lines' = Lines /\ \A i : NumberOf(i)' = NumberOf(i)
  BY <1>1, <1>2, CutFrame
<1>5. newNo' \in U32 /\ li' \in Nat \ {0} /\ li' = li + 1
  BY <1>1, <1>2, AdvanceType
<1>6. TypeOK'
  BY <1>1, <1>4, <1>5 DEF IInv, TypeOK, LoopInv
<1>7. ScanInv'
  <2>1. ScanInv /\ \A i \in DOMAIN ends : ends[i] \in Nat
    BY <1>2 DEF IInv
  <2>2. \A i \in DOMAIN ends : OnContext(i) /\ ends[i] < li
    BY <1>1, <2>1 DEF ScanInv
  <2>3. \A i \in DOMAIN ends : OnContext(i)' /\ ends[i] < li'
    BY <1>1, <1>2, <1>4, <1>5, <2>1, <2>2 DEF OnContext
  <2>4. QED
    BY <1>1, <1>2, <1>3, <1>4, <1>5, <2>1, <2>3 DEF ScanInv
<1>8. AskedInv'
  <2>1. newNo = NumberOf(li) /\ cuts = wanted \union CutNumbers(Len(ends)) /\ li \in DOMAIN Lines
    BY <1>1, <1>2, TheHunk DEF IInv, AskedInv
  <2>2. newNo' = NumberOf(li + 1)
    BY <1>1, <1>2, <2>1, AdvanceNumber
  <2>3. CutNumbers(Len(ends))' = CutNumbers(Len(ends))
    BY <1>1, <1>4 DEF CutNumbers
  <2>4. NumberOf(li)' = NumberOf(li + 1)
    BY <1>1, <1>4, <1>5 DEF NumberOf, loop
  <2>5. QED
    BY <1>1, <2>1, <2>2, <2>3, <2>4 DEF AskedInv, At, loop
<1>9. BuildInv' /\ PiecesInv'
  BY <1>1 DEF BuildInv, PiecesInv, At
<1>10. QED
  BY <1>4, <1>6, <1>7, <1>8, <1>9 DEF IInv

LEMMA CutBelowInv == IInv /\ CutBelow => IInv'
<1> SUFFICES ASSUME IInv, CutBelow
             PROVE  IInv'
  OBVIOUS
<1>1. /\ phase = "cut" /\ At("scan") /\ step = "scan" /\ li <= Len(Lines) /\ Advance
      /\ Lines[li].kind = "ctx" /\ newNo \in wanted
      /\ wanted' = wanted \ {newNo} /\ ends' = Append(ends, li)
      /\ UNCHANGED <<loop, entry, target, step, cuts, pieces, seen, trailer, cropped>>
  BY DEF CutBelow, Scanning, WantedHere, At
<1>2. /\ target <= Len(hunks) /\ li \in Nat \ {0} /\ newNo \in U32 /\ ends \in Seq(Nat)
      /\ wanted \in SUBSET U32
  BY <1>1 DEF IInv, TypeOK, TargetInv
<1>3. Len(Lines) \in Nat /\ li \in DOMAIN Lines
  BY <1>1, <1>2, TheHunk
<1>4. /\ LoopInv' /\ UntouchedInv' /\ PlacesInv' /\ TargetInv' /\ SplicedInv'
      /\ Lines' = Lines /\ \A i : NumberOf(i)' = NumberOf(i)
  BY <1>1, <1>2, CutFrame
<1>5. newNo' \in U32 /\ li' \in Nat \ {0} /\ li' = li + 1
  BY <1>1, <1>2, AdvanceType
<1>6. ends' \in Seq(Nat) /\ wanted' \in SUBSET U32
  BY <1>1, <1>2
<1>7. TypeOK'
  BY <1>1, <1>4, <1>5, <1>6 DEF IInv, TypeOK, LoopInv
<1>8. /\ Len(ends) \in Nat /\ DOMAIN ends' = 1..(Len(ends) + 1) /\ ends'[Len(ends) + 1] = li
      /\ DOMAIN ends = 1..Len(ends) /\ \A i \in DOMAIN ends : ends'[i] = ends[i]
      /\ ends' # <<>> /\ \A i \in DOMAIN ends : ends[i] \in Nat
  BY <1>1, <1>2
<1>9. ScanInv'
  <2>1. /\ \A i \in DOMAIN ends : OnContext(i) /\ ends[i] < li
        /\ \A i, j \in DOMAIN ends : i < j => ends[i] < ends[j]
        /\ seen = 0 /\ pieces = <<>>
    BY <1>1 DEF IInv, ScanInv
  <2>2. ASSUME NEW i \in DOMAIN ends'
        PROVE  OnContext(i)' /\ ends'[i] < li'
    <3>1. CASE i = Len(ends) + 1
      BY <1>1, <1>2, <1>3, <1>4, <1>5, <1>8, <3>1 DEF OnContext
    <3>2. CASE i # Len(ends) + 1
      <4>1. i \in DOMAIN ends /\ ends'[i] = ends[i] /\ ends[i] \in Nat
        BY <1>8, <3>2
      <4>2. OnContext(i) /\ ends[i] < li
        BY <2>1, <4>1
      <4>3. ends'[i] < li'
        BY <1>2, <1>5, <4>1, <4>2
      <4>4. QED
        BY <1>4, <4>1, <4>2, <4>3 DEF OnContext
    <3>3. QED
      BY <3>1, <3>2
  <2>3. ASSUME NEW i \in DOMAIN ends', NEW j \in DOMAIN ends', i < j
        PROVE  ends'[i] < ends'[j]
    <3>1. i \in DOMAIN ends /\ ends'[i] = ends[i]
      BY <1>8, <2>3
    <3>2. CASE j = Len(ends) + 1
      BY <1>8, <2>1, <3>1, <3>2
    <3>3. CASE j # Len(ends) + 1
      <4>1. j \in DOMAIN ends /\ ends'[j] = ends[j]
        BY <1>8, <3>3
      <4>2. QED
        BY <2>1, <2>3, <3>1, <4>1
    <3>4. QED
      BY <3>2, <3>3
  <2>4. li' <= Len(Lines) + 1
    BY <1>1, <1>2, <1>3, <1>5
  <2>5. QED
    BY <1>1, <1>4, <1>8, <2>1, <2>2, <2>3, <2>4 DEF ScanInv
<1>10. AskedInv'
  <2>1. newNo = NumberOf(li) /\ cuts = wanted \union CutNumbers(Len(ends))
    BY <1>1 DEF IInv, AskedInv
  <2>2. newNo' = NumberOf(li + 1)
    BY <1>1, <1>2, <1>3, <2>1, AdvanceNumber
  <2>3. CutNumbers(Len(ends))' = CutNumbers(Len(ends)) \union {newNo}
    <3>1. CutNumbers(Len(ends))' = {NumberOf(ends'[i]) : i \in 1..(Len(ends) + 1)}
      BY <1>1, <1>2, <1>4 DEF CutNumbers
    <3>2. 1..(Len(ends) + 1) = 1..Len(ends) \union {Len(ends) + 1}
      BY <1>8
    <3>3. {NumberOf(ends'[i]) : i \in 1..Len(ends)} = CutNumbers(Len(ends))
      BY <1>8 DEF CutNumbers
    <3>4. NumberOf(ends'[Len(ends) + 1]) = newNo
      BY <1>8, <2>1
    <3>5. QED
      BY <3>1, <3>2, <3>3, <3>4
  <2>4. cuts' = wanted' \union CutNumbers(Len(ends))'
    BY <1>1, <2>1, <2>3
  <2>5. NumberOf(li)' = NumberOf(li + 1)
    BY <1>1, <1>4, <1>5 DEF NumberOf, loop
  <2>6. QED
    BY <1>1, <2>2, <2>4, <2>5 DEF AskedInv, At, loop
<1>11. BuildInv' /\ PiecesInv'
  BY <1>1 DEF BuildInv, PiecesInv, At
<1>12. QED
  BY <1>4, <1>7, <1>9, <1>10, <1>11 DEF IInv

(* No piece yet: nothing kept, nothing passed.                             *)
LEMMA NoPieces == AllSound(<<>>) /\ Tidy(<<>>)
BY DEF AllSound, Tidy

LEMMA EndScanInv == IInv /\ EndScan => IInv'
<1> SUFFICES ASSUME IInv, EndScan
             PROVE  IInv'
  OBVIOUS
<1> DEFINE n == Len(Lines)
<1>1. /\ phase = "cut" /\ At("scan") /\ step = "scan" /\ li > n /\ wanted = {}
      /\ ends' = Append(ends, n) /\ step' = "build"
      /\ UNCHANGED <<loop, entry, target, li, newNo, cuts, wanted, pieces, seen, trailer, cropped>>
  BY DEF EndScan, At
<1>2. /\ target <= Len(hunks) /\ li \in Nat \ {0} /\ ends \in Seq(Nat)
      /\ seen = 0 /\ pieces = <<>> /\ ends # <<>>
  BY <1>1 DEF IInv, TypeOK, TargetInv, ScanInv
<1>3. n \in Nat /\ DOMAIN Lines = 1..n
  BY <1>1, <1>2, TheHunk
<1>4. /\ LoopInv' /\ UntouchedInv' /\ PlacesInv' /\ TargetInv' /\ SplicedInv'
      /\ Lines' = Lines /\ \A i : NumberOf(i)' = NumberOf(i)
  BY <1>1, <1>2, CutFrame
<1> HIDE DEF n
<1>5. /\ Len(ends) \in Nat /\ Len(ends) > 0 /\ ends'[Len(ends) + 1] = n
      /\ DOMAIN ends' = 1..(Len(ends) + 1) /\ Len(ends') = Len(ends) + 1
      /\ DOMAIN ends = 1..Len(ends) /\ \A i \in DOMAIN ends : ends'[i] = ends[i]
      /\ ends' \in Seq(Nat) /\ \A i \in DOMAIN ends : ends[i] \in Nat
  BY <1>1, <1>2, <1>3
<1>6. TypeOK'
  BY <1>1, <1>4, <1>5 DEF IInv, TypeOK, LoopInv, Steps
<1>7. BuildInv'
  <2>1. /\ \A i \in DOMAIN ends : OnContext(i) /\ ends[i] < li
        /\ \A i, j \in DOMAIN ends : i < j => ends[i] < ends[j]
    BY <1>1 DEF IInv, ScanInv
  <2>2. \A i \in 1..(Len(ends') - 1) : OnContext(i)'
    BY <1>4, <1>5, <2>1 DEF OnContext
  <2>3. ASSUME NEW i \in DOMAIN ends', NEW j \in DOMAIN ends', i < j
        PROVE  ends'[i] <= ends'[j]
    <3>1. i \in DOMAIN ends /\ ends'[i] = ends[i] /\ ends[i] \in Nat
      BY <1>5, <2>3
    <3>2. CASE j = Len(ends) + 1
      <4>1. ends[i] \in 1..n
        BY <1>3, <2>1, <3>1 DEF OnContext
      <4>2. QED
        BY <1>5, <3>1, <3>2, <4>1
    <3>3. CASE j # Len(ends) + 1
      <4>1. j \in DOMAIN ends /\ ends'[j] = ends[j] /\ ends[j] \in Nat
        BY <1>5, <3>3
      <4>2. QED
        BY <2>1, <2>3, <3>1, <4>1
    <3>4. QED
      BY <3>2, <3>3
  <2>4. ends'[Len(ends')] = Len(Lines')
    BY <1>4, <1>5 DEF n
  <2>5. seen' <= Len(ends') /\ Len(ends') > 1
    BY <1>1, <1>2, <1>5
  <2>6. QED
    BY <2>2, <2>3, <2>4, <2>5 DEF BuildInv
<1>8. PiecesInv'
  <2>1. (PieceFrom - 1)' = 0 /\ pieces' = <<>>
    BY <1>1, <1>2 DEF PieceFrom
  <2>2. \A ls, K : CountIn(ls, K, 1, 0) = 0
    BY CountInType
  <2>3. QED
    BY <2>1, <2>2, NoPieces, NoHunksNoChanges DEF PiecesInv, AllSound
<1>9. ScanInv'
  BY <1>1 DEF ScanInv, At
<1>10. AskedInv'
  <2>1. cuts = CutNumbers(Len(ends))
    BY <1>1 DEF IInv, AskedInv
  <2>2. Len(ends') - 1 = Len(ends)
    BY <1>5
  <2>3. CutNumbers(Len(ends) - 1)' = {NumberOf(ends'[i]) : i \in 1..Len(ends)}
    BY <1>4, <2>2 DEF CutNumbers
  <2>4. CutNumbers(Len(ends) - 1)' = CutNumbers(Len(ends))
    BY <1>5, <2>3 DEF CutNumbers
  <2>5. QED
    BY <1>1, <2>1, <2>4 DEF AskedInv, At, loop
<1>11. QED
  BY <1>4, <1>6, <1>7, <1>8, <1>9, <1>10 DEF IInv

-----------------------------------------------------------------------------
(* Building the pieces.                                                     *)

(* Where the next piece stands in the body.                                *)
LEMMA PieceStretch ==
  ASSUME IInv, At("build"), seen < Len(ends)
  PROVE  /\ PieceFrom \in Nat \ {0} /\ PieceTo \in Nat
         /\ PieceFrom <= PieceTo + 1 /\ PieceTo <= Len(Lines)
         /\ CountIn(Lines, OldSide, 1, PieceTo) > 0
<1>1. /\ target <= Len(hunks) /\ phase = "cut" /\ ends \in Seq(Nat) /\ seen \in Nat
      /\ Len(ends) > 1 /\ ends[Len(ends)] = Len(Lines)
      /\ \A i \in 1..(Len(ends) - 1) : OnContext(i)
      /\ \A i, j \in DOMAIN ends : i < j => ends[i] <= ends[j]
  BY DEF IInv, TypeOK, TargetInv, BuildInv, At
<1>2. Lines \in Seq(Line) /\ Len(Lines) \in Nat /\ DOMAIN Lines = 1..Len(Lines)
  BY <1>1, TheHunk
<1>3. /\ Len(ends) \in Nat /\ DOMAIN ends = 1..Len(ends) /\ seen + 1 \in DOMAIN ends
      /\ Len(ends) \in DOMAIN ends /\ 1 \in DOMAIN ends /\ \A i \in DOMAIN ends : ends[i] \in Nat
  BY <1>1
<1>4. \A i \in DOMAIN ends : ends[1] <= ends[i] /\ ends[i] <= Len(Lines)
  <2> TAKE i \in DOMAIN ends
  <2>1. ends[1] <= ends[i]
    <3>1. i = 1 \/ 1 < i
      BY <1>3
    <3>2. ends[i] <= ends[i]
      BY <1>3
    <3>3. QED
      BY <1>1, <1>3, <3>1, <3>2
  <2>2. ends[i] <= ends[Len(ends)]
    <3>1. i = Len(ends) \/ i < Len(ends)
      BY <1>3
    <3>2. i < Len(ends) => ends[i] <= ends[Len(ends)]
      BY <1>1, <1>3, Zenon
    <3>3. ends[i] <= ends[i]
      BY <1>3
    <3>4. QED
      BY <3>1, <3>2, <3>3
  <2>3. QED
    BY <1>1, <2>1, <2>2
<1>5. PieceTo = ends[seen + 1] /\ PieceTo \in Nat /\ PieceTo <= Len(Lines) /\ ends[1] <= PieceTo
  BY <1>3, <1>4 DEF PieceTo
<1>6. PieceFrom \in Nat \ {0} /\ PieceFrom <= PieceTo + 1
  <2>1. CASE seen = 0
    BY <1>5, <2>1 DEF PieceFrom
  <2>2. CASE seen # 0
    <3>1. seen \in DOMAIN ends /\ seen < seen + 1
      BY <1>1, <1>3, <2>2
    <3>2. ends[seen] <= ends[seen + 1] /\ ends[seen] \in Nat
      BY <1>1, <1>3, <3>1
    <3>3. QED
      BY <1>5, <2>2, <3>2 DEF PieceFrom
  <2>3. QED
    BY <2>1, <2>2
<1>7. CountIn(Lines, OldSide, 1, PieceTo) > 0
  <2>1. 1 \in 1..(Len(ends) - 1)
    BY <1>1, <1>3
  <2>2. ends[1] \in DOMAIN Lines /\ Lines[ends[1]].kind = "ctx"
    BY <1>1, <2>1 DEF OnContext
  <2>3. ends[1] \in 1..PieceTo /\ Lines[ends[1]].kind \in OldSide
    BY <1>2, <1>5, <2>2 DEF OldSide
  <2>4. QED
    BY <1>5, <2>3, CountInPositive
<1>8. QED
  BY <1>5, <1>6, <1>7

(* Passing one more piece, kept or not.                                    *)
LEMMA PassPiece ==
  ASSUME IInv, At("build"), seen < Len(ends), seen' = seen + 1,
         pieces' \in Seq(Hunk), PiecesInv',
         UNCHANGED <<loop, entry, target, step, li, newNo, cuts, wanted, ends, trailer, cropped>>
  PROVE  IInv'
<1>1. /\ phase = "cut" /\ step = "build" /\ target <= Len(hunks)
      /\ seen \in Nat /\ ends \in Seq(Nat)
  BY DEF IInv, TypeOK, TargetInv, At
<1>2. /\ LoopInv' /\ UntouchedInv' /\ PlacesInv' /\ TargetInv' /\ SplicedInv'
      /\ Lines' = Lines /\ phase' = "cut" /\ \A i : NumberOf(i)' = NumberOf(i)
  BY <1>1, CutFrame
<1>3. TypeOK'
  BY <1>1, <1>2 DEF IInv, TypeOK, LoopInv
<1>4. BuildInv'
  <2>1. seen' <= Len(ends')
    BY <1>1
  <2>2. \A i : OnContext(i)' <=> OnContext(i)
    BY <1>2 DEF OnContext
  <2>3. QED
    BY <1>2, <2>1, <2>2 DEF IInv, BuildInv
<1>5. ScanInv'
  BY <1>1 DEF ScanInv, At
<1>6. AskedInv'
  BY <1>1, <1>2 DEF IInv, AskedInv, CutNumbers, At
<1>7. QED
  BY <1>2, <1>3, <1>4, <1>5, <1>6 DEF IInv

(* The changes down to the end of the next piece.                          *)
LEMMA PassedCounts ==
  ASSUME IInv, At("build"), seen < Len(ends), NEW K
  PROVE  /\ CountIn(Lines, K, 1, PieceFrom - 1) \in Nat
         /\ CountIn(Lines, K, PieceFrom, PieceTo) \in Nat
         /\ CountIn(Lines, K, 1, PieceTo) \in Nat
         /\ CountIn(Lines, K, 1, PieceTo)
              = CountIn(Lines, K, 1, PieceFrom - 1) + CountIn(Lines, K, PieceFrom, PieceTo)
<1>1. /\ PieceFrom \in Nat \ {0} /\ PieceTo \in Nat /\ PieceFrom <= PieceTo + 1
      /\ PieceTo <= Len(Lines)
  BY PieceStretch
<1>2. Lines \in Seq(Line)
  BY TheHunk DEF IInv, TargetInv, At
<1>3. QED
  BY <1>1, <1>2, CountInBounds

LEMMA DropPieceInv == IInv /\ DropPiece => IInv'
<1> SUFFICES ASSUME IInv, DropPiece
             PROVE  IInv'
  OBVIOUS
<1> DEFINE h == hunks[target]
           from == PieceFrom
           to == PieceTo
<1>1. /\ phase = "cut" /\ At("build") /\ step = "build" /\ seen < Len(ends) /\ seen' = seen + 1
      /\ ~(CountIn(Lines, Changes, from, to) > 0)
      /\ UNCHANGED <<loop, entry, target, step, li, newNo, cuts, wanted, ends, pieces, trailer, cropped>>
  BY DEF DropPiece, WorthKeeping, At
<1>2. pieces \in Seq(Hunk) /\ target <= Len(hunks) /\ PiecesInv /\ seen \in Nat
  BY <1>1 DEF IInv, TypeOK, TargetInv
<1>3. Lines' = Lines /\ hunks' = hunks /\ (Real' <=> Real)
  BY <1>1, <1>2, CutFrame
<1>4. from \in Nat \ {0} /\ to \in Nat /\ from <= to + 1 /\ to <= Len(Lines)
  BY <1>1, PieceStretch
<1>5. (PieceFrom)' = to + 1
  BY <1>1, <1>2 DEF PieceFrom, PieceTo
<1>6. \A K : /\ CountIn(Lines, K, 1, from - 1) \in Nat /\ CountIn(Lines, K, from, to) \in Nat
             /\ CountIn(Lines, K, 1, to) = CountIn(Lines, K, 1, from - 1) + CountIn(Lines, K, from, to)
  BY <1>1, PassedCounts
<1>7. CountIn(Lines, Changes, from, to) = 0
  BY <1>1, <1>6
<1> HIDE DEF from, to
<1>8. (PieceFrom - 1)' = to
  BY <1>4, <1>5
<1>9. ChangedTo(pieces, Len(pieces)) = CountIn(Lines, Changes, 1, to)
  <2>1. ChangedTo(pieces, Len(pieces)) = CountIn(Lines, Changes, 1, from - 1)
    BY <1>1, <1>2 DEF PiecesInv, from
  <2>2. QED
    BY <1>6, <1>7, <2>1
<1>10. ASSUME pieces # <<>>
       PROVE  \E f, g \in DOMAIN Lines :
                /\ f <= g /\ g < to + 1
                /\ pieces[Len(pieces)] = RebuildSubhunk(h, f, g)
                /\ CountIn(Lines, Changes, g + 1, to) = 0
  <2>1. PICK f \in DOMAIN Lines, g \in DOMAIN Lines :
          /\ f <= g /\ g < from
          /\ pieces[Len(pieces)] = RebuildSubhunk(h, f, g)
          /\ CountIn(Lines, Changes, g + 1, from - 1) = 0
    BY <1>1, <1>2, <1>10 DEF PiecesInv, from
  <2>2. g \in Nat /\ g + 1 \in Int /\ from - 1 \in Int /\ g + 1 <= from - 1 + 1
        /\ from - 1 <= to /\ from - 1 + 1 = from /\ g < to + 1
    <3>1. DOMAIN Lines = 1..Len(Lines)
      BY <1>1, <1>2, TheHunk
    <3>2. QED
      BY <1>4, <2>1, <3>1
  <2>3. CountIn(Lines, Changes, g + 1, to)
          = CountIn(Lines, Changes, g + 1, from - 1) + CountIn(Lines, Changes, from - 1 + 1, to)
    BY <1>4, <2>2, CountInSplits
  <2>4. CountIn(Lines, Changes, g + 1, to) = 0
    BY <1>7, <2>1, <2>2, <2>3
  <2>5. QED
    BY <2>1, <2>2, <2>4
<1>11. ASSUME Real, pieces # <<>>
       PROVE  OldEnd(pieces[Len(pieces)]) <= OldAt(h) + CountIn(Lines, OldSide, 1, to)
  <2>1. OldEnd(pieces[Len(pieces)]) <= OldAt(h) + CountIn(Lines, OldSide, 1, from - 1)
    BY <1>1, <1>2, <1>11 DEF PiecesInv, from
  <2>2. OldEnd(pieces[Len(pieces)]) \in Nat /\ OldAt(h) \in Nat
    <3>1. pieces[Len(pieces)] \in Hunk
      BY <1>2, <1>11
    <3>2. h \in Hunk
      BY <1>1, <1>2, TheHunk
    <3>3. QED
      BY <3>1, <3>2, Positions
  <2>3. QED
    BY <1>6, <2>1, <2>2
<1>12. PiecesInv'
  <2>1. AllSound(pieces) /\ (AllSound(pieces))'
    BY <1>1, <1>2 DEF PiecesInv, AllSound
  <2>2. Real => /\ Tidy(pieces)
                /\ pieces # <<>> => OldAt(h) <= OldAt(pieces[1])
    BY <1>1, <1>2 DEF PiecesInv
  <2>3. /\ (ChangedTo(pieces, Len(pieces)))' = ChangedTo(pieces, Len(pieces))
        /\ pieces' = pieces /\ hunks'[target'] = h
    BY <1>1, <1>3
  <2>4. QED
    BY <1>3, <1>5, <1>8, <1>9, <1>10, <1>11, <2>1, <2>2, <2>3 DEF PiecesInv
<1>13. QED
  BY <1>1, <1>2, <1>12, PassPiece

LEMMA KeepPieceInv == IInv /\ KeepPiece => IInv'
<1> SUFFICES ASSUME IInv, KeepPiece
             PROVE  IInv'
  OBVIOUS
<1> DEFINE h == hunks[target]
           from == PieceFrom
           to == PieceTo
           p == RebuildSubhunk(h, from, to)
<1>1. /\ phase = "cut" /\ At("build") /\ step = "build" /\ seen < Len(ends) /\ seen' = seen + 1
      /\ CountIn(Lines, Changes, from, to) > 0 /\ pieces' = Append(pieces, p)
      /\ UNCHANGED <<loop, entry, target, step, li, newNo, cuts, wanted, ends, trailer, cropped>>
  BY DEF KeepPiece, WorthKeeping, At
<1>2. pieces \in Seq(Hunk) /\ target <= Len(hunks) /\ PiecesInv /\ seen \in Nat
  BY <1>1 DEF IInv, TypeOK, TargetInv
<1>3. Lines' = Lines /\ hunks' = hunks /\ (Real' <=> Real)
  BY <1>1, <1>2, CutFrame
<1>4. /\ h \in Hunk /\ Lines = h.lines /\ Lines \in Seq(Line) /\ DOMAIN Lines = 1..Len(Lines)
      /\ Len(Lines) \in Nat /\ Sound(h)
      /\ Real => OldAt(h) >= 1 /\ OldEnd(h) <= MaxU32
  BY <1>1, <1>2, TheHunk
<1>5. /\ from \in Nat \ {0} /\ to \in Nat /\ from <= to + 1 /\ to <= Len(Lines)
      /\ CountIn(Lines, OldSide, 1, to) > 0
  BY <1>1, PieceStretch
<1>6. (PieceFrom)' = to + 1
  BY <1>1, <1>2 DEF PieceFrom, PieceTo
<1>7. \A K : /\ CountIn(Lines, K, 1, from - 1) \in Nat /\ CountIn(Lines, K, from, to) \in Nat
             /\ CountIn(Lines, K, 1, to) = CountIn(Lines, K, 1, from - 1) + CountIn(Lines, K, from, to)
  BY <1>1, PassedCounts
<1> HIDE DEF from, to
<1>8. (PieceFrom - 1)' = to
  BY <1>5, <1>6
<1>9. from <= to
  <2>1. from \in Int /\ to \in Int
    BY <1>5
  <2>2. to < from => CountIn(Lines, Changes, from, to) = 0
    BY <2>1, CountInType
  <2>3. QED
    BY <1>1, <2>1, <2>2
<1>10. p \in Hunk /\ Sound(p)
  BY <1>1, <1>4, <1>5, <1>9, PieceIsSound
<1>11. Count(p.lines, Changes) = CountIn(Lines, Changes, from, to)
  <2>1. p.lines = SubSeq(Lines, from, to)
    BY <1>4 DEF RebuildSubhunk
  <2>2. QED
    BY <1>4, <1>5, <2>1, CountOfSlice
<1>12. Real => /\ OldAt(p) = OldAt(h) + CountIn(Lines, OldSide, 1, from - 1)
               /\ OldEnd(p) = OldAt(h) + CountIn(Lines, OldSide, 1, to)
               /\ OldEnd(p) <= OldEnd(h)
  BY <1>4, <1>5, <1>9, PieceStands
<1> HIDE DEF p
<1>13. /\ pieces' \in Seq(Hunk) /\ pieces' # <<>> /\ pieces'[Len(pieces')] = p
       /\ pieces'[1] = IF pieces = <<>> THEN p ELSE pieces[1]
  BY <1>1, <1>2, <1>10
<1>14. AllSound(pieces')
  <2>1. AllSound(pieces)
    BY <1>1, <1>2 DEF PiecesInv
  <2>2. QED
    BY <1>1, <1>2, <1>10, <2>1, AppendSound
<1>15. ChangedTo(pieces', Len(pieces')) = CountIn(Lines, Changes, 1, to)
  <2>1. ChangedTo(pieces, Len(pieces)) = CountIn(Lines, Changes, 1, from - 1)
    BY <1>1, <1>2 DEF PiecesInv, from
  <2>2. ChangedTo(pieces', Len(pieces')) = ChangedTo(pieces, Len(pieces)) + Count(p.lines, Changes)
    BY <1>1, <1>2, <1>10, AppendChanges
  <2>3. QED
    BY <1>7, <1>11, <2>1, <2>2
<1>16. \E f, g \in DOMAIN Lines :
         /\ f <= g /\ g < to + 1
         /\ p = RebuildSubhunk(h, f, g)
         /\ CountIn(Lines, Changes, g + 1, to) = 0
  <2>1. to + 1 \in Int /\ to \in Int /\ to < to + 1
    BY <1>5
  <2>2. CountIn(Lines, Changes, to + 1, to) = 0
    BY <2>1, CountInType
  <2>3. from \in DOMAIN Lines /\ to \in DOMAIN Lines
    BY <1>4, <1>5, <1>9
  <2>4. QED
    BY <1>9, <2>1, <2>2, <2>3 DEF p
<1>17. ASSUME Real
       PROVE  /\ Tidy(pieces') /\ OldAt(h) <= OldAt(pieces'[1])
              /\ OldEnd(p) <= OldAt(h) + CountIn(Lines, OldSide, 1, to)
  <2>1. OldAt(h) \in Nat /\ OldAt(p) \in Nat /\ OldEnd(p) \in Nat /\ OldEnd(h) \in Nat
    BY <1>4, <1>10, Positions
  <2>2. /\ Tidy(pieces)
        /\ pieces # <<>> =>
             /\ OldAt(h) <= OldAt(pieces[1])
             /\ OldEnd(pieces[Len(pieces)]) <= OldAt(h) + CountIn(Lines, OldSide, 1, from - 1)
    BY <1>1, <1>2, <1>17 DEF PiecesInv, from
  <2>3. OldAt(p) >= 1 /\ OldEnd(p) <= MaxU32 /\ OldAt(h) <= OldAt(p)
    BY <1>4, <1>7, <1>12, <1>17, <2>1, MaxU32Assumption
  <2>4. Tidy(pieces')
    BY <1>1, <1>2, <1>10, <1>12, <1>17, <2>2, <2>3, AppendTidy
  <2>5. OldEnd(p) <= OldAt(h) + CountIn(Lines, OldSide, 1, to)
    BY <1>12, <1>17, <2>1
  <2>6. QED
    BY <1>13, <2>2, <2>3, <2>4, <2>5
<1>18. PiecesInv'
  <2>1. (AllSound(pieces))' /\ hunks'[target'] = h
    BY <1>1, <1>3, <1>14 DEF AllSound
  <2>2. QED
    BY <1>3, <1>6, <1>8, <1>13, <1>15, <1>16, <1>17, <2>1 DEF PiecesInv
<1>19. QED
  BY <1>1, <1>13, <1>18, PassPiece

-----------------------------------------------------------------------------
(* Putting the pieces in the hunk's place.                                  *)

(* The hunks around the one that is cut.                                   *)
Above == SubSeq(hunks, 1, target - 1)
Below == SubSeq(hunks, target + 1, Len(hunks))

LEMMA Around ==
  ASSUME IInv, phase = "cut", target <= Len(hunks)
  PROVE  /\ Above \in Seq(Hunk) /\ Len(Above) = target - 1
         /\ Below \in Seq(Hunk) /\ Len(Below) = Len(hunks) - target
         /\ AllSound(Above) /\ AllSound(Below)
         /\ Real => Tidy(Above) /\ Tidy(Below)
         /\ Above # <<>> => Above[Len(Above)] = hunks[target - 1] /\ target > 1
         /\ Below # <<>> => /\ Below[1] = hunks[target + 1] /\ target < Len(hunks)
                            /\ Below[Len(Below)] = hunks[Len(hunks)]
         /\ hunks = Above \o (<<hunks[target]>> \o Below)
<1>1. /\ hunks \in Seq(Hunk) /\ target \in Nat \ {0} /\ hunks[target] \in Hunk
      /\ AllSound(hunks) /\ (Real => Tidy(hunks))
  BY TheHunk
<1>2. /\ Len(hunks) \in Nat /\ target - 1 \in Nat /\ target + 1 \in Nat \ {0}
      /\ 1 <= target - 1 + 1 /\ target - 1 <= Len(hunks)
      /\ target + 1 <= Len(hunks) + 1
  BY <1>1
<1>3. /\ Above \in Seq(Hunk) /\ Len(Above) = target - 1 - 1 + 1
      /\ \A j \in 1..Len(Above) : Above[j] = hunks[j + 1 - 1]
      /\ AllSound(hunks) => AllSound(Above)
      /\ Tidy(hunks) => Tidy(Above)
  BY <1>1, <1>2, StretchHolds DEF Above
<1>4. /\ Below \in Seq(Hunk) /\ Len(Below) = Len(hunks) - (target + 1) + 1
      /\ \A j \in 1..Len(Below) : Below[j] = hunks[j + (target + 1) - 1]
      /\ AllSound(hunks) => AllSound(Below)
      /\ Tidy(hunks) => Tidy(Below)
  BY <1>1, <1>2, StretchHolds DEF Below
<1>5. Len(Above) = target - 1 /\ Len(Below) = Len(hunks) - target
  BY <1>1, <1>2, <1>3, <1>4
<1>6. Above # <<>> => Above[Len(Above)] = hunks[target - 1] /\ target > 1
  BY <1>1, <1>2, <1>3, <1>5
<1>7. Below # <<>> => /\ Below[1] = hunks[target + 1] /\ target < Len(hunks)
                      /\ Below[Len(Below)] = hunks[Len(hunks)]
  <2> SUFFICES ASSUME Below # <<>>
               PROVE  /\ Below[1] = hunks[target + 1] /\ target < Len(hunks)
                      /\ Below[Len(Below)] = hunks[Len(hunks)]
    OBVIOUS
  <2>1. Len(Below) > 0 /\ 1 \in 1..Len(Below) /\ Len(Below) \in 1..Len(Below)
    BY <1>4
  <2>2. 1 + (target + 1) - 1 = target + 1 /\ Len(Below) + (target + 1) - 1 = Len(hunks)
    BY <1>1, <1>2, <1>5
  <2>3. QED
    BY <1>1, <1>2, <1>4, <1>5, <2>1, <2>2
<1>8. hunks = Above \o (<<hunks[target]>> \o Below)
  <2> DEFINE t == <<hunks[target]>> \o Below
             c == Above \o t
  <2>1. /\ <<hunks[target]>> \in Seq(Hunk) /\ Len(<<hunks[target]>>) = 1
        /\ <<hunks[target]>>[1] = hunks[target]
    BY <1>1
  <2>2. /\ t \in Seq(Hunk) /\ Len(t) = 1 + Len(Below) /\ t[1] = hunks[target]
        /\ \A j \in 1..Len(Below) : t[j + 1] = Below[j]
    <3> HIDE DEF Below
    <3>1. /\ t \in Seq(Hunk) /\ Len(t) = Len(<<hunks[target]>>) + Len(Below)
          /\ \A j \in 1..Len(<<hunks[target]>>) : t[j] = <<hunks[target]>>[j]
          /\ \A j \in 1..Len(Below) : t[j + Len(<<hunks[target]>>)] = Below[j]
      BY <1>4, <2>1, ConcatHolds
    <3>2. QED
      BY <2>1, <3>1
  <2> HIDE DEF t
  <2>3. /\ c \in Seq(Hunk) /\ Len(c) = Len(hunks)
        /\ \A j \in 1..Len(Above) : c[j] = Above[j]
        /\ \A j \in 1..Len(t) : c[j + Len(Above)] = t[j]
    <3>1. /\ c \in Seq(Hunk) /\ Len(c) = Len(Above) + Len(t)
          /\ \A j \in 1..Len(Above) : c[j] = Above[j]
          /\ \A j \in 1..Len(t) : c[j + Len(Above)] = t[j]
      BY <1>3, <2>2, ConcatHolds
    <3>2. QED
      BY <1>1, <1>2, <1>5, <2>2, <3>1
  <2> HIDE DEF c
  <2>4. ASSUME NEW j \in 1..Len(hunks)
        PROVE  c[j] = hunks[j]
    <3>1. CASE j < target
      BY <1>1, <1>2, <1>3, <1>5, <2>3, <3>1
    <3>2. CASE j = target
      <4>1. 1 \in 1..Len(t) /\ 1 + Len(Above) = j
        BY <1>1, <1>2, <1>5, <2>2, <3>2
      <4>2. QED
        BY <2>2, <2>3, <3>2, <4>1
    <3>3. CASE j > target
      <4>1. /\ j - target \in 1..Len(Below) /\ (j - target) + 1 \in 1..Len(t)
            /\ (j - target) + 1 + Len(Above) = j /\ (j - target) + (target + 1) - 1 = j
        BY <1>1, <1>2, <1>5, <2>2, <3>3
      <4>2. c[j] = t[(j - target) + 1] /\ t[(j - target) + 1] = Below[j - target]
        BY <2>2, <2>3, <4>1
      <4>3. Below[j - target] = hunks[j]
        BY <1>4, <4>1
      <4>4. QED
        BY <4>2, <4>3
    <3>4. QED
      BY <1>1, <3>1, <3>2, <3>3
  <2>5. c = hunks
    BY <1>1, <2>3, <2>4
  <2>6. QED
    BY <2>5 DEF c, t
<1>9. QED
  BY <1>1, <1>3, <1>4, <1>5, <1>6, <1>7, <1>8

(* Once every piece is passed, those kept hold all the hunk's changes.     *)
LEMMA AllPieces ==
  ASSUME IInv, At("build"), seen = Len(ends)
  PROVE  /\ pieces \in Seq(Hunk) /\ pieces # <<>> /\ Len(pieces) \in Nat \ {0}
         /\ AllSound(pieces)
         /\ ChangedTo(pieces, Len(pieces)) = Count(Lines, Changes)
         /\ \E from, to \in DOMAIN Lines :
              /\ from <= to
              /\ pieces[Len(pieces)] = RebuildSubhunk(hunks[target], from, to)
              /\ CountIn(Lines, Changes, to + 1, Len(Lines)) = 0
         /\ Real => /\ Tidy(pieces)
                    /\ OldAt(hunks[target]) <= OldAt(pieces[1])
                    /\ OldEnd(pieces[Len(pieces)]) <= OldEnd(hunks[target])
<1>1. /\ phase = "cut" /\ target <= Len(hunks) /\ ends \in Seq(Nat) /\ pieces \in Seq(Hunk)
      /\ Len(ends) > 1 /\ ends[Len(ends)] = Len(Lines) /\ PiecesInv
  BY DEF IInv, TypeOK, TargetInv, BuildInv, At
<1>2. /\ hunks[target] \in Hunk /\ Lines = hunks[target].lines /\ Sound(hunks[target])
      /\ Lines \in Seq(Line) /\ Len(Lines) \in Nat
  BY <1>1, TheHunk
<1>3. PieceFrom - 1 = Len(Lines) /\ PieceFrom = Len(Lines) + 1
  BY <1>1, <1>2 DEF PieceFrom
<1>4. ChangedTo(pieces, Len(pieces)) = Count(Lines, Changes)
  BY <1>1, <1>3 DEF PiecesInv, Count
<1>5. pieces # <<>>
  <2>1. Count(Lines, Changes) # 0
    BY <1>2, SoundMeans
  <2>2. ASSUME pieces = <<>>
        PROVE  Len(pieces) = 0
    BY <2>2
  <2>3. QED
    BY <1>4, <2>1, <2>2, NoHunksNoChanges
<1>6. Len(pieces) \in Nat \ {0}
  BY <1>1, <1>5
<1>7. \E from, to \in DOMAIN Lines :
        /\ from <= to
        /\ pieces[Len(pieces)] = RebuildSubhunk(hunks[target], from, to)
        /\ CountIn(Lines, Changes, to + 1, Len(Lines)) = 0
  BY <1>1, <1>3, <1>5 DEF PiecesInv
<1>8. ASSUME Real
      PROVE  /\ Tidy(pieces)
             /\ OldAt(hunks[target]) <= OldAt(pieces[1])
             /\ OldEnd(pieces[Len(pieces)]) <= OldEnd(hunks[target])
  <2>1. /\ Tidy(pieces)
        /\ OldAt(hunks[target]) <= OldAt(pieces[1])
        /\ OldEnd(pieces[Len(pieces)])
             <= OldAt(hunks[target]) + CountIn(Lines, OldSide, 1, Len(Lines))
    BY <1>1, <1>3, <1>5, <1>8 DEF PiecesInv
  <2>2. hunks[target].old_lines = CountIn(Lines, OldSide, 1, Len(Lines))
    BY <1>2, SoundMeans DEF Count
  <2>3. QED
    BY <2>1, <2>2 DEF OldEnd
<1>9. AllSound(pieces)
  BY <1>1 DEF PiecesInv
<1>10. QED
  BY <1>1, <1>4, <1>5, <1>6, <1>7, <1>8, <1>9

(* The result: the hunks above, the pieces, the hunks below.               *)
LEMMA ResultHolds ==
  ASSUME IInv, At("build"), seen = Len(ends)
  PROVE  /\ WithPieces = (Above \o pieces) \o Below
         /\ WithPieces \in Seq(Hunk)
         /\ Len(WithPieces) = Len(hunks) + Len(pieces) - 1
         /\ AllSound(WithPieces)
         /\ Real => Tidy(WithPieces)
<1> DEFINE h == hunks[target]
           u == Above \o pieces
<1>1. phase = "cut" /\ target <= Len(hunks)
  BY DEF IInv, TargetInv, At
<1>2. /\ Above \in Seq(Hunk) /\ Len(Above) = target - 1
      /\ Below \in Seq(Hunk) /\ Len(Below) = Len(hunks) - target
      /\ AllSound(Above) /\ AllSound(Below)
      /\ Real => Tidy(Above) /\ Tidy(Below)
      /\ Above # <<>> => Above[Len(Above)] = hunks[target - 1] /\ target > 1
      /\ Below # <<>> => Below[1] = hunks[target + 1] /\ target < Len(hunks)
  BY <1>1, Around
<1>3. /\ hunks \in Seq(Hunk) /\ target \in Nat \ {0} /\ target \in DOMAIN hunks /\ h \in Hunk
      /\ Real => Tidy(hunks)
  BY <1>1, TheHunk
<1>4. /\ pieces \in Seq(Hunk) /\ pieces # <<>> /\ Len(pieces) \in Nat \ {0} /\ AllSound(pieces)
      /\ Real => /\ Tidy(pieces)
                 /\ OldAt(h) <= OldAt(pieces[1])
                 /\ OldEnd(pieces[Len(pieces)]) <= OldEnd(h)
  BY AllPieces
<1>5. WithPieces = u \o Below
  BY DEF WithPieces, Above, Below
<1> HIDE DEF Above, Below
<1>6. /\ u \in Seq(Hunk) /\ Len(u) = Len(Above) + Len(pieces) /\ u # <<>>
      /\ u[Len(u)] = pieces[Len(pieces)]
  <2>1. Above \in Seq(Hunk) /\ pieces \in Seq(Hunk) /\ pieces # <<>>
    BY <1>2, <1>4
  <2>2. QED
    BY <2>1, ConcatHolds, ConcatEnds
<1>7. AllSound(u)
  BY <1>2, <1>4, ConcatSound
<1>8. ASSUME Real
      PROVE  Tidy(u)
  <2>1. ASSUME Above # <<>>
        PROVE  OldEnd(Above[Len(Above)]) <= OldAt(pieces[1])
    <3>1. target - 1 \in DOMAIN hunks /\ target > 1
      BY <1>1, <1>2, <1>3, <2>1
    <3>2. OldEnd(hunks[target - 1]) <= OldAt(h)
      BY <1>3, <1>8, <3>1 DEF Tidy
    <3>3. hunks[target - 1] \in Hunk /\ pieces[1] \in Hunk
      BY <1>3, <1>4, <3>1
    <3>4. OldEnd(hunks[target - 1]) \in Nat /\ OldAt(h) \in Nat /\ OldAt(pieces[1]) \in Nat
      BY <1>3, <3>3, Positions
    <3>5. QED
      BY <1>2, <1>4, <1>8, <2>1, <3>2, <3>4
  <2>2. QED
    BY <1>2, <1>4, <1>8, <2>1, ConcatTidy
<1>9. ASSUME Real
      PROVE  Tidy(u \o Below)
  <2>1. ASSUME Below # <<>>
        PROVE  OldEnd(u[Len(u)]) <= OldAt(Below[1])
    <3>1. target + 1 \in DOMAIN hunks /\ target + 1 > 1 /\ target + 1 - 1 = target
      BY <1>2, <1>3, <2>1
    <3>2. OldEnd(h) <= OldAt(hunks[target + 1])
      BY <1>3, <1>9, <3>1 DEF Tidy
    <3>3. hunks[target + 1] \in Hunk /\ pieces[Len(pieces)] \in Hunk
      BY <1>3, <1>4, <3>1
    <3>4. /\ OldEnd(pieces[Len(pieces)]) \in Nat /\ OldEnd(h) \in Nat
          /\ OldAt(hunks[target + 1]) \in Nat
      BY <1>3, <3>3, Positions
    <3>5. QED
      BY <1>2, <1>4, <1>6, <1>9, <2>1, <3>2, <3>4
  <2> HIDE DEF u
  <2>2. QED
    BY <1>2, <1>6, <1>8, <1>9, <2>1, ConcatTidy
<1>10. AllSound(u \o Below)
  <2> HIDE DEF u
  <2>1. QED
    BY <1>2, <1>6, <1>7, ConcatSound
<1>11. u \o Below \in Seq(Hunk) /\ Len(u \o Below) = Len(hunks) + Len(pieces) - 1
  <2> HIDE DEF u
  <2>1. u \o Below \in Seq(Hunk) /\ Len(u \o Below) = Len(u) + Len(Below)
    <3>1. u \in Seq(Hunk) /\ Below \in Seq(Hunk)
      BY <1>2, <1>6
    <3>2. QED
      BY <3>1, ConcatHolds
  <2>2. Len(hunks) \in Nat
    BY <1>3
  <2>3. QED
    BY <1>2, <1>3, <1>4, <1>6, <2>1, <2>2
<1>12. QED
  BY <1>5, <1>9, <1>10, <1>11

(* A trailer line keeps the changes above it, and what was below all the   *)
(* hunks stays there.                                                      *)
LEMMA TrailerMoves ==
  ASSUME IInv, At("build"), seen = Len(ends), NEW n \in Nat
  PROVE  /\ Shifted(n) \in Nat
         /\ ChangedTo(WithPieces, Shifted(n)) = ChangedTo(hunks, n)
         /\ n >= Len(hunks) <=> Shifted(n) >= Len(WithPieces)
<1> DEFINE h == hunks[target]
           p == Len(pieces)
           one == <<h>>
<1>1. phase = "cut" /\ target <= Len(hunks)
  BY DEF IInv, TargetInv, At
<1>2. /\ Above \in Seq(Hunk) /\ Len(Above) = target - 1 /\ Below \in Seq(Hunk)
      /\ hunks = Above \o (one \o Below)
  BY <1>1, Around
<1>3. /\ hunks \in Seq(Hunk) /\ target \in Nat \ {0} /\ h \in Hunk /\ Len(hunks) \in Nat
      /\ Lines = h.lines
  BY <1>1, TheHunk
<1>4. /\ pieces \in Seq(Hunk) /\ p \in Nat \ {0}
      /\ ChangedTo(pieces, p) = Count(h.lines, Changes)
  BY <1>3, AllPieces
<1>5. WithPieces = (Above \o pieces) \o Below /\ Len(WithPieces) = Len(hunks) + p - 1
  BY ResultHolds
<1>6. /\ one \in Seq(Hunk) /\ Len(one) = 1
      /\ ChangedTo(one, 1) = Count(h.lines, Changes)
  BY <1>3, OneHunkChanges
<1> HIDE DEF Above, Below, p, h, one
<1>7. /\ Above \o pieces \in Seq(Hunk) /\ Len(Above \o pieces) = target - 1 + p
      /\ one \o Below \in Seq(Hunk) /\ target - 1 \in Nat
      /\ Len(Above \o pieces) = Len(Above) + p
  <2>1. /\ Above \in Seq(Hunk) /\ pieces \in Seq(Hunk) /\ one \in Seq(Hunk) /\ Below \in Seq(Hunk)
        /\ Len(Above) = target - 1 /\ Len(pieces) = p
    BY <1>2, <1>4, <1>6 DEF p
  <2>2. /\ Above \o pieces \in Seq(Hunk) /\ Len(Above \o pieces) = Len(Above) + Len(pieces)
        /\ one \o Below \in Seq(Hunk)
    BY <2>1, ConcatHolds
  <2>3. QED
    BY <1>3, <2>1, <2>2
<1>8. CASE n < target
  <2>1. Shifted(n) = n /\ n <= Len(Above) /\ n <= Len(Above \o pieces)
    BY <1>2, <1>3, <1>4, <1>7, <1>8 DEF Shifted
  <2>2. ChangedTo(hunks, n) = ChangedTo(Above, n)
    BY <1>2, <1>7, <2>1, PrefixChanges
  <2>3. ChangedTo((Above \o pieces) \o Below, n) = ChangedTo(Above \o pieces, n)
    BY <1>2, <1>7, <2>1, PrefixChanges
  <2>4. ChangedTo(Above \o pieces, n) = ChangedTo(Above, n)
    BY <1>2, <1>4, <2>1, PrefixChanges
  <2>5. ~(n >= Len(hunks)) /\ ~(n >= Len(WithPieces))
    BY <1>1, <1>3, <1>4, <1>5, <1>8
  <2>6. QED
    BY <1>5, <2>1, <2>2, <2>3, <2>4, <2>5
<1>9. CASE n >= target
  <2> DEFINE m == n - target
  <2>1. /\ m \in Nat /\ 1 + m \in Nat /\ Shifted(n) = n + p - 1
        /\ n = Len(Above) + (1 + m) /\ Shifted(n) = Len(Above \o pieces) + m
    BY <1>2, <1>3, <1>4, <1>7, <1>9 DEF Shifted, p
  <2> HIDE DEF m
  <2>2. ChangedTo(hunks, n) = ChangedTo(Above, Len(Above)) + ChangedTo(one \o Below, 1 + m)
    <3>1. Above \in Seq(Hunk) /\ one \o Below \in Seq(Hunk) /\ 1 + m \in Nat
      BY <1>2, <1>7, <2>1
    <3>2. ChangedTo(Above \o (one \o Below), Len(Above) + (1 + m))
            = ChangedTo(Above, Len(Above)) + ChangedTo(one \o Below, 1 + m)
      BY <3>1, ConcatChanges
    <3>3. hunks = Above \o (one \o Below) /\ n = Len(Above) + (1 + m)
      BY <1>2, <2>1
    <3>4. QED
      BY <3>2, <3>3
  <2>3. ChangedTo(one \o Below, 1 + m) = ChangedTo(one, 1) + ChangedTo(Below, m)
    <3>1. one \in Seq(Hunk) /\ Below \in Seq(Hunk) /\ m \in Nat /\ Len(one) = 1
      BY <1>2, <1>6, <2>1
    <3>2. ChangedTo(one \o Below, Len(one) + m) = ChangedTo(one, Len(one)) + ChangedTo(Below, m)
      BY <3>1, ConcatChanges
    <3>3. QED
      BY <3>1, <3>2
  <2>4. ChangedTo((Above \o pieces) \o Below, Shifted(n))
          = ChangedTo(Above \o pieces, Len(Above \o pieces)) + ChangedTo(Below, m)
    <3>1. /\ Above \o pieces \in Seq(Hunk) /\ Below \in Seq(Hunk) /\ m \in Nat
          /\ Shifted(n) = Len(Above \o pieces) + m
      BY <1>2, <1>7, <2>1
    <3>2. ChangedTo((Above \o pieces) \o Below, Len(Above \o pieces) + m)
            = ChangedTo(Above \o pieces, Len(Above \o pieces)) + ChangedTo(Below, m)
      BY <3>1, ConcatChanges
    <3>3. QED
      BY <3>1, <3>2
  <2>5. ChangedTo(Above \o pieces, Len(Above \o pieces))
          = ChangedTo(Above, Len(Above)) + ChangedTo(pieces, p)
    <3>1. /\ Above \in Seq(Hunk) /\ pieces \in Seq(Hunk) /\ p \in Nat
          /\ Len(Above \o pieces) = Len(Above) + p
      BY <1>2, <1>4, <1>7
    <3>2. ChangedTo(Above \o pieces, Len(Above) + p)
            = ChangedTo(Above, Len(Above)) + ChangedTo(pieces, p)
      BY <3>1, ConcatChanges
    <3>3. QED
      BY <3>1, <3>2
  <2>6. /\ ChangedTo(Above, Len(Above)) \in Nat /\ ChangedTo(one, 1) \in Nat
        /\ ChangedTo(Below, m) \in Nat
    BY <1>2, <1>6, ChangesAreFinite
  <2>7. n >= Len(hunks) <=> n + p - 1 >= Len(hunks) + p - 1
    BY <1>3, <1>4
  <2>8. ChangedTo(one, 1) = ChangedTo(pieces, p)
    BY <1>4, <1>6
  <2>9. ChangedTo((Above \o pieces) \o Below, Shifted(n)) = ChangedTo(hunks, n)
    BY <2>2, <2>3, <2>4, <2>5, <2>6, <2>8
  <2>10. Shifted(n) \in Nat /\ Shifted(n) = n + p - 1
    BY <1>4, <2>1
  <2>11. QED
    BY <1>5, <2>7, <2>9, <2>10
<1>10. QED
  BY <1>3, <1>8, <1>9

(* A start is at most so far below its parent's as there are lines above.  *)
LEMMA SideStartBound ==
  ASSUME NEW start \in U32, NEW off \in Nat, NEW count \in Nat
  PROVE  SideStart(start, off, count) \in Int /\ SideStart(start, off, count) <= start + off
BY MaxU32Assumption DEF SideStart, Clamp, U32

(* When the result's last hunk ends where the input's did, it ends on its  *)
(* line.                                                                   *)
LEMMA EndsOnSameLine ==
  ASSUME IInv, At("build"), seen = Len(ends),
         target # Len(hunks) \/ LastOldEnd(WithPieces) = LastOldEnd(hunks)
  PROVE  EndsOn(WithPieces) = EndsOn(hunks)
<1> DEFINE h == hunks[target]
           n == Len(Lines)
<1>1. phase = "cut" /\ target <= Len(hunks)
  BY DEF IInv, TargetInv, At
<1>2. /\ hunks \in Seq(Hunk) /\ target \in Nat \ {0} /\ h \in Hunk /\ Lines = h.lines
      /\ Lines \in Seq(Line) /\ n \in Nat /\ DOMAIN Lines = 1..n /\ Sound(h)
  BY <1>1, TheHunk
<1>3. /\ Above \in Seq(Hunk) /\ Below \in Seq(Hunk) /\ Len(Below) = Len(hunks) - target
      /\ Below # <<>> => Below[Len(Below)] = hunks[Len(hunks)]
  BY <1>1, Around
<1>4. /\ pieces \in Seq(Hunk) /\ Len(pieces) \in Nat \ {0}
      /\ WithPieces = (Above \o pieces) \o Below
  BY AllPieces, ResultHolds
<1> HIDE DEF Above, Below
<1>5. CASE target # Len(hunks)
  <2>1. Below # <<>>
    BY <1>1, <1>2, <1>3, <1>5
  <2>2. WithPieces[Len(WithPieces)] = Below[Len(Below)]
    <3>1. Above \o pieces \in Seq(Hunk)
      BY <1>3, <1>4, ConcatHolds
    <3>2. QED
      BY <1>3, <1>4, <2>1, <3>1, ConcatEnds
  <2>3. QED
    BY <1>3, <2>1, <2>2 DEF EndsOn
<1>6. CASE target = Len(hunks) /\ LastOldEnd(WithPieces) = LastOldEnd(hunks)
  <2>1. Below = <<>>
    BY <1>2, <1>3, <1>6
  <2>2. WithPieces[Len(WithPieces)] = pieces[Len(pieces)]
    <3>1. Above \o pieces \in Seq(Hunk) /\ pieces # <<>>
      BY <1>3, <1>4, ConcatHolds
    <3>2. WithPieces = Above \o pieces
      BY <1>4, <2>1, <3>1
    <3>3. QED
      BY <1>3, <1>4, <3>1, <3>2, ConcatEnds
  <2>3. PICK from \in DOMAIN Lines, to \in DOMAIN Lines :
          /\ from <= to
          /\ pieces[Len(pieces)] = RebuildSubhunk(h, from, to)
          /\ CountIn(Lines, Changes, to + 1, n) = 0
    BY AllPieces
  <2> DEFINE p == RebuildSubhunk(h, from, to)
             off == CountIn(Lines, OldSide, 1, from - 1)
             cnt == CountIn(Lines, OldSide, from, to)
             rest == CountIn(Lines, OldSide, to + 1, n)
  <2>4. /\ from \in Nat \ {0} /\ to \in Nat \ {0} /\ to \in Nat /\ from <= to + 1 /\ to <= n
    BY <1>2, <2>3
  <2>5. /\ off \in Nat /\ cnt \in Nat /\ rest \in Nat
        /\ Count(Lines, OldSide) = off + cnt + rest
    <3>1. /\ CountIn(Lines, OldSide, from, to) \in Nat /\ CountIn(Lines, OldSide, 1, from - 1) \in Nat
          /\ CountIn(Lines, OldSide, to + 1, n) \in Nat
          /\ CountIn(Lines, OldSide, 1, to) = off + cnt
          /\ Count(Lines, OldSide) = CountIn(Lines, OldSide, 1, to) + CountIn(Lines, OldSide, to + 1, n)
      <4>1. /\ Lines \in Seq(Line) /\ from \in Nat \ {0} /\ to \in Nat /\ from <= to + 1
            /\ to <= Len(Lines)
        BY <1>2, <2>4
      <4>2. QED
        BY <4>1, CountInBounds
    <3>2. QED
      BY <3>1
  <2>6. /\ p.lines = SubSeq(Lines, from, to) /\ p.old_lines = cnt
        /\ p.old_start = SideStart(h.old_start, off, cnt)
    <3>1. Count(SubSeq(Lines, from, to), OldSide) = cnt
      BY <1>2, <2>4, CountOfSlice
    <3>2. QED
      BY <1>2, <3>1 DEF RebuildSubhunk
  <2> HIDE DEF p, off, cnt, rest
  <2>7. h.old_start \in Nat /\ h.old_start \in U32
    BY <1>2 DEF Hunk, U32
  <2>8. h.old_lines = Count(Lines, OldSide)
    BY <1>2, SoundMeans
  <2>9. p.old_start + p.old_lines = h.old_start + h.old_lines
    <3>1. LastOldEnd(WithPieces) = p.old_start + p.old_lines
      BY <2>2, <2>3 DEF LastOldEnd, p
    <3>2. LastOldEnd(hunks) = h.old_start + h.old_lines
      BY <1>6 DEF LastOldEnd
    <3>3. QED
      BY <1>6, <3>1, <3>2
  <2>10. p.old_start \in Int /\ p.old_start <= h.old_start + off
    BY <2>5, <2>6, <2>7, SideStartBound
  <2>11. rest = 0
    BY <2>5, <2>6, <2>7, <2>8, <2>9, <2>10
  <2>12. to = n
    <3>1. SUFFICES ASSUME to < n
                   PROVE  FALSE
      BY <1>2, <2>4
    <3>2. to + 1 \in Int /\ n \in Int /\ to + 1 \in (to + 1)..n /\ to + 1 \in DOMAIN Lines
      BY <1>2, <2>4, <3>1
    <3>3. Lines[to + 1].kind \in OldSide \cup Changes
      <4>1. Lines[to + 1] \in Line
        BY <1>2, <3>2
      <4>2. QED
        BY <4>1 DEF Line, Kinds, OldSide, Changes
    <3>4. ~(CountIn(Lines, OldSide, to + 1, n) > 0) /\ ~(CountIn(Lines, Changes, to + 1, n) > 0)
      BY <2>3, <2>11 DEF rest
    <3>5. Lines[to + 1].kind \notin OldSide /\ Lines[to + 1].kind \notin Changes
      BY <3>2, <3>4, CountInPositive
    <3>6. QED
      BY <3>3, <3>5
  <2>13. p.lines[Len(p.lines)] = Lines[n]
    <3>1. p.lines = SubSeq(Lines, from, n) /\ from \in Nat \ {0} /\ from <= n
      BY <2>3, <2>4, <2>6, <2>12
    <3>2. Lines \in Seq(Line) /\ n \in Nat /\ n = Len(Lines)
      BY <1>2
    <3> HIDE DEF n
    <3>3. /\ Len(SubSeq(Lines, from, n)) = n - from + 1
          /\ SubSeq(Lines, from, n)[n - from + 1] = Lines[n]
      BY <3>1, <3>2
    <3>4. QED
      BY <3>1, <3>3
  <2>14. QED
    BY <1>2, <1>6, <2>2, <2>3, <2>13 DEF EndsOn, p
<1>7. QED
  BY <1>5, <1>6

LEMMA SpliceInv == IInv /\ Splice => IInv'
<1> SUFFICES ASSUME IInv, Splice
             PROVE  IInv'
  OBVIOUS
<1>1. /\ phase = "cut" /\ At("build") /\ seen = Len(ends)
      /\ trailer' = [i \in DOMAIN trailer |-> Shifted(trailer[i])]
      /\ cropped' = (cropped /\ StillThere(trailer'))
      /\ StartRenumber(WithPieces) /\ phase' = "renumber" /\ hunks' = WithPieces
      /\ UNCHANGED <<entry, target, step, li, newNo, cuts, wanted, ends, pieces, seen>>
  BY DEF Splice, At, StartRenumber
<1>2. /\ hunks = entry.hunks /\ trailer = entry.trailer /\ cropped = entry.cropped
      /\ trailer \in Seq(Nat) /\ cropped \in BOOLEAN /\ LoopInv
  BY <1>1 DEF IInv, LoopInv, AcceptedInv, PlacesInv, TypeOK
<1>3. WithPieces \in Seq(Hunk) /\ AllSound(WithPieces) /\ (Real => Tidy(WithPieces))
  BY <1>1, ResultHolds
<1>4. LoopInv'
  BY <1>1, <1>2, <1>3, LoopTakesOver
<1>5. \A i \in DOMAIN trailer :
        /\ trailer'[i] \in Nat
        /\ ChangedTo(hunks', trailer'[i]) = ChangedTo(entry.hunks, entry.trailer[i])
        /\ entry.trailer[i] >= Len(entry.hunks) <=> trailer'[i] >= Len(hunks')
  <2> TAKE i \in DOMAIN trailer
  <2>1. trailer[i] \in Nat /\ trailer'[i] = Shifted(trailer[i])
    BY <1>1, <1>2
  <2>2. QED
    BY <1>1, <1>2, <2>1, TrailerMoves
<1>6. trailer' \in Seq(Nat) /\ DOMAIN trailer' = DOMAIN trailer
  <2>1. DOMAIN trailer = 1..Len(trailer) /\ Len(trailer) \in Nat
    BY <1>2
  <2>2. DOMAIN trailer' = 1..Len(trailer) /\ trailer' \in [1..Len(trailer) -> Nat]
    BY <1>1, <1>5, <2>1
  <2>3. QED
    BY <2>1, <2>2
<1>7. TypeOK'
  <2>1. cropped' \in BOOLEAN
    BY <1>1
  <2>2. QED
    BY <1>1, <1>4, <1>6, <2>1 DEF IInv, TypeOK, LoopInv
<1>8. entry.last /\ cropped' => entry.cropped /\ (EndsOnTheInputsLastLine)'
  <2> SUFFICES ASSUME entry.last, cropped'
               PROVE  entry.cropped /\ (EndsOnTheInputsLastLine)'
    OBVIOUS
  <2>1. entry.cropped /\ StillThere(trailer')
    BY <1>1, <1>2
  <2>2. CASE HasTail(trailer', WithPieces)
    BY <1>1, <2>1, <2>2 DEF EndsOnTheInputsLastLine
  <2>3. CASE ~HasTail(trailer', WithPieces)
    <3>1. target # Len(hunks) \/ LastOldEnd(WithPieces) = LastOldEnd(hunks)
      BY <2>1, <2>3 DEF StillThere
    <3>2. EndsOn(WithPieces) = EndsOn(hunks)
      BY <1>1, <3>1, EndsOnSameLine
    <3>3. QED
      BY <1>1, <1>2, <2>1, <3>2 DEF EndsOnTheInputsLastLine
  <2>4. QED
    BY <2>2, <2>3
<1>9. SplicedInv'
  BY <1>1, <1>2, <1>5, <1>6, <1>8 DEF SplicedInv
<1>10. /\ UntouchedInv' /\ PlacesInv' /\ TargetInv' /\ ScanInv' /\ AskedInv'
       /\ BuildInv' /\ PiecesInv'
  BY <1>1 DEF UntouchedInv, PlacesInv, TargetInv, ScanInv, AskedInv, BuildInv, PiecesInv, At
<1>11. QED
  BY <1>4, <1>7, <1>9, <1>10 DEF IInv

-----------------------------------------------------------------------------
(* The theorems.                                                            *)

(* IInv holds in every state of every run: of any entry, any u32 bound,    *)
(* any hunk and any set of cuts.                                           *)
THEOREM Invariance == Spec => []IInv
<1>1. IInv /\ [Next]_vars => IInv'
  <2> SUFFICES ASSUME IInv, [Next]_vars
               PROVE  IInv'
    OBVIOUS
  <2>1. CASE LoopNext /\ UNCHANGED <<entry, cutting>>
    BY <2>1, LoopNextInv
  <2>2. CASE RefuseTarget \/ RefuseCut \/ RefuseMissing
    BY <2>2, RefuseInv DEF RefuseTarget, RefuseCut, RefuseMissing
  <2>3. CASE BeginScan \/ PassLine \/ CutBelow \/ EndScan
    BY <2>3, BeginScanInv, PassLineInv, CutBelowInv, EndScanInv
  <2>4. CASE DropPiece \/ KeepPiece
    BY <2>4, DropPieceInv, KeepPieceInv
  <2>5. CASE Splice
    BY <2>5, SpliceInv
  <2>6. CASE Exited \/ UNCHANGED vars
    BY <2>6, StutterInv DEF Exited
  <2>7. QED
    BY <2>1, <2>2, <2>3, <2>4, <2>5, <2>6 DEF Next, CutNext
<1>2. QED
  BY <1>1, InitInv, PTL DEF Spec

(* Every variable keeps to its type; the line number of the scan wraps.    *)
THEOREM TypeCorrect == Spec => []TypeOK
<1>1. IInv => TypeOK
  BY DEF IInv
<1>2. QED
  BY <1>1, Invariance, PTL

(* split never refuses what it made of an accepted diff of real files,     *)
(* unless the result reaches the last position a header can name.          *)
THEOREM OwnResultIsAccepted == Spec => []OwnResultAccepted
<1>1. IInv => OwnResultAccepted
  BY LoopAcceptsResult DEF IInv
<1>2. QED
  BY <1>1, Invariance, PTL

(* The internal check can fail a split on the order of its hunks only.     *)
THEOREM OrderIsTheOnlyFault == Spec => []OnlyOrderCanFail
<1>1. IInv => OnlyOrderCanFail
  BY LoopAcceptsResult DEF IInv
<1>2. QED
  BY <1>1, Invariance, PTL

(* No renumbered piece starts above line 1: the clamp at 0 is not needed.  *)
THEOREM PositionsArePositive == Spec => []PositionsStayPositive
<1>1. IInv => PositionsStayPositive
  BY LoopStaysPositive DEF IInv
<1>2. QED
  BY <1>1, Invariance, PTL

(* However a hunk is cut and whichever pieces are left out, every trailer  *)
(* line of the entry keeps exactly the changes above it that it had.       *)
THEOREM TrailerKeepsItsPlace == Spec => []TrailerStaysPut
<1>1. IInv => TrailerStaysPut
  <2> SUFFICES ASSUME IInv, Done
               PROVE  \A i \in DOMAIN trailer :
                        /\ ChangedTo(hunks, trailer[i]) = ChangedTo(entry.hunks, entry.trailer[i])
                        /\ entry.trailer[i] >= Len(entry.hunks) <=> trailer[i] >= Len(hunks)
    BY DEF TrailerStaysPut
  <2>1. QED
    BY DEF IInv, SplicedInv, Done
<1>2. QED
  BY <1>1, Invariance, PTL

(* The final newline left off is the one the input's last line lacked: no  *)
(* cut makes split truncate another line.                                  *)
THEOREM OnlyTheLastLineIsCropped == Spec => []CropsOnlyTheInputsLastLine
<1>1. IInv => CropsOnlyTheInputsLastLine
  BY DEF IInv, SplicedInv, CropsOnlyTheInputsLastLine, Done
<1>2. QED
  BY <1>1, Invariance, PTL

-----------------------------------------------------------------------------
(* The files the entry is the diff of.                                     *)

\* the files an entry is the diff of stay what they are
FileInv == MInv /\ entry \in Entries

(* What is known of the files the entry is the diff of.                    *)
LEMMA TheFiles ==
  ASSUME FileInv, RealDiff
  PROVE  /\ IInv /\ Real /\ HunksStand /\ PiecesStand
         /\ IsDiffOf(Full, entry.tops, entry.hunks)
         /\ Full \in Seq(Line) /\ WellMarked(Full)
<1>1. entry \in Entries /\ entry.real
  BY DEF FileInv, MInv, RealDiff
<1>2. GitShaped(entry.hunks) /\ IsDiffOf(entry.full, entry.tops, entry.hunks)
  BY <1>1, RealAssumption
<1>3. Full \in Seq(Line) /\ WellMarked(Full)
  BY <1>2 DEF IsDiffOf, Full
<1>4. QED
  BY <1>2, <1>3 DEF FileInv, MInv, Real, Full

LEMMA InitMeans == Init => FileInv
<1> SUFFICES ASSUME Init
             PROVE  FileInv
  OBVIOUS
<1>1. IInv
  BY InitInv
<1>2. entry \in Entries /\ hunks = entry.hunks /\ phase = "input"
  BY DEF Init, LoopInit
<1>3. hunks \in Seq(Hunk)
  BY <1>1 DEF IInv, LoopInv, LoopTypeOK
<1>4. ASSUME RealDiff
      PROVE  HunksStand
  <2>1. IsDiffOf(Full, entry.tops, hunks)
    BY <1>2, <1>4, RealAssumption DEF RealDiff, Full
  <2>2. Standing(Full, hunks, 0) /\ ChangedTo(hunks, Len(hunks)) = Count(Full, Changes)
    BY <1>3, <2>1, InputStands
  <2>3. QED
    BY <2>2 DEF HunksStand
<1>5. PiecesStand
  BY <1>2 DEF PiecesStand, At
<1>6. QED
  BY <1>1, <1>2, <1>4, <1>5 DEF FileInv, MInv

LEMMA LoopNextMeans == FileInv /\ LoopNext /\ UNCHANGED <<entry, cutting>> => FileInv'
<1> SUFFICES ASSUME FileInv, LoopNext, UNCHANGED <<entry, cutting>>
             PROVE  FileInv'
  OBVIOUS
<1>1. IInv /\ IInv'
  BY LoopNextInv DEF FileInv, MInv
<1>2. entry' \in Entries /\ entry' = entry /\ (RealDiff' <=> RealDiff)
  BY DEF FileInv, MInv, RealDiff
<1>3. hunks \in Seq(Hunk) /\ hunks' \in Seq(Hunk)
  BY <1>1 DEF IInv, LoopInv, LoopTypeOK
<1>4. ASSUME RealDiff
      PROVE  HunksStand'
  <2>1. Standing(Full, hunks, 0) /\ ChangedTo(hunks, Len(hunks)) = Count(Full, Changes)
    BY <1>4, TheFiles DEF HunksStand
  <2>2. Standing(Full, hunks', 0) /\ ChangedTo(hunks', Len(hunks')) = ChangedTo(hunks, Len(hunks))
    <3>1. CASE RenumberHunk
      <4>1. hunks' = [hunks EXCEPT ![at].new_start = ExpectedNewStart(hunks[at], delta)]
        BY <3>1 DEF RenumberHunk
      <4>2. DOMAIN hunks' = DOMAIN hunks /\ \A j \in DOMAIN hunks : hunks[j] \in Hunk
        BY <1>3, <4>1
      <4>3. /\ DOMAIN hunks = 1..Len(hunks) /\ Len(hunks) \in Nat
            /\ DOMAIN hunks' = 1..Len(hunks') /\ Len(hunks') \in Nat
        BY <1>3
      <4>4. Len(hunks') = Len(hunks)
        BY <4>2, <4>3
      <4>5. \A j \in 1..Len(hunks) : /\ hunks'[j].lines = hunks[j].lines
                                     /\ hunks'[j].old_start = hunks[j].old_start
                                     /\ hunks'[j].old_lines = hunks[j].old_lines
        BY <4>1, <4>2, <4>3 DEF Hunk
      <4>6. \A j \in 1..Len(hunks) : OldAt(hunks'[j]) = OldAt(hunks[j])
        BY <4>5 DEF OldAt
      <4>7. QED
        BY <1>3, <2>1, <4>4, <4>5, <4>6, StandingSame
    <3>2. CASE ~RenumberHunk
      <4>1. hunks' = hunks
        BY <3>2 DEF LoopNext, AcceptHunk, RejectHunk, EndCheck, EndRenumber
      <4>2. QED
        BY <2>1, <4>1
    <3>3. QED
      BY <3>1, <3>2
  <2>3. Full' = Full
    BY <1>2 DEF Full
  <2>4. QED
    BY <2>1, <2>2, <2>3 DEF HunksStand
<1>5. PiecesStand'
  <2>1. phase # "cut" /\ (phase' \in {"input", "cut"} => phase = "input")
    BY DEF LoopNext, AcceptHunk, RejectHunk, EndCheck, RenumberHunk, EndRenumber, Checking
  <2>2. phase' = "cut" => step' = "resolve"
    BY <1>1, <2>1 DEF IInv, UntouchedInv, cutting
  <2>3. QED
    BY <2>2 DEF PiecesStand, At
<1>6. QED
  BY <1>1, <1>2, <1>4, <1>5 DEF FileInv, MInv

(* A step that touches neither the hunks nor the pieces.                   *)
LEMMA RestMeans ==
  ASSUME FileInv, IInv', UNCHANGED <<entry, hunks, target, pieces>>, At("build")' => At("build")
  PROVE  FileInv'
<1>1. RealDiff' <=> RealDiff
  BY DEF RealDiff
<1>2. ASSUME RealDiff
      PROVE  HunksStand' /\ PiecesStand'
  BY <1>2, TheFiles DEF HunksStand, PiecesStand, Full
<1>3. QED
  BY <1>1, <1>2 DEF FileInv, MInv

LEMMA EndScanMeans == FileInv /\ EndScan => FileInv'
<1> SUFFICES ASSUME FileInv, EndScan
             PROVE  FileInv'
  OBVIOUS
<1>1. IInv /\ IInv'
  BY EndScanInv DEF FileInv, MInv
<1>2. UNCHANGED <<hunks, entry>> /\ pieces' = pieces
  BY DEF EndScan, loop
<1>3. pieces = <<>>
  BY <1>1 DEF EndScan, IInv, ScanInv
<1>4. Standing(Full, <<>>, ChangedTo(hunks, target - 1))
  BY DEF Standing
<1>5. RealDiff' <=> RealDiff
  BY <1>2 DEF RealDiff
<1>6. ASSUME RealDiff
      PROVE  HunksStand' /\ PiecesStand'
  <2>1. Full' = Full /\ target' = target
    BY <1>2 DEF Full, EndScan
  <2>2. HunksStand
    BY <1>6, TheFiles
  <2>3. QED
    BY <1>2, <1>3, <1>4, <2>1, <2>2 DEF HunksStand, PiecesStand
<1>7. QED
  BY <1>1, <1>2, <1>5, <1>6 DEF FileInv, MInv

(* Where the hunk being cut stands.                                        *)
LEMMA TheHunkStands ==
  ASSUME FileInv, RealDiff, phase = "cut", target <= Len(hunks)
  PROVE  \E f \in 0..Len(Full) : Stands(Full, hunks[target], f, ChangedTo(hunks, target - 1))
<1>1. IInv /\ hunks \in Seq(Hunk) /\ target \in Nat \ {0} /\ Standing(Full, hunks, 0)
  BY TheFiles, TheHunk DEF HunksStand
<1>2. target \in 1..Len(hunks)
  BY <1>1
<1>3. StandsAt(Full, hunks, 0, target)
  BY <1>1, <1>2, StandingIs
<1>4. 0 + ChangedTo(hunks, target - 1) = ChangedTo(hunks, target - 1)
  BY <1>1, ChangesAreFinite
<1>5. QED
  BY <1>3, <1>4 DEF StandsAt

(* No line above a piece that is kept lacks its newline.                   *)
LEMMA NoMarkAbovePiece ==
  ASSUME FileInv, RealDiff, At("build"), seen < Len(ends), PieceFrom <= PieceTo,
         NEW m \in 1..(PieceFrom - 1)
  PROVE  ~Lines[m].nonl
<1> DEFINE i == ends[seen]
           u == Len(Lines)
<1>1. /\ IInv /\ phase = "cut" /\ target <= Len(hunks) /\ ends \in Seq(Nat) /\ seen \in Nat
      /\ \A k \in 1..(Len(ends) - 1) : OnContext(k)
      /\ Full \in Seq(Line) /\ WellMarked(Full)
  BY TheFiles DEF IInv, TypeOK, TargetInv, BuildInv, At
<1>2. /\ hunks[target] \in Hunk /\ Lines = hunks[target].lines /\ Lines \in Seq(Line)
      /\ Len(Lines) \in Nat /\ DOMAIN Lines = 1..Len(Lines)
  BY <1>1, TheHunk
<1>3. PieceTo <= Len(Lines) /\ PieceFrom \in Nat /\ PieceTo \in Nat
  BY <1>1, PieceStretch
<1>4. seen # 0 /\ PieceFrom = i + 1
  BY DEF PieceFrom
<1>5. seen \in 1..(Len(ends) - 1)
  BY <1>1, <1>4
<1>6. OnContext(seen)
  BY <1>1, <1>5
<1>7. i \in 1..Len(Lines) /\ Lines[i].kind = "ctx"
  BY <1>2, <1>6 DEF OnContext
<1> HIDE DEF i
<1>8. i < Len(Lines) /\ m \in 1..i
  BY <1>2, <1>3, <1>4, <1>7
<1>9. PICK f \in 0..Len(Full) : Stands(Full, hunks[target], f, ChangedTo(hunks, target - 1))
  BY <1>1, TheHunkStands
<1> DEFINE bottom == f + Len(hunks[target].lines)
<1>10. bottom = f + Len(hunks[target].lines)
  OBVIOUS
<1> HIDE DEF bottom
<1>11. Placed(Full, f, Lines, bottom)
  BY <1>1, <1>2, <1>9, <1>10, StandsPlaced
<1>12. QED
  BY <1>1, <1>7, <1>8, <1>11, NoMarkAboveContext

LEMMA KeepPieceMeans == FileInv /\ KeepPiece => FileInv'
<1> SUFFICES ASSUME FileInv, KeepPiece
             PROVE  FileInv'
  OBVIOUS
<1> DEFINE h == hunks[target]
           from == PieceFrom
           to == PieceTo
           p == RebuildSubhunk(h, from, to)
           above == ChangedTo(hunks, target - 1)
<1>1. /\ phase = "cut" /\ At("build") /\ seen < Len(ends)
      /\ CountIn(Lines, Changes, from, to) > 0 /\ pieces' = Append(pieces, p)
      /\ entry' = entry /\ hunks' = hunks /\ target' = target
  BY DEF KeepPiece, WorthKeeping, At, loop
<1>2. IInv /\ IInv' /\ (RealDiff' <=> RealDiff)
  BY <1>1, KeepPieceInv DEF FileInv, MInv, RealDiff
<1>3. pieces \in Seq(Hunk) /\ target <= Len(hunks) /\ PiecesInv
  BY <1>1, <1>2 DEF IInv, TypeOK, TargetInv, At
<1>4. /\ h \in Hunk /\ Lines = h.lines /\ Lines \in Seq(Line) /\ Len(Lines) \in Nat /\ Sound(h)
      /\ hunks \in Seq(Hunk) /\ target \in Nat \ {0}
      /\ Real => OldAt(h) >= 1 /\ OldEnd(h) <= MaxU32
  BY <1>1, <1>2, <1>3, TheHunk
<1>5. /\ from \in Nat \ {0} /\ to \in Nat /\ to <= Len(Lines)
      /\ CountIn(Lines, OldSide, 1, to) > 0
  BY <1>1, <1>2, PieceStretch
<1>6. from <= to
  <2> HIDE DEF from, to
  <2>1. from \in Int /\ to \in Int
    BY <1>5
  <2>2. to < from => CountIn(Lines, Changes, from, to) = 0
    BY <2>1, CountInType
  <2>3. QED
    BY <1>1, <2>1, <2>2
<1>7. p \in Hunk
  <2> HIDE DEF from, to
  <2>1. QED
    BY <1>1, <1>4, <1>5, <1>6, PieceIsSound
<1>8. above \in Nat
  BY <1>4, ChangesAreFinite
<1>9. ChangedTo(pieces, Len(pieces)) = CountIn(Lines, Changes, 1, from - 1)
  BY <1>1, <1>3 DEF PiecesInv
<1>10. ASSUME RealDiff
       PROVE  Standing(Full, Append(pieces, p), above)
  <2>1. /\ Real /\ Full \in Seq(Line)
        /\ Standing(Full, pieces, above)
    BY <1>1, <1>10, TheFiles DEF PiecesStand
  <2>2. PICK f \in 0..Len(Full) : Stands(Full, h, f, above)
    BY <1>1, <1>3, <1>10, TheHunkStands
  <2>3. \A m \in 1..(from - 1) : ~h.lines[m].nonl
    BY <1>1, <1>4, <1>6, <1>10, NoMarkAbovePiece
  <2> HIDE DEF from, to
  <2>4. \E top \in 0..Len(Full) : Stands(Full, p, top, above + CountIn(h.lines, Changes, 1, from - 1))
    <3> HIDE DEF above, h
    <3>1. QED
      BY <1>4, <1>5, <1>6, <2>1, <2>2, <2>3, PieceIsPlaced
  <2> HIDE DEF p, above
  <2>5. QED
    BY <1>3, <1>4, <1>7, <1>8, <1>9, <2>1, <2>4, StandingGrows
<1>11. ASSUME RealDiff
       PROVE  HunksStand' /\ PiecesStand'
  <2>1. Full' = Full
    BY <1>1 DEF Full
  <2>2. HunksStand
    BY <1>11, TheFiles
  <2>3. QED
    BY <1>1, <1>10, <1>11, <2>1, <2>2 DEF HunksStand, PiecesStand
<1>12. QED
  BY <1>1, <1>2, <1>11 DEF FileInv, MInv

\* c is a, with `above` changes of the diff above it, then b, with `more`
Seam(full, c, a, b, above, more) ==
  /\ full \in Seq(Line) /\ a \in Seq(Hunk) /\ b \in Seq(Hunk) /\ c = a \o b
  /\ above \in Nat /\ more = above + ChangedTo(a, Len(a))

(* What stands in a list stands in its two parts.                          *)
LEMMA SeamStands ==
  ASSUME NEW full, NEW a, NEW b, NEW c, NEW above, NEW more, Seam(full, c, a, b, above, more)
  PROVE  Standing(full, c, above) <=> Standing(full, a, above) /\ Standing(full, b, more)
<1>1. /\ a \in Seq(Hunk) /\ b \in Seq(Hunk) /\ c = a \o b
      /\ above \in Nat /\ more = above + ChangedTo(a, Len(a))
  BY DEF Seam
<1>2. Standing(full, a \o b, above) <=> Standing(full, a, above) /\ Standing(full, b, more)
  BY <1>1, StandingJoins
<1>3. QED
  BY <1>1, <1>2, Zenon

(* It has the changes of both.                                             *)
LEMMA SeamChanges ==
  ASSUME NEW full, NEW a, NEW b, NEW c, NEW above, NEW more, Seam(full, c, a, b, above, more)
  PROVE  ChangedTo(c, Len(c)) = ChangedTo(a, Len(a)) + ChangedTo(b, Len(b))
<1>1. a \in Seq(Hunk) /\ b \in Seq(Hunk) /\ c = a \o b
  BY DEF Seam
<1>2. Len(a \o b) = Len(a) + Len(b) /\ Len(b) \in Nat
  BY <1>1, ConcatHolds
<1>3. ChangedTo(a \o b, Len(a) + Len(b)) = ChangedTo(a, Len(a)) + ChangedTo(b, Len(b))
  BY <1>1, <1>2, ConcatChanges
<1>4. QED
  BY <1>1, <1>2, <1>3

(* Hunks that stand where others did, with as many changes, may take their *)
(* place.                                                                  *)
LEMMA StandingSwaps ==
  ASSUME NEW full, NEW a, NEW b, NEW os, NEW ps, NEW rest, NEW hs, NEW up, NEW gs,
         NEW above, NEW more, Seam(full, rest, os, b, above, more),
         Seam(full, hs, a, rest, 0, above), Seam(full, up, a, ps, 0, above),
         Seam(full, gs, up, b, 0, more),
         ChangedTo(ps, Len(ps)) = ChangedTo(os, Len(os)),
         Standing(full, hs, 0), Standing(full, ps, above)
  PROVE  Standing(full, gs, 0) /\ ChangedTo(gs, Len(gs)) = ChangedTo(hs, Len(hs))
<1>1. Standing(full, rest, above) <=> Standing(full, os, above) /\ Standing(full, b, more)
  BY SeamStands
<1>2. Standing(full, hs, 0) <=> Standing(full, a, 0) /\ Standing(full, rest, above)
  BY SeamStands
<1>3. Standing(full, up, 0) <=> Standing(full, a, 0) /\ Standing(full, ps, above)
  BY SeamStands
<1>4. Standing(full, gs, 0) <=> Standing(full, up, 0) /\ Standing(full, b, more)
  BY SeamStands
<1>5. /\ ChangedTo(rest, Len(rest)) = ChangedTo(os, Len(os)) + ChangedTo(b, Len(b))
      /\ ChangedTo(hs, Len(hs)) = ChangedTo(a, Len(a)) + ChangedTo(rest, Len(rest))
      /\ ChangedTo(up, Len(up)) = ChangedTo(a, Len(a)) + ChangedTo(ps, Len(ps))
      /\ ChangedTo(gs, Len(gs)) = ChangedTo(up, Len(up)) + ChangedTo(b, Len(b))
  BY SeamChanges
<1>6. /\ ChangedTo(a, Len(a)) \in Nat /\ ChangedTo(b, Len(b)) \in Nat /\ ChangedTo(os, Len(os)) \in Nat
  BY ChangesAreFinite DEF Seam
<1>7. Standing(full, gs, 0)
  BY <1>1, <1>2, <1>3, <1>4
<1>8. ChangedTo(gs, Len(gs)) = ChangedTo(hs, Len(hs))
  BY <1>5, <1>6
<1>9. QED
  BY <1>7, <1>8

(* The pieces stand where the hunk did, and nothing around it moves.       *)
LEMMA SpliceMeans == FileInv /\ Splice => FileInv'
<1> SUFFICES ASSUME FileInv, Splice
             PROVE  FileInv'
  OBVIOUS
<1> DEFINE h == hunks[target]
<1>1. /\ phase = "cut" /\ At("build") /\ seen = Len(ends)
      /\ phase' = "renumber" /\ hunks' = WithPieces /\ entry' = entry
  BY DEF Splice, At, StartRenumber
<1>2. IInv /\ IInv' /\ (RealDiff' <=> RealDiff) /\ target <= Len(hunks)
  BY <1>1, SpliceInv DEF FileInv, MInv, RealDiff, IInv, TargetInv, At
<1>3. /\ Above \in Seq(Hunk) /\ Len(Above) = target - 1 /\ Below \in Seq(Hunk)
      /\ hunks = Above \o (<<h>> \o Below)
  BY <1>1, <1>2, Around
<1>4. h \in Hunk /\ Lines = h.lines /\ target \in Nat \ {0} /\ hunks \in Seq(Hunk)
  BY <1>1, <1>2, TheHunk
<1>5. /\ pieces \in Seq(Hunk) /\ ChangedTo(pieces, Len(pieces)) = Count(h.lines, Changes)
  BY <1>1, <1>2, <1>4, AllPieces
<1>6. WithPieces = (Above \o pieces) \o Below
  BY <1>1, <1>2, ResultHolds
<1> HIDE DEF h, Above, Below
<1>7. ChangedTo(hunks, target - 1) = ChangedTo(Above, Len(Above))
  <2> DEFINE t == <<h>> \o Below
             n == target - 1
  <2>1. t \in Seq(Hunk)
    BY <1>3, <1>4, ConcatHolds
  <2>2. hunks = Above \o t
    BY <1>3
  <2>3. n \in Nat /\ n <= Len(Above) /\ n = Len(Above)
    BY <1>3, <1>4
  <2> HIDE DEF t, n
  <2>4. ChangedTo(Above \o t, n) = ChangedTo(Above, n)
    BY <1>3, <2>1, <2>3, PrefixChanges
  <2>5. ChangedTo(hunks, n) = ChangedTo(Above, Len(Above))
    BY <2>2, <2>3, <2>4
  <2>6. QED
    BY <2>5 DEF n
<1>8. ASSUME RealDiff
      PROVE  HunksStand'
  <2>1. /\ Standing(Full, hunks, 0) /\ Standing(Full, pieces, ChangedTo(Above, Len(Above)))
        /\ ChangedTo(hunks, Len(hunks)) = Count(Full, Changes)
    BY <1>1, <1>7, <1>8, TheFiles DEF HunksStand, PiecesStand
  <2> DEFINE one == <<h>>
             rest == one \o Below
             up == Above \o pieces
             above == ChangedTo(Above, Len(Above))
             own == Count(h.lines, Changes)
             more == above + own
  <2>1a. Full \in Seq(Line)
    BY <1>8, TheFiles
  <2>3. rest = one \o Below /\ hunks = Above \o rest /\ up = Above \o pieces /\ WithPieces = up \o Below
    BY <1>3, <1>6, Zenon
  <2>4. one \in Seq(Hunk) /\ ChangedTo(one, Len(one)) = own
    BY <1>4, OneHunkChanges
  <2> HIDE DEF one
  <2>5. rest \in Seq(Hunk) /\ up \in Seq(Hunk)
    BY <1>3, <1>5, <2>4, ConcatHolds
  <2>6. above \in Nat /\ own \in Nat /\ more = above + own /\ more = 0 + more /\ above = 0 + above /\ 0 \in Nat
    <3>1. above \in Nat /\ ChangedTo(one, Len(one)) \in Nat
      BY <1>3, <2>4, ChangesAreFinite
    <3>2. QED
      BY <2>4, <3>1
  <2>7. ChangedTo(up, Len(up)) = more
    <3>1. Len(Above \o pieces) = Len(Above) + Len(pieces) /\ Len(pieces) \in Nat
      BY <1>3, <1>5, ConcatHolds
    <3>2. ChangedTo(Above \o pieces, Len(Above) + Len(pieces)) = above + own
      BY <1>3, <1>5, <3>1, ConcatChanges
    <3>3. QED
      BY <3>1, <3>2
  <2> HIDE DEF rest, up, own, more
  <2>8. Seam(Full, rest, one, Below, above, more)
    BY <2>1a, <1>3, <2>3, <2>4, <2>6, Zenon DEF Seam
  <2>9. Seam(Full, hunks, Above, rest, 0, above)
    BY <2>1a, <1>3, <2>3, <2>5, <2>6, Zenon DEF Seam
  <2>10. Seam(Full, up, Above, pieces, 0, above)
    BY <2>1a, <1>3, <1>5, <2>3, <2>6, Zenon DEF Seam
  <2>11. Seam(Full, WithPieces, up, Below, 0, more)
    BY <2>1a, <1>3, <2>3, <2>5, <2>6, <2>7, Zenon DEF Seam
  <2>12. ChangedTo(pieces, Len(pieces)) = ChangedTo(one, Len(one))
    BY <1>5, <2>4 DEF own
  <2>2. /\ Standing(Full, WithPieces, 0)
        /\ ChangedTo(WithPieces, Len(WithPieces)) = ChangedTo(hunks, Len(hunks))
    BY <2>1, <2>8, <2>9, <2>10, <2>11, <2>12, StandingSwaps
  <2>13. Full' = Full
    BY <1>1 DEF Full
  <2>14. QED
    BY <1>1, <2>1, <2>2, <2>13 DEF HunksStand
<1>9. PiecesStand'
  BY <1>1 DEF PiecesStand, At
<1>10. entry' \in Entries
  BY <1>1 DEF FileInv, MInv
<1>11. QED
  BY <1>2, <1>8, <1>9, <1>10 DEF FileInv, MInv

LEMMA FilesStay == Spec => []FileInv
<1>1. FileInv /\ [Next]_vars => FileInv'
  <2> SUFFICES ASSUME FileInv, [Next]_vars
               PROVE  FileInv'
    OBVIOUS
  <2>1. IInv
    BY DEF FileInv, MInv
  <2>2. CASE LoopNext /\ UNCHANGED <<entry, cutting>>
    BY <2>2, LoopNextMeans
  <2>3. CASE RefuseTarget \/ RefuseCut \/ RefuseMissing
    <3>1. UNCHANGED <<entry, cutting>> /\ Refuse
      BY <2>3 DEF RefuseTarget, RefuseCut, RefuseMissing
    <3>2. UNCHANGED <<entry, hunks, target, pieces>> /\ phase' = "usage"
      BY <3>1 DEF Refuse, cutting
    <3>3. IInv' /\ ~At("build")'
      BY <2>1, <3>1, <3>2, RefuseInv DEF At
    <3>4. QED
      BY <3>2, <3>3, RestMeans
  <2>4. CASE BeginScan \/ PassLine \/ CutBelow
    <3>1. IInv'
      BY <2>1, <2>4, BeginScanInv, PassLineInv, CutBelowInv
    <3>2. UNCHANGED <<entry, hunks, target, pieces>> /\ step' = "scan"
      BY <2>4 DEF BeginScan, PassLine, CutBelow, Scanning, At, loop
    <3>3. ~At("build")'
      BY <3>2 DEF At
    <3>4. QED
      BY <3>1, <3>2, <3>3, RestMeans
  <2>5. CASE DropPiece
    <3>1. IInv' /\ UNCHANGED <<entry, hunks, target, pieces>> /\ At("build")
      BY <2>1, <2>5, DropPieceInv DEF DropPiece, loop
    <3>2. QED
      BY <3>1, RestMeans
  <2>6. CASE EndScan \/ KeepPiece \/ Splice
    BY <2>6, EndScanMeans, KeepPieceMeans, SpliceMeans
  <2>7. CASE Exited \/ UNCHANGED vars
    <3>1. UNCHANGED vars
      BY <2>7 DEF Exited
    <3>2. UNCHANGED <<entry, hunks, target, pieces, phase, step>>
      BY <3>1 DEF vars, loop, cutting
    <3>3. IInv' /\ (At("build")' <=> At("build"))
      BY <2>1, <3>1, <3>2, StutterInv DEF At
    <3>4. QED
      BY <3>2, <3>3, RestMeans
  <2>8. QED
    BY <2>2, <2>3, <2>4, <2>5, <2>6, <2>7 DEF Next, CutNext
<1>2. QED
  BY <1>1, InitMeans, PTL DEF Spec

(* MInv holds in every state of every run: wherever the cuts fall, every   *)
(* hunk and every piece stands in the files where its header says, and no  *)
(* change of the diff is lost.                                             *)
THEOREM MeaningInvariance == Spec => []MInv
<1>1. FileInv => MInv
  BY DEF FileInv
<1>2. QED
  BY <1>1, FilesStay, PTL

(* Cutting a hunk changes nothing of what the diff does: whatever pieces   *)
(* were left out, `git apply` takes the old file to the same new file.     *)
THEOREM SplittingKeepsTheMeaning == Spec => []SplitAppliesTheSame
<1>1. FileInv => SplitAppliesTheSame
  <2> SUFFICES ASSUME FileInv, phase = "emitted", RealDiff, ~OutOfPositions(hunks)
               PROVE  Apply(OldFile(Full), hunks) = FileWith(Full, 1..Count(Full, Changes))
    BY DEF SplitAppliesTheSame
  <2>1. /\ IInv /\ Real /\ Full \in Seq(Line) /\ WellMarked(Full)
        /\ Standing(Full, hunks, 0) /\ ChangedTo(hunks, Len(hunks)) = Count(Full, Changes)
    BY TheFiles DEF HunksStand
  <2>2. LoopInv /\ hunks \in Seq(Hunk) /\ AllSound(hunks)
    BY <2>1 DEF IInv, LoopInv, LoopTypeOK, RenumberInv
  <2>3. Moved(hunks, Growth)
    BY <2>1, <2>2, EmittedMoves
  <2>4. QED
    BY <2>1, <2>2, <2>3, AppliesTheSame
<1>2. QED
  BY <1>1, FilesStay, PTL
=============================================================================

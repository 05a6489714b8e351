----------------------- MODULE ResolveSelectors_proofs -----------------------
(***************************************************************************)
(* Theorems of ResolveSelectors, for every patch, request, hash and        *)
(* allowance.                                                              *)
(***************************************************************************)
EXTENDS ResolveInv, HunksTheorems, SequenceTheorems

(* Where a patch, a request and the selectors are looked into.             *)
LEMMA FilesAre ==
  ASSUME TypeOK
  PROVE  /\ files \in Seq(Entry) /\ Files = 1..Len(files) /\ Len(files) \in Nat
         /\ \A fi \in Files : /\ files[fi] \in Entry /\ Subs(fi) \in Seq(Body)
                              /\ DOMAIN Subs(fi) = 1..Len(Subs(fi)) /\ Len(Subs(fi)) \in Nat
                              /\ DOMAIN Subs(fi) \subseteq Nat
<1>1. files \in Seq(Entry) /\ Files = 1..Len(files) /\ Len(files) \in Nat
  <2>1. files \in Seq({f \in Entry : f.binary => f.subs = <<>>})
    BY DEF TypeOK, Patch, files
  <2>2. QED
    BY <2>1 DEF Files
<1>2. ASSUME NEW fi \in Files
      PROVE  /\ files[fi] \in Entry /\ Subs(fi) \in Seq(Body)
             /\ DOMAIN Subs(fi) = 1..Len(Subs(fi)) /\ Len(Subs(fi)) \in Nat
             /\ DOMAIN Subs(fi) \subseteq Nat
  <2>1. files[fi] \in Entry
    BY <1>1
  <2>2. Subs(fi) \in Seq(Body)
    BY <2>1 DEF Entry, Subs
  <2>3. QED
    BY <2>1, <2>2
<1>3. QED
  BY <1>1, <1>2

LEMMA BinaryHasNoSubHunks ==
  ASSUME TypeOK, NEW fi \in Files, files[fi].binary
  PROVE  Subs(fi) = <<>>
<1>1. files \in Seq({f \in Entry : f.binary => f.subs = <<>>})
  BY DEF TypeOK, Patch, files
<1>2. files[fi] \in {f \in Entry : f.binary => f.subs = <<>>}
  BY <1>1 DEF Files
<1>3. QED
  BY <1>2 DEF Subs

LEMMA OwnerIsAFile ==
  ASSUME TypeOK, NEW path, Owned(path)
  PROVE  Owner(path) \in Files /\ Owners(path) = {Owner(path)}
<1>1. Owners(path) \subseteq 1..Len(files) /\ Len(files) \in Nat /\ Files = 1..Len(files)
  BY FilesAre DEF Owners
<1>2. IsFiniteSet(Owners(path))
  <2>1. IsFiniteSet(1..Len(files))
    BY <1>1, FS_Interval
  <2>2. QED
    BY <1>1, <2>1, FS_Subset
<1>3. \E fi : Owners(path) = {fi}
  BY <1>2, FS_Singleton DEF Owned
<1>4. \E fi \in Files : Owners(path) = {fi}
  BY <1>1, <1>3
<1>5. QED
  BY <1>4 DEF Owner

LEMMA ArgIs ==
  ASSUME TypeOK, at <= Len(request.args)
  PROVE  Arg \in Argument /\ request.args \in Seq(Argument)
  BY DEF TypeOK, Request, Arg

LEMMA SelIs ==
  ASSUME TypeOK, NumbersFromOne, at <= Len(sels)
  PROVE  /\ Sel \in Selector
         /\ Sel.form = "list" => \A j \in DOMAIN Sel.indices : Sel.indices[j] >= 1
         /\ Sel.form = "cut" => Sel.index >= 1
<1>1. at \in DOMAIN sels
  BY DEF TypeOK
<1>2. QED
  BY <1>1 DEF TypeOK, NumbersFromOne, Sel

-----------------------------------------------------------------------------
(* What a step that leaves a group of variables alone leaves standing.     *)

LEMMA SpentStays ==
  ASSUME RInv, UNCHANGED parsing
  PROVE  Spent'
  BY DEF RInv, Spent, BudgetKept, Held, parsing

LEMMA NumbersStay ==
  ASSUME RInv, UNCHANGED <<input, parsing>>, phase' # "set"
  PROVE  NumbersFromOne'
  BY DEF RInv, NumbersFromOne, input, parsing

LEMMA StoredStays ==
  ASSUME RInv, UNCHANGED <<input, resolving>>
  PROVE  Stored'
<1>1. files' = files /\ Files' = Files /\ \A fi : Subs(fi)' = Subs(fi)
  BY DEF input, files, Files, Subs
<1>2. cache' = cache /\ named' = named /\ whole' = whole /\ cuts' = cuts
  BY DEF resolving
<1>3. QED
  BY <1>1, <1>2 DEF RInv, Stored

Early == {"parse", "set", "resolve"}

LEMMA NothingIsOutEarly ==
  ASSUME RInv, UNCHANGED out, phase \in Early, phase' \notin {"emit", "pick"}
  PROVE  InOrder'
  BY DEF RInv, InOrder, Early, EachSubHunkOnce

LEMMA OrderStays ==
  ASSUME RInv, UNCHANGED out, phase' \notin Early \union {"emit", "pick"}
  PROVE  InOrder'
  BY DEF RInv, InOrder, Early, EachSubHunkOnce

(* A refusal keeps everything but where the command is.                    *)
LEMMA RefusalKeepsRInv ==
  ASSUME RInv, NEW error \in Errors, Refuse(error)
  PROVE  RInv'
<1> USE DEF Refuse
<1>1. TypeOK'
  BY DEF RInv, TypeOK, Phases, files, Files, Output, input, parsing, resolving, emitting
<1>2. NumbersFromOne' /\ Spent'
  BY NumbersStay, SpentStays
<1>3. Stored'
  BY StoredStays
<1>4. InOrder'
  BY OrderStays DEF emitting, Early
<1>5. QED
  BY <1>1, <1>2, <1>3, <1>4 DEF RInv

(* The initial states.                                                     *)
LEMMA InitRInv == Init => RInv
<1> SUFFICES ASSUME Init PROVE RInv
  OBVIOUS
<1>1. patch \in Patch /\ request \in Request
  BY InputsAssumption DEF Init
<1>2. phase \in {"parse", "list", "address"}
  BY DEF Init, Begins
<1>3. TypeOK
  <2>1. whole \in [Files -> SUBSET Nat] /\ cuts \in [Files -> Seq(LineSet)]
    BY DEF Init
  <2>2. left \in 0..MaxIndices
    BY SelectorsAssumption DEF Init
  <2>3. list \in Seq(Nat) /\ sels \in Seq(Selector) /\ picks \in Seq(Pick) /\ out \in Seq(Output)
    BY DEF Init
  <2>4. cache \subseteq Files /\ named \subseteq Files /\ resolved \subseteq Ids /\ todo \subseteq Pick
    BY DEF Init
  <2>5. at \in Nat \ {0} /\ part \in Nat \ {0}
    BY DEF Init
  <2>6. crop \in BOOLEAN
    BY DEF Init
  <2>7. phase \in Phases /\ why \in Errors \union {"none"}
    BY <1>2 DEF Init, Phases
  <2>8. QED
    BY <1>1, <2>1, <2>2, <2>3, <2>4, <2>5, <2>6, <2>7 DEF TypeOK
<1>4. NumbersFromOne
  BY <1>2 DEF Init, NumbersFromOne
<1>5. Spent
  <2>1. Held = {}
    BY DEF Init, Held
  <2>2. QED
    BY <2>1, FS_EmptySet, SelectorsAssumption DEF Init, Spent, BudgetKept
<1>6. Stored
  BY DEF Init, Stored
<1>7. InOrder
  BY <1>2 DEF Init, InOrder, EachSubHunkOnce
<1>8. QED
  BY <1>3, <1>4, <1>5, <1>6, <1>7 DEF RInv

-----------------------------------------------------------------------------
(* Reading the arguments.                                                  *)

(* A selector more holds its numbers more.                                 *)
LEMMA HeldGrows ==
  ASSUME RInv, NEW s \in Selector, sels' = Append(sels, s)
  PROVE  IsFiniteSet(Held') /\ Cardinality(Held') = Cardinality(Held) + Len(s.indices)
<1> DEFINE n == Len(sels)
           New == {n + 1} \X DOMAIN s.indices
<1>1. sels \in Seq(Selector) /\ n \in Nat /\ s.indices \in Seq(Nat)
  BY DEF RInv, TypeOK, Selector
<1>2. IsFiniteSet(New) /\ Cardinality(New) = Len(s.indices)
  <2>1. IsFiniteSet({n + 1}) /\ Cardinality({n + 1}) = 1
    BY FS_Singleton
  <2>2. DOMAIN s.indices = 1..Len(s.indices) /\ Len(s.indices) \in Nat
    BY <1>1
  <2>3. IsFiniteSet(1..Len(s.indices)) /\ Cardinality(1..Len(s.indices)) = Len(s.indices)
    BY <2>2, FS_Interval
  <2>4. Cardinality(New) = Cardinality({n + 1}) * Cardinality(1..Len(s.indices)) /\ IsFiniteSet(New)
    BY <2>1, <2>2, <2>3, FS_Product
  <2>5. QED
    BY <2>1, <2>2, <2>3, <2>4
<1>3. ASSUME NEW x
      PROVE  x \in Held' <=> x \in Held \/ x \in New
  <2>1. DOMAIN sels = 1..n /\ DOMAIN sels' = 1..(n + 1)
    BY <1>1
  <2>2. \A i \in 1..n : sels'[i] = sels[i]
    BY <1>1
  <2>3. sels'[n + 1] = s
    BY <1>1
  <2>4. x \in Held <=> \E i \in 1..n : x \in {i} \X DOMAIN sels[i].indices
    BY <2>1 DEF Held
  <2>5. x \in Held' <=> \E i \in 1..(n + 1) : x \in {i} \X DOMAIN sels'[i].indices
    BY <2>1 DEF Held
  <2>6. \A i : i \in 1..(n + 1) <=> i \in 1..n \/ i = n + 1
    BY <1>1
  <2>7. QED
    BY <2>2, <2>3, <2>4, <2>5, <2>6
<1>4. Held' = Held \cup New
  BY <1>3
<1>5. Held \cap New = {}
  <2>1. \A x \in Held : x[1] \in 1..n
    BY <1>1 DEF Held
  <2>2. \A x \in New : x[1] = n + 1
    OBVIOUS
  <2>3. n + 1 \notin 1..n
    BY <1>1
  <2>4. QED
    BY <2>1, <2>2, <2>3
<1>6. IsFiniteSet(Held)
  BY DEF RInv, Spent
<1>7. IsFiniteSet(Held \cup New)
      /\ Cardinality(Held \cup New) = Cardinality(Held) + Cardinality(New) - Cardinality(Held \cap New)
  BY <1>2, <1>6, FS_Union
<1>8. Cardinality(Held) \in Nat /\ Cardinality(Held \cap New) = 0
  BY <1>5, <1>6, FS_CardinalityType, FS_EmptySet
<1>9. QED
  BY <1>1, <1>2, <1>4, <1>7, <1>8

(* Reading goes on with one selector more.                                 *)
LEMMA TakesKeepsRInv ==
  ASSUME RInv, phase \in {"parse", "set"}, phase' = "parse",
         NEW s \in Selector, Takes(s),
         s.form = "list" => \A j \in DOMAIN s.indices : s.indices[j] >= 1,
         s.form = "cut" => s.index >= 1,
         part' \in Nat \ {0}, list' \in {<<>>, list}, Len(s.indices) + Len(list') = Len(list),
         left' = left, UNCHANGED <<input, why, resolving, emitting>>
  PROVE  RInv'
<1>1. sels \in Seq(Selector) /\ list \in Seq(Nat) /\ left \in 0..MaxIndices /\ at \in Nat \ {0}
  BY DEF RInv, TypeOK
<1>2. sels' = Append(sels, s) /\ sels' \in Seq(Selector) /\ at' = at + 1
  BY <1>1 DEF Takes
<1>3. list' \in Seq(Nat) /\ \A j \in DOMAIN list' : list'[j] >= 1
  <2>1. \A j \in DOMAIN list : list[j] >= 1
    BY DEF RInv, NumbersFromOne
  <2>2. CASE list' = <<>>
    BY <2>2
  <2>3. CASE list' = list
    BY <1>1, <2>1, <2>3
  <2>4. QED
    BY <2>2, <2>3
<1>4. TypeOK'
  <2>1. at' \in Nat \ {0} /\ left' \in 0..MaxIndices /\ phase' \in Phases
    BY <1>1, <1>2 DEF Phases
  <2>2. Files' = Files /\ Output' = Output
    BY DEF files, Files, Output, input
  <2>3. UNCHANGED <<patch, request, why, cache, named, resolved, whole, cuts, todo, picks, out, crop>>
    BY DEF input, resolving, emitting
  <2>4. QED
    BY <1>3, <1>2, <2>1, <2>2, <2>3 DEF RInv, TypeOK
<1>5. NumbersFromOne'
  <2>1. ASSUME NEW i \in DOMAIN sels'
        PROVE  sels'[i] = s \/ (i \in DOMAIN sels /\ sels'[i] = sels[i])
    BY <1>1, <1>2
  <2>2. QED
    BY <1>3, <2>1 DEF RInv, NumbersFromOne
<1>6. Spent'
  <2>1. IsFiniteSet(Held') /\ Cardinality(Held') = Cardinality(Held) + Len(s.indices)
    BY <1>2, HeldGrows
  <2>2. IsFiniteSet(Held) /\ Cardinality(Held) + Len(list) + left = MaxIndices
    BY DEF RInv, Spent, BudgetKept
  <2>3. Cardinality(Held) \in Nat
    BY <2>2, FS_CardinalityType
  <2>4. Len(s.indices) \in Nat /\ Len(list') \in Nat
    BY <1>3 DEF Selector
  <2>5. QED
    BY <1>1, <2>1, <2>2, <2>3, <2>4 DEF Spent, BudgetKept
<1>7. Stored'
  BY StoredStays
<1>8. InOrder'
  BY NothingIsOutEarly DEF Early, emitting
<1>9. QED
  BY <1>4, <1>5, <1>6, <1>7, <1>8 DEF RInv

(* Taking a part lists as many numbers as it is charged for.               *)
LEMMA PartsAreCharged ==
  ASSUME NEW p \in Part, Ordered(p)
  PROVE  /\ NumbersIn(p) \in Seq(Nat) /\ SizeOf(p) \in Nat
         /\ Len(NumbersIn(p)) = SizeOf(p)
         /\ \A j \in DOMAIN NumbersIn(p) : NumbersIn(p)[j] >= 1
<1>1. p[1] \in Int /\ p[1] >= 1
  BY DEF Part, Num, Ordered
<1>2. CASE Len(p) = 2
  <2>1. p[2] \in Int /\ p[2] >= p[1]
    BY <1>2 DEF Part, Num, Ordered
  <2> DEFINE n == p[2] - p[1] + 1
  <2>2. n \in Nat
    BY <1>1, <2>1
  <2>3. SizeOf(p) = n /\ NumbersIn(p) = [i \in 1..n |-> p[1] + i - 1]
    BY <1>2 DEF SizeOf, NumbersIn, Span
  <2> HIDE DEF n
  <2>4. \A i \in 1..n : p[1] + i - 1 \in Nat /\ p[1] + i - 1 >= 1
    BY <1>1, <2>2
  <2>5. QED
    BY <2>2, <2>3, <2>4
<1>3. CASE Len(p) # 2
  <2>1. NumbersIn(p) = <<p[1]>> /\ SizeOf(p) = 1
    BY <1>3 DEF SizeOf, NumbersIn
  <2>2. QED
    BY <1>1, <2>1
<1>4. QED
  BY <1>2, <1>3

LEMMA TakePartKeepsRInv ==
  ASSUME RInv, TakePart
  PROVE  RInv'
<1> DEFINE p == Arg.parts[part]
           ns == NumbersIn(p)
<1>1. /\ part \in Nat \ {0} /\ list \in Seq(Nat) /\ left \in 0..MaxIndices
      /\ phase = "set" /\ at <= Len(request.args) /\ part <= Len(Arg.parts)
  BY DEF RInv, TypeOK, NumbersFromOne, TakePart, ReadingSet
<1>2. p \in Part /\ Ordered(p)
  <2>1. Arg \in Argument
    BY <1>1, ArgIs DEF RInv
  <2>2. Arg.parts \in Seq(Part)
    BY <2>1 DEF Argument
  <2>3. QED
    BY <1>1, <2>2 DEF TakePart
<1>3. /\ ns \in Seq(Nat) /\ SizeOf(p) \in Nat /\ Len(ns) = SizeOf(p)
      /\ \A j \in DOMAIN ns : ns[j] >= 1
  BY <1>2, PartsAreCharged
<1>4. SizeOf(p) <= left /\ left' = left - SizeOf(p) /\ list' = list \o ns /\ part' = part + 1
  BY DEF TakePart
<1> HIDE DEF p, ns
<1>5. list' \in Seq(Nat) /\ left' \in 0..MaxIndices /\ part' \in Nat \ {0}
      /\ Len(list') = Len(list) + SizeOf(p)
  <2>1. list \in Seq(Nat) /\ ns \in Seq(Nat)
    BY <1>1, <1>3
  <2>2. list \o ns \in Seq(Nat) /\ Len(list \o ns) = Len(list) + Len(ns)
    BY <2>1, ConcatProperties
  <2>3. list' \in Seq(Nat) /\ Len(list') = Len(list) + SizeOf(p)
    BY <2>2, <1>3, <1>4
  <2>4. left' \in 0..MaxIndices
    BY <1>1, <1>3, <1>4, SelectorsAssumption
  <2>5. part' \in Nat \ {0}
    BY <1>1, <1>4
  <2>6. QED
    BY <2>3, <2>4, <2>5
<1>6. UNCHANGED <<input, phase, why, at, sels, resolving, emitting>>
  BY DEF TakePart
<1>7. TypeOK'
  BY <1>5, <1>6 DEF RInv, TypeOK, files, Files, Output, input, resolving, emitting
<1>8. NumbersFromOne'
  <2>1. \A j \in DOMAIN list' : list'[j] >= 1
    <3>1. \A j \in DOMAIN list : list[j] >= 1
      BY DEF RInv, NumbersFromOne
    <3>2. QED
      BY <1>1, <1>3, <1>4, <3>1
  <2>2. (at <= Len(request.args))' /\ HasSet(Arg)'
    BY <1>1, <1>6 DEF RInv, NumbersFromOne, HasSet, Arg, input
  <2>3. QED
    BY <1>6, <2>1, <2>2 DEF RInv, NumbersFromOne
<1>9. Spent'
  <2>1. Held' = Held
    BY <1>6 DEF Held
  <2>2. Cardinality(Held) \in Nat
    BY FS_CardinalityType DEF RInv, Spent
  <2>3. QED
    BY <1>1, <1>3, <1>4, <1>5, <2>1, <2>2 DEF RInv, Spent, BudgetKept
<1>10. Stored'
  BY <1>6, StoredStays
<1>11. InOrder'
  BY <1>1, <1>6, NothingIsOutEarly DEF Early, emitting
<1>12. QED
  BY <1>7, <1>8, <1>9, <1>10, <1>11 DEF RInv

LEMMA ParseKeepsRInv ==
  ASSUME RInv, Parse
  PROVE  RInv'
<1>1. TypeOK /\ NumbersFromOne
  BY DEF RInv
<1>2. CASE ReadStar
  <2> DEFINE s == [path |-> Arg.path, form |-> "*", index |-> 0, indices |-> <<>>, id |-> Arg.id]
  <2>1. Arg \in Argument
    BY <1>1, <1>2, ArgIs DEF ReadStar, Parsing
  <2>2. s \in Selector /\ s.form = "*" /\ s.indices = <<>>
    BY <1>2, <2>1 DEF ReadStar, Argument, Selector
  <2>3. Takes(s)
    BY <1>2 DEF ReadStar
  <2> HIDE DEF s
  <2>4. phase = "parse" /\ UNCHANGED <<input, phase, why, part, list, left, resolving, emitting>>
    BY <1>2 DEF ReadStar, Parsing
  <2>5. part' \in Nat \ {0} /\ list' \in {<<>>, list} /\ Len(s.indices) + Len(list') = Len(list)
    BY <1>1, <2>2, <2>4 DEF TypeOK
  <2>6. QED
    BY <2>2, <2>3, <2>4, <2>5, TakesKeepsRInv
<1>3. CASE ReadId
  <2> DEFINE s == [path |-> NoPath, form |-> "id", index |-> 0, indices |-> <<>>, id |-> Arg.id]
  <2>1. Arg \in Argument
    BY <1>1, <1>3, ArgIs DEF ReadId, Parsing
  <2>2. s \in Selector /\ s.form = "id" /\ s.indices = <<>>
    BY <1>3, <2>1 DEF ReadId, Argument, Selector
  <2>3. Takes(s)
    BY <1>3 DEF ReadId
  <2> HIDE DEF s
  <2>4. phase = "parse" /\ UNCHANGED <<input, phase, why, part, list, left, resolving, emitting>>
    BY <1>3 DEF ReadId, Parsing
  <2>5. part' \in Nat \ {0} /\ list' \in {<<>>, list} /\ Len(s.indices) + Len(list') = Len(list)
    BY <1>1, <2>2, <2>4 DEF TypeOK
  <2>6. QED
    BY <2>2, <2>3, <2>4, <2>5, TakesKeepsRInv
<1>4. CASE OpenSet
  <2>1. UNCHANGED <<input, parsing, resolving, emitting, why, at>> /\ phase = "parse" /\ phase' = "set"
    BY <1>4 DEF OpenSet, Parsing
  <2>2. TypeOK'
    BY <1>1, <2>1 DEF TypeOK, Phases, files, Files, Output, input, parsing, resolving, emitting
  <2>3. NumbersFromOne'
    BY <1>1, <1>4, <2>1 DEF NumbersFromOne, OpenSet, Parsing, HasSet, Arg, input, parsing
  <2>4. QED
    BY <2>1, <2>2, <2>3, SpentStays, StoredStays, NothingIsOutEarly DEF RInv, Early, emitting
<1>5. CASE RefuseArg
  BY <1>5, RefusalKeepsRInv DEF RefuseArg, Errors
<1>6. CASE TakePart
  BY <1>6, TakePartKeepsRInv
<1>7. CASE RefusePart
  BY <1>7, RefusalKeepsRInv DEF RefusePart, Errors
<1>8. CASE CloseSet
  <2> DEFINE s == [path |-> Arg.path, form |-> Arg.form, indices |-> list, id |-> Arg.id,
                   index |-> IF Arg.form = "cut" THEN Arg.index ELSE 0]
  <2>1. phase = "set" /\ Arg \in Argument /\ HasSet(Arg) /\ list \in Seq(Nat)
        /\ \A j \in DOMAIN list : list[j] >= 1
    BY <1>1, <1>8, ArgIs DEF CloseSet, NumbersFromOne, TypeOK
  <2>2. Arg.path \in Paths \union {NoPath} /\ Arg.form \in {"list", "cut"} /\ Arg.id \in Ids
        /\ (Arg.form = "cut" => Arg.index \in Nat /\ Arg.index >= 1)
    BY <2>1 DEF HasSet, Argument, Num
  <2>3. s \in Selector /\ s.indices = list /\ (s.form = "cut" => s.index >= 1)
    BY <2>1, <2>2 DEF Selector
  <2>4. Takes(s) /\ part' = 1 /\ list' = <<>> /\ left' = left /\ phase' = "parse"
        /\ UNCHANGED <<input, why, resolving, emitting>>
    BY <1>8 DEF CloseSet
  <2> HIDE DEF s
  <2>5. Len(s.indices) + Len(list') = Len(list)
    BY <2>1, <2>3, <2>4
  <2>6. QED
    BY <2>1, <2>3, <2>4, <2>5, TakesKeepsRInv
<1>9. CASE EndParse
  <2>1. UNCHANGED <<input, parsing, resolving, emitting, why>>
        /\ phase = "parse" /\ phase' = "resolve" /\ at' = 1
    BY <1>9 DEF EndParse
  <2>2. TypeOK'
    BY <1>1, <2>1 DEF TypeOK, Phases, files, Files, Output, input, parsing, resolving, emitting
  <2>3. QED
    BY <2>1, <2>2, NumbersStay, SpentStays, StoredStays, NothingIsOutEarly DEF RInv, Early, emitting
<1>10. CASE RefuseCutToList
  BY <1>10, RefusalKeepsRInv DEF RefuseCutToList, Errors
<1>11. QED
  BY <1>2, <1>3, <1>4, <1>5, <1>6, <1>7, <1>8, <1>9, <1>10 DEF Parse

-----------------------------------------------------------------------------
(* Resolving the selectors.                                                *)

(* A selector is done with: what it stored is typed and can be looked up.  *)
LEMMA ResolvedKeepsRInv ==
  ASSUME RInv, phase = "resolve", phase' = phase, at' = at + 1,
         cache' \subseteq Files, named' \subseteq Files, resolved' \subseteq Ids,
         whole' \in [Files -> SUBSET Nat], cuts' \in [Files -> Seq(LineSet)],
         UNCHANGED <<input, why, parsing, emitting>>,
         Stored'
  PROVE  RInv'
<1>1. TypeOK'
  <2>1. at' \in Nat \ {0}
    BY DEF RInv, TypeOK
  <2>2. Files' = Files /\ Output' = Output
    BY DEF files, Files, Output, input
  <2>3. QED
    BY <2>1, <2>2 DEF RInv, TypeOK, input, parsing, emitting
<1>2. NumbersFromOne' /\ Spent'
  BY NumbersStay, SpentStays
<1>3. InOrder'
  BY NothingIsOutEarly DEF Early, emitting
<1>4. QED
  BY <1>1, <1>2, <1>3 DEF RInv

(* What an id matches are sub-hunks of text entries.                       *)
LEMMA MatchedAre ==
  ASSUME NEW p \in Matched
  PROVE  p[1] \in TextFiles /\ p[2] \in DOMAIN Subs(p[1]) /\ p = <<p[1], p[2]>>
<1>1. PICK fi \in {i \in DOMAIN files : ~files[i].binary} :
        p \in {fi} \X {si \in DOMAIN files[fi].subs :
                         IdOf(files[fi], files[fi].subs[si]) = Sel.id}
  BY DEF Matched, Carrying
<1>2. QED
  BY <1>1 DEF TextFiles, Files, Subs

LEMMA TakeAllKeepsRInv ==
  ASSUME RInv, TakeAll
  PROVE  RInv'
<1> DEFINE fi == Owner(Sel.path)
<1>1. fi \in Files
  BY OwnerIsAFile DEF TakeAll, RInv
<1>2. /\ cache' = cache \union {fi} /\ named' = named \union {fi}
      /\ whole' = [whole EXCEPT ![fi] = @ \union DOMAIN Subs(fi)]
      /\ phase = "resolve" /\ at' = at + 1
      /\ UNCHANGED <<input, phase, why, parsing, resolved, cuts, emitting>>
  BY DEF TakeAll, Splits, Resolving
<1>3. DOMAIN Subs(fi) \subseteq Nat
  BY <1>1, FilesAre DEF RInv
<1> HIDE DEF fi
<1>4. /\ whole \in [Files -> SUBSET Nat] /\ cache \subseteq Files /\ named \subseteq Files
      /\ cuts \in [Files -> Seq(LineSet)] /\ resolved \subseteq Ids
  BY DEF RInv, TypeOK
<1>5. whole' \in [Files -> SUBSET Nat]
  BY <1>2, <1>3, <1>4
<1>6. Stored'
  <2>1. files' = files /\ Files' = Files /\ \A f : Subs(f)' = Subs(f)
    BY <1>2 DEF input, files, Files, Subs
  <2>2. \A f \in Files : whole'[f] \subseteq DOMAIN Subs(f)
    BY <1>1, <1>2, <1>4 DEF RInv, Stored
  <2>3. \A f \in Files : f \in named' /\ ~files[f].binary => f \in cache'
    BY <1>2 DEF RInv, Stored
  <2>4. QED
    BY <1>2, <2>1, <2>2, <2>3 DEF RInv, Stored
<1>7. QED
  BY <1>1, <1>2, <1>4, <1>5, <1>6, ResolvedKeepsRInv

LEMMA TakeIndicesKeepsRInv ==
  ASSUME RInv, TakeIndices
  PROVE  RInv'
<1> DEFINE fi == Owner(Sel.path)
           ns == {Sel.indices[j] : j \in DOMAIN Sel.indices}
<1>1. fi \in Files
  BY OwnerIsAFile DEF TakeIndices, RInv
<1>2. /\ cache' = cache \union {fi} /\ named' = named \union {fi}
      /\ whole' = [whole EXCEPT ![fi] = @ \union ns]
      /\ phase = "resolve" /\ at' = at + 1
      /\ UNCHANGED <<input, phase, why, parsing, resolved, cuts, emitting>>
  BY DEF TakeIndices, Splits, Resolving
<1>3. ns \subseteq DOMAIN Subs(fi) /\ ns \subseteq Nat
  <2>1. Sel \in Selector /\ \A j \in DOMAIN Sel.indices : Sel.indices[j] >= 1
    BY SelIs DEF RInv, TakeIndices, Resolving
  <2>2. Sel.indices \in Seq(Nat)
    BY <2>1 DEF Selector
  <2>3. DOMAIN Subs(fi) = 1..Len(Subs(fi)) /\ Len(Subs(fi)) \in Nat
    BY <1>1, FilesAre DEF RInv
  <2>4. \A j \in DOMAIN Sel.indices : Sel.indices[j] <= Len(Subs(fi))
    BY DEF TakeIndices
  <2> HIDE DEF fi
  <2>5. \A j \in DOMAIN Sel.indices : Sel.indices[j] \in Nat /\ Sel.indices[j] \in 1..Len(Subs(fi))
    BY <2>1, <2>2, <2>3, <2>4
  <2>6. QED
    BY <2>3, <2>5
<1> HIDE DEF fi, ns
<1>4. /\ whole \in [Files -> SUBSET Nat] /\ cache \subseteq Files /\ named \subseteq Files
      /\ cuts \in [Files -> Seq(LineSet)] /\ resolved \subseteq Ids
  BY DEF RInv, TypeOK
<1>5. whole' \in [Files -> SUBSET Nat]
  BY <1>2, <1>3, <1>4
<1>6. Stored'
  <2>1. files' = files /\ Files' = Files /\ \A f : Subs(f)' = Subs(f)
    BY <1>2 DEF input, files, Files, Subs
  <2>2. \A f \in Files : whole'[f] \subseteq DOMAIN Subs(f)
    BY <1>1, <1>2, <1>3, <1>4 DEF RInv, Stored
  <2>3. \A f \in Files : f \in named' /\ ~files[f].binary => f \in cache'
    BY <1>2 DEF RInv, Stored
  <2>4. QED
    BY <1>2, <2>1, <2>2, <2>3 DEF RInv, Stored
<1>7. QED
  BY <1>1, <1>2, <1>4, <1>5, <1>6, ResolvedKeepsRInv

LEMMA TakeCutKeepsRInv ==
  ASSUME RInv, TakeCut
  PROVE  RInv'
<1> DEFINE fi == Owner(Sel.path)
           cut == [index |-> Sel.index, lines |-> Sel.indices]
<1>1. fi \in Files
  BY OwnerIsAFile DEF TakeCut, RInv
<1>2. /\ cache' = cache \union {fi} /\ named' = named \union {fi}
      /\ cuts' = [cuts EXCEPT ![fi] = Append(@, cut)]
      /\ phase = "resolve" /\ at' = at + 1
      /\ UNCHANGED <<input, phase, why, parsing, resolved, whole, emitting>>
  BY DEF TakeCut, Splits, Resolving
<1>3. cut \in LineSet /\ cut.index \in DOMAIN Subs(fi)
  <2>1. Sel \in Selector /\ Sel.index >= 1
    BY SelIs DEF RInv, TakeCut, Resolving
  <2>2. DOMAIN Subs(fi) = 1..Len(Subs(fi)) /\ Len(Subs(fi)) \in Nat
    BY <1>1, FilesAre DEF RInv
  <2>3. Sel.index <= Len(Subs(fi))
    BY DEF TakeCut
  <2> HIDE DEF fi
  <2>4. QED
    BY <2>1, <2>2, <2>3 DEF Selector, LineSet
<1> HIDE DEF fi, cut
<1>4. /\ whole \in [Files -> SUBSET Nat] /\ cache \subseteq Files /\ named \subseteq Files
      /\ cuts \in [Files -> Seq(LineSet)] /\ resolved \subseteq Ids
  BY DEF RInv, TypeOK
<1>5. cuts[fi] \in Seq(LineSet) /\ Append(cuts[fi], cut) \in Seq(LineSet)
  BY <1>1, <1>3, <1>4
<1>6. cuts' \in [Files -> Seq(LineSet)]
  BY <1>2, <1>4, <1>5
<1>7. Stored'
  <2>1. files' = files /\ Files' = Files /\ \A f : Subs(f)' = Subs(f)
    BY <1>2 DEF input, files, Files, Subs
  <2>2. ASSUME NEW f \in Files, NEW c \in DOMAIN cuts'[f]
        PROVE  cuts'[f][c].index \in DOMAIN Subs(f)
    <3>1. \A d \in DOMAIN cuts[f] : cuts[f][d].index \in DOMAIN Subs(f)
      BY DEF RInv, Stored
    <3>2. CASE f = fi
      <4>1. cuts'[f] = Append(cuts[f], cut)
        BY <1>2, <1>4, <3>2
      <4>2. (c \in DOMAIN cuts[f] /\ cuts'[f][c] = cuts[f][c]) \/ cuts'[f][c] = cut
        BY <1>3, <1>5, <3>2, <4>1
      <4>3. QED
        BY <1>3, <3>1, <3>2, <4>2
    <3>3. CASE f # fi
      BY <1>2, <1>4, <3>1, <3>3
    <3>4. QED
      BY <3>2, <3>3
  <2>3. \A f \in Files : f \in named' /\ ~files[f].binary => f \in cache'
    BY <1>2 DEF RInv, Stored
  <2>4. QED
    BY <1>2, <2>1, <2>2, <2>3 DEF RInv, Stored
<1>8. QED
  BY <1>1, <1>2, <1>4, <1>6, <1>7, ResolvedKeepsRInv

LEMMA ResolveIdKeepsRInv ==
  ASSUME RInv, ResolveId
  PROVE  RInv'
<1> DEFINE In(fi) == {i \in DOMAIN Subs(fi) : <<fi, i>> \in Matched}
<1>1. /\ cache' = cache \union TextFiles /\ named' = named \union {p[1] : p \in Matched}
      /\ whole' = [fi \in Files |-> whole[fi] \union In(fi)]
      /\ resolved' = resolved \union {Sel.id}
      /\ phase = "resolve" /\ at' = at + 1 /\ at <= Len(sels)
      /\ UNCHANGED <<input, phase, why, parsing, cuts, emitting>>
  BY DEF ResolveId, Resolving
<1>2. {p[1] : p \in Matched} \subseteq TextFiles
  BY MatchedAre
<1>3. TextFiles \subseteq Files /\ \A fi \in TextFiles : ~files[fi].binary
  BY DEF TextFiles
<1>4. \A fi \in Files : In(fi) \subseteq DOMAIN Subs(fi) /\ In(fi) \subseteq Nat
  BY FilesAre DEF RInv
<1> HIDE DEF In
<1>5. /\ whole \in [Files -> SUBSET Nat] /\ cache \subseteq Files /\ named \subseteq Files
      /\ cuts \in [Files -> Seq(LineSet)] /\ resolved \subseteq Ids
  BY DEF RInv, TypeOK
<1>6. whole' \in [Files -> SUBSET Nat]
  BY <1>1, <1>4, <1>5
<1>7. Sel.id \in Ids
  BY <1>1, SelIs DEF RInv, Selector
<1>8. Stored'
  <2>1. files' = files /\ Files' = Files /\ \A f : Subs(f)' = Subs(f)
    BY <1>1 DEF input, files, Files, Subs
  <2>2. \A f \in Files : whole'[f] \subseteq DOMAIN Subs(f)
    BY <1>1, <1>4, <1>5 DEF RInv, Stored
  <2>3. \A f \in Files : f \in named' /\ ~files[f].binary => f \in cache'
    BY <1>1, <1>2 DEF RInv, Stored
  <2>4. QED
    BY <1>1, <2>1, <2>2, <2>3 DEF RInv, Stored
<1>9. cache' \subseteq Files /\ named' \subseteq Files /\ resolved' \subseteq Ids
  BY <1>1, <1>2, <1>3, <1>5, <1>7
<1>10. QED
  BY <1>1, <1>5, <1>6, <1>8, <1>9, ResolvedKeepsRInv

(* The command goes on to what it has come to, with nothing out yet.       *)
LEMMA PhaseKeepsRInv ==
  ASSUME RInv, phase \in Early, phase' \in {"emit", "list", "done"}, at' \in Nat \ {0}, out = <<>>,
         UNCHANGED <<input, why, parsing, resolving, emitting>>
  PROVE  RInv'
<1>1. TypeOK'
  <2>1. phase' \in Phases
    BY DEF Phases
  <2>2. Files' = Files /\ Output' = Output
    BY DEF files, Files, Output, input
  <2>3. QED
    BY <2>1, <2>2 DEF RInv, TypeOK, input, parsing, resolving, emitting
<1>2. NumbersFromOne' /\ Spent' /\ Stored'
  BY NumbersStay, SpentStays, StoredStays
<1>3. InOrder'
  BY DEF RInv, InOrder, EachSubHunkOnce, emitting
<1>4. QED
  BY <1>1, <1>2, <1>3 DEF RInv

LEMMA ResolveKeepsRInv ==
  ASSUME RInv, Resolve
  PROVE  RInv'
<1>1. CASE RefuseOwner
  BY <1>1, RefusalKeepsRInv DEF RefuseOwner, RefusePath, Errors
<1>2. CASE TakeBinary
  <2> DEFINE fi == Owner(Sel.path)
  <2>1. fi \in Files /\ files[fi].binary
    BY <1>2, OwnerIsAFile DEF TakeBinary, RInv
  <2>2. /\ named' = named \union {fi} /\ phase = "resolve" /\ at' = at + 1
        /\ UNCHANGED <<input, phase, why, parsing, cache, resolved, whole, cuts, emitting>>
    BY <1>2 DEF TakeBinary, OfPath
  <2> HIDE DEF fi
  <2>3. /\ whole \in [Files -> SUBSET Nat] /\ cache \subseteq Files /\ named \subseteq Files
        /\ cuts \in [Files -> Seq(LineSet)] /\ resolved \subseteq Ids
    BY DEF RInv, TypeOK
  <2>4. Stored'
    <3>1. files' = files /\ Files' = Files /\ \A f : Subs(f)' = Subs(f)
      BY <2>2 DEF input, files, Files, Subs
    <3>2. QED
      BY <2>1, <2>2, <3>1 DEF RInv, Stored
  <2>5. QED
    BY <2>1, <2>2, <2>3, <2>4, ResolvedKeepsRInv
<1>3. CASE RefuseBinary
  BY <1>3, RefusalKeepsRInv DEF RefuseBinary, Errors
<1>4. CASE TakeAll
  BY <1>4, TakeAllKeepsRInv
<1>5. CASE TakeIndices
  BY <1>5, TakeIndicesKeepsRInv
<1>6. CASE TakeCut
  BY <1>6, TakeCutKeepsRInv
<1>7. CASE RefuseIndex
  BY <1>7, RefusalKeepsRInv DEF RefuseIndex, Errors
<1>8. CASE ResolveId
  BY <1>8, ResolveIdKeepsRInv
<1>9. CASE RepeatId
  <2>1. /\ phase = "resolve" /\ at' = at + 1
        /\ UNCHANGED <<input, phase, why, parsing, resolving, emitting>>
    BY <1>9 DEF RepeatId, Resolving
  <2>2. Stored'
    BY <2>1, StoredStays
  <2>3. UNCHANGED <<cache, named, resolved, whole, cuts>>
    BY <2>1 DEF resolving
  <2>4. /\ whole \in [Files -> SUBSET Nat] /\ cache \subseteq Files /\ named \subseteq Files
        /\ cuts \in [Files -> Seq(LineSet)] /\ resolved \subseteq Ids
    BY DEF RInv, TypeOK
  <2>5. QED
    BY <2>1, <2>2, <2>3, <2>4, ResolvedKeepsRInv
<1>10. CASE RefuseId
  BY <1>10, RefusalKeepsRInv DEF RefuseId, Errors
<1>11. CASE EndResolve
  <2>1. phase = "resolve" /\ phase' \in {"list", "emit"} /\ at' = 1
        /\ UNCHANGED <<input, why, parsing, resolving, emitting>>
    BY <1>11 DEF EndResolve
  <2>2. out = <<>>
    BY <2>1 DEF RInv, InOrder
  <2>3. QED
    BY <2>1, <2>2, PhaseKeepsRInv DEF Early
<1>12. CASE RefuseEmpty
  BY <1>12, RefusalKeepsRInv DEF RefuseEmpty, Errors
<1>13. QED
  BY <1>1, <1>2, <1>3, <1>4, <1>5, <1>6, <1>7, <1>8, <1>9, <1>10, <1>11, <1>12 DEF Resolve

-----------------------------------------------------------------------------
(* Emission.                                                               *)

(* A step of emission keeps what was read and resolved.                    *)
LEMMA EmitStepKeepsRInv ==
  ASSUME RInv, phase' \in Phases, phase' # "set", at' \in Nat \ {0},
         todo' \subseteq Pick, picks' \in Seq(Pick), out' \in Seq(Output), crop' \in BOOLEAN,
         UNCHANGED <<input, why, parsing, resolving>>,
         InOrder'
  PROVE  RInv'
<1>1. TypeOK'
  <2>1. Files' = Files /\ Output' = Output
    BY DEF files, Files, Output, input
  <2>2. QED
    BY <2>1 DEF RInv, TypeOK, input, parsing, resolving
<1>2. NumbersFromOne' /\ Spent'
  BY NumbersStay, SpentStays
<1>3. Stored'
  BY StoredStays
<1>4. QED
  BY <1>1, <1>2, <1>3 DEF RInv

(* The picks of an entry that has no conflict have indices of their own.   *)
LEMMA PicksAreDistinct ==
  ASSUME RInv, NEW fi \in Files, ~Conflicting(fi)
  PROVE  LET ps == {WholePick(fi, i) : i \in whole[fi]}
                   \union {CutPick(cuts[fi][c]) : c \in DOMAIN cuts[fi]}
         IN  ps \subseteq Pick /\ \A p, q \in ps : p.index = q.index => p = q
<1> DEFINE W == {WholePick(fi, i) : i \in whole[fi]}
           C == {CutPick(cuts[fi][c]) : c \in DOMAIN cuts[fi]}
<1>1. whole[fi] \subseteq Nat /\ cuts[fi] \in Seq(LineSet)
  BY DEF RInv, TypeOK
<1>2. ASSUME NEW i \in whole[fi]
      PROVE  WholePick(fi, i) \in Pick /\ WholePick(fi, i).index = i
  <2>1. i \in Nat /\ i \in DOMAIN Subs(fi)
    BY <1>1 DEF RInv, Stored
  <2>2. Subs(fi)[i] \in Body
    BY <2>1, FilesAre DEF RInv
  <2>3. Len(Subs(fi)[i]) \in Int
    BY <2>2 DEF Body
  <2>4. ChangedCount(Subs(fi)[i]) \in Nat
    BY <2>3, CountInType DEF ChangedCount, Count
  <2>5. 1..ChangedCount(Subs(fi)[i]) \in SUBSET Nat
    BY <2>4
  <2>6. QED
    BY <2>1, <2>5 DEF WholePick, Pick
<1>3. ASSUME NEW c \in DOMAIN cuts[fi]
      PROVE  CutPick(cuts[fi][c]) \in Pick /\ CutPick(cuts[fi][c]).index = cuts[fi][c].index
  <2>1. cuts[fi][c] \in LineSet
    BY <1>1
  <2>2. cuts[fi][c].index \in Nat /\ cuts[fi][c].lines \in Seq(Nat)
    BY <2>1 DEF LineSet
  <2>3. {cuts[fi][c].lines[j] : j \in DOMAIN cuts[fi][c].lines} \in SUBSET Nat
    BY <2>2
  <2>4. QED
    BY <2>2, <2>3 DEF CutPick, Pick
<1>4. \A c \in DOMAIN cuts[fi] :
        /\ cuts[fi][c].index \notin whole[fi]
        /\ \A d \in DOMAIN cuts[fi] : cuts[fi][d].index = cuts[fi][c].index => d = c
  BY DEF Conflicting
<1>5. W \subseteq Pick /\ C \subseteq Pick
  BY <1>2, <1>3
<1>6. ASSUME NEW p \in W \union C, NEW q \in W \union C, p.index = q.index
      PROVE  p = q
  <2>1. CASE p \in W /\ q \in W
    BY <1>2, <1>6, <2>1
  <2>2. CASE p \in W /\ q \in C
    BY <1>2, <1>3, <1>4, <1>6, <2>2
  <2>3. CASE p \in C /\ q \in W
    BY <1>2, <1>3, <1>4, <1>6, <2>3
  <2>4. CASE p \in C /\ q \in C
    BY <1>3, <1>4, <1>6, <2>4
  <2>5. QED
    BY <2>1, <2>2, <2>3, <2>4
<1>7. QED
  BY <1>5, <1>6

LEMMA EntriesAreNumbers ==
  ASSUME RInv, NEW i \in DOMAIN out
  PROVE  out[i].entry \in Nat
<1>1. out \in Seq(Output)
  BY DEF RInv, TypeOK
<1>2. out[i] \in Output
  BY <1>1
<1>3. out[i].entry \in Files /\ Files \subseteq Nat
  BY <1>2, FilesAre DEF Output, RInv
<1>4. QED
  BY <1>3

(* An entry more of the result, above all before it.                       *)
LEMMA OutputGrows ==
  ASSUME RInv, phase \in {"emit", "pick"}, at \in Files,
         NEW ps \in Seq(Pick), NEW ends \in BOOLEAN,
         \A j, k \in DOMAIN ps : j < k => ps[j].index < ps[k].index,
         out' = Append(out, [entry |-> at, picks |-> ps, ends |-> ends]),
         phase' = "emit", at' = at + 1
  PROVE  out' \in Seq(Output) /\ InOrder'
<1> DEFINE o == [entry |-> at, picks |-> ps, ends |-> ends]
<1>1. o \in Output /\ o.entry = at /\ o.picks = ps
  BY DEF Output
<1>2. out \in Seq(Output) /\ at \in Nat \ {0}
  BY DEF RInv, TypeOK
<1>3. out' = Append(out, o)
  OBVIOUS
<1> HIDE DEF o
<1>4. out' \in Seq(Output) /\ DOMAIN out' = 1..(Len(out) + 1) /\ Len(out) \in Nat
      /\ DOMAIN out = 1..Len(out)
  BY <1>1, <1>2, <1>3
<1>5. out'[Len(out) + 1] = o /\ \A i \in DOMAIN out : out'[i] = out[i]
  BY <1>1, <1>2, <1>3
<1>6. \A i \in DOMAIN out : out[i].entry < at /\ out[i].entry \in Nat
  BY EntriesAreNumbers DEF RInv, InOrder
<1>7. \A i \in DOMAIN out' : out'[i].entry < at'
  <2> TAKE i \in DOMAIN out'
  <2>1. CASE i \in DOMAIN out
    BY <1>2, <1>5, <1>6, <2>1
  <2>2. CASE i = Len(out) + 1
    BY <1>1, <1>2, <1>5, <2>2
  <2>3. QED
    BY <1>4, <2>1, <2>2
<1>8. \A i, j \in DOMAIN out' : i < j => out'[i].entry < out'[j].entry
  <2> TAKE i, j \in DOMAIN out'
  <2> HAVE i < j
  <2>1. i \in DOMAIN out
    BY <1>4
  <2>2. CASE j \in DOMAIN out
    BY <1>5, <2>1, <2>2 DEF RInv, InOrder, EachSubHunkOnce
  <2>3. CASE j = Len(out) + 1
    BY <1>1, <1>5, <1>6, <2>1, <2>3
  <2>4. QED
    BY <1>4, <2>2, <2>3
<1>9. \A i \in DOMAIN out' : \A j, k \in DOMAIN out'[i].picks :
        j < k => out'[i].picks[j].index < out'[i].picks[k].index
  <2> TAKE i \in DOMAIN out'
  <2>1. CASE i \in DOMAIN out
    BY <1>5, <2>1 DEF RInv, InOrder, EachSubHunkOnce
  <2>2. CASE i = Len(out) + 1
    BY <1>1, <1>5, <2>2
  <2>3. QED
    BY <1>4, <2>1, <2>2
<1>10. QED
  BY <1>4, <1>7, <1>8, <1>9 DEF InOrder, EachSubHunkOnce

LEMMA TakePickKeepsRInv ==
  ASSUME RInv, TakePick
  PROVE  RInv'
<1>1. PICK p \in todo : /\ \A q \in todo : p.index <= q.index
                        /\ todo' = todo \ {p} /\ picks' = Append(picks, p)
  BY DEF TakePick, NextPick
<1>2. phase = "pick" /\ UNCHANGED <<input, phase, why, at, parsing, resolving, out, crop>>
  BY DEF TakePick
<1>3. todo \subseteq Pick /\ picks \in Seq(Pick) /\ at \in Nat \ {0}
      /\ out \in Seq(Output) /\ crop \in BOOLEAN
  BY DEF RInv, TypeOK
<1>4. \A q \in Pick : q.index \in Nat
  BY DEF Pick
<1>5. p \in Pick /\ picks' \in Seq(Pick) /\ todo' \subseteq Pick
  BY <1>1, <1>3
<1>6. at \in Files /\ Ascending
  BY <1>2 DEF RInv, InOrder
<1>7. DOMAIN picks' = 1..(Len(picks) + 1) /\ DOMAIN picks = 1..Len(picks) /\ Len(picks) \in Nat
      /\ picks'[Len(picks) + 1] = p /\ \A j \in DOMAIN picks : picks'[j] = picks[j]
  BY <1>1, <1>3, <1>5
<1>8. ASSUME NEW q \in todo, q # p
      PROVE  p.index < q.index
  <2>1. p.index # q.index
    BY <1>6, <1>8 DEF Ascending
  <2>2. p.index \in Nat /\ q.index \in Nat /\ p.index <= q.index
    BY <1>1, <1>3, <1>4
  <2>3. QED
    BY <2>1, <2>2
<1>9. \A j \in DOMAIN picks : picks[j].index < p.index
  BY <1>6 DEF Ascending
<1>10. Ascending'
  <2>1. \A j, k \in DOMAIN picks' : j < k => picks'[j].index < picks'[k].index
    <3> TAKE j, k \in DOMAIN picks'
    <3> HAVE j < k
    <3>1. j \in DOMAIN picks
      BY <1>7
    <3>2. CASE k \in DOMAIN picks
      BY <1>6, <1>7, <3>1, <3>2 DEF Ascending
    <3>3. CASE k = Len(picks) + 1
      BY <1>7, <1>9, <3>1, <3>3
    <3>4. QED
      BY <1>7, <3>2, <3>3
  <2>2. \A q \in todo' : \A j \in DOMAIN picks' : picks'[j].index < q.index
    <3> TAKE q \in todo'
    <3> TAKE j \in DOMAIN picks'
    <3>1. q \in todo /\ q # p
      BY <1>1
    <3>2. CASE j \in DOMAIN picks
      BY <1>6, <1>7, <3>1, <3>2 DEF Ascending
    <3>3. CASE j = Len(picks) + 1
      BY <1>7, <1>8, <3>1, <3>3
    <3>4. QED
      BY <1>7, <3>2, <3>3
  <2>3. \A q, r \in todo' : q.index = r.index => q = r
    BY <1>1, <1>6 DEF Ascending
  <2>4. QED
    BY <2>1, <2>2, <2>3 DEF Ascending
<1>11. InOrder'
  <2>1. Files' = Files /\ EachSubHunkOnce'
    BY <1>2 DEF files, Files, input, RInv, InOrder, EachSubHunkOnce
  <2>2. \A i \in DOMAIN out : out[i].entry < at
    BY <1>2 DEF RInv, InOrder
  <2>3. QED
    BY <1>2, <1>6, <1>10, <2>1, <2>2 DEF InOrder
<1>12. phase' \in Phases /\ phase' # "set"
  BY <1>2 DEF Phases
<1>13. QED
  BY <1>2, <1>3, <1>5, <1>11, <1>12, EmitStepKeepsRInv

LEMMA BeginEntryKeepsRInv ==
  ASSUME RInv, BeginEntry
  PROVE  RInv'
<1> DEFINE ps == {WholePick(at, i) : i \in whole[at]}
                 \union {CutPick(cuts[at][c]) : c \in DOMAIN cuts[at]}
<1>1. /\ phase = "emit" /\ at <= Len(files) /\ ~Conflicting(at)
      /\ phase' = "pick" /\ todo' = ps /\ picks' = <<>>
      /\ UNCHANGED <<input, why, at, parsing, resolving, out, crop>>
  BY DEF BeginEntry, Emitting
<1>2. at \in Nat \ {0} /\ out \in Seq(Output) /\ crop \in BOOLEAN
  BY DEF RInv, TypeOK
<1>3. at \in Files
  BY <1>1, <1>2, FilesAre DEF RInv
<1>4. ps \subseteq Pick /\ \A p, q \in ps : p.index = q.index => p = q
  BY <1>1, <1>3, PicksAreDistinct
<1> HIDE DEF ps
<1>5. picks' \in Seq(Pick) /\ Ascending'
  BY <1>1, <1>4 DEF Ascending
<1>6. InOrder'
  <2>1. Files' = Files /\ EachSubHunkOnce'
    BY <1>1 DEF files, Files, input, RInv, InOrder, EachSubHunkOnce
  <2>2. \A i \in DOMAIN out : out[i].entry < at
    BY <1>1 DEF RInv, InOrder
  <2>3. QED
    BY <1>1, <1>3, <1>5, <2>1, <2>2 DEF InOrder
<1>7. phase' \in Phases /\ phase' # "set"
  BY <1>1 DEF Phases
<1>8. QED
  BY <1>1, <1>2, <1>4, <1>5, <1>6, <1>7, EmitStepKeepsRInv

LEMMA EmitKeepsRInv ==
  ASSUME RInv, Emit
  PROVE  RInv'
<1>1. /\ at \in Nat \ {0} /\ todo \subseteq Pick /\ picks \in Seq(Pick)
      /\ out \in Seq(Output) /\ crop \in BOOLEAN
  BY DEF RInv, TypeOK
<1>2. CASE PassEntry
  <2>1. phase = "emit" /\ at' = at + 1
        /\ UNCHANGED <<input, phase, why, parsing, resolving, todo, picks, out, crop>>
    BY <1>2 DEF PassEntry, Emitting, emitting
  <2>2. \A i \in DOMAIN out : out[i].entry < at + 1
    <3>1. \A i \in DOMAIN out : out[i].entry < at /\ out[i].entry \in Nat
      BY <2>1, EntriesAreNumbers DEF RInv, InOrder
    <3>2. QED
      BY <1>1, <3>1
  <2>3. InOrder'
    BY <2>1, <2>2 DEF RInv, InOrder, EachSubHunkOnce
  <2>4. phase' \in Phases /\ phase' # "set" /\ at' \in Nat \ {0}
    BY <1>1, <2>1 DEF Phases
  <2>5. QED
    BY <1>1, <2>1, <2>3, <2>4, EmitStepKeepsRInv
<1>3. CASE EmitBinary
  <2> DEFINE ps == <<>>
             ends == TRUE
  <2>1. /\ phase = "emit" /\ phase' = "emit" /\ at <= Len(files) /\ at' = at + 1
        /\ out' = Append(out, [entry |-> at, picks |-> ps, ends |-> ends])
        /\ UNCHANGED <<input, why, parsing, resolving, todo, picks, crop>>
    BY <1>3 DEF EmitBinary, Emitting
  <2>2. at \in Files
    BY <1>1, <2>1, FilesAre DEF RInv
  <2>3. ps \in Seq(Pick) /\ \A j, k \in DOMAIN ps : j < k => ps[j].index < ps[k].index
    OBVIOUS
  <2>4. ends \in BOOLEAN
    OBVIOUS
  <2> HIDE DEF ps, ends
  <2>5. out' \in Seq(Output) /\ InOrder'
    BY <2>1, <2>2, <2>3, <2>4, OutputGrows
  <2>6. phase' \in Phases /\ phase' # "set" /\ at' \in Nat \ {0}
    BY <1>1, <2>1 DEF Phases
  <2>7. QED
    BY <1>1, <2>1, <2>5, <2>6, EmitStepKeepsRInv
<1>4. CASE BeginEntry
  BY <1>4, BeginEntryKeepsRInv
<1>5. CASE RefuseConflict
  BY <1>5, RefusalKeepsRInv DEF RefuseConflict, Errors
<1>6. CASE TakePick
  BY <1>6, TakePickKeepsRInv
<1>7. CASE RefuseLines
  BY <1>7, RefusalKeepsRInv DEF RefuseLines, Errors
<1>8. CASE EndEntry
  <2> DEFINE ends == EndsOnItsLastLine
  <2>1. /\ phase = "pick" /\ phase' = "emit" /\ at' = at + 1 /\ picks' = <<>>
        /\ out' = Append(out, [entry |-> at, picks |-> picks, ends |-> ends])
        /\ UNCHANGED <<input, why, parsing, resolving, todo, crop>>
    BY <1>8 DEF EndEntry
  <2>2. at \in Files /\ \A j, k \in DOMAIN picks : j < k => picks[j].index < picks[k].index
    BY <2>1 DEF RInv, InOrder, Ascending
  <2>3. ends \in BOOLEAN
    BY DEF EndsOnItsLastLine
  <2> HIDE DEF ends
  <2>4. out' \in Seq(Output) /\ InOrder'
    BY <1>1, <2>1, <2>2, <2>3, OutputGrows
  <2>5. phase' \in Phases /\ phase' # "set" /\ at' \in Nat \ {0} /\ picks' \in Seq(Pick)
    BY <1>1, <2>1 DEF Phases
  <2>6. QED
    BY <1>1, <2>1, <2>4, <2>5, EmitStepKeepsRInv
<1>9. CASE RefuseDeletion
  BY <1>9, RefusalKeepsRInv DEF RefuseDeletion, Errors
<1>10. CASE EndEmit
  <2>1. phase' = "done" /\ UNCHANGED <<input, why, at, parsing, resolving, todo, picks, out>>
    BY <1>10 DEF EndEmit
  <2>2. crop' \in BOOLEAN
    BY <1>10 DEF EndEmit
  <2>3. InOrder'
    BY <2>1, OrderStays DEF Early
  <2>4. phase' \in Phases /\ phase' # "set" /\ at' \in Nat \ {0}
    BY <1>1, <2>1 DEF Phases
  <2>5. QED
    BY <1>1, <2>1, <2>2, <2>3, <2>4, EmitStepKeepsRInv
<1>11. QED
  BY <1>2, <1>3, <1>4, <1>5, <1>6, <1>7, <1>8, <1>9, <1>10 DEF Emit

(* A listing and the address of split change no more than where they are.  *)
LEMMA ShowKeepsRInv ==
  ASSUME RInv, Show \/ FindHunk
  PROVE  RInv'
<1>1. UNCHANGED <<input, why, parsing, resolving, emitting>> /\ phase' \in {"list", "done"}
  BY DEF Show, FindHunk, ListEntry, SkipEntry, EndList
<1>2. at' \in Nat \ {0}
  <2>1. at \in Nat \ {0}
    BY DEF RInv, TypeOK
  <2>2. CASE ListEntry \/ SkipEntry
    BY <2>1, <2>2 DEF ListEntry, SkipEntry
  <2>3. CASE EndList
    BY <2>1, <2>3 DEF EndList
  <2>4. CASE FindHunk
    <3>1. Owner(Address.path) \in Files
      BY <2>4, OwnerIsAFile DEF FindHunk, RInv
    <3>2. Files \subseteq Nat \ {0}
      BY FilesAre DEF RInv
    <3>3. QED
      BY <2>4, <3>1, <3>2 DEF FindHunk
  <2>5. QED
    BY <2>2, <2>3, <2>4 DEF Show
<1>3. InOrder'
  BY <1>1, OrderStays DEF emitting, Early
<1>4. UNCHANGED <<todo, picks, out, crop>>
  BY <1>1 DEF emitting
<1>5. /\ todo' \subseteq Pick /\ picks' \in Seq(Pick) /\ out' \in Seq(Output) /\ crop' \in BOOLEAN
  BY <1>4 DEF RInv, TypeOK
<1>6. phase' \in Phases /\ phase' # "set"
  BY <1>1 DEF Phases
<1>7. QED
  BY <1>1, <1>2, <1>3, <1>5, <1>6, EmitStepKeepsRInv

LEMMA NextKeepsRInv ==
  ASSUME RInv, [Next]_vars
  PROVE  RInv'
<1>1. CASE Parse
  BY <1>1, ParseKeepsRInv
<1>2. CASE Resolve
  BY <1>2, ResolveKeepsRInv
<1>3. CASE Emit
  BY <1>3, EmitKeepsRInv
<1>4. CASE Show \/ FindHunk
  BY <1>4, ShowKeepsRInv
<1>5. CASE RefuseAddress
  BY <1>5, RefusalKeepsRInv DEF RefuseAddress, RefusePath, Errors
<1>6. CASE UNCHANGED vars
  <2>1. UNCHANGED <<input, phase, why, at, parsing, resolving, emitting>>
    BY <1>6 DEF vars
  <2>2. UNCHANGED <<todo, picks, out, crop, patch, request>>
    BY <2>1 DEF emitting, input
  <2>3. TypeOK'
    BY <2>1, <2>2 DEF RInv, TypeOK, files, Files, Output, parsing, resolving
  <2>4. NumbersFromOne'
    BY <2>1, <2>2 DEF RInv, NumbersFromOne, HasSet, Arg, parsing
  <2>5. Spent' /\ Stored'
    BY <2>1, SpentStays, StoredStays
  <2>6. InOrder'
    BY <2>1, <2>2 DEF RInv, InOrder, EachSubHunkOnce, Ascending, files, Files
  <2>7. QED
    BY <2>3, <2>4, <2>5, <2>6 DEF RInv
<1>7. QED
  BY <1>1, <1>2, <1>3, <1>4, <1>5, <1>6 DEF Next, Ended

-----------------------------------------------------------------------------
(* What is recorded of the entries.                                        *)

LEMMA EntriesStayRecorded ==
  ASSUME EntriesRecorded, UNCHANGED <<input, out>>
  PROVE  EntriesRecorded'
<1>1. \A fi : Subs(fi)' = Subs(fi) /\ files[fi]' = files[fi]
  BY DEF input, files, Subs
<1>2. \A fi, p : AsTaken(fi, p)' <=> AsTaken(fi, p)
  BY <1>1 DEF AsTaken, WholePick, ChangedCount
<1>3. \A fi, ps : EndsOn(fi, ps)' <=> EndsOn(fi, ps)
  BY <1>1 DEF EndsOn
<1>4. QED
  BY <1>2, <1>3 DEF EntriesRecorded

LEMMA EntryIsRecorded ==
  ASSUME RInv, EntriesRecorded, at \in Files,
         NEW ps \in Seq(Pick), NEW ends \in BOOLEAN,
         ends <=> EndsOn(at, ps), \A j \in DOMAIN ps : AsTaken(at, ps[j]),
         out' = Append(out, [entry |-> at, picks |-> ps, ends |-> ends]),
         UNCHANGED input
  PROVE  EntriesRecorded'
<1> DEFINE o == [entry |-> at, picks |-> ps, ends |-> ends]
<1>1. o \in Output /\ o.entry = at /\ o.picks = ps /\ (o.ends <=> ends)
  BY DEF Output
<1>2. out \in Seq(Output) /\ out' = Append(out, o)
  BY DEF RInv, TypeOK
<1> HIDE DEF o
<1>3. ASSUME NEW i \in DOMAIN out'
      PROVE  out'[i] = o \/ (i \in DOMAIN out /\ out'[i] = out[i])
  BY <1>1, <1>2
<1>4. \A fi : Subs(fi)' = Subs(fi) /\ files[fi]' = files[fi]
  BY DEF input, files, Subs
<1>5. \A fi, p : AsTaken(fi, p)' <=> AsTaken(fi, p)
  BY <1>4 DEF AsTaken, WholePick, ChangedCount
<1>6. \A fi, qs : EndsOn(fi, qs)' <=> EndsOn(fi, qs)
  BY <1>4 DEF EndsOn
<1>7. ASSUME NEW i \in DOMAIN out'
      PROVE  /\ out'[i].ends <=> EndsOn(out'[i].entry, out'[i].picks)
             /\ \A j \in DOMAIN out'[i].picks : AsTaken(out'[i].entry, out'[i].picks[j])
  <2>1. CASE out'[i] = o
    BY <1>1, <2>1
  <2>2. CASE i \in DOMAIN out /\ out'[i] = out[i]
    BY <2>2 DEF EntriesRecorded
  <2>3. QED
    BY <1>3, <2>1, <2>2
<1>8. QED
  BY <1>5, <1>6, <1>7 DEF EntriesRecorded

(* A step that puts nothing out and does not end the emission.             *)
LEMMA StaysRecorded ==
  ASSUME RInv, Recorded, UNCHANGED <<input, out>>, phase' # "pick",
         phase' \in {"list", "address", "done"} => out = <<>>
  PROVE  Recorded'
<1>1. EntriesRecorded'
  BY EntriesStayRecorded DEF Recorded
<1>2. QED
  BY <1>1 DEF Recorded

LEMMA EmitKeepsRecorded ==
  ASSUME RInv, Recorded, Emit
  PROVE  Recorded'
<1>1. at \in Nat \ {0} /\ picks \in Seq(Pick) /\ todo \subseteq Pick
  BY DEF RInv, TypeOK
<1>2. \A error : Refuse(error) => Recorded'
  BY StaysRecorded DEF Refuse, emitting
<1>3. CASE PassEntry
  BY <1>3, StaysRecorded DEF PassEntry, Emitting, emitting
<1>4. CASE EmitBinary
  <2> DEFINE ps == <<>>
             ends == TRUE
  <2>1. /\ phase = "emit" /\ phase' = "emit" /\ at <= Len(files) /\ files[at].binary
        /\ out' = Append(out, [entry |-> at, picks |-> ps, ends |-> ends])
        /\ UNCHANGED input
    BY <1>4 DEF EmitBinary, Emitting
  <2>2. at \in Files
    BY <1>1, <2>1, FilesAre DEF RInv
  <2>3. Subs(at) = <<>>
    BY <2>1, <2>2, BinaryHasNoSubHunks DEF RInv
  <2>4. ps \in Seq(Pick) /\ ends \in BOOLEAN /\ (ends <=> EndsOn(at, ps))
        /\ \A j \in DOMAIN ps : AsTaken(at, ps[j])
    BY <2>3 DEF EndsOn
  <2> HIDE DEF ps, ends
  <2>5. EntriesRecorded'
    BY <2>1, <2>2, <2>4, EntryIsRecorded DEF Recorded
  <2>6. QED
    BY <2>1, <2>5 DEF Recorded
<1>5. CASE BeginEntry
  <2>1. /\ phase' = "pick" /\ picks' = <<>> /\ UNCHANGED <<input, at, whole, cuts, out>>
        /\ todo' = {WholePick(at, i) : i \in whole[at]}
                   \union {CutPick(cuts[at][c]) : c \in DOMAIN cuts[at]}
    BY <1>5 DEF BeginEntry, resolving
  <2>2. EntriesRecorded'
    BY <2>1, EntriesStayRecorded DEF Recorded
  <2>3. ASSUME NEW p \in todo'
        PROVE  AsTaken(at, p)
    <3>1. at \in Files
      BY <1>1, <1>5, FilesAre DEF BeginEntry, Emitting, RInv
    <3>2. CASE \E i \in whole[at] : p = WholePick(at, i)
      BY <3>1, <3>2 DEF AsTaken, WholePick, RInv, Stored
    <3>3. CASE \E c \in DOMAIN cuts[at] : p = CutPick(cuts[at][c])
      BY <3>1, <3>3 DEF AsTaken, CutPick, RInv, Stored
    <3>4. QED
      BY <2>1, <3>2, <3>3
  <2>4. \A p : AsTaken(at, p)' <=> AsTaken(at, p)
    BY <2>1 DEF AsTaken, WholePick, ChangedCount, input, files, Subs
  <2>5. QED
    BY <2>1, <2>2, <2>3, <2>4 DEF Recorded
<1>6. CASE TakePick
  <2>1. PICK p \in todo : todo' = todo \ {p} /\ picks' = Append(picks, p)
    BY <1>6 DEF TakePick
  <2>2. phase = "pick" /\ phase' = "pick" /\ UNCHANGED <<input, at, out>>
    BY <1>6 DEF TakePick
  <2>3. EntriesRecorded'
    BY <2>2, EntriesStayRecorded DEF Recorded
  <2>4. p \in Pick /\ AsTaken(at, p)
    BY <1>1, <2>2 DEF Recorded
  <2>5. ASSUME NEW j \in DOMAIN picks'
        PROVE  picks'[j] = p \/ (j \in DOMAIN picks /\ picks'[j] = picks[j])
    BY <1>1, <2>1, <2>4
  <2>6. \A j \in DOMAIN picks' : AsTaken(at, picks'[j])
    BY <2>2, <2>4, <2>5 DEF Recorded
  <2>7. \A q \in todo' : AsTaken(at, q)
    BY <2>1, <2>2 DEF Recorded
  <2>8. \A q : AsTaken(at, q)' <=> AsTaken(at, q)
    BY <2>2 DEF AsTaken, WholePick, ChangedCount, input, files, Subs
  <2>9. QED
    BY <2>2, <2>3, <2>6, <2>7, <2>8 DEF Recorded
<1>7. CASE EndEntry
  <2> DEFINE ends == EndsOnItsLastLine
  <2>1. /\ phase = "pick" /\ phase' = "emit" /\ UNCHANGED input
        /\ out' = Append(out, [entry |-> at, picks |-> picks, ends |-> ends])
    BY <1>7 DEF EndEntry
  <2>2. at \in Files
    BY <2>1 DEF RInv, InOrder
  <2>3. ends \in BOOLEAN /\ (ends <=> EndsOn(at, picks))
    BY DEF EndsOnItsLastLine, EndsOn
  <2>4. \A j \in DOMAIN picks : AsTaken(at, picks[j])
    BY <2>1 DEF Recorded
  <2> HIDE DEF ends
  <2>5. EntriesRecorded'
    BY <1>1, <2>1, <2>2, <2>3, <2>4, EntryIsRecorded DEF Recorded
  <2>6. QED
    BY <2>1, <2>5 DEF Recorded
<1>8. CASE EndEmit
  <2>1. /\ phase' = "done" /\ UNCHANGED <<input, out>>
        /\ crop' = (/\ patch.cropped /\ out # <<>>
                    /\ out[Len(out)].entry = Len(files) /\ out[Len(out)].ends)
    BY <1>8 DEF EndEmit
  <2>2. EntriesRecorded'
    BY <2>1, EntriesStayRecorded DEF Recorded
  <2>3. patch' = patch /\ files' = files
    BY <2>1 DEF input, files
  <2>4. QED
    BY <2>1, <2>2, <2>3 DEF Recorded
<1>9. QED
  BY <1>2, <1>3, <1>4, <1>5, <1>6, <1>7, <1>8
  DEF Emit, RefuseConflict, RefuseLines, RefuseDeletion

LEMMA InitRecorded ==
  ASSUME Init
  PROVE  Recorded
  BY DEF Init, Begins, Recorded, EntriesRecorded

LEMMA NextKeepsRecorded ==
  ASSUME RInv, Recorded, [Next]_vars
  PROVE  Recorded'
<1>1. \A error : Refuse(error) => Recorded'
  BY StaysRecorded DEF Refuse, emitting
<1>2. CASE Parse
  <2>1. CASE ReadStar \/ ReadId \/ OpenSet \/ TakePart \/ CloseSet \/ EndParse
    <3>1. UNCHANGED <<input, emitting>> /\ phase' \in {"parse", "set", "resolve"}
      BY <2>1 DEF ReadStar, ReadId, OpenSet, TakePart, CloseSet, EndParse, Parsing, ReadingSet
    <3>2. QED
      BY <3>1, StaysRecorded DEF emitting
  <2>2. QED
    BY <1>1, <1>2, <2>1 DEF Parse, RefuseArg, RefusePart, RefuseCutToList
<1>3. CASE Resolve
  <2>1. CASE TakeBinary \/ TakeAll \/ TakeIndices \/ TakeCut \/ ResolveId \/ RepeatId
    <3>1. UNCHANGED <<input, emitting>> /\ phase' = "resolve"
      BY <2>1 DEF TakeBinary, TakeAll, TakeIndices, TakeCut, ResolveId, RepeatId, Resolving, OfPath
    <3>2. QED
      BY <3>1, StaysRecorded DEF emitting
  <2>2. CASE EndResolve
    <3>1. UNCHANGED <<input, emitting>> /\ phase = "resolve" /\ phase' \in {"list", "emit"}
      BY <2>2 DEF EndResolve
    <3>2. out = <<>>
      BY <3>1 DEF RInv, InOrder
    <3>3. QED
      BY <3>1, <3>2, StaysRecorded DEF emitting
  <2>3. QED
    BY <1>1, <1>3, <2>1, <2>2
    DEF Resolve, RefuseOwner, RefusePath, RefuseBinary, RefuseIndex, RefuseId, RefuseEmpty
<1>4. CASE Emit
  BY <1>4, EmitKeepsRecorded
<1>5. CASE Show \/ FindHunk
  <2>1. UNCHANGED <<input, emitting>> /\ phase \in {"list", "address"} /\ phase' \in {"list", "done"}
    BY <1>5 DEF Show, FindHunk, ListEntry, SkipEntry, EndList
  <2>2. out = <<>>
    BY <2>1 DEF Recorded
  <2>3. QED
    BY <2>1, <2>2, StaysRecorded DEF emitting
<1>6. CASE RefuseAddress
  BY <1>1, <1>6 DEF RefuseAddress, RefusePath
<1>7. CASE UNCHANGED vars
  <2>1. UNCHANGED <<input, phase, at, emitting>>
    BY <1>7 DEF vars
  <2>2. UNCHANGED <<patch, todo, picks, out, crop>> /\ files' = files
    BY <2>1 DEF emitting, input, files
  <2>3. EntriesRecorded'
    BY <2>1, <2>2, EntriesStayRecorded DEF Recorded
  <2>4. \A p : AsTaken(at, p)' <=> AsTaken(at, p)
    BY <2>1, <2>2 DEF AsTaken, WholePick, ChangedCount, Subs
  <2>5. QED
    BY <2>1, <2>2, <2>3, <2>4 DEF Recorded
<1>8. QED
  BY <1>2, <1>3, <1>4, <1>5, <1>6, <1>7 DEF Next, Ended

-----------------------------------------------------------------------------
(* Why a request is refused: each selector is an argument, and each error  *)
(* is found in one.                                                        *)

(* A refusal that has its cause changes nothing else.                      *)
LEMMA RefusalKeepsTraced ==
  ASSUME Traced, NEW error, Refuse(error), HasCause(error)
  PROVE  Traced'
<1> USE DEF Refuse
<1>1. RefusalNamesItsCause'
  BY DEF RefusalNamesItsCause, HasCause, input, Owners, files, Files, Subs
<1>2. ArgumentsRead'
  BY DEF Traced, ArgumentsRead, input, parsing
<1>3. QED
  BY <1>1, <1>2 DEF Traced, resolving

(* No refusal, no cause.                                                   *)
LEMMA NothingToBlame ==
  ASSUME Traced, phase # "refused", UNCHANGED why
  PROVE  why' = "none" /\ RefusalNamesItsCause'
  BY DEF Traced, RefusalNamesItsCause, HasCause

(* The errors that say only how an argument is written need none.          *)
LEMMA FormIsItsOwnCause ==
  ASSUME NEW error \in {"BadSelector", "RemovedRangeForm", "LineSelect"}
  PROVE  HasCause(error)
  BY DEF HasCause

(* An argument becomes the next selector.                                  *)
LEMMA TakesKeepsTraced ==
  ASSUME RInv, Traced, phase \in {"parse", "set"}, at <= Len(request.args),
         NEW s, ReadFrom(s, Arg), Takes(s), phase' = "parse", list' = <<>>,
         UNCHANGED <<input, why, resolving>>
  PROVE  Traced'
<1>1. why' = "none" /\ RefusalNamesItsCause'
  BY NothingToBlame
<1>2. sels \in Seq(Selector) /\ at = Len(sels) + 1
  BY DEF RInv, TypeOK, Traced, ArgumentsRead
<1>3. /\ Len(sels') = Len(sels) + 1 /\ DOMAIN sels' = 1..(Len(sels) + 1)
      /\ \A i \in 1..Len(sels) : sels'[i] = sels[i]
      /\ sels'[Len(sels) + 1] = s
  BY <1>2 DEF Takes
<1>4. ArgumentsRead'
  <2>1. request' = request
    BY DEF input
  <2>2. Len(sels') <= Len(request'.args) /\ at' = Len(sels') + 1
    BY <1>2, <1>3, <2>1 DEF Takes
  <2>3. ASSUME NEW i \in DOMAIN sels' PROVE ReadFrom(sels'[i], request'.args[i])
    <3>1. CASE i \in 1..Len(sels)
      <4>1. i \in DOMAIN sels
        BY <1>2, <3>1
      <4>2. QED
        BY <1>3, <2>1, <3>1, <4>1 DEF Traced, ArgumentsRead
    <3>2. CASE i = Len(sels) + 1
      BY <1>2, <1>3, <2>1, <3>2 DEF Arg
    <3>3. QED
      BY <1>2, <1>3, <3>1, <3>2
  <2>4. QED
    BY <2>2, <2>3 DEF ArgumentsRead
<1>5. QED
  BY <1>1, <1>4 DEF Traced, input, resolving

(* The numbers of a part are within it.                                    *)
LEMMA NumbersAreWithin ==
  ASSUME NEW p \in Part, Ordered(p), NEW k \in DOMAIN NumbersIn(p)
  PROVE  NumbersIn(p)[k] <= p[Len(p)]
<1>1. CASE Len(p) = 2
  <2>1. p[1] \in Int /\ p[2] \in Int
    BY <1>1 DEF Part, Num
  <2> DEFINE n == p[2] - p[1] + 1
  <2>2. n \in Int
    BY <2>1
  <2>3. NumbersIn(p) = [i \in 1..n |-> p[1] + i - 1]
    BY <1>1 DEF NumbersIn, Span
  <2>4. k \in 1..n /\ NumbersIn(p)[k] = p[1] + k - 1
    <3> HIDE DEF n
    <3>1. QED
      BY <2>3
  <2>5. QED
    BY <1>1, <2>1, <2>4
<1>2. CASE Len(p) # 2
  <2>1. NumbersIn(p) = <<p[1]>> /\ Len(p) = 1 /\ p[1] \in Int
    BY <1>2 DEF NumbersIn, Part, Num
  <2>2. QED
    BY <2>1
<1>3. QED
  BY <1>1, <1>2

(* The part being read.                                                    *)
LEMMA PartIs ==
  ASSUME RInv, ReadingSet
  PROVE  part \in DOMAIN Arg.parts /\ Arg.parts[part] \in Part
<1>1. Arg \in Argument
  BY ArgIs DEF RInv, NumbersFromOne, ReadingSet
<1>2. Arg.parts \in Seq(Part)
  BY <1>1 DEF Argument
<1>3. part \in Nat \ {0} /\ part <= Len(Arg.parts)
  BY DEF RInv, TypeOK, ReadingSet
<1>4. QED
  BY <1>2, <1>3

LEMMA ParseKeepsTraced ==
  ASSUME RInv, Traced, Parse
  PROVE  Traced'
<1>1. TypeOK /\ NumbersFromOne
  BY DEF RInv
<1>2. CASE ReadStar
  <2> DEFINE s == [path |-> Arg.path, form |-> "*", index |-> 0, indices |-> <<>>, id |-> Arg.id]
  <2>1. ReadFrom(s, Arg)
    BY <1>2 DEF ReadStar, ReadFrom
  <2>2. Takes(s)
    BY <1>2 DEF ReadStar
  <2> HIDE DEF s
  <2>3. /\ phase = "parse" /\ phase' = "parse" /\ at <= Len(request.args)
        /\ UNCHANGED <<input, why, list, resolving>>
    BY <1>2 DEF ReadStar, Parsing
  <2>4. list' = <<>>
    BY <2>3 DEF Traced, ArgumentsRead
  <2>5. QED
    BY <2>1, <2>2, <2>3, <2>4, TakesKeepsTraced
<1>3. CASE ReadId
  <2> DEFINE s == [path |-> NoPath, form |-> "id", index |-> 0, indices |-> <<>>, id |-> Arg.id]
  <2>1. ReadFrom(s, Arg)
    BY <1>3 DEF ReadId, ReadFrom
  <2>2. Takes(s)
    BY <1>3 DEF ReadId
  <2> HIDE DEF s
  <2>3. /\ phase = "parse" /\ phase' = "parse" /\ at <= Len(request.args)
        /\ UNCHANGED <<input, why, list, resolving>>
    BY <1>3 DEF ReadId, Parsing
  <2>4. list' = <<>>
    BY <2>3 DEF Traced, ArgumentsRead
  <2>5. QED
    BY <2>1, <2>2, <2>3, <2>4, TakesKeepsTraced
<1>4. CASE OpenSet
  <2>1. /\ phase = "parse" /\ phase' = "set"
        /\ UNCHANGED <<input, why, at, parsing, resolving>>
    BY <1>4 DEF OpenSet, Parsing
  <2>2. why' = "none" /\ RefusalNamesItsCause'
    BY <2>1, NothingToBlame
  <2>3. ArgumentsRead'
    BY <2>1 DEF Traced, ArgumentsRead, input, parsing
  <2>4. QED
    BY <2>1, <2>2, <2>3 DEF Traced, input, resolving
<1>5. CASE TakePart
  <2> DEFINE new == NumbersIn(Arg.parts[part])
  <2>1. /\ phase = "set" /\ phase' = "set" /\ list' = list \o new
        /\ UNCHANGED <<input, why, at, sels, resolving>>
    BY <1>5 DEF TakePart, ReadingSet
  <2>2. Arg.parts[part] \in Part /\ Ordered(Arg.parts[part]) /\ part \in DOMAIN Arg.parts
    BY <1>5, PartIs DEF TakePart
  <2>3. /\ new \in Seq(Nat)
        /\ \A k \in DOMAIN new : ListedBy(Arg, new[k])
    BY <2>2, PartsAreCharged, NumbersAreWithin DEF ListedBy
  <2>4. ASSUME NEW j \in DOMAIN list' PROVE ListedBy(Arg, list'[j])
    <3>1. list \in Seq(Nat) /\ \A i \in DOMAIN list : ListedBy(Arg, list[i])
      BY <1>1, <2>1 DEF TypeOK, Traced, ArgumentsRead
    <3> HIDE DEF new
    <3>2. /\ Len(list) \in Nat /\ Len(new) \in Nat
          /\ DOMAIN list = 1..Len(list) /\ DOMAIN new = 1..Len(new)
          /\ j \in 1..(Len(list) + Len(new))
          /\ list'[j] = IF j <= Len(list) THEN list[j] ELSE new[j - Len(list)]
      BY <2>1, <2>3, <3>1
    <3>3. CASE j <= Len(list)
      BY <3>1, <3>2, <3>3
    <3>4. CASE j > Len(list)
      <4>1. j - Len(list) \in DOMAIN new /\ list'[j] = new[j - Len(list)]
        BY <3>2, <3>4
      <4>2. QED
        BY <2>3, <4>1
    <3>5. QED
      BY <3>2, <3>3, <3>4
  <2>5. Arg' = Arg
    BY <2>1 DEF Arg, input
  <2>6. ArgumentsRead'
    BY <2>1, <2>4, <2>5 DEF Traced, ArgumentsRead, input
  <2>7. why' = "none" /\ RefusalNamesItsCause'
    BY <2>1, NothingToBlame
  <2>8. QED
    BY <2>1, <2>6, <2>7 DEF Traced, input, resolving
<1>6. CASE CloseSet
  <2> DEFINE s == [path |-> Arg.path, form |-> Arg.form, indices |-> list, id |-> Arg.id,
                   index |-> IF Arg.form = "cut" THEN Arg.index ELSE 0]
  <2>1. /\ phase = "set" /\ phase' = "parse" /\ at <= Len(request.args)
        /\ Takes(s) /\ list' = <<>> /\ UNCHANGED <<input, why, resolving>>
    BY <1>1, <1>6 DEF CloseSet, NumbersFromOne
  <2>2. ReadFrom(s, Arg)
    BY <2>1 DEF ReadFrom, Traced, ArgumentsRead
  <2> HIDE DEF s
  <2>3. QED
    BY <2>1, <2>2, TakesKeepsTraced
<1>7. CASE EndParse
  <2>1. /\ phase = "parse" /\ phase' = "resolve" /\ at' = 1 /\ at > Len(request.args)
        /\ UNCHANGED <<input, why, parsing, resolving>>
    BY <1>7 DEF EndParse
  <2>2. Len(sels) = Len(request.args)
    BY <1>1, <2>1 DEF Traced, ArgumentsRead, TypeOK, Request
  <2>3. ArgumentsRead'
    BY <2>1, <2>2 DEF Traced, ArgumentsRead, input, parsing
  <2>4. why' = "none" /\ RefusalNamesItsCause'
    BY <2>1, NothingToBlame
  <2>5. QED
    BY <2>1, <2>3, <2>4 DEF Traced, input, resolving
<1>8. CASE RefuseArg \/ RefusePart \/ RefuseCutToList
  BY <1>8, RefusalKeepsTraced, FormIsItsOwnCause DEF RefuseArg, RefusePart, RefuseCutToList
<1>9. QED
  BY <1>2, <1>3, <1>4, <1>5, <1>6, <1>7, <1>8 DEF Parse

(* An argument that names no entry, or more than one.                      *)
LEMMA NotOwned ==
  ASSUME TypeOK, NEW path, ~Owned(path)
  PROVE  /\ path = NoPath => Len(files) # 1
         /\ Owners(path) # {} => \E fi, fj \in Owners(path) : fi # fj
<1>1. ASSUME path = NoPath, Len(files) = 1 PROVE FALSE
  <2>1. Files = {1}
    BY <1>1, FilesAre
  <2>2. Owners(path) = {1}
    BY <1>1, <2>1 DEF Owners
  <2>3. QED
    BY <2>2, FS_Singleton DEF Owned
<1>2. ASSUME Owners(path) # {}, \A fi, fj \in Owners(path) : fi = fj PROVE FALSE
  <2>1. PICK fi : fi \in Owners(path)
    BY <1>2
  <2>2. Owners(path) = {fi}
    BY <1>2, <2>1
  <2>3. QED
    BY <2>2, FS_Singleton DEF Owned
<1>3. QED
  BY <1>1, <1>2

Given == {request.args[i] : i \in DOMAIN request.args}

LEMMA PathsHaveTheirCause ==
  ASSUME RInv, Traced, NEW arg \in Given, RefusePath(arg.path)
  PROVE  Traced'
<1> DEFINE error == IF arg.path # NoPath /\ Owners(arg.path) = {} THEN "UnknownPath"
                    ELSE "AmbiguousPath"
<1>1. Refuse(error) /\ ~Owned(arg.path)
  BY DEF RefusePath
<1>2. /\ arg.path = NoPath => Len(files) # 1
      /\ Owners(arg.path) # {} => \E fi, fj \in Owners(arg.path) : fi # fj
  BY <1>1, NotOwned DEF RInv
<1>3. HasCause(error)
  <2>1. CASE arg.path # NoPath /\ Owners(arg.path) = {}
    BY <2>1 DEF HasCause, Given
  <2>2. CASE ~(arg.path # NoPath /\ Owners(arg.path) = {})
    <3>1. error = "AmbiguousPath"
      BY <2>2
    <3>2. \E a \in Given : IF a.path = NoPath THEN Len(files) # 1
                            ELSE \E fi, fj \in Owners(a.path) : fi # fj
      BY <1>2, <2>2
    <3> HIDE DEF error
    <3>3. QED
      BY <3>1, <3>2 DEF HasCause, Given
  <2>3. QED
    BY <2>1, <2>2
<1>4. QED
  BY <1>1, <1>3, RefusalKeepsTraced

(* A selector being resolved is an argument.                               *)
LEMMA SelIsGiven ==
  ASSUME RInv, Traced, phase = "resolve", at <= Len(sels)
  PROVE  /\ Arg \in Given /\ Arg \in Argument /\ ReadFrom(Sel, Arg)
         /\ Sel \in Selector /\ request.command # "split"
<1>1. TypeOK /\ NumbersFromOne
  BY DEF RInv
<1>2. at \in DOMAIN sels /\ Len(sels) = Len(request.args)
  BY <1>1 DEF TypeOK, Traced, ArgumentsRead
<1>3. Arg \in Argument /\ request.args \in Seq(Argument)
  BY <1>1, <1>2, ArgIs
<1>4. at \in DOMAIN request.args
  BY <1>1, <1>2, <1>3 DEF TypeOK
<1>5. QED
  BY <1>1, <1>2, <1>3, <1>4, SelIs DEF Given, Arg, Sel, Traced, ArgumentsRead

(* An index that is not there is one an argument gives.                    *)
LEMMA IndicesHaveTheirCause ==
  ASSUME RInv, Traced, RefuseIndex
  PROVE  HasCause("NoIndex")
<1> DEFINE fi == Owner(Sel.path)
           n == Len(Subs(fi))
<1>1. /\ phase = "resolve" /\ at <= Len(sels) /\ Owned(Sel.path)
      /\ \/ Sel.form = "cut" /\ Sel.index > n
         \/ Sel.form = "list" /\ \E j \in DOMAIN Sel.indices : Sel.indices[j] > n
  BY DEF RefuseIndex, OfPath
<1>2. /\ Arg \in Given /\ Arg \in Argument /\ ReadFrom(Sel, Arg)
      /\ Sel \in Selector /\ request.command # "split"
  BY <1>1, SelIsGiven
<1>3. fi \in Owners(Arg.path) /\ DOMAIN Subs(fi) = 1..n /\ n \in Nat
  BY <1>1, <1>2, OwnerIsAFile, FilesAre DEF RInv, ReadFrom
<1> HIDE DEF fi, n
<1>4. CASE Sel.form = "cut" /\ Sel.index > n
  <2>1. Arg.form = "cut" /\ Arg.index = Sel.index /\ Sel.index \in Nat
    BY <1>2, <1>4 DEF ReadFrom, Selector
  <2>2. Arg.index \notin DOMAIN Subs(fi)
    BY <1>3, <1>4, <2>1
  <2>3. QED
    BY <1>2, <1>3, <2>1, <2>2 DEF HasCause, Given
<1>5. ASSUME Sel.form = "list", NEW j \in DOMAIN Sel.indices, Sel.indices[j] > n
      PROVE  HasCause("NoIndex")
  <2>1. Arg.form = "list" /\ ListedBy(Arg, Sel.indices[j])
    BY <1>2, <1>5 DEF ReadFrom
  <2>2. PICK k \in DOMAIN Arg.parts : Sel.indices[j] <= Arg.parts[k][Len(Arg.parts[k])]
    BY <2>1 DEF ListedBy
  <2> DEFINE p == Arg.parts[k]
  <2>3. p \in Part
    BY <1>2, <2>2 DEF Argument
  <2>4. Len(p) \in DOMAIN p /\ p[Len(p)] \in Int
    <3> HIDE DEF p
    <3>1. QED
      BY <2>3 DEF Part, Num
  <2>5. Sel.indices[j] \in Nat
    BY <1>2, <1>5 DEF Selector
  <2>6. p[Len(p)] \notin 1..n
    BY <1>3, <1>5, <2>2, <2>4, <2>5
  <2> HIDE DEF p
  <2>7. \E i \in DOMAIN Arg.parts :
          LET q == Arg.parts[i] IN q[Len(q)] \notin 1..(IF request.command = "split"
                                                      THEN files[fi].hunks ELSE Len(Subs(fi)))
    BY <1>2, <2>2, <2>6 DEF n, p
  <2>8. QED
    BY <1>2, <1>3, <2>1, <2>7 DEF HasCause, Given
<1>6. QED
  BY <1>1, <1>4, <1>5

(* So is an id that nothing, or not one thing, has.                        *)
LEMMA IdsHaveTheirCause ==
  ASSUME RInv, Traced, RefuseId
  PROVE  HasCause(IF Matched = {} THEN "UnknownId" ELSE "IdCollision")
<1>1. phase = "resolve" /\ at <= Len(sels) /\ Sel.form = "id"
  BY DEF RefuseId, Resolving
<1>2. Arg \in Given /\ Arg.form = "id" /\ Matched = Carrying(files, Arg.id)
  BY <1>1, SelIsGiven DEF ReadFrom, Matched
<1>3. CASE Matched = {}
  BY <1>2, <1>3 DEF HasCause, Given
<1>4. CASE Matched # {}
  <2>1. PICK p \in Matched : TRUE
    BY <1>4
  <2>2. PICK q \in Matched : Content(files[q[1]], Subs(q[1])[q[2]])
                               # Content(files[p[1]], Subs(p[1])[p[2]])
    BY <1>4, <2>1 DEF RefuseId, SameContent
  <2>3. QED
    BY <1>2, <1>4, <2>1, <2>2 DEF HasCause, Given
<1>5. QED
  BY <1>3, <1>4

(* A selector is resolved, or the command goes on past that.               *)
LEMMA ResolvedKeepsTraced ==
  ASSUME Traced, phase = "resolve", phase' = phase, named' # {},
         UNCHANGED <<input, why, parsing>>
  PROVE  Traced'
<1>1. why' = "none" /\ RefusalNamesItsCause'
  BY NothingToBlame
<1>2. ArgumentsRead'
  BY DEF Traced, ArgumentsRead, input, parsing
<1>3. QED
  BY <1>1, <1>2 DEF Traced, input

LEMMA StaysTraced ==
  ASSUME Traced, phase # "refused", phase' \in {"emit", "pick", "list", "done"},
         UNCHANGED <<input, why, parsing, resolving>>
  PROVE  Traced'
<1>1. why' = "none" /\ RefusalNamesItsCause'
  BY NothingToBlame
<1>2. ArgumentsRead'
  BY DEF Traced, ArgumentsRead, input, parsing
<1>3. QED
  BY <1>1, <1>2 DEF Traced, resolving

LEMMA ResolveKeepsTraced ==
  ASSUME RInv, Traced, Resolve
  PROVE  Traced'
<1>1. TypeOK /\ NumbersFromOne
  BY DEF RInv
<1>2. CASE RefuseOwner
  <2>1. phase = "resolve" /\ at <= Len(sels) /\ RefusePath(Sel.path)
    BY <1>2 DEF RefuseOwner, OfPath
  <2>2. Arg \in Given /\ Arg.path = Sel.path
    BY <2>1, SelIsGiven DEF ReadFrom
  <2>3. QED
    BY <2>1, <2>2, PathsHaveTheirCause
<1>3. CASE TakeBinary \/ TakeAll \/ TakeIndices \/ TakeCut
  <2>1. /\ phase = "resolve" /\ phase' = phase /\ named' # {}
        /\ UNCHANGED <<input, why, parsing>>
    BY <1>3 DEF TakeBinary, TakeAll, TakeIndices, TakeCut, OfPath, Resolving
  <2>2. QED
    BY <2>1, ResolvedKeepsTraced
<1>4. CASE RefuseBinary
  <2>1. /\ phase = "resolve" /\ at <= Len(sels) /\ Owned(Sel.path)
        /\ files[Owner(Sel.path)].binary
        /\ Refuse("LineSelect") \/ Refuse("NoIndex")
    BY <1>4 DEF RefuseBinary, OfPath
  <2>2. Arg \in Given /\ Arg.path = Sel.path
    BY <2>1, SelIsGiven DEF ReadFrom
  <2>3. HasCause("NoIndex")
    BY <1>1, <2>1, <2>2, OwnerIsAFile DEF HasCause, Given
  <2>4. QED
    BY <2>1, <2>3, FormIsItsOwnCause, RefusalKeepsTraced
<1>5. CASE RefuseIndex
  BY <1>5, IndicesHaveTheirCause, RefusalKeepsTraced DEF RefuseIndex
<1>6. CASE ResolveId
  <2>1. /\ phase = "resolve" /\ phase' = phase /\ named' # {}
        /\ UNCHANGED <<input, why, parsing>>
    BY <1>6 DEF ResolveId, Resolving
  <2>2. QED
    BY <2>1, ResolvedKeepsTraced
<1>7. CASE RepeatId
  <2>1. /\ phase = "resolve" /\ phase' = phase /\ resolved # {}
        /\ UNCHANGED <<input, why, parsing, resolving>>
    BY <1>7 DEF RepeatId, Resolving
  <2>2. named' # {}
    BY <2>1 DEF Traced, resolving
  <2>3. QED
    BY <2>1, <2>2, ResolvedKeepsTraced
<1>8. CASE RefuseId
  BY <1>8, IdsHaveTheirCause, RefusalKeepsTraced DEF RefuseId
<1>9. CASE EndResolve
  BY <1>9, StaysTraced DEF EndResolve
<1>10. CASE RefuseEmpty
  <2>1. phase = "resolve" /\ at > Len(sels) /\ named = {} /\ Refuse("EmptySelection")
    BY <1>10 DEF RefuseEmpty
  <2>2. at = 1
    BY <1>1, <2>1 DEF TypeOK, Traced
  <2>3. Len(request.args) = 0 /\ request.args \in Seq(Argument)
    BY <1>1, <2>1, <2>2 DEF TypeOK, Request, Traced, ArgumentsRead
  <2>4. HasCause("EmptySelection")
    BY <2>3 DEF HasCause
  <2>5. QED
    BY <2>1, <2>4, RefusalKeepsTraced
<1>11. QED
  BY <1>2, <1>3, <1>4, <1>5, <1>6, <1>7, <1>8, <1>9, <1>10 DEF Resolve

(* What split is given is one address.                                     *)
LEMMA AddressKeepsTraced ==
  ASSUME RInv, Traced, RefuseAddress
  PROVE  Traced'
<1>1. phase = "address" /\ request.command = "split"
  BY DEF RefuseAddress, Traced
<1>2. request.args \in Seq(Argument) /\ Len(request.args) = 1
  BY <1>1 DEF RInv, TypeOK, Request
<1>3. Address \in Given /\ Address \in Argument
  BY <1>2 DEF Address, Given
<1>4. CASE Refuse("BadSelector")
  BY <1>4, FormIsItsOwnCause, RefusalKeepsTraced
<1>5. CASE RefusePath(Address.path)
  BY <1>3, <1>5, PathsHaveTheirCause
<1>6. CASE /\ IsAddress /\ Owned(Address.path) /\ ~InItsEntry
           /\ ~files[Owner(Address.path)].binary /\ Refuse("NoIndex")
  <2> DEFINE fi == Owner(Address.path)
  <2>1. fi \in Owners(Address.path) /\ Position > files[fi].hunks
    <3>1. fi \in Owners(Address.path) /\ fi \in Files
      BY <1>6, OwnerIsAFile DEF RInv
    <3>2. files[fi].hunks \in Nat
      BY <3>1, FilesAre DEF RInv, Entry
    <3>3. Position \in Int
      <4>1. Address.parts[1] \in Part
        BY <1>3, <1>6 DEF IsAddress, Argument
      <4>2. QED
        BY <4>1 DEF Position, Part, Num
    <3>4. ~(Position <= files[fi].hunks)
      BY <1>6 DEF InItsEntry
    <3> HIDE DEF fi
    <3>5. QED
      BY <3>1, <3>2, <3>3, <3>4
  <2> HIDE DEF fi
  <2>2. /\ Address.form = "list" /\ 1 \in DOMAIN Address.parts
        /\ Address.parts[1][Len(Address.parts[1])] = Position
    BY <1>3, <1>6 DEF IsAddress, Argument, Position
  <2>3. Position \notin 1..files[fi].hunks
    <3>1. fi \in Files /\ files[fi].hunks \in Nat
      BY <1>6, OwnerIsAFile, FilesAre DEF RInv, Entry, fi
    <3>2. QED
      BY <2>1, <3>1
  <2>4. \E j \in DOMAIN Address.parts :
          LET p == Address.parts[j] IN p[Len(p)] \notin 1..(IF request.command = "split"
                                                          THEN files[fi].hunks ELSE Len(Subs(fi)))
    BY <1>1, <2>2, <2>3
  <2>5. HasCause("NoIndex")
    BY <1>3, <2>1, <2>2, <2>4 DEF HasCause, Given
  <2>6. QED
    BY <1>6, <2>5, RefusalKeepsTraced
<1>7. QED
  BY <1>4, <1>5, <1>6 DEF RefuseAddress

LEMMA InitTraced ==
  ASSUME Init
  PROVE  Traced
<1>1. request \in Request
  BY InitRInv DEF RInv, TypeOK
<1>2. request.args \in Seq(Argument)
  BY <1>1 DEF Request
<1>3. ArgumentsRead
  BY <1>2 DEF Init, Begins, ArgumentsRead
<1>4. RefusalNamesItsCause
  BY DEF Init, RefusalNamesItsCause, HasCause
<1>5. QED
  BY <1>3, <1>4 DEF Init, Begins, Traced

LEMMA NextKeepsTraced ==
  ASSUME RInv, Traced, [Next]_vars
  PROVE  Traced'
<1>1. CASE Parse
  BY <1>1, ParseKeepsTraced
<1>2. CASE Resolve
  BY <1>2, ResolveKeepsTraced
<1>3. CASE Emit
  <2>1. CASE PassEntry \/ EmitBinary \/ BeginEntry \/ TakePick \/ EndEntry \/ EndEmit
    <3>1. /\ phase # "refused" /\ phase' \in {"emit", "pick", "done"}
          /\ UNCHANGED <<input, why, parsing, resolving>>
      BY <2>1 DEF PassEntry, EmitBinary, BeginEntry, TakePick, EndEntry, EndEmit, Emitting
    <3>2. QED
      BY <3>1, StaysTraced
  <2>2. CASE RefuseConflict \/ RefuseLines \/ RefuseDeletion
    BY <2>2, FormIsItsOwnCause, RefusalKeepsTraced DEF RefuseConflict, RefuseLines, RefuseDeletion
  <2>3. QED
    BY <1>3, <2>1, <2>2 DEF Emit
<1>4. CASE Show \/ FindHunk
  <2>1. /\ phase # "refused" /\ phase' \in {"list", "done"}
        /\ UNCHANGED <<input, why, parsing, resolving>>
    BY <1>4 DEF Show, FindHunk, ListEntry, SkipEntry, EndList
  <2>2. QED
    BY <2>1, StaysTraced
<1>5. CASE RefuseAddress
  BY <1>5, AddressKeepsTraced
<1>6. CASE UNCHANGED vars
  <2>1. UNCHANGED <<input, phase, why, at, parsing, resolving>>
    BY <1>6 DEF vars
  <2>2. RefusalNamesItsCause'
    BY <2>1 DEF Traced, RefusalNamesItsCause, HasCause, input, Owners, files, Files, Subs
  <2>3. ArgumentsRead'
    BY <2>1 DEF Traced, ArgumentsRead, input, parsing, Arg
  <2>4. QED
    BY <2>1, <2>2, <2>3 DEF Traced, input, resolving
<1>7. QED
  BY <1>1, <1>2, <1>3, <1>4, <1>5, <1>6 DEF Next, Ended

(* The rows of a listing: each is of its entry, and stands for what the    *)
(* filter of that entry was when it was written.                           *)

LEMMA NoRowsStays ==
  ASSUME rows = <<>>, UNCHANGED rows
  PROVE  Listed'
  BY DEF Listed

LEMMA InitListed ==
  ASSUME Init
  PROVE  Listed
  BY DEF Init, Begins, Listed

LEMMA RowsStay ==
  ASSUME UNCHANGED <<input, resolving>>
  PROVE  \A fi \in Files : Files' = Files /\ EntryRow(fi)' = EntryRow(fi)
  BY DEF input, resolving, files, Files, EntryRow, DisplayPath, Shown, ShowsSubHunk, Filtered,
         Row, Subs, Carrying, IdOf

LEMMA NextKeepsListed ==
  ASSUME RInv, Listed, [Next]_vars
  PROVE  Listed'
<1>1. CASE phase \notin {"list", "done"}
  <2>1. rows = <<>>
    BY <1>1 DEF Listed
  <2>2. rows' = rows
    <3>1. CASE Parse
      BY <3>1 DEF Parse, ReadStar, ReadId, OpenSet, RefuseArg, TakePart, RefusePart, CloseSet,
                  EndParse, RefuseCutToList, Refuse
    <3>2. CASE Resolve
      BY <3>2 DEF Resolve, RefuseOwner, RefusePath, TakeBinary, RefuseBinary, TakeAll,
                  TakeIndices, TakeCut, RefuseIndex, ResolveId, RepeatId, RefuseId, EndResolve,
                  RefuseEmpty, Refuse
    <3>3. CASE Emit
      BY <3>3 DEF Emit, PassEntry, EmitBinary, BeginEntry, RefuseConflict, TakePick, RefuseLines,
                  EndEntry, RefuseDeletion, EndEmit, Refuse
    <3>4. CASE Show
      BY <1>1, <3>4 DEF Show, ListEntry, SkipEntry, EndList
    <3>5. CASE FindHunk \/ RefuseAddress
      BY <3>5 DEF FindHunk, RefuseAddress, RefusePath, Refuse
    <3>6. CASE UNCHANGED vars
      BY <3>6 DEF vars
    <3>7. QED
      BY <3>1, <3>2, <3>3, <3>4, <3>5, <3>6 DEF Next, Ended
  <2>3. QED
    BY <2>1, <2>2, NoRowsStays
<1>2. CASE phase \in {"list", "done"}
  <2>1. Show \/ UNCHANGED vars
    <3>1. ~Parse
      BY <1>2 DEF Parse, ReadStar, ReadId, OpenSet, RefuseArg, TakePart, RefusePart, CloseSet,
                  EndParse, RefuseCutToList, Parsing, ReadingSet
    <3>2. ~Resolve
      BY <1>2 DEF Resolve, RefuseOwner, TakeBinary, RefuseBinary, TakeAll, TakeIndices, TakeCut,
                  RefuseIndex, ResolveId, RepeatId, RefuseId, EndResolve, RefuseEmpty,
                  OfPath, Resolving
    <3>3. ~Emit
      BY <1>2 DEF Emit, PassEntry, EmitBinary, BeginEntry, RefuseConflict, TakePick, RefuseLines,
                  EndEntry, RefuseDeletion, EndEmit, Emitting
    <3>4. ~FindHunk /\ ~RefuseAddress
      BY <1>2 DEF FindHunk, RefuseAddress
    <3>5. QED
      BY <3>1, <3>2, <3>3, <3>4 DEF Next, Ended
  <2>2. UNCHANGED <<input, resolving>> /\ phase' \in {"list", "done"}
    BY <1>2, <2>1 DEF Show, ListEntry, SkipEntry, EndList, vars
  <2>3. rows \in Seq({EntryRow(fi) : fi \in Files})
    BY DEF Listed
  <2>4. {EntryRow(fi) : fi \in Files}' = {EntryRow(fi) : fi \in Files}
    <3>1. Files' = Files
      BY <2>2 DEF input, Files, files
    <3>2. QED
      BY <2>2, <3>1, RowsStay
  <2>5. rows' \in Seq({EntryRow(fi) : fi \in Files})
    <3>1. CASE ListEntry
      <4>1. at \in Files /\ rows' = Append(rows, EntryRow(at))
        BY <3>1, FilesAre DEF ListEntry, RInv, TypeOK
      <4>2. EntryRow(at) \in {EntryRow(fi) : fi \in Files}
        BY <4>1
      <4>3. QED
        BY <2>3, <4>1, <4>2
    <3>2. CASE SkipEntry \/ EndList \/ UNCHANGED vars
      BY <2>3, <3>2 DEF SkipEntry, EndList, vars
    <3>3. QED
      BY <2>1, <3>1, <3>2 DEF Show
  <2>6. QED
    BY <2>2, <2>4, <2>5 DEF Listed
<1>3. QED
  BY <1>1, <1>2

(* A row is of a sub-hunk of a text entry, which its path, where it is     *)
(* that entry's alone, leads back to.                                      *)
LEMMA RowsLeadBack ==
  ASSUME RInv, NEW fi \in Files, NEW i \in Shown(fi)
  PROVE  /\ fi \in TextFiles /\ i \in DOMAIN Subs(fi)
         /\ LET path == DisplayPath(files[fi])
            IN  path # EmptyPath /\ Owned(path) => Owner(path) = fi
<1>1. i \in DOMAIN Subs(fi)
  BY DEF Shown
<1>2. fi \in TextFiles
  BY <1>1, BinaryHasNoSubHunks DEF TextFiles, RInv
<1> DEFINE path == DisplayPath(files[fi])
<1>3. ASSUME path # EmptyPath, Owned(path) PROVE Owner(path) = fi
  <2>1. path \in Sides(files[fi]) /\ path # NoPath
    BY <1>3 DEF DisplayPath, Sides
  <2>2. fi \in Owners(path)
    BY <2>1 DEF Owners
  <2> HIDE DEF path
  <2>3. Owners(path) = {Owner(path)}
    BY <1>3, OwnerIsAFile DEF RInv
  <2>4. QED
    BY <2>2, <2>3
<1>4. QED
  BY <1>1, <1>2, <1>3

-----------------------------------------------------------------------------
(* The refinement: what is read, chosen, emitted and listed is what the     *)
(* arguments mean by themselves (ChooseSubhunks).                           *)

(* ChooseSubhunks says of a body and of an entry what the code does.       *)
LEMMA TermsAreTheSame ==
  /\ \A S : Choice!Cardinality(S) = Cardinality(S)
  /\ \A f : Choice!Sides(f) = Sides(f)
  /\ \A f, body : Choice!IdOf(f, body) = IdOf(f, body)
  /\ \A f, body : Choice!Content(f, body) = Content(f, body)
  /\ \A body : Choice!ChangedCount(body) = ChangedCount(body)
  /\ \A body, taken : Choice!LeavesContext(body, taken) <=> LeavesContext(body, taken)
<1>12. \A S : Choice!Cardinality(S) = Cardinality(S)
  BY DEF Choice!Cardinality, Cardinality
<1>1. \A body : Choice!ChangedLines(body) = ChangedLines(body)
  BY DEF Choice!ChangedLines, ChangedLines, Choice!Changes, Changes
<1>2. \A f, body : Choice!Fed(f, body) = Fed(f, body)
  BY <1>1 DEF Choice!Fed, Fed
<1>3. \A lines, kinds, from, to : Choice!CountIn(lines, kinds, from, to) = CountIn(lines, kinds, from, to)
  BY <1>12 DEF Choice!CountIn, CountIn
<1>4. \A f : Choice!Sides(f) = Sides(f)
  BY DEF Choice!Sides, Sides
<1>5. \A f, body : Choice!IdOf(f, body) = IdOf(f, body)
  BY <1>2 DEF Choice!IdOf, IdOf
<1>6. \A f, body : Choice!Content(f, body) = Content(f, body)
  BY <1>1 DEF Choice!Content, Content
<1>7. \A body : Choice!ChangedCount(body) = ChangedCount(body)
  BY <1>3 DEF Choice!ChangedCount, ChangedCount, Choice!Count, Count, Choice!Changes, Changes
<1>8. \A body, l : Choice!NumberOf(body, l) = NumberOf(body, l)
  BY <1>3 DEF Choice!NumberOf, NumberOf, Choice!Changes, Changes
<1>9. \A body, taken, l : Choice!Survives(body, taken, l) = Survives(body, taken, l)
  BY <1>8 DEF Choice!Survives, Survives
<1>10. \A body, taken : Choice!LeavesContext(body, taken) <=> LeavesContext(body, taken)
  <2> SUFFICES ASSUME NEW body, NEW taken
               PROVE  Choice!LeavesContext(body, taken) <=> LeavesContext(body, taken)
    OBVIOUS
  <2>1. \A l : Choice!IsContext(body, taken, l) = IsContext(body, taken, l)
    BY <1>8 DEF Choice!IsContext, IsContext
  <2>2. \A l : (\A k \in DOMAIN body : k > l => ~Choice!Survives(body, taken, k))
               = (\A k \in DOMAIN body : k > l => ~Survives(body, taken, k))
    BY <1>9
  <2>3. QED
    BY <2>1, <2>2 DEF Choice!LeavesContext, LeavesContext
<1>11. QED
  BY <1>4, <1>5, <1>6, <1>7, <1>10, <1>12

(* ChooseSubhunks looks at the same entries.                               *)
LEMMA ChoiceIs ==
  /\ Choice!files = files /\ Choice!Files = Files /\ Choice!TextFiles = TextFiles
  /\ Choice!Args = Args /\ (Choice!Listing <=> Listing)
  /\ \A fi : Choice!Subs(fi) = DOMAIN Subs(fi)
  /\ \A p : Choice!Sub(p) = Subs(p[1])[p[2]]
  /\ \A path : Choice!Meant(path) = Owners(path)
<1>1. Choice!files = files
  BY DEF Choice!files, files
<1>2. Choice!Files = Files
  BY <1>1 DEF Choice!Files, Files
<1>3. Choice!TextFiles = TextFiles
  BY <1>1, <1>2 DEF Choice!TextFiles, TextFiles
<1>4. Choice!Args = Args /\ (Choice!Listing <=> Listing)
  BY DEF Choice!Args, Args, Choice!Listing, Listing
<1>5. \A fi : Choice!Subs(fi) = DOMAIN Subs(fi)
  BY <1>1 DEF Choice!Subs, Subs
<1>6. \A p : Choice!Sub(p) = Subs(p[1])[p[2]]
  BY <1>1 DEF Choice!Sub, Subs
<1>7. \A path : Choice!Meant(path) = Owners(path)
  BY <1>1, <1>2, TermsAreTheSame DEF Choice!Meant, Owners
<1>8. QED
  BY <1>1, <1>2, <1>3, <1>4, <1>5, <1>6, <1>7

(* What one argument means depends on the input alone.                     *)
LEMMA MeaningStays ==
  ASSUME UNCHANGED input
  PROVE  /\ Args' = Args /\ files' = files /\ Files' = Files /\ (Listing' = Listing)
         /\ \A fi : Subs(fi)' = Subs(fi)
         /\ \A arg : /\ Choice!Reads(arg)' = Choice!Reads(arg)
                     /\ Choice!Known(arg)' = Choice!Known(arg)
                     /\ Choice!Numbers(arg)' = Choice!Numbers(arg)
                     /\ Choice!Target(arg)' = Choice!Target(arg)
                     /\ Choice!EntriesOf(arg)' = Choice!EntriesOf(arg)
                     /\ Choice!Named(arg)' = Choice!Named(arg)
                     /\ Choice!Asked(arg)' = Choice!Asked(arg)
         /\ Choice!Affordable' = Choice!Affordable /\ Choice!Understood' = Choice!Understood
<1>1. Args' = Args /\ files' = files /\ Files' = Files /\ Listing' = Listing /\ \A fi : Subs(fi)' = Subs(fi)
  BY DEF input, Args, files, Files, Listing, Subs
<1>2. \A arg : Choice!Reads(arg)' = Choice!Reads(arg)
  BY DEF input, Choice!Reads, Choice!PartReads
<1>3. \A arg : Choice!Numbers(arg)' = Choice!Numbers(arg)
  BY DEF input, Choice!Numbers, Choice!NumbersOf
<1>4. \A arg : Choice!Target(arg)' = Choice!Target(arg)
  BY DEF input, Choice!Target, Choice!Meant, Choice!files, Choice!Files
<1>5. \A arg : Choice!EntriesOf(arg)' = Choice!EntriesOf(arg)
  BY <1>4 DEF input, Choice!EntriesOf, Choice!ById, Choice!Sub, Choice!Subs, Choice!files, Choice!Files,
         Choice!TextFiles
<1>6. \A arg : Choice!Named(arg)' = Choice!Named(arg)
  BY DEF input, Choice!Named, Choice!ById, Choice!Sub, Choice!Subs, Choice!files, Choice!Files,
         Choice!TextFiles, Choice!Numbers, Choice!NumbersOf, Choice!Target, Choice!Meant
<1>7. \A arg : Choice!Known(arg)' = Choice!Known(arg)
  BY DEF input, Choice!Known, Choice!Numbers, Choice!Target, Choice!ById, Choice!SameChange, Choice!Sub,
         Choice!Subs, Choice!files, Choice!Files, Choice!TextFiles, Choice!Meant, Choice!NumbersOf, Choice!Listing
<1>8. \A arg : Choice!Asked(arg)' = Choice!Asked(arg)
  BY DEF input, Choice!Asked, Choice!NumbersOf
<1>9. Choice!Affordable' = Choice!Affordable
  BY <1>8 DEF input, Choice!Affordable, Choice!Args
<1>10. Choice!Understood' = Choice!Understood
  BY <1>2, <1>7, <1>9 DEF input, Choice!Understood, Choice!Args
<1>11. QED
  BY <1>1, <1>2, <1>3, <1>4, <1>5, <1>6, <1>7, <1>8, <1>9, <1>10

(* And so does the answer to all of them.                                 *)
LEMMA AnswerStays ==
  ASSUME UNCHANGED input
  PROVE  Choice!Answer' = Choice!Answer
  BY DEF input, Choice!Answer, Choice!Understood, Choice!Compatible, Choice!CutsFit, Choice!DeletionsStand,
         Choice!Selection, Choice!Shown, Choice!Everything, Choice!Addressed, Choice!Addressing, Choice!Refusal,
         Choice!Entries, Choice!Picks, Choice!LinesOf, Choice!Affordable, Choice!Asked, Choice!Args, Choice!Reads, Choice!Known, Choice!Numbers, Choice!Target, Choice!EntriesOf, Choice!Named,
         Choice!PartReads, Choice!ById, Choice!SameChange, Choice!Sub, Choice!Subs, Choice!files, Choice!Files,
         Choice!TextFiles, Choice!Meant, Choice!NumbersOf, Choice!Listing

(* The entry an argument is resolved to is the one it means.              *)
LEMMA OwnerIsMeant ==
  ASSUME TypeOK, NEW arg, Owned(arg.path)
  PROVE  Choice!Target(arg) = Owner(arg.path)
<1>1. Choice!Meant(arg.path) = {Owner(arg.path)}
  BY OwnerIsAFile, ChoiceIs
<1>2. QED
  BY <1>1 DEF Choice!Target

(* The id index finds what an id means,                                   *)
LEMMA ByIdIs ==
  ASSUME NEW id
  PROVE  Choice!ById(id) = Carrying(files, id)
<1>1. Choice!ById(id) = {p \in UNION {{fi} \X DOMAIN Subs(fi) : fi \in TextFiles} :
                           IdOf(files[p[1]], Subs(p[1])[p[2]]) = id}
  BY ChoiceIs, TermsAreTheSame DEF Choice!ById
<1>2. Carrying(files, id) =
        UNION {{fi} \X {si \in DOMAIN Subs(fi) : IdOf(files[fi], Subs(fi)[si]) = id} :
               fi \in TextFiles}
  BY DEF Carrying, TextFiles, Files, Subs
<1>3. \A p : p \in Choice!ById(id) <=> p \in Carrying(files, id)
  BY <1>1, <1>2
<1>4. QED
  BY <1>3

(* and a collision is seen as one.                                        *)
LEMMA SameChangeIs ==
  ASSUME NEW ps, ps # {}
  PROVE  SameContent(ps) <=> Choice!SameChange(ps)
  BY ChoiceIs, TermsAreTheSame DEF SameContent, Choice!SameChange

-----------------------------------------------------------------------------
(* Numbers.                                                                *)

(* A part lists its numbers, each once.                                    *)
LEMMA NumbersAreOfThePart ==
  ASSUME NEW p \in Part, Ordered(p)
  PROVE  /\ {NumbersIn(p)[j] : j \in DOMAIN NumbersIn(p)} = Choice!NumbersOf(p)
         /\ IsFiniteSet(Choice!NumbersOf(p)) /\ Cardinality(Choice!NumbersOf(p)) = SizeOf(p)
<1>1. p[1] \in Int /\ Len(p) \in {1, 2}
  BY DEF Part, Num
<1>2. CASE Len(p) = 2
  <2>1. p[2] \in Int /\ p[2] >= p[1]
    BY <1>2 DEF Part, Num, Ordered
  <2> DEFINE n == p[2] - p[1] + 1
  <2>2. SizeOf(p) = n /\ NumbersIn(p) = [i \in 1..n |-> p[1] + i - 1] /\ Choice!NumbersOf(p) = p[1]..p[2]
    BY <1>2 DEF SizeOf, NumbersIn, Span, Choice!NumbersOf
  <2>3. IsFiniteSet(p[1]..p[2]) /\ Cardinality(p[1]..p[2]) = n
    BY <1>1, <2>1, FS_Interval
  <2>4. ASSUME NEW k \in p[1]..p[2]
        PROVE  \E j \in DOMAIN NumbersIn(p) : NumbersIn(p)[j] = k
    <3>1. k - p[1] + 1 \in 1..n /\ p[1] + (k - p[1] + 1) - 1 = k
      BY <1>1, <2>1
    <3> HIDE DEF n
    <3>2. DOMAIN NumbersIn(p) = 1..n
      BY <2>2
    <3>3. QED
      BY <2>2, <3>1, <3>2
  <2>5. ASSUME NEW j \in DOMAIN NumbersIn(p)
        PROVE  NumbersIn(p)[j] \in p[1]..p[2]
    <3>1. n \in Int
      BY <1>1, <2>1
    <3>2. j \in 1..n /\ NumbersIn(p)[j] = p[1] + j - 1
      <4> HIDE DEF n
      <4>1. QED
        BY <2>2
    <3>3. QED
      BY <1>1, <2>1, <3>2
  <2>6. {NumbersIn(p)[j] : j \in DOMAIN NumbersIn(p)} = p[1]..p[2]
    BY <2>4, <2>5
  <2> HIDE DEF n
  <2>7. QED
    BY <2>2, <2>3, <2>6
<1>3. CASE Len(p) = 1
  <2>1. NumbersIn(p) = <<p[1]>> /\ SizeOf(p) = 1 /\ Choice!NumbersOf(p) = {p[1]}
    BY <1>3 DEF NumbersIn, SizeOf, Choice!NumbersOf
  <2>2. {NumbersIn(p)[j] : j \in DOMAIN NumbersIn(p)} = {p[1]}
    BY <2>1
  <2>3. QED
    BY <2>1, <2>2, FS_Singleton
<1>4. QED
  BY <1>1, <1>2, <1>3

(* The list holds the numbers of one part more.                           *)
LEMMA ListHolds ==
  ASSUME list \in Seq(Nat), NEW ns \in Seq(Nat), list' = list \o ns
  PROVE  {list'[j] : j \in DOMAIN list'} = {list[j] : j \in DOMAIN list} \union {ns[j] : j \in DOMAIN ns}
<1> DEFINE m == Len(list)
           n == Len(ns)
<1>1. /\ m \in Nat /\ n \in Nat /\ DOMAIN list = 1..m /\ DOMAIN ns = 1..n /\ DOMAIN list' = 1..(m + n)
      /\ \A j \in 1..(m + n) : list'[j] = IF j <= m THEN list[j] ELSE ns[j - m]
  OBVIOUS
<1> HIDE DEF m, n
<1> DEFINE c == list'
<1>2. /\ DOMAIN c = 1..(m + n)
      /\ \A j \in 1..(m + n) : c[j] = IF j <= m THEN list[j] ELSE ns[j - m]
  BY <1>1
<1> HIDE DEF c
<1>3. ASSUME NEW j \in DOMAIN list PROVE \E k \in DOMAIN c : c[k] = list[j]
  BY <1>1, <1>2
<1>4. ASSUME NEW j \in DOMAIN ns PROVE \E k \in DOMAIN c : c[k] = ns[j]
  <2>1. j \in 1..n /\ j + m \in 1..(m + n) /\ ~(j + m <= m) /\ (j + m) - m = j
    BY <1>1
  <2>2. j + m \in DOMAIN c /\ c[j + m] = ns[j]
    BY <1>2, <2>1
  <2>3. QED
    BY <2>2
<1>5. ASSUME NEW k \in DOMAIN c
      PROVE  (\E j \in DOMAIN list : c[k] = list[j]) \/ (\E j \in DOMAIN ns : c[k] = ns[j])
  <2>1. CASE k <= m
    BY <1>1, <1>2, <2>1
  <2>2. CASE k > m
    <3>1. k - m \in DOMAIN ns /\ c[k] = ns[k - m]
      BY <1>1, <1>2, <2>2
    <3>2. QED
      BY <3>1
  <2>3. QED
    BY <1>1, <1>2, <2>1, <2>2
<1>6. {c[j] : j \in DOMAIN c} = {list[j] : j \in DOMAIN list} \union {ns[j] : j \in DOMAIN ns}
  BY <1>3, <1>4, <1>5
<1>7. QED
  BY <1>6 DEF c

LEMMA SecondsAre ==
  ASSUME NEW a, NEW S
  PROVE  {n[2] : n \in {a} \X S} = S
<1>1. \A k \in S : <<a, k>> \in {a} \X S /\ <<a, k>>[2] = k
  OBVIOUS
<1>2. \A n \in {a} \X S : n[2] \in S
  OBVIOUS
<1>3. \A k \in S : k \in {n[2] : n \in {a} \X S}
  BY <1>1
<1>4. QED
  BY <1>2, <1>3

LEMMA FiniteFamily ==
  ASSUME NEW n \in Nat, NEW F, \A i \in 1..n : IsFiniteSet(F[i])
  PROVE  IsFiniteSet(UNION {F[i] : i \in 1..n})
<1> DEFINE S == {F[i] : i \in 1..n}
           f == [i \in 1..n |-> F[i]]
<1>1. f \in Surjection(1..n, S)
  BY DEF Surjection
<1>2. IsFiniteSet(1..n)
  <2>1. 1 \in Int /\ n \in Int
    OBVIOUS
  <2> HIDE DEF S, f
  <2>2. QED
    BY <2>1, FS_Interval
<1>3. IsFiniteSet(S)
  <2> HIDE DEF S, f
  <2>1. QED
    BY <1>1, <1>2, FS_Surjection
<1>4. QED
  BY <1>3, FS_UNION

(* What is asked for can be counted, be it read or not.                    *)
LEMMA AskedAreFinite ==
  ASSUME NEW arg \in Argument
  PROVE  IsFiniteSet(Choice!Asked(arg))
<1> DEFINE n == Len(arg.parts)
           F == [j \in 1..n |-> {j} \X Choice!NumbersOf(arg.parts[j])]
<1>1. arg.parts \in Seq(Part) /\ n \in Nat /\ DOMAIN arg.parts = 1..n
  BY DEF Argument
<1>2. ASSUME NEW j \in 1..n
      PROVE  IsFiniteSet(F[j])
  <2>1. arg.parts[j] \in Part
    BY <1>1
  <2>2. IsFiniteSet(Choice!NumbersOf(arg.parts[j]))
    <3> DEFINE p == arg.parts[j]
    <3>1. p[1] \in Int /\ (Len(p) # 1 => p[2] \in Int)
      BY <2>1 DEF Part, Num
    <3>2. IsFiniteSet({p[1]}) /\ (Len(p) # 1 => IsFiniteSet(p[1]..p[2]))
      <4> HIDE DEF p
      <4>1. QED
        BY <3>1, FS_Singleton, FS_Interval
    <3>3. QED
      BY <3>2 DEF Choice!NumbersOf
  <2>3. IsFiniteSet({j} \X Choice!NumbersOf(arg.parts[j]))
    BY <2>2, FS_Singleton, FS_Product
  <2>4. QED
    BY <2>3
<1>3. IsFiniteSet(UNION {F[j] : j \in 1..n})
  <2> HIDE DEF F, n
  <2>1. QED
    BY <1>1, <1>2, FiniteFamily
<1>4. UNION {F[j] : j \in 1..n} = UNION {{j} \X Choice!NumbersOf(arg.parts[j]) : j \in DOMAIN arg.parts}
  BY <1>1
<1>5. QED
  BY <1>3, <1>4, FS_EmptySet DEF Choice!Asked

AllAsked == UNION {{i} \X Choice!Asked(Args[i]) : i \in DOMAIN Args}

(* The allowance is measured against all that is asked for.               *)
LEMMA AffordableIs == Choice!Affordable <=> Cardinality(AllAsked) <= MaxIndices
<1>1. Choice!Affordable <=> Choice!Cardinality(AllAsked) <= MaxIndices
  BY ChoiceIs DEF Choice!Affordable, AllAsked
<1>2. QED
  BY <1>1, TermsAreTheSame

LEMMA AllAskedAreFinite ==
  ASSUME TypeOK
  PROVE  IsFiniteSet(AllAsked)
<1> DEFINE n == Len(Args)
           F == [i \in 1..n |-> {i} \X Choice!Asked(Args[i])]
<1>1. Args \in Seq(Argument) /\ n \in Nat /\ DOMAIN Args = 1..n
  BY DEF TypeOK, Request, Args
<1>2. ASSUME NEW i \in 1..n
      PROVE  IsFiniteSet(F[i])
  <2>1. IsFiniteSet(Choice!Asked(Args[i]))
    BY <1>1, AskedAreFinite
  <2>2. IsFiniteSet({i} \X Choice!Asked(Args[i]))
    BY <2>1, FS_Singleton, FS_Product
  <2>3. QED
    BY <2>2
<1>3. IsFiniteSet(UNION {F[i] : i \in 1..n})
  <2> HIDE DEF F, n
  <2>1. QED
    BY <1>1, <1>2, FiniteFamily
<1>4. UNION {F[i] : i \in 1..n} = AllAsked
  BY <1>1 DEF AllAsked
<1>5. QED
  BY <1>3, <1>4

-----------------------------------------------------------------------------
(* Refusals.                                                               *)

(* A refusal that is meant leaves nothing else to be shown.                *)
LEMMA RefusalIsMeant ==
  ASSUME ReadAsSaid, Choice!Answer = Choice!Refusal, NEW error, Refuse(error)
  PROVE  Meant'
<1>1. phase' = "refused" /\ UNCHANGED input /\ sels' = sels
  BY DEF Refuse, parsing
<1>2. ReadAsSaid'
  BY <1>1, MeaningStays DEF ReadAsSaid, AsSaid
<1>3. Choice!Answer' = Choice!Refusal'
  BY <1>1, AnswerStays DEF Choice!Refusal
<1>4. QED
  BY <1>1, <1>2, <1>3 DEF Meant, Charged, ResolvedAsMeant, EmittedAsMeant, ListedAsMeant, AnsweredAsMeant

(* What is not understood is refused, in whichever of its arguments.       *)
LEMMA NotUnderstood ==
  ASSUME TypeOK, request.command # "split", Args # <<>>, ~Choice!Understood
  PROVE  Choice!Answer = Choice!Refusal
<1>1. request.command \in {"select", "list"}
  BY DEF TypeOK, Request, Commands
<1>2. QED
  BY <1>1, ChoiceIs DEF Choice!Answer

(* One argument that cannot be read or is not known is reason enough.     *)
LEMMA OneIsEnough ==
  ASSUME TypeOK, request.command # "split", NEW i \in DOMAIN Args,
         ~Choice!Reads(Args[i]) \/ ~Choice!Known(Args[i])
  PROVE  Choice!Answer = Choice!Refusal
<1>1. ~Choice!Understood /\ Args # <<>>
  BY ChoiceIs DEF Choice!Understood
<1>2. QED
  BY <1>1, NotUnderstood

-----------------------------------------------------------------------------
(* Reading.                                                                *)

(* The cuts stand as long as they and the input do.                       *)
LEMMA CutsStay ==
  ASSUME UNCHANGED <<input, cuts>>, NEW is, CutsAsMeant(is)
  PROVE  CutsAsMeant(is)'
<1>1. /\ Args' = Args /\ Files' = Files /\ cuts' = cuts
      /\ \A arg : Choice!Target(arg)' = Choice!Target(arg)
  BY MeaningStays
<1>2. \A fi, c, i : CutBy(fi, c, i)' = CutBy(fi, c, i)
  BY <1>1, MeaningStays DEF CutBy
<1>3. \A i, j : SameCut(i, j)' = SameCut(i, j)
  BY <1>1 DEF SameCut
<1> DEFINE T(i) == Choice!Target(Args[i])
<1>4. \A i : T(i)' = T(i)
  BY <1>1
<1>5. (\A i \in is : Args[i].form = "cut" => \E c \in DOMAIN cuts[T(i)] : CutBy(T(i), c, i))'
  <2>1. \A i \in is : Args[i].form = "cut" => \E c \in DOMAIN cuts[T(i)] : CutBy(T(i), c, i)
    BY DEF CutsAsMeant
  <2> HIDE DEF T
  <2>2. QED
    BY <1>1, <1>2, <1>4, <2>1
<1>6. (\A fi \in Files : \A c \in DOMAIN cuts[fi] : \E i \in is : CutBy(fi, c, i))'
  BY <1>1, <1>2 DEF CutsAsMeant
<1>7. (\A fi \in Files : \A c, d \in DOMAIN cuts[fi] :
         c # d /\ cuts[fi][c].index = cuts[fi][d].index =>
           \E i, j \in is : i # j /\ SameCut(i, j) /\ CutBy(fi, c, i))'
  BY <1>1, <1>2, <1>3 DEF CutsAsMeant
<1>8. (\A i, j \in is : i # j /\ SameCut(i, j) =>
         \E c, d \in DOMAIN cuts[T(i)] :
           c # d /\ cuts[T(i)][c].index = Args[i].index /\ cuts[T(i)][d].index = Args[i].index)'
  <2>1. \A i, j \in is : i # j /\ SameCut(i, j) =>
          \E c, d \in DOMAIN cuts[T(i)] :
            c # d /\ cuts[T(i)][c].index = Args[i].index /\ cuts[T(i)][d].index = Args[i].index
    BY DEF CutsAsMeant
  <2> HIDE DEF T
  <2>2. QED
    BY <1>1, <1>3, <1>4, <2>1
<1>9. QED
  BY <1>5, <1>6, <1>7, <1>8 DEF CutsAsMeant

(* What stands for a set of arguments goes on standing for it.             *)
LEMMA ChosenStays ==
  ASSUME UNCHANGED <<input, named, whole, cuts>>, NEW is, ChosenAsMeant(is)
  PROVE  ChosenAsMeant(is)'
<1>1. CutsAsMeant(is)'
  BY CutsStay DEF ChosenAsMeant
<1>2. QED
  BY <1>1, MeaningStays DEF ChosenAsMeant

(* A selector read has asked for what its argument asks.                  *)
LEMMA AskedGoesOn ==
  ASSUME sels \in Seq(Selector), at = Len(sels) + 1, NEW s, Takes(s), phase' = "parse", UNCHANGED input,
         Choice!Asked(Arg) = (IF phase = "set" THEN ListedSoFar ELSE {})
  PROVE  AskedSoFar' = AskedSoFar
<1> DEFINE n == Len(sels)
           E(i) == {i} \X Choice!Asked(Args[i])
<1>1. n \in Nat /\ DOMAIN sels = 1..n /\ DOMAIN sels' = 1..(n + 1)
  BY DEF Takes
<1>2. E(n + 1) = IF phase = "set" THEN {at} \X ListedSoFar ELSE {}
  BY DEF Args, Arg
<1>3. \A i : E(i)' = E(i)
  BY MeaningStays
<1> HIDE DEF E
<1>4. AskedSoFar = (UNION {E(i) : i \in 1..n}) \union E(n + 1)
  <2>1. UNION {E(i) : i \in 1..n} = AskedBefore
    BY <1>1 DEF E, AskedBefore
  <2>2. E(n + 1) = AskedNow
    BY <1>2 DEF AskedNow
  <2>3. QED
    BY <2>1, <2>2 DEF AskedSoFar
<1>5. AskedSoFar' = UNION {E(i) : i \in 1..(n + 1)}
  <2>1. AskedSoFar' = UNION {E(i)' : i \in DOMAIN sels'}
    BY DEF AskedSoFar, AskedBefore, AskedNow, E
  <2>2. QED
    BY <1>1, <1>3, <2>1
<1>6. \A i : i \in 1..(n + 1) <=> i \in 1..n \/ i = n + 1
  BY <1>1
<1>7. \A x : x \in AskedSoFar' <=> x \in AskedSoFar
  BY <1>4, <1>5, <1>6
<1>8. QED
  BY <1>7

(* One selector more, which says what its argument does.                   *)
LEMMA TakesIsMeant ==
  ASSUME RInv, Traced, Meant, phase \in {"parse", "set"}, at <= Len(request.args),
         NEW s, Takes(s), AsSaid(s, Arg), phase' = "parse", part' = 1, left' = left,
         Choice!Asked(Arg) = (IF phase = "set" THEN ListedSoFar ELSE {}),
         UNCHANGED <<input, resolving>>
  PROVE  Meant'
<1>1. sels \in Seq(Selector) /\ at = Len(sels) + 1
  BY DEF RInv, TypeOK, Traced, ArgumentsRead
<1>2. AskedSoFar' = AskedSoFar
  BY <1>1, AskedGoesOn
<1>3. Charged'
  BY <1>2, MeaningStays DEF Meant, Charged
<1>4. ReadAsSaid'
  <2>1. ASSUME NEW i \in DOMAIN sels' PROVE AsSaid(sels'[i], Args[i])
    <3>1. CASE i \in DOMAIN sels
      BY <1>1, <3>1 DEF Takes, Meant, ReadAsSaid
    <3>2. CASE i = Len(sels) + 1
      BY <1>1, <3>2 DEF Takes, Args, Arg
    <3>3. QED
      BY <1>1, <3>1, <3>2 DEF Takes
  <2>2. QED
    BY <2>1, MeaningStays DEF ReadAsSaid, AsSaid
<1>5. ResolvedAsMeant'
  <2>1. ChosenAsMeant({})'
    BY ChosenStays DEF Meant, ResolvedAsMeant, resolving
  <2>2. QED
    BY <2>1 DEF Meant, ResolvedAsMeant, resolving
<1>6. QED
  BY <1>3, <1>4, <1>5 DEF Meant, EmittedAsMeant, ListedAsMeant, AnsweredAsMeant

(* The part being read adds its numbers to those listed.                   *)
NewlyListed == {part} \X Choice!NumbersOf(Arg.parts[part])

(* A part read is asked for.                                              *)
LEMMA ListedGoesOn ==
  ASSUME RInv, phase = "set", part' = part + 1, UNCHANGED <<input, at>>
  PROVE  ListedSoFar' = ListedSoFar \union NewlyListed
<1> DEFINE E(j) == {j} \X Choice!NumbersOf(Arg.parts[j])
<1>1. part \in Nat \ {0}
  BY DEF RInv, TypeOK
<1>2. \A j : E(j)' = E(j)
  BY DEF Arg, input, Choice!NumbersOf
<1>3. \A j : j \in Before(part)' <=> j \in Before(part) \/ j = part
  BY <1>1 DEF Before
<1>4. ListedSoFar = UNION {E(j) : j \in Before(part)} /\ NewlyListed = E(part)
  BY DEF ListedSoFar, NewlyListed
<1>5. ListedSoFar' = UNION {E(j)' : j \in Before(part)'}
  BY DEF ListedSoFar
<1> HIDE DEF E
<1>6. ListedSoFar' = UNION {E(j) : j \in Before(part)'}
  BY <1>2, <1>5
<1>7. QED
  BY <1>3, <1>4, <1>6

(* What is asked for grows by what the part is charged.                    *)
LEMMA PartIsAsked ==
  ASSUME RInv, Traced, Meant, ReadingSet, Ordered(Arg.parts[part])
  PROVE  LET New == {at} \X NewlyListed
         IN  /\ IsFiniteSet(AskedSoFar \union New)
             /\ Cardinality(AskedSoFar \union New) = Cardinality(AskedSoFar) + SizeOf(Arg.parts[part])
             /\ Cardinality(AskedSoFar) \in Nat /\ Cardinality(AskedSoFar) + left = MaxIndices
<1> DEFINE p == Arg.parts[part]
           New == {at} \X NewlyListed
<1>1. p \in Part /\ phase = "set" /\ part \in Nat \ {0} /\ at = Len(sels) + 1 /\ sels \in Seq(Selector)
  BY PartIs DEF ReadingSet, RInv, TypeOK, Traced, ArgumentsRead
<1>2. IsFiniteSet(AskedSoFar) /\ Cardinality(AskedSoFar) + left = MaxIndices /\ Cardinality(AskedSoFar) \in Nat
  BY <1>1, FS_CardinalityType DEF Meant, Charged
<1>3. IsFiniteSet(Choice!NumbersOf(p)) /\ Cardinality(Choice!NumbersOf(p)) = SizeOf(p)
  BY <1>1, NumbersAreOfThePart
<1>4. SizeOf(p) \in Nat
  BY <1>1, PartsAreCharged
<1>5. IsFiniteSet(NewlyListed) /\ Cardinality(NewlyListed) = SizeOf(p)
  <2>1. IsFiniteSet({part}) /\ Cardinality({part}) = 1
    BY FS_Singleton
  <2>2. IsFiniteSet({part} \X Choice!NumbersOf(p))
        /\ Cardinality({part} \X Choice!NumbersOf(p)) = Cardinality({part}) * Cardinality(Choice!NumbersOf(p))
    BY <1>3, <2>1, FS_Product
  <2>3. QED
    BY <1>3, <1>4, <2>1, <2>2 DEF NewlyListed
<1>6. IsFiniteSet(New) /\ Cardinality(New) = SizeOf(p)
  <2>1. IsFiniteSet({at}) /\ Cardinality({at}) = 1
    BY FS_Singleton
  <2>2. IsFiniteSet({at} \X NewlyListed)
        /\ Cardinality({at} \X NewlyListed) = Cardinality({at}) * Cardinality(NewlyListed)
    BY <1>5, <2>1, FS_Product
  <2>3. QED
    BY <1>5, <1>4, <2>1, <2>2
<1>7. AskedSoFar \intersect New = {}
  <2>1. ASSUME NEW x \in AskedBefore, x \in New PROVE FALSE
    <3>1. x[1] \in 1..Len(sels) /\ Len(sels) \in Nat
      BY <1>1, <2>1 DEF AskedBefore
    <3>2. x[1] = Len(sels) + 1
      BY <1>1, <2>1
    <3>3. QED
      BY <3>1, <3>2
  <2>2. ASSUME NEW x \in AskedNow, x \in New PROVE FALSE
    <3>1. x[2] \in ListedSoFar
      BY <1>1, <2>2 DEF AskedNow
    <3>2. x[2][1] \in Before(part)
      BY <3>1 DEF ListedSoFar
    <3>3. x[2][1] = part
      BY <2>2 DEF NewlyListed
    <3>4. QED
      BY <1>1, <3>2, <3>3 DEF Before
  <2>3. QED
    BY <2>1, <2>2 DEF AskedSoFar
<1> HIDE DEF p, New
<1>8. /\ IsFiniteSet(AskedSoFar \union New)
      /\ Cardinality(AskedSoFar \union New)
           = Cardinality(AskedSoFar) + Cardinality(New) - Cardinality(AskedSoFar \intersect New)
  BY <1>2, <1>6, FS_Union
<1>9. Cardinality(AskedSoFar \intersect New) = 0
  BY <1>7, FS_EmptySet
<1>10. QED
  BY <1>2, <1>4, <1>6, <1>8, <1>9 DEF p, New

(* A part is taken as it is meant.                                        *)
LEMMA TakePartIsMeant ==
  ASSUME RInv, Traced, Meant, TakePart
  PROVE  Meant'
<1> DEFINE p == Arg.parts[part]
           New == {at} \X NewlyListed
<1>1. /\ ReadingSet /\ phase = "set" /\ phase' = "set" /\ Ordered(p) /\ left' = left - SizeOf(p)
      /\ part' = part + 1 /\ list' = list \o NumbersIn(p)
      /\ UNCHANGED <<input, at, sels, named, whole, cuts, resolved>>
  BY DEF TakePart, ReadingSet, resolving
<1>2. p \in Part /\ part \in DOMAIN Arg.parts /\ part \in Nat \ {0} /\ part <= Len(Arg.parts)
  BY <1>1, PartIs DEF RInv, TypeOK, ReadingSet
<1>3. ListedSoFar' = ListedSoFar \union NewlyListed
  BY <1>1, ListedGoesOn
<1>4. AskedSoFar' = AskedSoFar \union New
  <2>1. AskedBefore' = AskedBefore
    BY <1>1, MeaningStays DEF AskedBefore
  <2>2. AskedNow' = AskedNow \union New
    BY <1>1, <1>3 DEF AskedNow
  <2>3. QED
    BY <2>1, <2>2 DEF AskedSoFar
<1>5. Charged'
  <2>1. left \in Nat /\ SizeOf(p) \in Nat /\ MaxIndices \in Nat
    BY <1>1, <1>2, PartsAreCharged, SelectorsAssumption DEF RInv, TypeOK
  <2>2. IsFiniteSet(AskedSoFar') /\ Cardinality(AskedSoFar') + left' = MaxIndices
    <3>1. /\ IsFiniteSet(AskedSoFar')
          /\ Cardinality(AskedSoFar') = Cardinality(AskedSoFar) + SizeOf(p)
          /\ Cardinality(AskedSoFar) \in Nat /\ Cardinality(AskedSoFar) + left = MaxIndices
      BY <1>1, <1>4, PartIsAsked
    <3>2. QED
      BY <1>1, <2>1, <3>1
  <2>3. QED
    BY <1>1, <2>2, MeaningStays DEF Meant, Charged
<1>6. ReadAsSaid'
  <2>1. (\A i \in DOMAIN sels : AsSaid(sels[i], Args[i]))'
    BY <1>1, MeaningStays DEF Meant, ReadAsSaid, AsSaid
  <2>2. Arg' = Arg /\ (part <= Len(Arg.parts) + 1)'
    BY <1>1, <1>2 DEF Arg, input
  <2>3. (\A j \in Before(part) : Choice!PartReads(Arg.parts[j]))'
    <3>1. \A j : j \in Before(part)' <=> j \in Before(part) \/ j = part
      BY <1>1, <1>2 DEF Before
    <3>2. Choice!PartReads(p)
      BY <1>1 DEF Ordered, Choice!PartReads
    <3>3. \A j \in Before(part) : Choice!PartReads(Arg.parts[j])
      BY <1>1 DEF Meant, ReadAsSaid
    <3>4. \A q : Choice!PartReads(q)' = Choice!PartReads(q)
      BY DEF Choice!PartReads
    <3>5. QED
      BY <2>2, <3>1, <3>2, <3>3, <3>4
  <2>4. {list'[j] : j \in DOMAIN list'} = {n[2] : n \in ListedSoFar'}
    <3> DEFINE ns == NumbersIn(p)
    <3>1. {ns[j] : j \in DOMAIN ns} = Choice!NumbersOf(p) /\ ns \in Seq(Nat)
      BY <1>1, <1>2, NumbersAreOfThePart, PartsAreCharged
    <3>2. {n[2] : n \in NewlyListed} = Choice!NumbersOf(p)
      BY SecondsAre DEF NewlyListed
    <3>3. {list[j] : j \in DOMAIN list} = {n[2] : n \in ListedSoFar} /\ list \in Seq(Nat)
      BY <1>1 DEF Meant, ReadAsSaid, RInv, TypeOK
    <3>4. list' = list \o ns
      BY <1>1
    <3> HIDE DEF p, ns
    <3>5. {list'[j] : j \in DOMAIN list'} = {list[j] : j \in DOMAIN list} \union {ns[j] : j \in DOMAIN ns}
      BY <3>1, <3>3, <3>4, ListHolds
    <3>6. {n[2] : n \in ListedSoFar'} = {n[2] : n \in ListedSoFar} \union {n[2] : n \in NewlyListed}
      BY <1>3
    <3>7. QED
      BY <3>1, <3>2, <3>3, <3>5, <3>6
  <2>5. QED
    BY <1>1, <2>1, <2>2, <2>3, <2>4 DEF ReadAsSaid
<1>7. ResolvedAsMeant'
  <2>1. ChosenAsMeant({})'
    BY <1>1, ChosenStays DEF Meant, ResolvedAsMeant
  <2>2. QED
    BY <1>1, <2>1 DEF Meant, ResolvedAsMeant
<1>8. QED
  BY <1>1, <1>5, <1>6, <1>7 DEF Meant, EmittedAsMeant, ListedAsMeant, AnsweredAsMeant

(* The argument a set is read of, and its parts.                           *)
LEMMA SetIs ==
  ASSUME RInv, phase = "set"
  PROVE  /\ at \in DOMAIN Args /\ Arg = Args[at] /\ HasSet(Arg)
         /\ Arg.parts \in Seq(Part) /\ DOMAIN Arg.parts = 1..Len(Arg.parts) /\ Len(Arg.parts) \in Nat
<1>1. at <= Len(request.args) /\ HasSet(Arg) /\ request.args \in Seq(Argument) /\ at \in Nat \ {0}
  BY DEF RInv, NumbersFromOne, TypeOK, Request
<1>2. at \in DOMAIN Args /\ Arg = Args[at] /\ Arg \in Argument
  BY <1>1 DEF Args, Arg
<1>3. Arg.parts \in Seq(Part)
  BY <1>2 DEF Argument
<1>4. QED
  BY <1>1, <1>2, <1>3

(* A set that has ended is the set of its argument.                       *)
LEMMA CloseSetIsMeant ==
  ASSUME RInv, Traced, Meant, CloseSet
  PROVE  Meant'
<1> DEFINE s == [path |-> Arg.path, form |-> Arg.form, indices |-> list, id |-> Arg.id,
                 index |-> IF Arg.form = "cut" THEN Arg.index ELSE 0]
<1>1. /\ phase = "set" /\ phase' = "parse" /\ part > Len(Arg.parts) /\ Takes(s)
      /\ part' = 1 /\ left' = left /\ UNCHANGED <<input, resolving>>
  BY DEF CloseSet
<1>2. /\ HasSet(Arg) /\ DOMAIN Arg.parts = 1..Len(Arg.parts) /\ Len(Arg.parts) \in Nat
      /\ at <= Len(request.args)
  BY <1>1, SetIs DEF RInv, NumbersFromOne
<1>3. Before(part) = DOMAIN Arg.parts
  <2>1. part = Len(Arg.parts) + 1
    BY <1>1, <1>2 DEF RInv, TypeOK, Meant, ReadAsSaid
  <2>2. QED
    BY <1>2, <2>1 DEF Before
<1>4. Choice!Asked(Arg) = ListedSoFar
  BY <1>2, <1>3 DEF HasSet, Choice!Asked, ListedSoFar
<1>5. {n[2] : n \in ListedSoFar} = Choice!Numbers(Arg)
  <2>1. ASSUME NEW n \in ListedSoFar PROVE n[2] \in Choice!Numbers(Arg)
    BY <1>3 DEF ListedSoFar, Choice!Numbers
  <2>2. ASSUME NEW k \in Choice!Numbers(Arg) PROVE \E n \in ListedSoFar : n[2] = k
    <3>1. PICK j \in DOMAIN Arg.parts : k \in Choice!NumbersOf(Arg.parts[j])
      BY DEF Choice!Numbers
    <3>2. <<j, k>> \in ListedSoFar
      BY <1>3, <3>1 DEF ListedSoFar
    <3>3. QED
      BY <3>2
  <2>3. QED
    BY <2>1, <2>2
<1>6. AsSaid(s, Arg)
  <2>1. Choice!Reads(Arg)
    BY <1>1, <1>2, <1>3 DEF HasSet, Choice!Reads, Meant, ReadAsSaid
  <2>2. {list[j] : j \in DOMAIN list} = Choice!Numbers(Arg)
    BY <1>1, <1>5 DEF Meant, ReadAsSaid
  <2>3. QED
    BY <2>1, <2>2 DEF AsSaid
<1> HIDE DEF s
<1>7. QED
  BY <1>1, <1>2, <1>4, <1>6, TakesIsMeant

(* A part beyond the allowance makes the request one that is.              *)
LEMMA TooMuchIsAsked ==
  ASSUME RInv, Traced, Meant, ReadingSet, Ordered(Arg.parts[part]), SizeOf(Arg.parts[part]) > left
  PROVE  ~Choice!Affordable
<1> DEFINE New == {at} \X NewlyListed
<1>1. /\ at \in DOMAIN Args /\ Arg = Args[at] /\ Arg.form \in {"list", "cut"}
      /\ DOMAIN Arg.parts = 1..Len(Arg.parts) /\ Len(Arg.parts) \in Nat
  BY SetIs DEF ReadingSet, HasSet
<1>2. part \in DOMAIN Arg.parts /\ Arg.parts[part] \in Part
  BY PartIs
<1>3. Choice!Asked(Arg) = UNION {{j} \X Choice!NumbersOf(Arg.parts[j]) : j \in DOMAIN Arg.parts}
  BY <1>1 DEF Choice!Asked
<1>4. ListedSoFar \subseteq Choice!Asked(Arg) /\ NewlyListed \subseteq Choice!Asked(Arg)
  <2>1. Before(part) \subseteq DOMAIN Arg.parts
    BY <1>1, <1>2 DEF Before
  <2>2. ListedSoFar \subseteq Choice!Asked(Arg)
    BY <1>3, <2>1 DEF ListedSoFar
  <2>3. NewlyListed \subseteq Choice!Asked(Arg)
    BY <1>2, <1>3 DEF NewlyListed
  <2>4. QED
    BY <2>2, <2>3
<1>5. AskedSoFar \union New \subseteq AllAsked
  <2>1. AskedBefore \subseteq AllAsked
    <3>1. DOMAIN sels \subseteq DOMAIN Args
      BY DEF RInv, TypeOK, Request, Traced, ArgumentsRead, Args
    <3>2. QED
      BY <3>1 DEF AskedBefore, AllAsked
  <2>2. {at} \X Choice!Asked(Arg) \subseteq AllAsked
    BY <1>1 DEF AllAsked
  <2>3. AskedNow \subseteq {at} \X Choice!Asked(Arg) /\ New \subseteq {at} \X Choice!Asked(Arg)
    BY <1>4 DEF AskedNow
  <2>4. QED
    BY <2>1, <2>2, <2>3 DEF AskedSoFar
<1>6. /\ Cardinality(AskedSoFar \union New) = Cardinality(AskedSoFar) + SizeOf(Arg.parts[part])
      /\ Cardinality(AskedSoFar) \in Nat /\ Cardinality(AskedSoFar) + left = MaxIndices
  BY PartIsAsked
<1> HIDE DEF New
<1>7. Cardinality(AskedSoFar \union New) <= Cardinality(AllAsked) /\ Cardinality(AllAsked) \in Nat
  BY <1>5, AllAskedAreFinite, FS_Subset, FS_CardinalityType DEF RInv
<1>8. Cardinality(AllAsked) > MaxIndices
  <2>1. left \in Nat /\ MaxIndices \in Nat /\ SizeOf(Arg.parts[part]) \in Nat
    BY <1>2, PartsAreCharged, SelectorsAssumption DEF RInv, TypeOK
  <2>2. QED
    BY <1>6, <1>7, <2>1
<1>9. QED
  BY <1>7, <1>8, AffordableIs, SelectorsAssumption

(* Parsing reads what the arguments mean.                                 *)
LEMMA ParseKeepsMeant ==
  ASSUME RInv, Traced, Meant, Parse
  PROVE  Meant'
<1>1. TypeOK /\ NumbersFromOne /\ NoPath # EmptyPath
  BY SelectorsAssumption DEF RInv
<1>2. phase \in {"parse", "set"} => request.command # "split"
  BY DEF Traced
<1>3. Parsing => at \in DOMAIN Args /\ Arg = Args[at] /\ Arg \in Argument
  BY <1>1 DEF Parsing, TypeOK, Request, Args, Arg
<1>4. CASE ReadStar
  <2> DEFINE s == [path |-> Arg.path, form |-> "*", index |-> 0, indices |-> <<>>, id |-> Arg.id]
  <2>1. /\ phase = "parse" /\ phase' = "parse" /\ at <= Len(request.args) /\ Takes(s)
        /\ part' = part /\ left' = left /\ UNCHANGED <<input, resolving>>
        /\ Arg.form = "*" /\ Arg.path # EmptyPath
    BY <1>4 DEF ReadStar, Parsing
  <2>2. AsSaid(s, Arg) /\ Choice!Asked(Arg) = {}
    BY <2>1 DEF AsSaid, Choice!Reads, Choice!Asked
  <2>3. part' = 1
    BY <2>1 DEF Meant, ReadAsSaid
  <2> HIDE DEF s
  <2>4. QED
    BY <2>1, <2>2, <2>3, TakesIsMeant
<1>5. CASE ReadId
  <2> DEFINE s == [path |-> NoPath, form |-> "id", index |-> 0, indices |-> <<>>, id |-> Arg.id]
  <2>1. /\ phase = "parse" /\ phase' = "parse" /\ at <= Len(request.args) /\ Takes(s)
        /\ part' = part /\ left' = left /\ UNCHANGED <<input, resolving>>
        /\ Arg.form = "id" /\ Arg.path = NoPath
    BY <1>5 DEF ReadId, Parsing
  <2>2. AsSaid(s, Arg) /\ Choice!Asked(Arg) = {}
    BY <1>1, <2>1 DEF AsSaid, Choice!Reads, Choice!Asked
  <2>3. part' = 1
    BY <2>1 DEF Meant, ReadAsSaid
  <2> HIDE DEF s
  <2>4. QED
    BY <2>1, <2>2, <2>3, TakesIsMeant
<1>6. CASE OpenSet
  <2>1. /\ phase = "parse" /\ phase' = "set" /\ Parsing /\ part = 1 /\ part' = 1 /\ list = <<>> /\ list' = <<>>
        /\ UNCHANGED <<input, at, left, sels, named, whole, cuts, resolved>>
    BY <1>6 DEF OpenSet, Parsing, parsing, resolving, Meant, ReadAsSaid, Traced, ArgumentsRead
  <2>2. Before(part)' = {}
    BY <2>1 DEF Before
  <2>3. ListedSoFar' = {}
    BY <2>2 DEF ListedSoFar
  <2>4. Charged'
    <3>1. AskedBefore' = AskedBefore
      BY <2>1, MeaningStays DEF AskedBefore
    <3>2. AskedNow' = {} /\ AskedNow = {}
      BY <2>1, <2>3 DEF AskedNow
    <3>3. AskedSoFar' = AskedSoFar
      BY <3>1, <3>2 DEF AskedSoFar
    <3>4. QED
      BY <2>1, <3>3, MeaningStays DEF Meant, Charged
  <2>5. ReadAsSaid'
    <3>1. (\A i \in DOMAIN sels : AsSaid(sels[i], Args[i]))'
      BY <2>1, MeaningStays DEF Meant, ReadAsSaid, AsSaid
    <3>2. (part <= Len(Arg.parts) + 1)'
      <4>1. Arg.parts \in Seq(Part) /\ Arg' = Arg
        BY <1>3, <2>1 DEF Argument, Arg, input
      <4>2. QED
        BY <2>1, <4>1
    <3>3. {list'[j] : j \in DOMAIN list'} = {n[2] : n \in ListedSoFar'}
      BY <2>1, <2>3
    <3>4. QED
      BY <2>1, <2>2, <3>1, <3>2, <3>3 DEF ReadAsSaid
  <2>6. ResolvedAsMeant'
    <3>1. ChosenAsMeant({})'
      BY <2>1, ChosenStays DEF Meant, ResolvedAsMeant
    <3>2. QED
      BY <2>1, <3>1 DEF Meant, ResolvedAsMeant
  <2>7. QED
    BY <2>1, <2>4, <2>5, <2>6 DEF Meant, EmittedAsMeant, ListedAsMeant, AnsweredAsMeant
<1>7. CASE RefuseArg
  <2>1. ~Choice!Reads(Arg)
    BY <1>7 DEF RefuseArg, HasSet, Choice!Reads
  <2>2. Choice!Answer = Choice!Refusal
    BY <1>1, <1>2, <1>3, <1>7, <2>1, OneIsEnough DEF RefuseArg, Parsing
  <2>3. QED
    BY <1>7, <2>2, RefusalIsMeant DEF RefuseArg, Meant
<1>8. CASE TakePart
  BY <1>8, TakePartIsMeant
<1>9. CASE RefusePart
  <2>1. phase = "set" /\ ReadingSet /\ part \in DOMAIN Arg.parts
    BY <1>9, PartIs DEF RefusePart, ReadingSet
  <2>2. at \in DOMAIN Args /\ Arg = Args[at] /\ Arg.form \in {"list", "cut"}
    BY <2>1, SetIs DEF HasSet
  <2>3. ASSUME ~Ordered(Arg.parts[part]) PROVE Choice!Answer = Choice!Refusal
    <3>1. ~Choice!Reads(Arg)
      BY <2>1, <2>2, <2>3 DEF Choice!Reads, Choice!PartReads, Ordered
    <3>2. QED
      BY <1>1, <1>2, <2>1, <2>2, <3>1, OneIsEnough
  <2>4. ASSUME Ordered(Arg.parts[part]) PROVE Choice!Answer = Choice!Refusal
    <3>1. ~Choice!Affordable
      BY <1>9, <2>1, <2>4, TooMuchIsAsked DEF RefusePart
    <3>2. ~Choice!Understood /\ Args # <<>>
      BY <2>2, <3>1 DEF Choice!Understood
    <3>3. QED
      BY <1>1, <1>2, <2>1, <3>2, NotUnderstood
  <2>5. QED
    BY <1>9, <2>3, <2>4, RefusalIsMeant DEF RefusePart, Meant
<1>10. CASE CloseSet
  BY <1>10, CloseSetIsMeant
<1>11. CASE EndParse \/ RefuseCutToList
  <2>1. DOMAIN sels = DOMAIN Args /\ \A i \in DOMAIN sels : sels[i].form = Args[i].form
    <3>1. phase = "parse" /\ at > Len(request.args)
      BY <1>11 DEF EndParse, RefuseCutToList
    <3>2. /\ sels \in Seq(Selector) /\ Args \in Seq(Argument)
          /\ at = Len(sels) + 1 /\ Len(sels) <= Len(Args)
          /\ \A i \in DOMAIN sels : sels[i].form = Args[i].form
      BY <1>1, <3>1 DEF TypeOK, Request, Traced, ArgumentsRead, ReadFrom, Args
    <3>3. QED
      BY <3>1, <3>2 DEF Args
  <2>2. CASE EndParse
    <3>1. /\ phase = "parse" /\ phase' = "resolve" /\ at' = 1 /\ ~AddressesLines
          /\ UNCHANGED <<input, sels, named, whole, cuts, resolved, left>>
      BY <2>2 DEF EndParse, parsing, resolving
    <3>2. AskedSoFar = AllAsked
      <4>1. AskedNow = {}
        BY <3>1 DEF AskedNow
      <4>2. QED
        BY <2>1, <4>1 DEF AskedSoFar, AskedBefore, AllAsked
    <3>3. Choice!Affordable
      <4>1. IsFiniteSet(AllAsked) /\ Cardinality(AllAsked) + left = MaxIndices
        BY <3>1, <3>2 DEF Meant, Charged
      <4>2. Cardinality(AllAsked) \in Nat /\ left \in Nat /\ MaxIndices \in Nat
        BY <1>1, <4>1, FS_CardinalityType, SelectorsAssumption DEF TypeOK
      <4>3. QED
        BY <4>1, <4>2, AffordableIs
    <3>4. Listing => \A i \in DOMAIN Args : Args[i].form # "cut"
      BY <2>1, <3>1 DEF AddressesLines
    <3>5. Charged'
      BY <3>1, <3>3, <3>4, MeaningStays DEF Meant, Charged
    <3>6. ReadAsSaid'
      BY <3>1, MeaningStays DEF Meant, ReadAsSaid, AsSaid
    <3>7. ResolvedAsMeant'
      <4>1. Before(at)' = {} /\ resolved' = {} /\ at' <= Len(Args') + 1
        BY <1>1, <3>1, MeaningStays DEF Before, Meant, ResolvedAsMeant, TypeOK, Request, Args
      <4>2. ChosenAsMeant({})'
        BY <3>1, ChosenStays DEF Meant, ResolvedAsMeant
      <4>3. QED
        BY <3>1, <4>1, <4>2 DEF ResolvedAsMeant
    <3>8. QED
      BY <3>1, <3>5, <3>6, <3>7 DEF Meant, EmittedAsMeant, ListedAsMeant, AnsweredAsMeant
  <2>3. CASE RefuseCutToList
    <3>1. PICK i \in DOMAIN Args : Args[i].form = "cut"
      BY <2>1, <2>3 DEF RefuseCutToList, AddressesLines
    <3>2. request.command = "list" /\ Args # <<>>
      BY <2>3, <3>1 DEF RefuseCutToList, AddressesLines, Listing
    <3>3. Choice!Answer = Choice!Refusal
      BY <3>1, <3>2, ChoiceIs DEF Choice!Answer
    <3>4. QED
      BY <2>3, <3>3, RefusalIsMeant DEF RefuseCutToList, Meant
  <2>4. QED
    BY <1>11, <2>2, <2>3
<1>12. QED
  BY <1>4, <1>5, <1>6, <1>7, <1>8, <1>9, <1>10, <1>11 DEF Parse

-----------------------------------------------------------------------------
(* Resolving.                                                              *)

(* The selector being resolved is its argument, as that reads.             *)
LEMMA SelIsTheArgument ==
  ASSUME RInv, Traced, Meant, phase = "resolve", at <= Len(sels)
  PROVE  LET a == Args[at]
         IN  /\ at \in DOMAIN Args /\ at \in Nat \ {0} /\ a \in Argument /\ Sel \in Selector
             /\ Sel.path = a.path /\ Sel.form = a.form /\ Sel.id = a.id
             /\ a.form = "cut" => Sel.index = a.index /\ a.index >= 1
             /\ a.form \in {"list", "cut"} =>
                  {Sel.indices[j] : j \in DOMAIN Sel.indices} = Choice!Numbers(a)
             /\ a.form = "list" => \A j \in DOMAIN Sel.indices : Sel.indices[j] >= 1
<1>1. /\ sels \in Seq(Selector) /\ Args \in Seq(Argument) /\ at \in Nat \ {0}
      /\ Len(sels) = Len(Args) /\ request.args = Args
  BY DEF RInv, TypeOK, Request, Traced, ArgumentsRead, Args
<1>2. at \in DOMAIN Args /\ at \in DOMAIN sels /\ Args[at] \in Argument
  BY <1>1
<1>3. ReadFrom(Sel, Args[at]) /\ AsSaid(Sel, Args[at])
  BY <1>1, <1>2 DEF Traced, ArgumentsRead, Meant, ReadAsSaid, Sel
<1>4. Sel \in Selector /\ (Sel.form = "list" => \A j \in DOMAIN Sel.indices : Sel.indices[j] >= 1)
      /\ (Sel.form = "cut" => Sel.index >= 1)
  BY SelIs DEF RInv
<1>5. QED
  BY <1>1, <1>2, <1>3, <1>4 DEF ReadFrom, AsSaid

(* What an argument with a path is about.                                  *)
LEMMA NotOwnedIsNotKnown ==
  ASSUME NEW a, a.form # "id", ~Owned(a.path)
  PROVE  ~Choice!Known(a)
BY ChoiceIs, TermsAreTheSame DEF Choice!Known, Owned

(* What a selector with a path needs to be known.                         *)
LEMMA OwnedIsKnown ==
  ASSUME TypeOK, NEW a, a.form # "id", Owned(a.path)
  PROVE  LET fi == Owner(a.path)
         IN  /\ fi \in Files /\ Choice!Target(a) = fi /\ Choice!EntriesOf(a) = {fi}
             /\ Choice!Known(a) <=>
                  IF files[fi].binary
                  THEN a.form = "*" \/ (a.form = "list" /\ ~Listing)
                  ELSE /\ a.form = "list" => Choice!Numbers(a) \subseteq DOMAIN Subs(fi)
                       /\ a.form = "cut"  => a.index \in DOMAIN Subs(fi)
             /\ files[fi].binary => Choice!Named(a) = {}
             /\ ~files[fi].binary =>
                  /\ a.form = "*" => Choice!Named(a) = {fi} \X DOMAIN Subs(fi)
                  /\ a.form = "list" => Choice!Named(a) = {fi} \X Choice!Numbers(a)
                  /\ a.form = "cut" => Choice!Named(a) = {<<fi, a.index>>}
<1> DEFINE fi == Owner(a.path)
<1>1. fi \in Files /\ Choice!Target(a) = fi /\ Cardinality(Owners(a.path)) = 1
  BY OwnerIsAFile, OwnerIsMeant DEF Owned
<1>2. Choice!EntriesOf(a) = {fi}
  BY <1>1 DEF Choice!EntriesOf
<1>3. Choice!Known(a) <=>
        IF files[fi].binary
        THEN a.form = "*" \/ (a.form = "list" /\ ~Listing)
        ELSE /\ a.form = "list" => Choice!Numbers(a) \subseteq DOMAIN Subs(fi)
             /\ a.form = "cut"  => a.index \in DOMAIN Subs(fi)
  BY <1>1, ChoiceIs, TermsAreTheSame DEF Choice!Known
<1>4. files[fi].binary => Choice!Named(a) = {}
  BY <1>1, ChoiceIs DEF Choice!Named
<1>5. ~files[fi].binary =>
        /\ a.form = "*" => Choice!Named(a) = {fi} \X DOMAIN Subs(fi)
        /\ a.form = "list" => Choice!Named(a) = {fi} \X Choice!Numbers(a)
        /\ a.form = "cut" => Choice!Named(a) = {<<fi, a.index>>}
  BY <1>1, ChoiceIs DEF Choice!Named
<1> HIDE DEF fi
<1>6. QED
  BY <1>1, <1>2, <1>3, <1>4, <1>5 DEF fi

(* An argument of another form says nothing of the cuts.                   *)
LEMMA OthersCutNothing ==
  ASSUME NEW is, NEW js, is \subseteq js, \A i \in js : i \notin is => Args[i].form # "cut", CutsAsMeant(is)
  PROVE  CutsAsMeant(js)
<1> DEFINE T(i) == Choice!Target(Args[i])
<1>1. \A i \in js : Args[i].form = "cut" => \E c \in DOMAIN cuts[T(i)] : CutBy(T(i), c, i)
  BY DEF CutsAsMeant
<1>2. \A fi \in Files : \A c \in DOMAIN cuts[fi] : \E i \in js : CutBy(fi, c, i)
  BY DEF CutsAsMeant
<1>3. \A fi \in Files : \A c, d \in DOMAIN cuts[fi] :
        c # d /\ cuts[fi][c].index = cuts[fi][d].index =>
          \E i, j \in js : i # j /\ SameCut(i, j) /\ CutBy(fi, c, i)
  BY DEF CutsAsMeant
<1>4. \A i, j \in js : i # j /\ SameCut(i, j) =>
        \E c, d \in DOMAIN cuts[T(i)] :
          c # d /\ cuts[T(i)][c].index = Args[i].index /\ cuts[T(i)][d].index = Args[i].index
  <2>1. \A i, j \in js : SameCut(i, j) => i \in is /\ j \in is
    BY DEF SameCut
  <2>2. QED
    BY <2>1 DEF CutsAsMeant
<1>5. QED
  BY <1>1, <1>2, <1>3, <1>4 DEF CutsAsMeant

(* The selectors stay as they were read.                                  *)
LEMMA SelectorsStay ==
  ASSUME Meant, UNCHANGED <<input, sels>>, phase' \notin {"parse", "set"}
  PROVE  ReadAsSaid'
<1>1. (\A i \in DOMAIN sels : AsSaid(sels[i], Args[i]))'
  BY MeaningStays DEF Meant, ReadAsSaid, AsSaid
<1>2. QED
  BY <1>1 DEF ReadAsSaid

(* The selectors go on with one more that is resolved.                     *)
LEMMA ResolvingGoesOn ==
  ASSUME RInv, Traced, Meant, phase = "resolve", at <= Len(sels), phase' = phase, at' = at + 1,
         UNCHANGED <<input, parsing>>,
         NEW is, is = Before(at) \union {at},
         Choice!Known(Args[at]),
         named' = named \union Choice!EntriesOf(Args[at]),
         \A fi \in Files : whole'[fi] =
           whole[fi] \union {k \in DOMAIN Subs(fi) : /\ Args[at].form # "cut"
                                                    /\ <<fi, k>> \in Choice!Named(Args[at])},
         CutsAsMeant(is)',
         \A id \in resolved' : id \in resolved \/ (Args[at].form = "id" /\ Args[at].id = id)
  PROVE  Meant'
<1>1. /\ at \in DOMAIN Args /\ at \in Nat \ {0} /\ Args \in Seq(Argument)
      /\ sels' = sels
  BY SelIsTheArgument DEF RInv, TypeOK, Request, Args, parsing
<1>2. Before(at)' = is /\ at' <= Len(Args') + 1
  BY <1>1, MeaningStays DEF Before
<1>3. ChosenAsMeant(Before(at))
  BY DEF Meant, ResolvedAsMeant
<1>4. (\A i \in is : Choice!Known(Args[i]))'
  <2>1. \A i \in is : Choice!Known(Args[i])
    BY <1>3 DEF ChosenAsMeant
  <2>2. QED
    BY <2>1, MeaningStays
<1>5. (named = UNION {Choice!EntriesOf(Args[i]) : i \in is})'
  <2>1. named' = UNION {Choice!EntriesOf(Args[i]) : i \in is}
    BY <1>3 DEF ChosenAsMeant
  <2>2. QED
    BY <2>1, MeaningStays
<1>6. (\A fi \in Files :
        whole[fi] = {k \in DOMAIN Subs(fi) :
                       \E i \in is : Args[i].form # "cut" /\ <<fi, k>> \in Choice!Named(Args[i])})'
  <2>1. \A fi \in Files :
          whole'[fi] = {k \in DOMAIN Subs(fi) :
                          \E i \in is : Args[i].form # "cut" /\ <<fi, k>> \in Choice!Named(Args[i])}
    <3> SUFFICES ASSUME NEW fi \in Files
                 PROVE  whole'[fi] = {k \in DOMAIN Subs(fi) :
                          \E i \in is : Args[i].form # "cut" /\ <<fi, k>> \in Choice!Named(Args[i])}
      OBVIOUS
    <3>1. whole[fi] = {k \in DOMAIN Subs(fi) :
                         \E i \in Before(at) : Args[i].form # "cut" /\ <<fi, k>> \in Choice!Named(Args[i])}
      BY <1>3 DEF ChosenAsMeant
    <3>2. QED
      BY <3>1
  <2>2. QED
    BY <2>1, MeaningStays
<1>7. ChosenAsMeant(is)'
  BY <1>4, <1>5, <1>6 DEF ChosenAsMeant
<1>8. \A id \in resolved' : \E i \in is : Args'[i].form = "id" /\ Args'[i].id = id
  BY MeaningStays DEF Meant, ResolvedAsMeant
<1>9. ResolvedAsMeant'
  BY <1>2, <1>7, <1>8 DEF ResolvedAsMeant
<1>10. ReadAsSaid'
  BY <1>1, SelectorsStay
<1>11. Charged'
  BY MeaningStays DEF Meant, Charged
<1>12. QED
  BY <1>9, <1>10, <1>11 DEF Meant, EmittedAsMeant, ListedAsMeant, AnsweredAsMeant

(* A cut is stored beside those there are; two of a sub-hunk are two.      *)
LEMMA StoredCutIsMeant ==
  ASSUME TypeOK, UNCHANGED input, NEW fi \in Files, Choice!Target(Args[at]) = fi,
         Args[at].form = "cut",
         NEW cut, cuts' = [cuts EXCEPT ![fi] = Append(@, cut)],
         cut.index = Args[at].index, {cut.lines[j] : j \in DOMAIN cut.lines} = Choice!Numbers(Args[at]),
         NEW before, CutsAsMeant(before), at \notin before, NEW is, is = before \union {at},
         \A i \in is : Args[i].form = "cut" => Choice!Target(Args[i]) \in Files
  PROVE  CutsAsMeant(is)'
<1> DEFINE T(i) == Choice!Target(Args[i])
           n == Len(cuts[fi]) + 1
           cs == cuts'
<1>1. /\ \A f \in Files : \A c \in DOMAIN cuts[f] : c \in DOMAIN cs[f] /\ cs[f][c] = cuts[f][c]
      /\ n \in DOMAIN cs[fi] /\ cs[fi][n] = cut /\ n \notin DOMAIN cuts[fi]
      /\ \A f \in Files : \A c \in DOMAIN cs[f] : c \in DOMAIN cuts[f] \/ (f = fi /\ c = n)
  <2>1. cuts \in [Files -> Seq(LineSet)]
    BY DEF TypeOK
  <2>2. cuts[fi] \in Seq(LineSet)
    BY <2>1
  <2>3. cs[fi] = Append(cuts[fi], cut) /\ \A f \in Files : f # fi => cs[f] = cuts[f]
    BY <2>1
  <2>4. /\ DOMAIN cs[fi] = 1..n /\ DOMAIN cuts[fi] = 1..(n - 1) /\ n \in Nat \ {0}
        /\ \A c \in 1..(n - 1) : cs[fi][c] = cuts[fi][c]
        /\ cs[fi][n] = cut
    BY <2>2, <2>3
  <2> HIDE DEF n, cs
  <2>5. n \in DOMAIN cs[fi] /\ n \notin DOMAIN cuts[fi]
    BY <2>4
  <2>6. ASSUME NEW f \in Files, NEW c \in DOMAIN cuts[f] PROVE c \in DOMAIN cs[f] /\ cs[f][c] = cuts[f][c]
    <3>1. CASE f = fi
      BY <2>4, <3>1
    <3>2. CASE f # fi
      BY <2>3, <3>2
    <3>3. QED
      BY <3>1, <3>2
  <2>7. ASSUME NEW f \in Files, NEW c \in DOMAIN cs[f] PROVE c \in DOMAIN cuts[f] \/ (f = fi /\ c = n)
    <3>1. CASE f = fi
      BY <2>4, <3>1
    <3>2. CASE f # fi
      BY <2>3, <3>2
    <3>3. QED
      BY <3>1, <3>2
  <2>8. QED
    BY <2>4, <2>5, <2>6, <2>7
<1> DEFINE By(f, c, i) == /\ Args[i].form = "cut" /\ T(i) = f
                          /\ cs[f][c].index = Args[i].index
                          /\ {cs[f][c].lines[j] : j \in DOMAIN cs[f][c].lines} = Choice!Numbers(Args[i])
           Same(i, j) == SameCut(i, j)
<1>2. \A f, c, i : CutBy(f, c, i)' = By(f, c, i)
  BY MeaningStays DEF CutBy
<1>3. \A f \in Files : \A c \in DOMAIN cuts[f] : \A i : By(f, c, i) <=> CutBy(f, c, i)
  <2> HIDE DEF cs
  <2>1. QED
    BY <1>1 DEF CutBy
<1>4. By(fi, n, at)
  <2> HIDE DEF cs, n
  <2>1. QED
    BY <1>1
<1>5. \A i, j : SameCut(i, j)' = SameCut(i, j)
  BY MeaningStays DEF SameCut
<1>6. \A i : T(i)' = T(i)
  BY MeaningStays
<1>7. \A f, c, i : By(f, c, i) => /\ Args[i].form = "cut" /\ T(i) = f /\ cs[f][c].index = Args[i].index
  OBVIOUS
<1>8. \A i, j : SameCut(i, j) <=> /\ Args[i].form = "cut" /\ Args[j].form = "cut"
                                 /\ T(i) = T(j) /\ Args[i].index = Args[j].index
  BY DEF SameCut
<1>9. /\ \A i \in before : Args[i].form = "cut" => \E c \in DOMAIN cuts[T(i)] : CutBy(T(i), c, i)
      /\ \A f \in Files : \A c \in DOMAIN cuts[f] : \E i \in before : CutBy(f, c, i)
      /\ \A f \in Files : \A c, d \in DOMAIN cuts[f] :
           c # d /\ cuts[f][c].index = cuts[f][d].index =>
             \E i, j \in before : i # j /\ SameCut(i, j) /\ CutBy(f, c, i)
      /\ \A i, j \in before : i # j /\ SameCut(i, j) =>
           \E c, d \in DOMAIN cuts[T(i)] :
             c # d /\ cuts[T(i)][c].index = Args[i].index /\ cuts[T(i)][d].index = Args[i].index
  BY DEF CutsAsMeant
<1>10. T(at) = fi
  OBVIOUS
<1>11. \A i \in is : Args[i].form = "cut" => T(i) \in Files
  OBVIOUS
<1> HIDE DEF T, n, cs, By
<1>12. ASSUME NEW i \in is, Args[i].form = "cut" PROVE \E c \in DOMAIN cs[T(i)] : By(T(i), c, i)
  <2>1. CASE i = at
    BY <1>1, <1>4, <1>10, <2>1
  <2>2. CASE i \in before
    <3>1. PICK c \in DOMAIN cuts[T(i)] : CutBy(T(i), c, i)
      BY <1>9, <1>12, <2>2
    <3>2. T(i) \in Files
      BY <1>11, <1>12
    <3>3. QED
      BY <1>1, <1>3, <3>1, <3>2
  <2>3. QED
    BY <2>1, <2>2
<1>13. ASSUME NEW f \in Files, NEW c \in DOMAIN cs[f] PROVE \E i \in is : By(f, c, i)
  <2>1. CASE c \in DOMAIN cuts[f]
    <3>1. PICK i \in before : CutBy(f, c, i)
      BY <1>9, <2>1
    <3>2. By(f, c, i)
      BY <1>3, <2>1, <3>1
    <3>3. QED
      BY <3>1, <3>2
  <2>2. CASE f = fi /\ c = n
    BY <1>4, <2>2
  <2>3. QED
    BY <1>1, <2>1, <2>2
<1>14. ASSUME NEW f \in Files, NEW c \in DOMAIN cs[f], NEW d \in DOMAIN cs[f],
              c # d, cs[f][c].index = cs[f][d].index
       PROVE  \E i, j \in is : i # j /\ SameCut(i, j) /\ By(f, c, i)
  <2>1. CASE c \in DOMAIN cuts[f] /\ d \in DOMAIN cuts[f]
    <3>1. cuts[f][c].index = cuts[f][d].index
      BY <1>1, <1>14, <2>1
    <3>2. PICK i, j \in before : i # j /\ SameCut(i, j) /\ CutBy(f, c, i)
      BY <1>9, <1>14, <2>1, <3>1
    <3>3. By(f, c, i)
      BY <1>3, <2>1, <3>2
    <3>4. QED
      BY <3>2, <3>3
  <2>2. CASE c \in DOMAIN cuts[f] /\ f = fi /\ d = n
    <3>1. PICK i \in before : CutBy(f, c, i)
      BY <1>9, <2>2
    <3>2. By(f, c, i) /\ By(f, d, at)
      BY <1>3, <1>4, <2>2, <3>1
    <3>3. i # at /\ SameCut(i, at)
      BY <1>7, <1>8, <1>14, <3>1, <3>2
    <3>4. QED
      BY <3>1, <3>2, <3>3
  <2>3. CASE d \in DOMAIN cuts[f] /\ f = fi /\ c = n
    <3>1. PICK i \in before : CutBy(f, d, i)
      BY <1>9, <2>3
    <3>2. By(f, d, i) /\ By(f, c, at)
      BY <1>3, <1>4, <2>3, <3>1
    <3>3. i # at /\ SameCut(at, i)
      BY <1>7, <1>8, <1>14, <3>1, <3>2
    <3>4. QED
      BY <3>1, <3>2, <3>3
  <2>4. QED
    BY <1>1, <1>14, <2>1, <2>2, <2>3
<1>15. ASSUME NEW i \in is, NEW j \in is, i # j, SameCut(i, j)
       PROVE  \E c, d \in DOMAIN cs[T(i)] :
                c # d /\ cs[T(i)][c].index = Args[i].index /\ cs[T(i)][d].index = Args[i].index
  <2>1. /\ Args[i].form = "cut" /\ Args[j].form = "cut" /\ T(i) = T(j) /\ Args[i].index = Args[j].index
        /\ T(i) \in Files
    BY <1>8, <1>11, <1>15
  <2>2. CASE i \in before /\ j \in before
    <3>1. PICK c, d \in DOMAIN cuts[T(i)] :
            c # d /\ cuts[T(i)][c].index = Args[i].index /\ cuts[T(i)][d].index = Args[i].index
      BY <1>9, <1>15, <2>2
    <3>2. QED
      BY <1>1, <2>1, <3>1
  <2>3. ASSUME NEW k \in before, T(k) = fi, Args[k].form = "cut", Args[k].index = Args[at].index
        PROVE  \E c \in DOMAIN cs[fi] : c # n /\ cs[fi][c].index = Args[at].index /\ cs[fi][n].index = Args[at].index
    <3>1. PICK c \in DOMAIN cuts[fi] : CutBy(fi, c, k)
      BY <1>9, <2>3
    <3>2. By(fi, c, k) /\ By(fi, n, at)
      BY <1>3, <1>4, <3>1
    <3>3. QED
      BY <1>1, <1>7, <2>3, <3>1, <3>2
  <2>4. CASE i = at /\ j \in before
    BY <1>1, <1>10, <2>1, <2>3, <2>4
  <2>5. CASE j = at /\ i \in before
    BY <1>1, <1>10, <2>1, <2>3, <2>5
  <2>6. QED
    BY <1>15, <2>2, <2>4, <2>5
<1>16. (\A i \in is : Args[i].form = "cut" => \E c \in DOMAIN cuts[T(i)] : CutBy(T(i), c, i))'
  BY <1>2, <1>6, <1>12, MeaningStays DEF cs
<1>17. (\A f \in Files : \A c \in DOMAIN cuts[f] : \E i \in is : CutBy(f, c, i))'
  BY <1>2, <1>13, MeaningStays DEF cs
<1>18. (\A f \in Files : \A c, d \in DOMAIN cuts[f] :
         c # d /\ cuts[f][c].index = cuts[f][d].index =>
           \E i, j \in is : i # j /\ SameCut(i, j) /\ CutBy(f, c, i))'
  BY <1>2, <1>5, <1>14, MeaningStays DEF cs
<1>19. (\A i, j \in is : i # j /\ SameCut(i, j) =>
         \E c, d \in DOMAIN cuts[T(i)] :
           c # d /\ cuts[T(i)][c].index = Args[i].index /\ cuts[T(i)][d].index = Args[i].index)'
  BY <1>5, <1>6, <1>15, MeaningStays DEF cs
<1>20. QED
  BY <1>16, <1>17, <1>18, <1>19 DEF CutsAsMeant, T

(* An argument that is not a cut adds its entries and sub-hunks.           *)
LEMMA WholeIsMeant ==
  ASSUME RInv, Traced, Meant, phase = "resolve", at <= Len(sels), phase' = phase, at' = at + 1,
         UNCHANGED <<input, parsing, cuts>>,
         Choice!Known(Args[at]), Args[at].form # "cut",
         named' = named \union Choice!EntriesOf(Args[at]),
         \A fi \in Files : whole'[fi] =
           whole[fi] \union {k \in DOMAIN Subs(fi) : <<fi, k>> \in Choice!Named(Args[at])},
         \A id \in resolved' : id \in resolved \/ (Args[at].form = "id" /\ Args[at].id = id)
  PROVE  Meant'
<1> PICK is : is = Before(at) \union {at}
  OBVIOUS
<1>1. CutsAsMeant(Before(at))
  BY DEF Meant, ResolvedAsMeant, ChosenAsMeant
<1>2. CutsAsMeant(is)
  BY <1>1, OthersCutNothing
<1>3. CutsAsMeant(is)'
  BY <1>2, CutsStay
<1>4. QED
  BY <1>3, ResolvingGoesOn

(* What a selector with an id needs, and what it names.                   *)
LEMMA IdIsKnown ==
  ASSUME NEW a, a.form = "id", Carrying(files, a.id) # {}, SameContent(Carrying(files, a.id))
  PROVE  /\ Choice!Known(a) /\ Choice!Named(a) = Carrying(files, a.id)
         /\ Choice!EntriesOf(a) = {p[1] : p \in Carrying(files, a.id)}
BY ByIdIs, SameChangeIs DEF Choice!Known, Choice!Named, Choice!EntriesOf

(* An entry, its sub-hunks or a list of them, as it is meant.             *)
LEMMA PathStepIsMeant ==
  ASSUME RInv, Traced, Meant, TakeBinary \/ TakeAll \/ TakeIndices
  PROVE  Meant'
<1> DEFINE a == Args[at]
           fi == Owner(a.path)
<1>1. /\ phase = "resolve" /\ phase' = phase /\ at <= Len(sels) /\ at' = at + 1 /\ Sel.form # "id"
      /\ UNCHANGED <<input, parsing, cuts, resolved>> /\ Owned(Sel.path)
  BY DEF TakeBinary, TakeAll, TakeIndices, OfPath, Resolving
<1>2. /\ a.form = Sel.form /\ a.path = Sel.path /\ TypeOK
      /\ a.form \in {"list", "cut"} => {Sel.indices[j] : j \in DOMAIN Sel.indices} = Choice!Numbers(a)
      /\ a.form = "list" => \A j \in DOMAIN Sel.indices : Sel.indices[j] >= 1
      /\ Sel \in Selector
  BY <1>1, SelIsTheArgument DEF RInv
<1>3. /\ fi \in Files /\ Choice!EntriesOf(a) = {fi}
      /\ Choice!Known(a) <=>
           IF files[fi].binary
           THEN a.form = "*" \/ (a.form = "list" /\ ~Listing)
           ELSE /\ a.form = "list" => Choice!Numbers(a) \subseteq DOMAIN Subs(fi)
                /\ a.form = "cut"  => a.index \in DOMAIN Subs(fi)
      /\ files[fi].binary => Choice!Named(a) = {}
      /\ ~files[fi].binary =>
           /\ a.form = "*" => Choice!Named(a) = {fi} \X DOMAIN Subs(fi)
           /\ a.form = "list" => Choice!Named(a) = {fi} \X Choice!Numbers(a)
  BY <1>1, <1>2, OwnedIsKnown
<1>4. whole \in [Files -> SUBSET Nat]
  BY <1>2 DEF TypeOK
<1> HIDE DEF a, fi
<1>5. CASE TakeBinary
  <2>1. files[fi].binary /\ named' = named \union {fi} /\ whole' = whole /\ a.form # "cut"
        /\ (a.form = "*" \/ (a.form = "list" /\ ~Listing))
    BY <1>2, <1>5 DEF TakeBinary, fi
  <2>2. Choice!Known(a) /\ Choice!Named(a) = {}
    BY <1>3, <2>1
  <2>3. QED
    BY <1>1, <1>3, <2>1, <2>2, WholeIsMeant DEF a
<1>6. CASE TakeAll
  <2>1. /\ ~files[fi].binary /\ named' = named \union {fi} /\ a.form = "*"
        /\ whole' = [whole EXCEPT ![fi] = @ \union DOMAIN Subs(fi)]
    BY <1>2, <1>6 DEF TakeAll, Resolving, fi
  <2>2. Choice!Known(a) /\ Choice!Named(a) = {fi} \X DOMAIN Subs(fi)
    BY <1>3, <2>1
  <2>3. \A f \in Files : whole'[f] = whole[f] \union {k \in DOMAIN Subs(f) : <<f, k>> \in Choice!Named(a)}
    BY <1>3, <1>4, <2>1, <2>2
  <2>4. QED
    BY <1>1, <1>3, <2>1, <2>2, <2>3, WholeIsMeant DEF a
<1>7. CASE TakeIndices
  <2>1. /\ ~files[fi].binary /\ named' = named \union {fi} /\ a.form = "list"
        /\ \A j \in DOMAIN Sel.indices : Sel.indices[j] <= Len(Subs(fi))
        /\ whole' = [whole EXCEPT ![fi] = @ \union {Sel.indices[j] : j \in DOMAIN Sel.indices}]
    BY <1>2, <1>7 DEF TakeIndices, Resolving, fi
  <2>2. {Sel.indices[j] : j \in DOMAIN Sel.indices} = Choice!Numbers(a)
    BY <1>2, <2>1
  <2>3. Choice!Numbers(a) \subseteq DOMAIN Subs(fi)
    <3>1. DOMAIN Subs(fi) = 1..Len(Subs(fi)) /\ Len(Subs(fi)) \in Nat
      BY <1>2, <1>3, FilesAre
    <3>2. \A j \in DOMAIN Sel.indices : Sel.indices[j] \in DOMAIN Subs(fi)
      <4>1. \A j \in DOMAIN Sel.indices : Sel.indices[j] \in Nat
        BY <1>2 DEF Selector
      <4>2. QED
        BY <1>2, <2>1, <3>1, <4>1
    <3>3. QED
      BY <2>2, <3>2
  <2>4. Choice!Known(a) /\ Choice!Named(a) = {fi} \X Choice!Numbers(a)
    BY <1>3, <2>1, <2>3
  <2>5. \A f \in Files : whole'[f] = whole[f] \union {k \in DOMAIN Subs(f) : <<f, k>> \in Choice!Named(a)}
    <3>1. whole'[fi] = whole[fi] \union Choice!Numbers(a) /\ \A f \in Files : f # fi => whole'[f] = whole[f]
      BY <1>3, <1>4, <2>1, <2>2
    <3>2. QED
      BY <2>3, <2>4, <3>1
  <2>6. QED
    BY <1>1, <1>3, <2>1, <2>4, <2>5, WholeIsMeant DEF a
<1>8. QED
  BY <1>5, <1>6, <1>7

(* A cut as it is meant.                                                  *)
LEMMA TakeCutIsMeant ==
  ASSUME RInv, Traced, Meant, TakeCut
  PROVE  Meant'
<1> DEFINE a == Args[at]
           fi == Owner(a.path)
           cut == [index |-> Sel.index, lines |-> Sel.indices]
<1>1. /\ phase = "resolve" /\ phase' = phase /\ at <= Len(sels) /\ at' = at + 1 /\ Sel.form = "cut"
      /\ UNCHANGED <<input, parsing, whole, resolved>> /\ Owned(Sel.path)
  BY DEF TakeCut, Resolving
<1>2. /\ a.form = "cut" /\ a.path = Sel.path /\ TypeOK /\ at \in Nat \ {0}
      /\ {Sel.indices[j] : j \in DOMAIN Sel.indices} = Choice!Numbers(a)
      /\ Sel.index = a.index /\ a.index >= 1 /\ Sel \in Selector
  BY <1>1, SelIsTheArgument DEF RInv
<1>3. /\ fi \in Files /\ Choice!EntriesOf(a) = {fi} /\ Choice!Target(a) = fi
      /\ Choice!Known(a) <=>
           IF files[fi].binary
           THEN a.form = "*" \/ (a.form = "list" /\ ~Listing)
           ELSE /\ a.form = "list" => Choice!Numbers(a) \subseteq DOMAIN Subs(fi)
                /\ a.form = "cut"  => a.index \in DOMAIN Subs(fi)
  BY <1>1, <1>2, OwnedIsKnown
<1>4. /\ ~files[fi].binary /\ named' = named \union {fi} /\ Sel.index <= Len(Subs(fi))
      /\ cuts' = [cuts EXCEPT ![fi] = Append(@, cut)]
  BY <1>2 DEF TakeCut
<1>5. Choice!Known(a)
  <2>1. DOMAIN Subs(fi) = 1..Len(Subs(fi)) /\ Len(Subs(fi)) \in Nat
    BY <1>2, <1>3, FilesAre
  <2>2. a.index \in DOMAIN Subs(fi)
    <3>1. a.index \in Nat
      BY <1>2 DEF Selector
    <3>2. QED
      BY <1>2, <1>4, <2>1, <3>1
  <2>3. QED
    BY <1>2, <1>3, <1>4, <2>2
<1>6. PICK is : is = Before(at) \union {at}
  OBVIOUS
<1>7. cut.index = a.index /\ {cut.lines[j] : j \in DOMAIN cut.lines} = Choice!Numbers(a)
  BY <1>2
<1>8. \A i \in is : Args[i].form = "cut" => Choice!Target(Args[i]) \in Files
  <2>1. \A i \in is : Choice!Known(Args[i])
    BY <1>1, <1>5, <1>6 DEF Meant, ResolvedAsMeant, ChosenAsMeant
  <2>2. QED
    BY <1>2, <2>1, NotOwnedIsNotKnown, OwnedIsKnown
<1> HIDE DEF a, fi, cut
<1>9. CutsAsMeant(is)'
  <2>1. CutsAsMeant(Before(at)) /\ at \notin Before(at)
    BY <1>1, <1>2 DEF Meant, ResolvedAsMeant, ChosenAsMeant, Before
  <2>2. QED
    BY <1>1, <1>2, <1>3, <1>4, <1>6, <1>7, <1>8, <2>1, StoredCutIsMeant DEF a
<1>10. \A f \in Files : whole'[f] =
         whole[f] \union {k \in DOMAIN Subs(f) : a.form # "cut" /\ <<f, k>> \in Choice!Named(a)}
  BY <1>1, <1>2
<1>11. QED
  BY <1>1, <1>3, <1>4, <1>5, <1>6, <1>9, <1>10, ResolvingGoesOn DEF a

(* All selectors are resolved: the request is understood.                  *)
LEMMA AllIsResolved ==
  ASSUME RInv, Traced, Meant, phase = "resolve", at > Len(sels)
  PROVE  /\ ChosenAsMeant(DOMAIN Args)
         /\ Args # <<>> => Choice!Understood /\ named # {}
<1>1. /\ sels \in Seq(Selector) /\ Args \in Seq(Argument) /\ Len(sels) = Len(Args)
      /\ at = Len(Args) + 1
  BY DEF RInv, TypeOK, Request, Traced, ArgumentsRead, Args, Meant, ResolvedAsMeant
<1>2. Before(at) = DOMAIN Args /\ DOMAIN Args = DOMAIN sels
  BY <1>1 DEF Before
<1>3. ChosenAsMeant(DOMAIN Args)
  BY <1>2 DEF Meant, ResolvedAsMeant
<1>4. \A i \in DOMAIN Args : Choice!Reads(Args[i]) /\ Choice!Known(Args[i])
  BY <1>2, <1>3 DEF Meant, ReadAsSaid, AsSaid, ChosenAsMeant
<1>5. ASSUME Args # <<>> PROVE named # {}
  <2>1. 1 \in DOMAIN Args /\ Choice!Known(Args[1])
    BY <1>1, <1>4, <1>5
  <2>2. Choice!EntriesOf(Args[1]) # {}
    BY <2>1 DEF Choice!EntriesOf, Choice!Known
  <2>3. QED
    BY <1>3, <2>1, <2>2 DEF ChosenAsMeant
<1>6. ASSUME Args # <<>> PROVE Choice!Understood
  BY <1>4, <1>6, ChoiceIs DEF Choice!Understood, Meant, Charged
<1>7. QED
  BY <1>3, <1>5, <1>6

(* Resolution chooses what the arguments mean.                            *)
LEMMA ResolveKeepsMeant ==
  ASSUME RInv, Recorded, Traced, Listed, Meant, Resolve
  PROVE  Meant'
<1>1. TypeOK /\ phase = "resolve" /\ request.command # "split"
  BY DEF Resolve, RefuseOwner, TakeBinary, RefuseBinary, TakeAll, TakeIndices, TakeCut, RefuseIndex, ResolveId,
         RepeatId, RefuseId, EndResolve, RefuseEmpty, OfPath, Resolving, RInv, Traced
<1> DEFINE a == Args[at]
           fi == Owner(a.path)
<1>2. ASSUME at <= Len(sels)
      PROVE  /\ at \in DOMAIN Args /\ at \in Nat \ {0} /\ a \in Argument /\ Sel \in Selector
             /\ Sel.path = a.path /\ Sel.form = a.form /\ Sel.id = a.id
             /\ a.form = "cut" => Sel.index = a.index
             /\ a.form \in {"list", "cut"} =>
                  {Sel.indices[j] : j \in DOMAIN Sel.indices} = Choice!Numbers(a)
  BY <1>1, <1>2, SelIsTheArgument
<1>3. ASSUME at <= Len(sels), ~Choice!Known(a), NEW error, Refuse(error) PROVE Meant'
  <2>1. Choice!Answer = Choice!Refusal
    BY <1>1, <1>2, <1>3, OneIsEnough
  <2>2. QED
    BY <1>3, <2>1, RefusalIsMeant DEF Meant
<1>4. ASSUME at <= Len(sels), a.form # "id", Owned(a.path)
      PROVE  Choice!Known(a) <=>
               IF files[fi].binary
               THEN a.form = "*" \/ (a.form = "list" /\ ~Listing)
               ELSE /\ a.form = "list" => Choice!Numbers(a) \subseteq DOMAIN Subs(fi)
                    /\ a.form = "cut"  => a.index \in DOMAIN Subs(fi)
  BY <1>1, <1>4, OwnedIsKnown
<1> HIDE DEF a, fi
<1>5. CASE RefuseOwner
  <2>1. at <= Len(sels) /\ a.form # "id" /\ ~Owned(a.path) /\ \E error : Refuse(error)
    BY <1>2, <1>5 DEF RefuseOwner, OfPath, RefusePath
  <2>2. ~Choice!Known(a)
    BY <2>1, NotOwnedIsNotKnown
  <2>3. QED
    BY <1>3, <2>1, <2>2
<1>6. CASE TakeBinary \/ TakeAll \/ TakeIndices
  BY <1>6, PathStepIsMeant
<1>7. CASE RefuseBinary
  <2>1. /\ at <= Len(sels) /\ a.form # "id" /\ Owned(a.path) /\ files[fi].binary
        /\ a.form = "cut" \/ (a.form = "list" /\ Listing)
        /\ \E error : Refuse(error)
    BY <1>2, <1>7 DEF RefuseBinary, OfPath, fi
  <2>2. ~Choice!Known(a)
    BY <1>4, <2>1
  <2>3. QED
    BY <1>3, <2>1, <2>2
<1>8. CASE TakeCut
  BY <1>8, TakeCutIsMeant
<1>9. CASE RefuseIndex
  <2>1. /\ at <= Len(sels) /\ a.form # "id" /\ Owned(a.path) /\ ~files[fi].binary
        /\ \/ a.form = "cut" /\ a.index > Len(Subs(fi))
           \/ a.form = "list" /\ \E n \in Choice!Numbers(a) : n > Len(Subs(fi))
        /\ \E error : Refuse(error)
    BY <1>2, <1>9 DEF RefuseIndex, OfPath, fi
  <2>2. fi \in Files /\ DOMAIN Subs(fi) = 1..Len(Subs(fi)) /\ Len(Subs(fi)) \in Nat
    BY <1>1, <2>1, OwnerIsAFile, FilesAre DEF fi
  <2>3. ~Choice!Known(a)
    BY <1>4, <2>1, <2>2
  <2>4. QED
    BY <1>3, <2>1, <2>3
<1>10. CASE ResolveId
  <2>1. /\ at <= Len(sels) /\ a.form = "id" /\ Matched = Carrying(files, a.id)
        /\ Matched # {} /\ SameContent(Matched)
        /\ named' = named \union {p[1] : p \in Matched}
        /\ whole' = [f \in Files |-> whole[f] \union {i \in DOMAIN Subs(f) : <<f, i>> \in Matched}]
        /\ resolved' = resolved \union {a.id} /\ at' = at + 1 /\ phase' = phase
        /\ UNCHANGED <<input, parsing, cuts>>
    BY <1>2, <1>10 DEF ResolveId, Resolving, Matched
  <2>2. Choice!Known(a) /\ Choice!Named(a) = Matched /\ Choice!EntriesOf(a) = {p[1] : p \in Matched}
    BY <2>1, IdIsKnown
  <2>3. QED
    BY <1>1, <2>1, <2>2, WholeIsMeant DEF a
<1>11. CASE RepeatId
  <2>1. /\ at <= Len(sels) /\ a.form = "id" /\ a.id \in resolved /\ at' = at + 1 /\ phase' = phase
        /\ UNCHANGED <<input, parsing, cuts, named, whole, resolved>>
    BY <1>2, <1>11 DEF RepeatId, Resolving, resolving
  <2>2. PICK i \in Before(at) : Args[i].form = "id" /\ Args[i].id = a.id
    BY <1>1, <2>1 DEF Meant, ResolvedAsMeant
  <2>3. /\ Choice!Known(Args[i])
        /\ Choice!EntriesOf(Args[i]) \subseteq named
        /\ \A f \in Files : \A k \in DOMAIN Subs(f) : <<f, k>> \in Choice!Named(Args[i]) => k \in whole[f]
    BY <1>1, <2>2 DEF Meant, ResolvedAsMeant, ChosenAsMeant
  <2>4. /\ Choice!Known(a) <=> Choice!Known(Args[i])
        /\ Choice!EntriesOf(a) = Choice!EntriesOf(Args[i])
        /\ Choice!Named(a) = Choice!Named(Args[i])
    BY <2>1, <2>2 DEF Choice!Known, Choice!EntriesOf, Choice!Named
  <2>5. \A f \in Files : whole'[f] = whole[f] \union {k \in DOMAIN Subs(f) : <<f, k>> \in Choice!Named(a)}
    BY <2>1, <2>3, <2>4
  <2>6. QED
    BY <1>1, <2>1, <2>3, <2>4, <2>5, WholeIsMeant DEF a
<1>12. CASE RefuseId
  <2>1. /\ at <= Len(sels) /\ a.form = "id" /\ Matched = Carrying(files, a.id)
        /\ Matched # {} => ~SameContent(Matched)
        /\ \E error : Refuse(error)
    BY <1>2, <1>12 DEF RefuseId, Resolving, Matched
  <2>2. ~Choice!Known(a)
    BY <2>1, ByIdIs, SameChangeIs DEF Choice!Known
  <2>3. QED
    BY <1>3, <2>1, <2>2
<1>13. CASE EndResolve
  <2>1. /\ at > Len(sels) /\ named # {} /\ at' = 1 /\ phase' = IF Listing THEN "list" ELSE "emit"
        /\ UNCHANGED <<input, sels, named, whole, cuts, rows, out>>
    BY <1>13 DEF EndResolve, parsing, resolving, emitting
  <2>2. ChosenAsMeant(DOMAIN Args) /\ Args # <<>> /\ Choice!Understood
    <3>1. ChosenAsMeant(DOMAIN Args) /\ (Args # <<>> => Choice!Understood)
      BY <1>1, <2>1, AllIsResolved
    <3>2. Args # <<>>
      BY <2>1, <3>1 DEF ChosenAsMeant
    <3>3. QED
      BY <3>1, <3>2
  <2>3. ReadAsSaid'
    BY <2>1, SelectorsStay
  <2>4. Charged'
    BY <2>1 DEF Charged
  <2>5. ResolvedAsMeant'
    <3>1. PICK is : is = DOMAIN Args
      OBVIOUS
    <3>2. ChosenAsMeant(is)'
      BY <2>1, <2>2, <3>1, ChosenStays
    <3>3. DOMAIN Args' = is
      BY <2>1, <3>1, MeaningStays
    <3>4. QED
      BY <2>1, <3>2, <3>3 DEF ResolvedAsMeant
  <2>6. EmittedAsMeant'
    <3>1. out' = <<>> /\ named \subseteq Files /\ \A f \in Files : f \in Nat \ {0}
      BY <1>1, <2>1, FilesAre DEF RInv, InOrder, TypeOK
    <3>2. \A f \in named' : ~(f < at')
      BY <2>1, <3>1
    <3>3. {out'[i].entry : i \in DOMAIN out'} = {} /\ DOMAIN out' = {}
      BY <3>1
    <3>4. {f \in named' : f < at'} = {}
      BY <3>2
    <3>5. phase' = "emit" => request'.command = "select"
      BY <1>1, <2>1 DEF TypeOK, Request, Commands, Listing, input
    <3>6. Choice!Understood'
      BY <2>1, <2>2, MeaningStays
    <3>7. phase' # "pick"
      BY <2>1
    <3>8. (\A i \in DOMAIN out : {out[i].picks[j] : j \in DOMAIN out[i].picks} = PicksOf(out[i].entry))'
      BY <3>3
    <3>9. (\A f \in named : f < at => Emittable(f))'
      BY <3>2
    <3>10. QED
      BY <3>3, <3>4, <3>5, <3>6, <3>7, <3>8, <3>9 DEF EmittedAsMeant
  <2>7. ListedAsMeant'
    <3>1. rows' = <<>> /\ \A f \in Files' : ~(f < at')
      BY <1>1, <2>1, FilesAre, MeaningStays DEF Listed
    <3>2. ({rows[r].entry : r \in DOMAIN rows} = {f \in Files : f < at /\ ShowsFile(f)})'
      <4>1. {f \in Files' : f < at' /\ ShowsFile(f)'} = {}
        BY <3>1
      <4>2. {rows'[r].entry : r \in DOMAIN rows'} = {}
        BY <3>1
      <4>3. QED
        BY <4>1, <4>2
    <3>3. Listing => \A i \in DOMAIN Args : Args[i].form # "cut"
      BY <1>1 DEF Meant, Charged
    <3>4. QED
      BY <2>1, <2>2, <3>2, <3>3, MeaningStays DEF ListedAsMeant
  <2>8. QED
    BY <2>1, <2>3, <2>4, <2>5, <2>6, <2>7 DEF Meant, AnsweredAsMeant
<1>14. CASE RefuseEmpty
  <2>1. at > Len(sels) /\ named = {} /\ \E error : Refuse(error)
    BY <1>14 DEF RefuseEmpty
  <2>2. Args = <<>> /\ ~Listing
    BY <1>1, <2>1, AllIsResolved DEF Meant, Charged
  <2>3. Choice!Answer = Choice!Refusal
    <3>1. request.command = "select"
      BY <1>1, <2>2 DEF TypeOK, Request, Commands, Listing
    <3>2. ~Choice!Understood
      BY <2>2, ChoiceIs DEF Choice!Understood
    <3>3. QED
      BY <3>1, <3>2 DEF Choice!Answer
  <2>4. QED
    BY <2>1, <2>3, RefusalIsMeant DEF Meant
<1>15. QED
  BY <1>5, <1>6, <1>7, <1>8, <1>9, <1>10, <1>11, <1>12, <1>13, <1>14 DEF Resolve

-----------------------------------------------------------------------------
(* What is chosen and what is meant.                                       *)

(* The sub-hunks an argument names are there, in its entries.              *)
LEMMA NamedAreThere ==
  ASSUME TypeOK, NEW a, Choice!Reads(a), Choice!Known(a)
  PROVE  /\ \A p \in Choice!Named(a) : /\ p = <<p[1], p[2]>> /\ p[1] \in Files /\ ~files[p[1]].binary
                                       /\ p[2] \in DOMAIN Subs(p[1]) /\ p[1] \in Choice!EntriesOf(a)
         /\ a.form = "cut" => /\ Choice!Target(a) \in Files
                              /\ Choice!Named(a) = {<<Choice!Target(a), a.index>>}
<1>1. CASE a.form = "id"
  <2>1. Choice!Named(a) = Carrying(files, a.id) /\ Choice!EntriesOf(a) = {p[1] : p \in Choice!Named(a)}
    BY <1>1, ByIdIs DEF Choice!Named, Choice!EntriesOf
  <2>2. \A p \in Carrying(files, a.id) :
          p = <<p[1], p[2]>> /\ p[1] \in Files /\ ~files[p[1]].binary /\ p[2] \in DOMAIN Subs(p[1])
    BY DEF Carrying, Files, Subs
  <2>3. QED
    BY <1>1, <2>1, <2>2
<1>2. CASE a.form # "id"
  <2> DEFINE fi == Owner(a.path)
  <2>1. Owned(a.path)
    BY <1>2, NotOwnedIsNotKnown
  <2>2. /\ fi \in Files /\ Choice!Target(a) = fi /\ Choice!EntriesOf(a) = {fi}
        /\ IF files[fi].binary
            THEN a.form = "*" \/ (a.form = "list" /\ ~Listing)
            ELSE /\ a.form = "list" => Choice!Numbers(a) \subseteq DOMAIN Subs(fi)
                 /\ a.form = "cut"  => a.index \in DOMAIN Subs(fi)
        /\ files[fi].binary => Choice!Named(a) = {}
        /\ ~files[fi].binary =>
             /\ a.form = "*" => Choice!Named(a) = {fi} \X DOMAIN Subs(fi)
             /\ a.form = "list" => Choice!Named(a) = {fi} \X Choice!Numbers(a)
             /\ a.form = "cut" => Choice!Named(a) = {<<fi, a.index>>}
    BY <1>2, <2>1, OwnedIsKnown
  <2>3. a.form \in {"*", "list", "cut"}
    BY <1>2 DEF Choice!Reads
  <2> HIDE DEF fi
  <2>4. CASE files[fi].binary
    BY <2>2, <2>4
  <2>5. CASE ~files[fi].binary /\ a.form = "*"
    BY <2>2, <2>5
  <2>6. CASE ~files[fi].binary /\ a.form = "list"
    BY <2>2, <2>6
  <2>7. CASE ~files[fi].binary /\ a.form = "cut"
    BY <2>2, <2>7
  <2>8. QED
    BY <2>3, <2>4, <2>5, <2>6, <2>7
<1>3. QED
  BY <1>1, <1>2

(* Where everything that is asked for is chosen.                           *)
AllChosen == RInv /\ Choice!Understood /\ ChosenAsMeant(DOMAIN Args)

(* Then every argument names what is there.                               *)
LEMMA ArgumentsAreKnown ==
  ASSUME AllChosen
  PROVE  \A i \in DOMAIN Args :
           /\ \A p \in Choice!Named(Args[i]) :
                /\ p = <<p[1], p[2]>> /\ p[1] \in Files /\ ~files[p[1]].binary
                /\ p[2] \in DOMAIN Subs(p[1]) /\ p[1] \in named
           /\ Args[i].form = "cut" => /\ Choice!Target(Args[i]) \in Files
                                      /\ Choice!Named(Args[i]) = {<<Choice!Target(Args[i]), Args[i].index>>}
<1> SUFFICES ASSUME NEW i \in DOMAIN Args
             PROVE  /\ \A p \in Choice!Named(Args[i]) :
                         /\ p = <<p[1], p[2]>> /\ p[1] \in Files /\ ~files[p[1]].binary
                         /\ p[2] \in DOMAIN Subs(p[1]) /\ p[1] \in named
                    /\ Args[i].form = "cut" =>
                         /\ Choice!Target(Args[i]) \in Files
                         /\ Choice!Named(Args[i]) = {<<Choice!Target(Args[i]), Args[i].index>>}
  OBVIOUS
<1>1. Choice!Reads(Args[i]) /\ Choice!Known(Args[i])
  BY ChoiceIs DEF AllChosen, Choice!Understood
<1>2. Choice!EntriesOf(Args[i]) \subseteq named
  BY DEF AllChosen, ChosenAsMeant
<1>3. TypeOK
  BY DEF AllChosen, RInv
<1>4. QED
  BY <1>1, <1>2, <1>3, NamedAreThere

(* The whole sub-hunks chosen and the cuts, each by an argument.           *)
LEMMA ChosenIs ==
  ASSUME AllChosen, NEW fi \in Files
  PROVE  /\ \A k : k \in whole[fi] <=>
              /\ k \in DOMAIN Subs(fi)
              /\ \E i \in DOMAIN Args : Args[i].form # "cut" /\ <<fi, k>> \in Choice!Named(Args[i])
         /\ \A c \in DOMAIN cuts[fi] : \E i \in DOMAIN Args :
              CutBy(fi, c, i) /\ Choice!Named(Args[i]) = {<<fi, cuts[fi][c].index>>}
         /\ \A i \in DOMAIN Args : Args[i].form = "cut" /\ Choice!Target(Args[i]) = fi =>
              \E c \in DOMAIN cuts[fi] : CutBy(fi, c, i)
<1>1. /\ whole[fi] = {k \in DOMAIN Subs(fi) :
                        \E i \in DOMAIN Args : Args[i].form # "cut" /\ <<fi, k>> \in Choice!Named(Args[i])}
      /\ \A c \in DOMAIN cuts[fi] : \E i \in DOMAIN Args : CutBy(fi, c, i)
  BY DEF AllChosen, ChosenAsMeant, CutsAsMeant
<1>2. \A i \in DOMAIN Args : Args[i].form = "cut" /\ Choice!Target(Args[i]) = fi =>
        \E c \in DOMAIN cuts[fi] : CutBy(fi, c, i)
  BY DEF AllChosen, ChosenAsMeant, CutsAsMeant
<1>3. \A c, i : i \in DOMAIN Args /\ CutBy(fi, c, i) => Choice!Named(Args[i]) = {<<fi, cuts[fi][c].index>>}
  BY ArgumentsAreKnown DEF CutBy
<1>4. QED
  BY <1>1, <1>2, <1>3

(* A pick of an entry, as it is meant.                                     *)
Meaning(fi, p) == <<<<fi, p.index>>, p.lines>>

(* What can be picked, entry by entry, is what all arguments mean.        *)
LEMMA PicksAreMeant ==
  ASSUME AllChosen
  PROVE  Choice!Picks = UNION {{Meaning(fi, p) : p \in PicksOf(fi)} : fi \in Files}
<1>1. ASSUME NEW i \in DOMAIN Args, NEW p \in Choice!Named(Args[i])
      PROVE  \E q \in PicksOf(p[1]) : Meaning(p[1], q) = <<p, Choice!LinesOf(Args[i], p)>>
  <2> DEFINE fi == p[1]
             k == p[2]
  <2>1. p = <<fi, k>> /\ fi \in Files /\ k \in DOMAIN Subs(fi)
    BY ArgumentsAreKnown
  <2>2. CASE Args[i].form = "cut"
    <3>1. Choice!Target(Args[i]) = fi /\ Args[i].index = k
      BY <2>1, <2>2, ArgumentsAreKnown
    <3>2. PICK c \in DOMAIN cuts[fi] : CutBy(fi, c, i)
      BY <2>1, <2>2, <3>1, ChosenIs
    <3> DEFINE q == CutPick(cuts[fi][c])
    <3>3. q \in PicksOf(fi)
      BY DEF PicksOf
    <3>4. q.index = k /\ q.lines = Choice!Numbers(Args[i])
      BY <3>1, <3>2 DEF CutPick, CutBy
    <3>5. Choice!LinesOf(Args[i], p) = Choice!Numbers(Args[i])
      BY <2>2 DEF Choice!LinesOf
    <3> HIDE DEF q
    <3>6. QED
      BY <2>1, <3>3, <3>4, <3>5 DEF Meaning
  <2>3. CASE Args[i].form # "cut"
    <3>1. k \in whole[fi]
      BY <2>1, <2>3, ChosenIs
    <3> DEFINE q == WholePick(fi, k)
    <3>2. q \in PicksOf(fi)
      BY <3>1 DEF PicksOf
    <3>3. q.index = k /\ q.lines = 1..ChangedCount(Subs(fi)[k])
      BY DEF WholePick
    <3>4. Choice!LinesOf(Args[i], p) = 1..ChangedCount(Subs(fi)[k])
      BY <2>3, ChoiceIs, TermsAreTheSame DEF Choice!LinesOf
    <3> HIDE DEF q
    <3>5. QED
      BY <2>1, <3>2, <3>3, <3>4 DEF Meaning
  <2>4. QED
    BY <2>2, <2>3
<1>2. ASSUME NEW fi \in Files, NEW q \in PicksOf(fi)
      PROVE  \E i \in DOMAIN Args : \E p \in Choice!Named(Args[i]) :
               Meaning(fi, q) = <<p, Choice!LinesOf(Args[i], p)>>
  <2>1. CASE \E k \in whole[fi] : q = WholePick(fi, k)
    <3>1. PICK k \in whole[fi] : q = WholePick(fi, k)
      BY <2>1
    <3>2. PICK i \in DOMAIN Args : Args[i].form # "cut" /\ <<fi, k>> \in Choice!Named(Args[i])
      BY ChosenIs
    <3>3. q.index = k /\ q.lines = 1..ChangedCount(Subs(fi)[k])
      BY <3>1 DEF WholePick
    <3>4. Choice!LinesOf(Args[i], <<fi, k>>) = 1..ChangedCount(Subs(fi)[k])
      BY <3>2, ChoiceIs, TermsAreTheSame DEF Choice!LinesOf
    <3>5. QED
      BY <3>2, <3>3, <3>4 DEF Meaning
  <2>2. CASE \E c \in DOMAIN cuts[fi] : q = CutPick(cuts[fi][c])
    <3>1. PICK c \in DOMAIN cuts[fi] : q = CutPick(cuts[fi][c])
      BY <2>2
    <3>2. PICK i \in DOMAIN Args : CutBy(fi, c, i) /\ Choice!Named(Args[i]) = {<<fi, cuts[fi][c].index>>}
      BY ChosenIs
    <3>3. q.index = cuts[fi][c].index /\ q.lines = Choice!Numbers(Args[i])
      BY <3>1, <3>2 DEF CutPick, CutBy
    <3>4. Choice!LinesOf(Args[i], <<fi, q.index>>) = q.lines
      BY <3>2, <3>3 DEF Choice!LinesOf, CutBy
    <3>5. QED
      BY <3>2, <3>3, <3>4 DEF Meaning
  <2>3. QED
    BY <2>1, <2>2 DEF PicksOf
<1>3. Choice!Picks = UNION {{<<p, Choice!LinesOf(Args[i], p)>> : p \in Choice!Named(Args[i])} : i \in DOMAIN Args}
  BY ChoiceIs DEF Choice!Picks
<1>4. ASSUME NEW x \in Choice!Picks PROVE \E fi \in Files : \E q \in PicksOf(fi) : x = Meaning(fi, q)
  <2>1. PICK i \in DOMAIN Args : \E p \in Choice!Named(Args[i]) : x = <<p, Choice!LinesOf(Args[i], p)>>
    BY <1>3
  <2> PICK p \in Choice!Named(Args[i]) : x = <<p, Choice!LinesOf(Args[i], p)>>
    BY <2>1
  <2>2. p[1] \in Files
    BY ArgumentsAreKnown
  <2>3. QED
    BY <1>1, <2>2
<1>5. ASSUME NEW fi \in Files, NEW q \in PicksOf(fi) PROVE Meaning(fi, q) \in Choice!Picks
  BY <1>2, <1>3
<1>6. QED
  BY <1>4, <1>5

-----------------------------------------------------------------------------
(* What is refused of the chosen is what is refused of the meant.          *)

(* No entry has a cut beside another pick of its sub-hunk.                 *)
LEMMA ConflictsAreMeant ==
  ASSUME AllChosen
  PROVE  Choice!Compatible <=> \A fi \in Files : ~Conflicting(fi)
<1>1. Choice!Compatible <=>
        \A i, j \in DOMAIN Args : i # j /\ Args[i].form = "cut" =>
          Choice!Named(Args[i]) \intersect Choice!Named(Args[j]) = {}
  BY ChoiceIs DEF Choice!Compatible
<1>2. ASSUME Choice!Compatible, NEW fi \in Files, NEW c \in DOMAIN cuts[fi], cuts[fi][c].index \in whole[fi]
      PROVE  FALSE
  <2>1. PICK i \in DOMAIN Args : CutBy(fi, c, i) /\ Choice!Named(Args[i]) = {<<fi, cuts[fi][c].index>>}
    BY ChosenIs
  <2>2. PICK j \in DOMAIN Args : Args[j].form # "cut" /\ <<fi, cuts[fi][c].index>> \in Choice!Named(Args[j])
    BY <1>2, ChosenIs
  <2>3. QED
    BY <1>1, <1>2, <2>1, <2>2 DEF CutBy
<1>3. ASSUME Choice!Compatible, NEW fi \in Files, NEW c \in DOMAIN cuts[fi], NEW d \in DOMAIN cuts[fi],
             d # c, cuts[fi][d].index = cuts[fi][c].index
      PROVE  FALSE
  <2>1. PICK i \in DOMAIN Args : \E j \in DOMAIN Args : i # j /\ SameCut(i, j) /\ CutBy(fi, c, i)
    BY <1>3 DEF AllChosen, ChosenAsMeant, CutsAsMeant
  <2>2. PICK j \in DOMAIN Args : i # j /\ SameCut(i, j) /\ CutBy(fi, c, i)
    BY <2>1
  <2>3. Choice!Named(Args[i]) = Choice!Named(Args[j]) /\ Choice!Named(Args[i]) # {}
    BY <2>2, ArgumentsAreKnown DEF SameCut
  <2>4. QED
    BY <1>1, <1>3, <2>2, <2>3 DEF SameCut
<1>4. ASSUME \A fi \in Files : ~Conflicting(fi),
             NEW i \in DOMAIN Args, NEW j \in DOMAIN Args, i # j, Args[i].form = "cut",
             NEW p \in Choice!Named(Args[i]), p \in Choice!Named(Args[j])
      PROVE  FALSE
  <2> DEFINE fi == Choice!Target(Args[i])
  <2>1. fi \in Files /\ p = <<fi, Args[i].index>> /\ p[2] \in DOMAIN Subs(p[1])
    BY <1>4, ArgumentsAreKnown
  <2>2. PICK c \in DOMAIN cuts[fi] : CutBy(fi, c, i)
    BY <1>4, <2>1, ChosenIs
  <2>3. CASE Args[j].form = "cut"
    <3>1. p = <<Choice!Target(Args[j]), Args[j].index>>
      BY <1>4, <2>3, ArgumentsAreKnown
    <3>2. SameCut(i, j)
      BY <1>4, <2>1, <2>3, <3>1 DEF SameCut
    <3>3. \E c1, d1 \in DOMAIN cuts[fi] :
            c1 # d1 /\ cuts[fi][c1].index = Args[i].index /\ cuts[fi][d1].index = Args[i].index
      BY <1>4, <3>2 DEF AllChosen, ChosenAsMeant, CutsAsMeant
    <3>4. Conflicting(fi)
      BY <3>3 DEF Conflicting
    <3>5. QED
      BY <1>4, <2>1, <3>4
  <2>4. CASE Args[j].form # "cut"
    <3>1. Args[i].index \in whole[fi]
      BY <1>4, <2>1, <2>4, ChosenIs
    <3>2. Conflicting(fi)
      BY <2>2, <3>1 DEF Conflicting, CutBy
    <3>3. QED
      BY <1>4, <2>1, <3>2
  <2>5. QED
    BY <2>3, <2>4
<1>5. Choice!Compatible => \A fi \in Files : ~Conflicting(fi)
  BY <1>2, <1>3 DEF Conflicting
<1>6. (\A fi \in Files : ~Conflicting(fi)) => Choice!Compatible
  BY <1>1, <1>4
<1>7. QED
  BY <1>5, <1>6

(* Every number of a cut is that of a changed line.                        *)
LEMMA CutsFitAsMeant ==
  ASSUME AllChosen
  PROVE  Choice!CutsFit <=> \A fi \in Files : \A p \in PicksOf(fi) : Taken(fi, p)
<1>1. Choice!CutsFit <=>
        \A i \in DOMAIN Args : Args[i].form = "cut" =>
          \A p \in Choice!Named(Args[i]) : Choice!Numbers(Args[i]) \subseteq 1..ChangedCount(Subs(p[1])[p[2]])
  BY ChoiceIs, TermsAreTheSame DEF Choice!CutsFit
<1>2. ASSUME Choice!CutsFit, NEW fi \in Files, NEW c \in DOMAIN cuts[fi]
      PROVE  Taken(fi, CutPick(cuts[fi][c]))
  <2>1. PICK i \in DOMAIN Args : CutBy(fi, c, i) /\ Choice!Named(Args[i]) = {<<fi, cuts[fi][c].index>>}
    BY ChosenIs
  <2>2. Choice!Numbers(Args[i]) \subseteq 1..ChangedCount(Subs(fi)[cuts[fi][c].index])
    <3> DEFINE p == <<fi, cuts[fi][c].index>>
    <3>1. p \in Choice!Named(Args[i]) /\ Args[i].form = "cut" /\ p[1] = fi /\ p[2] = cuts[fi][c].index
      BY <2>1 DEF CutBy
    <3> HIDE DEF p
    <3>2. Choice!Numbers(Args[i]) \subseteq 1..ChangedCount(Subs(p[1])[p[2]])
      BY <1>1, <1>2, <3>1
    <3>3. QED
      BY <3>1, <3>2
  <2> DEFINE q == CutPick(cuts[fi][c])
  <2>3. q.index = cuts[fi][c].index /\ q.lines = Choice!Numbers(Args[i])
    BY <2>1 DEF CutPick, CutBy
  <2> HIDE DEF q
  <2>4. Taken(fi, q)
    BY <2>2, <2>3 DEF Taken
  <2>5. QED
    BY <2>4 DEF q
<1>3. ASSUME NEW fi \in Files, NEW k \in whole[fi] PROVE Taken(fi, WholePick(fi, k))
  BY DEF Taken, WholePick
<1>4. ASSUME \A fi \in Files : \A p \in PicksOf(fi) : Taken(fi, p),
             NEW i \in DOMAIN Args, Args[i].form = "cut", NEW p \in Choice!Named(Args[i])
      PROVE  Choice!Numbers(Args[i]) \subseteq 1..ChangedCount(Subs(p[1])[p[2]])
  <2> DEFINE fi == Choice!Target(Args[i])
  <2>1. fi \in Files /\ p = <<fi, Args[i].index>>
    BY <1>4, ArgumentsAreKnown
  <2>2. PICK c \in DOMAIN cuts[fi] : CutBy(fi, c, i)
    BY <1>4, <2>1, ChosenIs
  <2>3. CutPick(cuts[fi][c]) \in PicksOf(fi)
    BY DEF PicksOf
  <2>4. Taken(fi, CutPick(cuts[fi][c]))
    BY <1>4, <2>1, <2>3
  <2> DEFINE q == CutPick(cuts[fi][c])
  <2>5. q.index = Args[i].index /\ q.lines = Choice!Numbers(Args[i])
    BY <2>2 DEF CutPick, CutBy
  <2> HIDE DEF q
  <2>6. Choice!Numbers(Args[i]) \subseteq 1..ChangedCount(Subs(fi)[Args[i].index])
    BY <2>4, <2>5 DEF Taken, q
  <2>7. QED
    BY <2>1, <2>6
<1>5. Choice!CutsFit => \A fi \in Files : \A p \in PicksOf(fi) : Taken(fi, p)
  BY <1>2, <1>3 DEF PicksOf
<1>6. QED
  BY <1>1, <1>4, <1>5

Remains(fi, p) == files[fi].deletes /\ LeavesContext(Subs(fi)[p.index], p.lines)

(* Nothing remains of a file its entry deletes.                            *)
LEMMA DeletionsAreMeant ==
  ASSUME AllChosen
  PROVE  Choice!DeletionsStand <=> \A fi \in Files : \A p \in PicksOf(fi) : ~Remains(fi, p)
<1> DEFINE Stands(x) == files[x[1][1]].deletes => ~LeavesContext(Subs(x[1][1])[x[1][2]], x[2])
<1>1. Choice!DeletionsStand <=> \A x \in Choice!Picks : Stands(x)
  BY ChoiceIs, TermsAreTheSame DEF Choice!DeletionsStand
<1>2. \A fi, p : Stands(Meaning(fi, p)) <=> ~Remains(fi, p)
  BY DEF Meaning, Remains
<1> HIDE DEF Stands
<1>3. (\A x \in Choice!Picks : Stands(x)) <=> \A fi \in Files : \A p \in PicksOf(fi) : Stands(Meaning(fi, p))
  BY PicksAreMeant
<1>4. QED
  BY <1>1, <1>2, <1>3

(* An entry that is not named, or has no sub-hunks, has no picks.          *)
LEMMA NothingIsPicked ==
  ASSUME AllChosen, NEW fi \in Files, fi \notin named \/ files[fi].binary
  PROVE  PicksOf(fi) = {} /\ Emittable(fi)
<1>1. \A i \in DOMAIN Args : \A k : <<fi, k>> \notin Choice!Named(Args[i])
  <2> SUFFICES ASSUME NEW i \in DOMAIN Args, NEW k, <<fi, k>> \in Choice!Named(Args[i]) PROVE FALSE
    OBVIOUS
  <2>1. <<fi, k>>[1] = fi
    OBVIOUS
  <2>2. <<fi, k>>[1] \in named /\ ~files[<<fi, k>>[1]].binary
    BY ArgumentsAreKnown
  <2>3. QED
    BY <2>1, <2>2
<1>2. \A k : k \notin whole[fi]
  BY <1>1, ChosenIs
<1>3. \A c : c \notin DOMAIN cuts[fi]
  BY <1>1, ChosenIs
<1>4. PicksOf(fi) = {}
  BY <1>2, <1>3 DEF PicksOf
<1>5. ~Conflicting(fi)
  BY <1>3 DEF Conflicting
<1>6. QED
  BY <1>4, <1>5 DEF Emittable

(* So a selection is refused if one of its entries is.                     *)
LEMMA SelectionIs ==
  ASSUME AllChosen, request.command = "select"
  PROVE  /\ (\A fi \in named : Emittable(fi)) => Choice!Answer = Choice!Selection
         /\ (\E fi \in named : ~Emittable(fi)) => Choice!Answer = Choice!Refusal
         /\ Choice!Entries = named
<1>1. named \subseteq Files
  BY DEF AllChosen, RInv, TypeOK
<1>2. (\A fi \in named : Emittable(fi)) <=> (\A fi \in Files : Emittable(fi))
  BY <1>1, NothingIsPicked
<1>3. (\A fi \in Files : Emittable(fi)) <=>
        Choice!Compatible /\ Choice!CutsFit /\ Choice!DeletionsStand
  BY ConflictsAreMeant, CutsFitAsMeant, DeletionsAreMeant DEF Emittable, Remains
<1>4. Choice!Answer = IF Choice!Compatible /\ Choice!CutsFit /\ Choice!DeletionsStand
                      THEN Choice!Selection ELSE Choice!Refusal
  BY DEF Choice!Answer, AllChosen
<1>5. Choice!Entries = named
  BY ChoiceIs DEF Choice!Entries, AllChosen, ChosenAsMeant
<1>6. QED
  BY <1>2, <1>3, <1>4, <1>5

-----------------------------------------------------------------------------
(* Emission.                                                               *)

LEMMA AppendHas ==
  ASSUME NEW S, NEW s \in Seq(S), NEW e
  PROVE  /\ \A i \in DOMAIN Append(s, e) :
              \/ i \in DOMAIN s /\ Append(s, e)[i] = s[i]
              \/ Append(s, e)[i] = e
         /\ \A i \in DOMAIN s : i \in DOMAIN Append(s, e) /\ Append(s, e)[i] = s[i]
         /\ \E i \in DOMAIN Append(s, e) : Append(s, e)[i] = e
<1>1. Len(s) \in Nat /\ DOMAIN s = 1..Len(s) /\ DOMAIN Append(s, e) = 1..(Len(s) + 1)
  OBVIOUS
<1>2. \A i \in 1..Len(s) : Append(s, e)[i] = s[i]
  OBVIOUS
<1>3. Len(s) + 1 \in DOMAIN Append(s, e) /\ Append(s, e)[Len(s) + 1] = e
  OBVIOUS
<1>4. QED
  BY <1>1, <1>2, <1>3

(* What can be picked of an entry depends on what is chosen alone.         *)
LEMMA PicksStay ==
  ASSUME UNCHANGED <<input, whole, cuts>>
  PROVE  \A fi : /\ PicksOf(fi)' = PicksOf(fi) /\ Conflicting(fi)' = Conflicting(fi)
                 /\ Emittable(fi)' = Emittable(fi)
                 /\ \A p : Taken(fi, p)' = Taken(fi, p)
<1>1. files' = files /\ \A fi : Subs(fi)' = Subs(fi)
  BY MeaningStays
<1>2. \A fi : PicksOf(fi)' = PicksOf(fi)
  BY <1>1 DEF PicksOf, WholePick, CutPick
<1>3. \A fi : Conflicting(fi)' = Conflicting(fi)
  BY DEF Conflicting
<1>4. \A fi, p : Taken(fi, p)' = Taken(fi, p)
  BY <1>1 DEF Taken
<1>5. \A fi : Emittable(fi)' = Emittable(fi)
  BY <1>1, <1>2, <1>3, <1>4 DEF Emittable
<1>6. QED
  BY <1>2, <1>3, <1>4, <1>5

(* Past resolution the choice stands.                                      *)
LEMMA ChoiceStands ==
  ASSUME Meant, phase \in {"emit", "pick", "list", "address"}, phase' \in {"emit", "pick", "list", "done"},
         phase = "address" => phase' = "done",
         UNCHANGED <<input, parsing, resolving>>
  PROVE  ReadAsSaid' /\ Charged' /\ ResolvedAsMeant'
<1>1. UNCHANGED <<input, sels, named, whole, cuts>>
  BY DEF parsing, resolving
<1>2. ReadAsSaid'
  BY <1>1, SelectorsStay
<1>3. Charged'
  BY DEF Charged
<1>4. ASSUME phase' \in {"emit", "pick", "list"}
      PROVE  ChosenAsMeant(DOMAIN Args)'
  <2>1. PICK is : is = DOMAIN Args
    OBVIOUS
  <2>2. ChosenAsMeant(is)
    BY <1>4, <2>1 DEF Meant, ResolvedAsMeant
  <2>3. ChosenAsMeant(is)'
    BY <1>1, <2>2, ChosenStays
  <2>4. (DOMAIN Args)' = is
    BY <1>1, <2>1, MeaningStays
  <2>5. QED
    BY <2>3, <2>4
<1>5. ResolvedAsMeant'
  BY <1>4 DEF ResolvedAsMeant
<1>6. QED
  BY <1>2, <1>3, <1>5

(* What is chosen is there for every entry emitted.                        *)
LEMMA AllIsChosen ==
  ASSUME RInv, Meant, phase \in {"emit", "pick"}
  PROVE  AllChosen /\ request.command = "select" /\ named \subseteq Files
  BY DEF AllChosen, Meant, ResolvedAsMeant, EmittedAsMeant, RInv, TypeOK

(* An entry that cannot be emitted is reason enough.                       *)
LEMMA RefusedInEmission ==
  ASSUME RInv, Meant, phase \in {"emit", "pick"}, at \in named, ~Emittable(at), NEW error, Refuse(error)
  PROVE  Meant'
<1>1. Choice!Answer = Choice!Refusal
  BY AllIsChosen, SelectionIs
<1>2. QED
  BY <1>1, RefusalIsMeant DEF Meant

(* The result goes on with the next entry.                                 *)
LEMMA EmitsOne ==
  ASSUME RInv, Meant, phase \in {"emit", "pick"}, at \in named, Emittable(at),
         NEW ps, {ps[j] : j \in DOMAIN ps} = PicksOf(at),
         NEW ends, out' = Append(out, [entry |-> at, picks |-> ps, ends |-> ends]),
         phase' = "emit", at' = at + 1, UNCHANGED <<input, why, parsing, resolving, rows>>
  PROVE  Meant'
<1> DEFINE r == [entry |-> at, picks |-> ps, ends |-> ends]
           o == out'
<1>1. /\ ReadAsSaid' /\ Charged' /\ ResolvedAsMeant'
      /\ \A fi : PicksOf(fi)' = PicksOf(fi) /\ Emittable(fi)' = Emittable(fi)
      /\ named' = named
  BY ChoiceStands, PicksStay DEF resolving
<1>2. /\ request.command = "select" /\ Choice!Understood
      /\ {out[i].entry : i \in DOMAIN out} = {fi \in named : fi < at}
      /\ \A i \in DOMAIN out : {out[i].picks[j] : j \in DOMAIN out[i].picks} = PicksOf(out[i].entry)
      /\ \A fi \in named : fi < at => Emittable(fi)
  BY DEF Meant, EmittedAsMeant
<1>3. named \subseteq Nat /\ at \in Nat /\ at' = at + 1
  BY FilesAre DEF RInv, TypeOK
<1>4. {fi \in named : fi < at + 1} = {fi \in named : fi < at} \union {at}
  <2>1. \A fi \in named : fi < at + 1 <=> fi < at \/ fi = at
    BY <1>3
  <2>2. at \in named
    OBVIOUS
  <2> HIDE DEF r, o
  <2>3. \A x : x \in {fi \in named : fi < at + 1} <=> x \in {fi \in named : fi < at} \union {at}
    BY <2>1, <2>2, Zenon
  <2>4. QED
    BY <2>3
<1>5. r.entry = at /\ r.picks = ps
  OBVIOUS
<1>6. /\ \A i \in DOMAIN o : (i \in DOMAIN out /\ o[i] = out[i]) \/ o[i] = r
      /\ \A i \in DOMAIN out : i \in DOMAIN o /\ o[i] = out[i]
      /\ \E i \in DOMAIN o : o[i] = r
  <2>1. out \in Seq(Output)
    BY DEF RInv, TypeOK
  <2> HIDE DEF r
  <2>2. out' = Append(out, r)
    BY DEF r
  <2>3. QED
    BY <2>1, <2>2, AppendHas
<1> HIDE DEF r, o
<1>7. {o[i].entry : i \in DOMAIN o} = {out[i].entry : i \in DOMAIN out} \union {at}
  BY <1>5, <1>6
<1>8. \A i \in DOMAIN o : {o[i].picks[j] : j \in DOMAIN o[i].picks} = PicksOf(o[i].entry)
  <2> SUFFICES ASSUME NEW i \in DOMAIN o PROVE {o[i].picks[j] : j \in DOMAIN o[i].picks} = PicksOf(o[i].entry)
    OBVIOUS
  <2>1. CASE i \in DOMAIN out /\ o[i] = out[i]
    BY <1>2, <2>1
  <2>2. CASE o[i] = r
    BY <1>5, <2>2
  <2>3. QED
    BY <1>6, <2>1, <2>2
<1>9. \A fi \in named : fi < at + 1 => Emittable(fi)
  BY <1>2, <1>3
<1>10. EmittedAsMeant'
  <2>1. request'.command = "select" /\ Choice!Understood'
    BY <1>2, MeaningStays DEF input
  <2>2. {out'[i].entry : i \in DOMAIN out'} = {fi \in named' : fi < at'}
    BY <1>1, <1>2, <1>3, <1>4, <1>7 DEF o
  <2>3. (\A i \in DOMAIN out : {out[i].picks[j] : j \in DOMAIN out[i].picks} = PicksOf(out[i].entry))'
    BY <1>1, <1>8 DEF o
  <2>4. \A fi \in named' : fi < at' => Emittable(fi)'
    BY <1>1, <1>3, <1>9
  <2>5. QED
    BY <2>1, <2>2, <2>3, <2>4 DEF EmittedAsMeant
<1>11. QED
  BY <1>1, <1>10 DEF Meant, ListedAsMeant, AnsweredAsMeant

(* An entry begins with everything that is to be picked of it,            *)
LEMMA BeginEntryIsMeant ==
  ASSUME RInv, Meant, BeginEntry
  PROVE  Meant'
<1>1. /\ phase = "emit" /\ phase' = "pick" /\ at' = at /\ at \in named /\ ~files[at].binary /\ ~Conflicting(at)
      /\ todo' = PicksOf(at) /\ picks' = <<>>
      /\ UNCHANGED <<input, at, parsing, resolving, out, rows>>
  BY DEF BeginEntry, Emitting, PicksOf
<1>2. /\ ReadAsSaid' /\ Charged' /\ ResolvedAsMeant'
      /\ \A fi : PicksOf(fi)' = PicksOf(fi) /\ Emittable(fi)' = Emittable(fi) /\ Conflicting(fi)' = Conflicting(fi)
      /\ named' = named /\ files' = files
  BY <1>1, ChoiceStands, PicksStay, MeaningStays DEF resolving
<1>3. EmittedAsMeant'
  <2>1. request'.command = "select" /\ Choice!Understood'
    BY <1>1, MeaningStays DEF input, Meant, EmittedAsMeant
  <2>2. /\ {out'[i].entry : i \in DOMAIN out'} = {fi \in named' : fi < at'}
        /\ (\A i \in DOMAIN out : {out[i].picks[j] : j \in DOMAIN out[i].picks} = PicksOf(out[i].entry))'
        /\ \A fi \in named' : fi < at' => Emittable(fi)'
    BY <1>1, <1>2 DEF Meant, EmittedAsMeant
  <2>3. /\ at' \in named' /\ ~files'[at'].binary /\ ~Conflicting(at)'
        /\ PicksOf(at)' = todo'
    <3>1. PICK k : k = at
      OBVIOUS
    <3>2. PicksOf(k)' = PicksOf(k) /\ Conflicting(k)' = Conflicting(k)
      BY <1>2
    <3>3. at' = k
      BY <1>1, <3>1
    <3>4. QED
      BY <1>1, <1>2, <3>1, <3>2, <3>3
  <2>4. {picks'[j] : j \in DOMAIN picks'} = {} /\ DOMAIN picks' = {}
    BY <1>1
  <2>5. (todo \union {picks[j] : j \in DOMAIN picks} = PicksOf(at))'
    BY <2>3, <2>4
  <2>6. QED
    BY <2>1, <2>2, <2>3, <2>4, <2>5 DEF EmittedAsMeant
<1>4. QED
  BY <1>1, <1>2, <1>3 DEF Meant, ListedAsMeant, AnsweredAsMeant

(* goes on pick by pick,                                                  *)
LEMMA TakePickIsMeant ==
  ASSUME RInv, Meant, TakePick
  PROVE  Meant'
<1>1. PICK p \in todo : Fits(p) /\ todo' = todo \ {p} /\ picks' = Append(picks, p)
  BY DEF TakePick
<1>2. /\ phase = "pick" /\ phase' = "pick" /\ at' = at
      /\ UNCHANGED <<input, at, parsing, resolving, out, rows>>
  BY DEF TakePick
<1>3. /\ ReadAsSaid' /\ Charged' /\ ResolvedAsMeant'
      /\ \A fi : /\ PicksOf(fi)' = PicksOf(fi) /\ Emittable(fi)' = Emittable(fi) /\ Conflicting(fi)' = Conflicting(fi)
                 /\ \A q : Taken(fi, q)' = Taken(fi, q)
      /\ named' = named /\ files' = files
  BY <1>2, ChoiceStands, PicksStay, MeaningStays DEF resolving
<1>4. /\ at \in named /\ ~files[at].binary /\ ~Conflicting(at)
      /\ todo \union {picks[j] : j \in DOMAIN picks} = PicksOf(at)
      /\ \A j \in DOMAIN picks : Taken(at, picks[j])
      /\ Taken(at, p)
  BY <1>1, <1>2 DEF Meant, EmittedAsMeant, Fits, Taken
<1> DEFINE q == picks'
<1>5. /\ \A i \in DOMAIN q : (i \in DOMAIN picks /\ q[i] = picks[i]) \/ q[i] = p
      /\ \A i \in DOMAIN picks : i \in DOMAIN q /\ q[i] = picks[i]
      /\ \E i \in DOMAIN q : q[i] = p
  <2>1. picks \in Seq(Pick)
    BY DEF RInv, TypeOK
  <2>2. QED
    BY <1>1, <2>1, AppendHas
<1> HIDE DEF q
<1>6. todo' \union {q[j] : j \in DOMAIN q} = PicksOf(at)
  <2>1. {q[j] : j \in DOMAIN q} = {picks[j] : j \in DOMAIN picks} \union {p}
    BY <1>5
  <2>2. QED
    BY <1>1, <1>4, <2>1
<1>7. \A j \in DOMAIN q : Taken(at, q[j])
  BY <1>4, <1>5
<1>8. EmittedAsMeant'
  <2>1. request'.command = "select" /\ Choice!Understood'
    BY <1>2, MeaningStays DEF input, Meant, EmittedAsMeant
  <2>2. /\ {out'[i].entry : i \in DOMAIN out'} = {fi \in named' : fi < at'}
        /\ (\A i \in DOMAIN out : {out[i].picks[j] : j \in DOMAIN out[i].picks} = PicksOf(out[i].entry))'
        /\ \A fi \in named' : fi < at' => Emittable(fi)'
    BY <1>2, <1>3 DEF Meant, EmittedAsMeant
  <2>3. /\ at' \in named' /\ ~files'[at'].binary /\ ~Conflicting(at)'
        /\ PicksOf(at)' = PicksOf(at) /\ \A x : Taken(at, x)' = Taken(at, x)
    <3>1. PICK k : k = at
      OBVIOUS
    <3>2. /\ PicksOf(k)' = PicksOf(k) /\ Conflicting(k)' = Conflicting(k)
          /\ \A x : Taken(k, x)' = Taken(k, x)
      BY <1>3
    <3>3. at' = k
      BY <1>2, <3>1
    <3>4. QED
      BY <1>3, <1>4, <3>1, <3>2, <3>3
  <2>4. (todo \union {picks[j] : j \in DOMAIN picks} = PicksOf(at))'
    BY <1>6, <2>3 DEF q
  <2>5. (\A j \in DOMAIN picks : Taken(at, picks[j]))'
    BY <1>7, <2>3 DEF q
  <2>6. QED
    BY <2>1, <2>2, <2>3, <2>4, <2>5 DEF EmittedAsMeant
<1>9. QED
  BY <1>2, <1>3, <1>8 DEF Meant, ListedAsMeant, AnsweredAsMeant

(* and one that is not named is passed.                                   *)
LEMMA PassEntryIsMeant ==
  ASSUME RInv, Meant, PassEntry
  PROVE  Meant'
<1>1. /\ phase = "emit" /\ phase' = "emit" /\ at \notin named /\ at' = at + 1
      /\ UNCHANGED <<input, parsing, resolving, out, rows>>
  BY DEF PassEntry, Emitting, emitting
<1>2. /\ ReadAsSaid' /\ Charged' /\ ResolvedAsMeant'
      /\ \A fi : PicksOf(fi)' = PicksOf(fi) /\ Emittable(fi)' = Emittable(fi)
      /\ named' = named
  BY <1>1, ChoiceStands, PicksStay DEF resolving
<1>3. \A fi \in named : fi < at + 1 <=> fi < at
  <2>1. named \subseteq Nat /\ at \in Nat
    BY FilesAre DEF RInv, TypeOK
  <2>2. QED
    BY <1>1, <2>1
<1>4. EmittedAsMeant'
  <2>1. request'.command = "select" /\ Choice!Understood'
    BY <1>1, MeaningStays DEF input, Meant, EmittedAsMeant
  <2>2. {out[i].entry : i \in DOMAIN out} = {fi \in named : fi < at}
    BY <1>1 DEF Meant, EmittedAsMeant
  <2>3. {out'[i].entry : i \in DOMAIN out'} = {fi \in named' : fi < at'}
    BY <1>1, <1>2, <1>3, <2>2
  <2>4. (\A i \in DOMAIN out : {out[i].picks[j] : j \in DOMAIN out[i].picks} = PicksOf(out[i].entry))'
    BY <1>1, <1>2 DEF Meant, EmittedAsMeant
  <2>5. \A fi \in named' : fi < at' => Emittable(fi)'
    BY <1>1, <1>2, <1>3 DEF Meant, EmittedAsMeant
  <2>6. QED
    BY <1>1, <2>1, <2>3, <2>4, <2>5 DEF EmittedAsMeant
<1>5. QED
  BY <1>1, <1>2, <1>4 DEF Meant, ListedAsMeant, AnsweredAsMeant

(* What has been emitted, as an answer.                                    *)
Emitted ==
  [kind |-> "selected", entries |-> {out[i].entry : i \in DOMAIN out},
   picks |-> UNION {{<<<<out[i].entry, out[i].picks[j].index>>, out[i].picks[j].lines>> :
                      j \in DOMAIN out[i].picks} : i \in DOMAIN out}]

(* What has been listed, as one.                                           *)
Showed ==
  [kind |-> "listed", entries |-> {rows[r].entry : r \in DOMAIN rows},
   subs |-> UNION {{<<rows[r].entry, rows[r].hunks[h].index>> :
                     h \in DOMAIN rows[r].hunks} : r \in DOMAIN rows}]

(* The answer, case by case, now and in the next state.                    *)
LEMMA AnsweredIs ==
  /\ phase \notin {"done", "refused"} => Answered = Choice!Open
  /\ phase = "refused" => Answered = Choice!Refusal
  /\ phase = "done" /\ request.command = "select" => Answered = Emitted
  /\ phase = "done" /\ request.command = "list" => Answered = Showed
  /\ phase = "done" /\ request.command = "split" =>
       Answered = [kind |-> "target", entry |-> at, hunk |-> Position]
<1>1. ASSUME phase = "done", request.command = "select" PROVE Answered = Emitted
  <2>1. phase # "refused" /\ request.command # "list" /\ request.command # "split" /\ ~Listing
    BY <1>1 DEF Listing
  <2>2. QED
    BY <1>1, <2>1, Zenon DEF Answered, Emitted
<1>2. ASSUME phase = "done", request.command = "list" PROVE Answered = Showed
  <2>1. phase # "refused" /\ request.command # "select" /\ request.command # "split" /\ Listing
    BY <1>2 DEF Listing
  <2>2. QED
    BY <1>2, <2>1, Zenon DEF Answered, Showed
<1>3. ASSUME phase = "refused" PROVE Answered = Choice!Refusal
  <2>1. phase # "done"
    BY <1>3
  <2>2. QED
    BY <1>3, <2>1, Zenon DEF Answered, Choice!Refusal
<1>4. ASSUME phase \notin {"done", "refused"} PROVE Answered = Choice!Open
  <2>1. phase # "done" /\ phase # "refused"
    BY <1>4
  <2>2. QED
    BY <1>4, <2>1, Zenon DEF Answered, Choice!Open
<1>5. ASSUME phase = "done", request.command = "split"
      PROVE  Answered = [kind |-> "target", entry |-> at, hunk |-> Position]
  <2>1. phase # "refused" /\ request.command # "select" /\ request.command # "list" /\ ~Listing
    BY <1>5 DEF Listing
  <2>2. QED
    BY <1>5, <2>1, Zenon DEF Answered
<1>6. QED
  BY <1>1, <1>2, <1>3, <1>4, <1>5

(* (the same of the next state)                                           *)
LEMMA AnsweredBecomes ==
  /\ phase' \notin {"done", "refused"} => Answered' = Choice!Open
  /\ phase' = "refused" => Answered' = Choice!Refusal
  /\ phase' = "done" /\ request'.command = "select" => Answered' = Emitted'
  /\ phase' = "done" /\ request'.command = "list" => Answered' = Showed'
  /\ phase' = "done" /\ request'.command = "split" =>
       Answered' = [kind |-> "target", entry |-> at', hunk |-> Position']
<1>1. ASSUME phase' = "done", request'.command = "select" PROVE Answered' = Emitted'
  <2>1. phase' # "refused" /\ request'.command # "list" /\ request'.command # "split" /\ ~Listing'
    BY <1>1 DEF Listing
  <2>2. QED
    BY <1>1, <2>1, Zenon DEF Answered, Emitted
<1>2. ASSUME phase' = "done", request'.command = "list" PROVE Answered' = Showed'
  <2>1. phase' # "refused" /\ request'.command # "select" /\ request'.command # "split" /\ Listing'
    BY <1>2 DEF Listing
  <2>2. QED
    BY <1>2, <2>1, Zenon DEF Answered, Showed
<1>3. ASSUME phase' = "done", request'.command = "split"
      PROVE  Answered' = [kind |-> "target", entry |-> at', hunk |-> Position']
  <2>1. phase' # "refused" /\ request'.command # "select" /\ request'.command # "list" /\ ~Listing'
    BY <1>3 DEF Listing
  <2>2. QED
    BY <1>3, <2>1, Zenon DEF Answered
<1>4. ASSUME phase' = "refused" PROVE Answered' = Choice!Refusal
  <2>1. phase' # "done"
    BY <1>4
  <2>2. QED
    BY <1>4, <2>1, Zenon DEF Answered, Choice!Refusal
<1>5. ASSUME phase' \notin {"done", "refused"} PROVE Answered' = Choice!Open
  <2>1. phase' # "done" /\ phase' # "refused"
    BY <1>5
  <2>2. QED
    BY <1>5, <2>1, Zenon DEF Answered, Choice!Open
<1>6. QED
  BY <1>1, <1>2, <1>3, <1>4, <1>5

(* Once every entry is passed, the selection has been emitted.            *)
LEMMA EmittedIsTheSelection ==
  ASSUME RInv, Meant, phase = "emit", at > Len(files)
  PROVE  Emitted = Choice!Answer
<1>1. AllChosen /\ request.command = "select" /\ named \subseteq Files
  BY AllIsChosen
<1>2. \A fi \in named : fi < at
  <2>1. Files = 1..Len(files) /\ Len(files) \in Nat /\ at \in Nat
    BY FilesAre DEF RInv, TypeOK
  <2>2. QED
    BY <1>1, <2>1
<1>3. /\ {out[i].entry : i \in DOMAIN out} = {fi \in named : fi < at}
      /\ \A i \in DOMAIN out : {out[i].picks[j] : j \in DOMAIN out[i].picks} = PicksOf(out[i].entry)
      /\ \A fi \in named : fi < at => Emittable(fi)
  BY DEF Meant, EmittedAsMeant
<1>4. {out[i].entry : i \in DOMAIN out} = named
  BY <1>2, <1>3
<1>5. Choice!Answer = Choice!Selection /\ Choice!Entries = named
  BY <1>1, <1>2, <1>3, SelectionIs
<1> DEFINE P(i) == {<<<<out[i].entry, out[i].picks[j].index>>, out[i].picks[j].lines>> :
                     j \in DOMAIN out[i].picks}
<1>6. \A i \in DOMAIN out : P(i) = {Meaning(out[i].entry, p) : p \in PicksOf(out[i].entry)}
  <2> SUFFICES ASSUME NEW i \in DOMAIN out
               PROVE  P(i) = {Meaning(out[i].entry, p) : p \in PicksOf(out[i].entry)}
    OBVIOUS
  <2>1. P(i) = {Meaning(out[i].entry, out[i].picks[j]) : j \in DOMAIN out[i].picks}
    BY DEF Meaning
  <2> HIDE DEF P
  <2>2. {out[i].picks[j] : j \in DOMAIN out[i].picks} = PicksOf(out[i].entry)
    BY <1>3
  <2>3. QED
    BY <2>1, <2>2
<1>7. Emitted.picks = UNION {P(i) : i \in DOMAIN out} /\ Emitted.entries = named
  BY <1>4 DEF Emitted
<1> HIDE DEF P
<1>8. UNION {P(i) : i \in DOMAIN out} = Choice!Picks
  <2>1. Choice!Picks = UNION {{Meaning(fi, p) : p \in PicksOf(fi)} : fi \in Files}
    BY <1>1, PicksAreMeant
  <2>2. ASSUME NEW i \in DOMAIN out, NEW x \in P(i) PROVE x \in Choice!Picks
    <3>1. out[i].entry \in Files
      BY <1>1, <1>4
    <3>2. PICK p \in PicksOf(out[i].entry) : x = Meaning(out[i].entry, p)
      BY <1>6
    <3>3. QED
      BY <2>1, <3>1, <3>2
  <2>3. ASSUME NEW x \in Choice!Picks PROVE \E i \in DOMAIN out : x \in P(i)
    <3>1. PICK fi \in Files : \E p \in PicksOf(fi) : x = Meaning(fi, p)
      BY <2>1
    <3>2. fi \in named
      BY <1>1, <3>1, NothingIsPicked
    <3>3. PICK i \in DOMAIN out : out[i].entry = fi
      BY <1>4, <3>2
    <3>4. QED
      BY <1>6, <3>1, <3>3
  <2>4. QED
    BY <2>2, <2>3
<1>9. Emitted = [kind |-> "selected", entries |-> named, picks |-> Choice!Picks]
  BY <1>7, <1>8 DEF Emitted
<1>10. QED
  BY <1>5, <1>9 DEF Choice!Selection

(* Emission emits what is chosen, or refuses what is to be refused.       *)
LEMMA EmitKeepsMeant ==
  ASSUME RInv, Recorded, Meant, Emit
  PROVE  Meant'
<1>1. \A fi : ~Emittable(fi) <=> (Conflicting(fi) \/ \E p \in PicksOf(fi) : ~Taken(fi, p) \/ Remains(fi, p))
  BY DEF Emittable, Remains
<1>2. phase = "pick" =>
        /\ at \in named /\ ~files[at].binary /\ ~Conflicting(at)
        /\ todo \union {picks[j] : j \in DOMAIN picks} = PicksOf(at)
        /\ \A j \in DOMAIN picks : Taken(at, picks[j])
  BY DEF Meant, EmittedAsMeant
<1>3. CASE PassEntry
  BY <1>3, PassEntryIsMeant
<1>4. CASE EmitBinary
  <2>1. /\ phase = "emit" /\ at \in named /\ files[at].binary
        /\ out' = Append(out, [entry |-> at, picks |-> <<>>, ends |-> TRUE])
        /\ phase' = "emit" /\ at' = at + 1 /\ UNCHANGED <<input, why, parsing, resolving, rows>>
    BY <1>4 DEF EmitBinary, Emitting
  <2>2. PicksOf(at) = {} /\ Emittable(at)
    BY <2>1, AllIsChosen, NothingIsPicked
  <2> DEFINE ps == <<>>
  <2>3. {ps[j] : j \in DOMAIN ps} = PicksOf(at)
    BY <2>2
  <2> HIDE DEF ps
  <2>4. out' = Append(out, [entry |-> at, picks |-> ps, ends |-> TRUE])
    BY <2>1 DEF ps
  <2>5. QED
    BY <2>1, <2>2, <2>3, <2>4, EmitsOne
<1>5. CASE BeginEntry
  BY <1>5, BeginEntryIsMeant
<1>6. CASE RefuseConflict
  <2>1. phase = "emit" /\ at \in named /\ ~Emittable(at) /\ Refuse("LineSelect")
    BY <1>1, <1>6 DEF RefuseConflict, Emitting
  <2>2. QED
    BY <2>1, RefusedInEmission
<1>7. CASE TakePick
  BY <1>7, TakePickIsMeant
<1>8. CASE RefuseLines
  <2>1. phase = "pick" /\ Refuse("LineSelect") /\ \E p \in todo : ~Taken(at, p)
    BY <1>8 DEF RefuseLines, Fits, Taken
  <2>2. ~Emittable(at) /\ at \in named
    BY <1>1, <1>2, <2>1
  <2>3. QED
    BY <2>1, <2>2, RefusedInEmission
<1>9. CASE EndEntry
  <2>1. /\ phase = "pick" /\ todo = {} /\ ~PartialDeletion
        /\ out' = Append(out, [entry |-> at, picks |-> picks, ends |-> EndsOnItsLastLine])
        /\ phase' = "emit" /\ at' = at + 1 /\ UNCHANGED <<input, why, parsing, resolving, rows>>
    BY <1>9 DEF EndEntry
  <2>2. {picks[j] : j \in DOMAIN picks} = PicksOf(at) /\ at \in named
    BY <1>2, <2>1
  <2>3. \A p \in PicksOf(at) : Taken(at, p) /\ ~Remains(at, p)
    BY <1>2, <2>1, <2>2 DEF PartialDeletion, Remains
  <2>4. Emittable(at)
    BY <1>1, <1>2, <2>1, <2>3
  <2>5. QED
    BY <2>1, <2>2, <2>4, EmitsOne
<1>10. CASE RefuseDeletion
  <2>1. phase = "pick" /\ todo = {} /\ PartialDeletion /\ Refuse("LineSelect")
    BY <1>10 DEF RefuseDeletion
  <2>2. {picks[j] : j \in DOMAIN picks} = PicksOf(at) /\ at \in named
    BY <1>2, <2>1
  <2>3. \E p \in PicksOf(at) : Remains(at, p)
    BY <2>1, <2>2 DEF PartialDeletion, Remains
  <2>4. QED
    BY <1>1, <2>1, <2>2, <2>3, RefusedInEmission
<1>11. CASE EndEmit
  <2>1. /\ phase = "emit" /\ at > Len(files) /\ phase' = "done"
        /\ UNCHANGED <<input, why, at, parsing, resolving, out, rows>>
    BY <1>11 DEF EndEmit
  <2>2. ReadAsSaid' /\ Charged' /\ ResolvedAsMeant'
    BY <2>1, ChoiceStands
  <2>3. request'.command = "select" /\ Emitted = Choice!Answer
    BY <2>1, AllIsChosen, EmittedIsTheSelection DEF input
  <2>4. Answered' = Emitted'
    BY <2>1, <2>3, AnsweredBecomes
  <2>5. Emitted' = Emitted
    BY <2>1 DEF Emitted
  <2>6. Answered' = Choice!Answer'
    BY <2>1, <2>3, <2>4, <2>5, AnswerStays
  <2>7. QED
    BY <2>1, <2>2, <2>6 DEF Meant, EmittedAsMeant, ListedAsMeant, AnsweredAsMeant
<1>12. QED
  BY <1>3, <1>4, <1>5, <1>6, <1>7, <1>8, <1>9, <1>10, <1>11 DEF Emit

-----------------------------------------------------------------------------
(* The listings.                                                           *)

(* A row stands for the sub-hunks shown of its entry.                     *)
LEMMA RowIs ==
  ASSUME RInv, Listed, NEW r \in DOMAIN rows
  PROVE  /\ rows[r].entry \in Files
         /\ {<<rows[r].entry, rows[r].hunks[h].index>> : h \in DOMAIN rows[r].hunks}
            = {rows[r].entry} \X Shown(rows[r].entry)
<1>1. PICK fi \in Files : rows[r] = EntryRow(fi)
  BY DEF Listed
<1>2. rows[r].entry = fi /\ rows[r].hunks = [i \in Shown(fi) |-> Row(fi, i)]
  BY <1>1 DEF EntryRow
<1>3. \A h \in Shown(fi) : rows[r].hunks[h].index = h
  BY <1>2 DEF Row
<1>4. {<<fi, rows[r].hunks[h].index>> : h \in Shown(fi)} = {fi} \X Shown(fi)
  <2>1. {<<fi, rows[r].hunks[h].index>> : h \in Shown(fi)} = {<<fi, h>> : h \in Shown(fi)}
    BY <1>3
  <2>2. QED
    BY <2>1
<1>5. DOMAIN rows[r].hunks = Shown(fi)
  BY <1>2
<1>6. QED
  BY <1>2, <1>4, <1>5

(* What is shown of an entry is what the arguments mean.                   *)
LEMMA ShownIsMeant ==
  ASSUME RInv, Meant, phase = "list"
  PROVE  Choice!Answer = [kind |-> "listed", entries |-> {fi \in Files : ShowsFile(fi)},
                          subs |-> UNION {{fi} \X Shown(fi) : fi \in {f \in Files : ShowsFile(f)}}]
<1>1. /\ Listing /\ request.command = "list" /\ TypeOK /\ ChosenAsMeant(DOMAIN Args)
      /\ Args # <<>> => Choice!Understood /\ \A i \in DOMAIN Args : Args[i].form # "cut"
  BY DEF Meant, ListedAsMeant, ResolvedAsMeant, RInv, Listing
<1> DEFINE Fs == {fi \in Files : ShowsFile(fi)}
           All == UNION {{fi} \X Shown(fi) : fi \in Fs}
<1>2. ASSUME Args = <<>>
      PROVE  Choice!Answer = [kind |-> "listed", entries |-> Fs, subs |-> All]
  <2>1. Choice!Answer = Choice!Everything
    <3>1. request.command = "list" /\ request.command # "select" /\ request.command # "split"
      BY <1>1
    <3>2. Choice!Args = <<>>
      BY <1>2, ChoiceIs
    <3>3. QED
      BY <3>1, <3>2, Zenon DEF Choice!Answer
  <2>2. Choice!Everything = [kind |-> "listed", entries |-> Files,
                             subs |-> UNION {{fi} \X DOMAIN Subs(fi) : fi \in TextFiles}]
    BY ChoiceIs DEF Choice!Everything
  <2>3. ~Filtered
    BY <1>2 DEF Filtered, Args
  <2>4. Fs = Files /\ \A fi : Shown(fi) = DOMAIN Subs(fi)
    BY <2>3 DEF ShowsFile, Shown, ShowsSubHunk
  <2>5. \A fi \in Files : fi \notin TextFiles => DOMAIN Subs(fi) = {}
    BY <1>1, BinaryHasNoSubHunks DEF TextFiles
  <2>6. TextFiles \subseteq Files
    BY DEF TextFiles
  <2> HIDE DEF Fs
  <2>7. All = UNION {{fi} \X DOMAIN Subs(fi) : fi \in TextFiles}
    BY <2>4, <2>5, <2>6
  <2> HIDE DEF All
  <2>8. QED
    BY <2>1, <2>2, <2>4, <2>7
<1>3. ASSUME Args # <<>>
      PROVE  Choice!Answer = [kind |-> "listed", entries |-> Fs, subs |-> All]
  <2>1. AllChosen /\ named \subseteq Files
    BY <1>1, <1>3 DEF AllChosen, TypeOK
  <2>2. Choice!Answer = Choice!Shown
    <3>1. request.command = "list" /\ request.command # "select" /\ request.command # "split"
      BY <1>1
    <3>2. Choice!Args # <<>> /\ Choice!Understood /\ \A i \in DOMAIN Choice!Args : Choice!Args[i].form # "cut"
      BY <1>1, <1>3, ChoiceIs
    <3>3. QED
      BY <3>1, <3>2, Zenon DEF Choice!Answer
  <2> DEFINE Ns == UNION {Choice!Named(Args[i]) : i \in DOMAIN Args}
  <2>3. Choice!Shown = [kind |-> "listed", entries |-> named, subs |-> Ns]
    BY <1>1, ChoiceIs DEF Choice!Shown, Choice!Entries, ChosenAsMeant
  <2>4. Filtered
    BY <1>3 DEF Filtered, Args
  <2>5. Fs = named
    BY <2>1, <2>4 DEF ShowsFile
  <2>6. \A fi \in Files : Shown(fi) = whole[fi]
    BY <2>1, <2>4, ChosenIs DEF Shown, ShowsSubHunk
  <2> HIDE DEF Fs, All
  <2>7. ASSUME NEW x \in Ns PROVE x \in All
    <3>1. PICK i \in DOMAIN Args : x \in Choice!Named(Args[i])
      OBVIOUS
    <3>2. x = <<x[1], x[2]>> /\ x[1] \in named /\ x[1] \in Files /\ x[2] \in DOMAIN Subs(x[1])
      BY <2>1, <3>1, ArgumentsAreKnown
    <3>3. x[2] \in whole[x[1]]
      BY <1>1, <1>3, <2>1, <3>1, <3>2, ChosenIs
    <3> PICK fi \in Files : fi = x[1]
      BY <3>2
    <3>4. fi \in Fs /\ x \in {fi} \X Shown(fi)
      BY <2>5, <2>6, <3>2, <3>3
    <3>5. QED
      BY <3>4 DEF All
  <2>8. ASSUME NEW x \in All PROVE x \in Ns
    <3>1. PICK fi \in Fs : x \in {fi} \X Shown(fi)
      BY DEF All
    <3>2. fi \in Files /\ x[2] \in whole[fi] /\ x = <<fi, x[2]>>
      BY <2>1, <2>5, <2>6, <3>1
    <3>3. PICK i \in DOMAIN Args : <<fi, x[2]>> \in Choice!Named(Args[i])
      BY <2>1, <3>2, ChosenIs
    <3>4. QED
      BY <3>2, <3>3
  <2>9. Ns = All
    BY <2>7, <2>8
  <2> HIDE DEF Ns
  <2>10. QED
    BY <2>2, <2>3, <2>5, <2>9
<1> HIDE DEF Fs, All
<1>4. QED
  BY <1>2, <1>3 DEF Fs, All

(* Once every entry is passed, the rows are what the arguments mean.      *)
LEMMA ShowedIsMeant ==
  ASSUME RInv, Listed, Meant, phase = "list", at > Len(files)
  PROVE  Showed = Choice!Answer
<1> DEFINE Fs == {fi \in Files : ShowsFile(fi)}
           P(r) == {<<rows[r].entry, rows[r].hunks[h].index>> : h \in DOMAIN rows[r].hunks}
<1>1. {rows[r].entry : r \in DOMAIN rows} = Fs
  <2>1. {rows[r].entry : r \in DOMAIN rows} = {fi \in Files : fi < at /\ ShowsFile(fi)}
    BY DEF Meant, ListedAsMeant
  <2>2. \A fi \in Files : fi < at
    <3>1. Files = 1..Len(files) /\ Len(files) \in Nat /\ at \in Nat
      BY FilesAre DEF RInv, TypeOK
    <3>2. QED
      BY <3>1
  <2>3. QED
    BY <2>1, <2>2
<1>2. \A r \in DOMAIN rows : P(r) = {rows[r].entry} \X Shown(rows[r].entry)
  BY RowIs
<1>3. Showed = [kind |-> "listed", entries |-> Fs, subs |-> UNION {P(r) : r \in DOMAIN rows}]
  BY <1>1 DEF Showed
<1> HIDE DEF Fs, P
<1>4. UNION {P(r) : r \in DOMAIN rows} = UNION {{fi} \X Shown(fi) : fi \in Fs}
  <2>1. ASSUME NEW r \in DOMAIN rows, NEW x \in P(r) PROVE \E fi \in Fs : x \in {fi} \X Shown(fi)
    BY <1>1, <1>2
  <2>2. ASSUME NEW fi \in Fs, NEW x \in {fi} \X Shown(fi) PROVE \E r \in DOMAIN rows : x \in P(r)
    <3>1. PICK r \in DOMAIN rows : rows[r].entry = fi
      BY <1>1
    <3>2. QED
      BY <1>2, <3>1
  <2>3. QED
    BY <2>1, <2>2
<1>5. QED
  BY <1>3, <1>4, ShownIsMeant DEF Fs

(* A listing shows what the arguments mean.                               *)
LEMMA ShowKeepsMeant ==
  ASSUME RInv, Listed, Meant, Show
  PROVE  Meant'
<1>1. phase = "list" /\ phase' \in {"list", "done"} /\ UNCHANGED <<input, parsing, resolving>>
  BY DEF Show, ListEntry, SkipEntry, EndList
<1>2. ReadAsSaid' /\ Charged' /\ ResolvedAsMeant'
  BY <1>1, ChoiceStands
<1>3. EmittedAsMeant'
  BY <1>1 DEF EmittedAsMeant
<1>4. /\ Listing
      /\ Args # <<>> => Choice!Understood /\ \A i \in DOMAIN Args : Args[i].form # "cut"
      /\ {rows[r].entry : r \in DOMAIN rows} = {fi \in Files : fi < at /\ ShowsFile(fi)}
  BY <1>1 DEF Meant, ListedAsMeant
<1>5. /\ (Listing /\ (Args # <<>> => Choice!Understood /\ \A i \in DOMAIN Args : Args[i].form # "cut"))'
      /\ Files' = Files /\ \A fi : ShowsFile(fi)' = ShowsFile(fi)
  BY <1>1, <1>4, MeaningStays DEF ShowsFile, Filtered, input, resolving
<1>6. Files \subseteq Nat /\ at \in Nat
  BY FilesAre DEF RInv, TypeOK
<1>7. ASSUME phase' = "list", {rows'[r].entry : r \in DOMAIN rows'} = {fi \in Files : fi < at' /\ ShowsFile(fi)}
      PROVE  Meant'
  <2>1. {rows'[r].entry : r \in DOMAIN rows'} = {fi \in Files' : fi < at' /\ ShowsFile(fi)'}
    BY <1>5, <1>7
  <2>2. ListedAsMeant'
    BY <1>5, <2>1 DEF ListedAsMeant
  <2>3. QED
    BY <1>2, <1>3, <1>7, <2>2 DEF Meant, AnsweredAsMeant
<1>8. CASE ListEntry
  <2>1. at <= Len(files) /\ ShowsFile(at) /\ rows' = Append(rows, EntryRow(at)) /\ at' = at + 1 /\ phase' = "list"
    BY <1>1, <1>8 DEF ListEntry
  <2>2. at \in Files
    BY <2>1, FilesAre DEF RInv, TypeOK
  <2> DEFINE q == rows'
  <2>3. /\ \A i \in DOMAIN q : (i \in DOMAIN rows /\ q[i] = rows[i]) \/ q[i] = EntryRow(at)
        /\ \A i \in DOMAIN rows : i \in DOMAIN q /\ q[i] = rows[i]
        /\ \E i \in DOMAIN q : q[i] = EntryRow(at)
    <3>1. PICK S : rows \in Seq(S)
      BY DEF Listed
    <3>2. QED
      BY <2>1, <3>1, AppendHas
  <2>4. EntryRow(at).entry = at
    BY DEF EntryRow
  <2> HIDE DEF q
  <2>5. {q[r].entry : r \in DOMAIN q} = {rows[r].entry : r \in DOMAIN rows} \union {at}
    BY <2>3, <2>4
  <2>6. \A fi \in Files : (fi < at + 1 /\ ShowsFile(fi)) <=> (fi < at /\ ShowsFile(fi)) \/ fi = at
    BY <1>6, <2>1
  <2>7. {fi \in Files : fi < at + 1 /\ ShowsFile(fi)} = {fi \in Files : fi < at /\ ShowsFile(fi)} \union {at}
    BY <2>2, <2>6
  <2>8. {q[r].entry : r \in DOMAIN q} = {fi \in Files : fi < at + 1 /\ ShowsFile(fi)}
    BY <1>4, <2>5, <2>7
  <2>9. QED
    BY <1>7, <2>1, <2>8 DEF q
<1>9. CASE SkipEntry
  <2>1. ~ShowsFile(at) /\ rows' = rows /\ at' = at + 1 /\ phase' = "list"
    BY <1>1, <1>9 DEF SkipEntry
  <2>2. \A fi \in Files : (fi < at + 1 /\ ShowsFile(fi)) <=> (fi < at /\ ShowsFile(fi))
    BY <1>6, <2>1
  <2>3. QED
    BY <1>4, <1>7, <2>1, <2>2
<1>10. CASE EndList
  <2>1. phase' = "done" /\ at > Len(files) /\ UNCHANGED rows /\ request'.command = "list"
    BY <1>1, <1>4, <1>10 DEF EndList, input, Listing
  <2>2. Answered' = Showed'
    BY <2>1, AnsweredBecomes
  <2>3. Showed' = Showed
    BY <2>1 DEF Showed
  <2>4. Answered' = Choice!Answer'
    BY <1>1, <2>1, <2>2, <2>3, ShowedIsMeant, AnswerStays
  <2>5. QED
    BY <1>2, <1>3, <2>1, <2>4 DEF Meant, ListedAsMeant, AnsweredAsMeant
<1>11. QED
  BY <1>8, <1>9, <1>10 DEF Show

-----------------------------------------------------------------------------
(* Where a command begins, and the address of a split.                     *)

(* An address is answered as it is meant.                                 *)
LEMMA AddressIsMeant ==
  ASSUME RInv, Traced, phase = "address"
  PROVE  /\ IsAddress /\ Owned(Address.path) /\ InItsEntry =>
              Choice!Answer = [kind |-> "target", entry |-> Owner(Address.path), hunk |-> Position]
         /\ ~(IsAddress /\ Owned(Address.path) /\ InItsEntry) => Choice!Answer = Choice!Refusal
<1>1. TypeOK /\ request.command = "split" /\ Args \in Seq(Argument) /\ Len(Args) = 1 /\ Address = Args[1]
  BY DEF RInv, Traced, TypeOK, Request, Args, Address
<1>2. Address \in Argument
  BY <1>1
<1> DEFINE a == Address
<1>3. Choice!Addressed(a) <=>
        /\ a.path # EmptyPath /\ a.form = "list"
        /\ Len(a.parts) = 1 /\ Len(a.parts[1]) = 1
        /\ Owned(a.path)
        /\ ~files[Choice!Target(a)].binary
        /\ a.parts[1][1] \in 1..files[Choice!Target(a)].hunks
  BY ChoiceIs, TermsAreTheSame DEF Choice!Addressed, Owned
<1>4. Owned(a.path) => Choice!Target(a) = Owner(a.path) /\ Owner(a.path) \in Files
  BY <1>1, OwnerIsMeant, OwnerIsAFile
<1>5. Owned(a.path) => files[Owner(a.path)].hunks \in Nat
  <2> SUFFICES ASSUME Owned(a.path) PROVE files[Owner(a.path)].hunks \in Nat
    OBVIOUS
  <2>1. files[Owner(a.path)] \in Entry
    BY <1>1, <1>4, FilesAre
  <2>2. QED
    BY <2>1 DEF Entry
<1>6. Len(a.parts) = 1 /\ Len(a.parts[1]) = 1 => a.parts[1][1] \in Int
  <2> SUFFICES ASSUME Len(a.parts) = 1, Len(a.parts[1]) = 1 PROVE a.parts[1][1] \in Int
    OBVIOUS
  <2>1. a.parts \in Seq(Part)
    BY <1>2 DEF Argument
  <2>2. a.parts[1] \in Part
    BY <2>1
  <2>3. QED
    BY <2>2 DEF Part, Num
<1>7. Choice!Addressed(a) <=> IsAddress /\ Owned(a.path) /\ InItsEntry
  BY <1>3, <1>4, <1>5, <1>6 DEF IsAddress, InItsEntry, Position
<1>8. /\ request.command = "split" /\ request.command # "select" /\ request.command # "list"
      /\ Choice!Args[1] = a
  BY <1>1, ChoiceIs
<1>9. Choice!Answer = IF Choice!Addressed(Choice!Args[1])
                      THEN Choice!Addressing(Choice!Target(Choice!Args[1]), Choice!Args[1].parts[1][1])
                      ELSE Choice!Refusal
  BY <1>8, Zenon DEF Choice!Answer
<1>10. QED
  BY <1>4, <1>7, <1>8, <1>9 DEF Choice!Addressing, Position

(* So is the command that asks for it.                                    *)
LEMMA FindKeepsMeant ==
  ASSUME RInv, Traced, Meant, FindHunk \/ RefuseAddress
  PROVE  Meant'
<1>1. phase = "address" /\ request.command = "split"
  BY DEF FindHunk, RefuseAddress, Traced
<1>2. CASE FindHunk
  <2>1. /\ IsAddress /\ Owned(Address.path) /\ InItsEntry
        /\ phase' = "done" /\ at' = Owner(Address.path) /\ UNCHANGED <<input, parsing, resolving, rows>>
    BY <1>2 DEF FindHunk
  <2>2. ReadAsSaid' /\ Charged' /\ ResolvedAsMeant'
    BY <1>1, <2>1, ChoiceStands
  <2>3. Position' = Position /\ request'.command = "split"
    BY <1>1, <2>1 DEF Position, Address, input
  <2>4. Answered' = [kind |-> "target", entry |-> at', hunk |-> Position']
    BY <2>1, <2>3, AnsweredBecomes
  <2>5. Answered' = Choice!Answer'
    BY <1>1, <2>1, <2>3, <2>4, AddressIsMeant, AnswerStays
  <2>6. QED
    BY <2>1, <2>2, <2>5 DEF Meant, EmittedAsMeant, ListedAsMeant, AnsweredAsMeant
<1>3. CASE RefuseAddress
  <2>1. ~(IsAddress /\ Owned(Address.path) /\ InItsEntry) /\ \E error : Refuse(error)
    BY <1>3 DEF RefuseAddress, RefusePath
  <2>2. Choice!Answer = Choice!Refusal
    BY <1>1, <2>1, AddressIsMeant
  <2>3. QED
    BY <2>1, <2>2, RefusalIsMeant DEF Meant
<1>4. QED
  BY <1>2, <1>3

(* Nothing is read and nothing chosen at the beginning.                   *)
LEMMA InitMeant ==
  ASSUME Init
  PROVE  Meant
<1>1. TypeOK /\ phase = Begins /\ phase \in {"parse", "list", "address"}
  BY InitRInv DEF RInv, Init, Begins
<1>2. /\ at = 1 /\ part = 1 /\ left = MaxIndices /\ sels = <<>> /\ resolved = {} /\ named = {} /\ rows = <<>>
      /\ \A fi \in Files : whole[fi] = {} /\ cuts[fi] = <<>>
  BY DEF Init
<1>3. phase = "list" => Listing /\ Args = <<>>
  BY <1>1 DEF Begins, Args
<1>4. phase = "parse" => (Listing => Args # <<>>)
  BY <1>1 DEF Begins, Args
<1>5. ReadAsSaid
  BY <1>1, <1>2 DEF ReadAsSaid
<1>6. Charged
  <2>1. AskedSoFar = {}
    BY <1>1, <1>2 DEF AskedSoFar, AskedBefore, AskedNow
  <2>2. MaxIndices \in Nat
    BY SelectorsAssumption
  <2>3. IsFiniteSet(AskedSoFar) /\ Cardinality(AskedSoFar) + left = MaxIndices
    BY <1>2, <2>1, <2>2, FS_EmptySet
  <2>4. QED
    BY <1>1, <1>4, <2>3 DEF Charged
<1>7. ChosenAsMeant({})
  <2>1. CutsAsMeant({})
    BY <1>2 DEF CutsAsMeant
  <2>2. QED
    BY <1>2, <2>1 DEF ChosenAsMeant
<1>8. ResolvedAsMeant
  <2>1. phase = "list" => DOMAIN Args = {}
    BY <1>3
  <2>2. QED
    BY <1>1, <1>2, <1>7, <2>1 DEF ResolvedAsMeant
<1>9. EmittedAsMeant
  BY <1>1 DEF EmittedAsMeant
<1>10. ListedAsMeant
  <2>1. \A fi \in Files : ~(fi < at)
    BY <1>1, <1>2, FilesAre
  <2>2. {rows[r].entry : r \in DOMAIN rows} = {}
    BY <1>2
  <2>3. {fi \in Files : fi < at /\ ShowsFile(fi)} = {}
    BY <2>1
  <2>4. QED
    BY <1>3, <2>2, <2>3 DEF ListedAsMeant
<1>11. QED
  BY <1>1, <1>5, <1>6, <1>8, <1>9, <1>10 DEF Meant, AnsweredAsMeant

(* Where nothing changes, the answer is what it was.                       *)
LEMMA AnsweredStays ==
  ASSUME TypeOK, UNCHANGED vars
  PROVE  Answered' = Answered
<1>1. /\ phase' = phase /\ request' = request /\ at' = at /\ out' = out /\ rows' = rows
      /\ request.command \in {"select", "list", "split"}
  BY DEF vars, input, emitting, TypeOK, Request, Commands
<1>2. Position' = Position /\ Emitted' = Emitted /\ Showed' = Showed
  BY <1>1 DEF Position, Address, Emitted, Showed
<1>3. Choice!Open' = Choice!Open /\ Choice!Refusal' = Choice!Refusal
  BY DEF Choice!Open, Choice!Refusal
<1>4. QED
  BY <1>1, <1>2, <1>3, AnsweredIs, AnsweredBecomes

(* What is meant goes by the variables.                                   *)
LEMMA StutterKeepsMeant ==
  ASSUME RInv, Meant, UNCHANGED vars
  PROVE  Meant'
<1>1. /\ phase' = phase /\ at' = at /\ part' = part /\ list' = list /\ left' = left /\ sels' = sels
      /\ resolved' = resolved /\ named' = named /\ whole' = whole /\ cuts' = cuts
      /\ todo' = todo /\ picks' = picks /\ out' = out /\ rows' = rows /\ request' = request
      /\ UNCHANGED input
  BY DEF vars, input, parsing, resolving, emitting
<1>2. ReadAsSaid'
  <2>1. Arg' = Arg /\ \A s, arg : AsSaid(s, arg)' = AsSaid(s, arg)
    BY <1>1, MeaningStays DEF Arg, AsSaid
  <2>2. ListedSoFar' = ListedSoFar
    BY <1>1, <2>1 DEF ListedSoFar, Before
  <2>3. QED
    BY <1>1, <2>1, <2>2, MeaningStays DEF Meant, ReadAsSaid, Before
<1>3. Charged'
  <2>1. AskedSoFar' = AskedSoFar
    <3>1. AskedBefore' = AskedBefore
      BY <1>1, MeaningStays DEF AskedBefore
    <3>2. ListedSoFar' = ListedSoFar
      BY <1>1 DEF ListedSoFar, Before, Arg
    <3>3. QED
      BY <1>1, <3>1, <3>2 DEF AskedSoFar, AskedNow
  <2>2. QED
    BY <1>1, <2>1, MeaningStays DEF Meant, Charged
<1>4. ResolvedAsMeant'
  <2>1. ASSUME NEW is, ChosenAsMeant(is) PROVE ChosenAsMeant(is)'
    BY <1>1, <2>1, ChosenStays
  <2>2. phase \in {"parse", "set"} => ChosenAsMeant({})'
    BY <2>1 DEF Meant, ResolvedAsMeant
  <2>3. phase = "resolve" => ChosenAsMeant(Before(at))'
    <3>1. PICK is : is = Before(at)
      OBVIOUS
    <3>2. Before(at)' = is
      BY <1>1, <3>1 DEF Before
    <3>3. phase = "resolve" => ChosenAsMeant(is)'
      BY <2>1, <3>1 DEF Meant, ResolvedAsMeant
    <3>4. QED
      BY <3>2, <3>3
  <2>4. phase \in {"emit", "pick", "list"} => ChosenAsMeant(DOMAIN Args)'
    <3>1. PICK is : is = DOMAIN Args
      OBVIOUS
    <3>2. (DOMAIN Args)' = is
      BY <1>1, <3>1, MeaningStays
    <3>3. phase \in {"emit", "pick", "list"} => ChosenAsMeant(is)'
      BY <2>1, <3>1 DEF Meant, ResolvedAsMeant
    <3>4. QED
      BY <3>2, <3>3
  <2>5. QED
    BY <1>1, <2>2, <2>3, <2>4, MeaningStays DEF Meant, ResolvedAsMeant, Before
<1>5. EmittedAsMeant'
  <2>1. /\ \A fi : /\ PicksOf(fi)' = PicksOf(fi) /\ Conflicting(fi)' = Conflicting(fi)
                   /\ Emittable(fi)' = Emittable(fi) /\ \A p : Taken(fi, p)' = Taken(fi, p)
        /\ files' = files
    BY <1>1, PicksStay, MeaningStays
  <2>2. QED
    BY <1>1, <2>1, MeaningStays DEF Meant, EmittedAsMeant
<1>6. ListedAsMeant'
  <2>1. \A fi : ShowsFile(fi)' = ShowsFile(fi)
    BY <1>1 DEF ShowsFile, Filtered
  <2>2. QED
    BY <1>1, <2>1, MeaningStays DEF Meant, ListedAsMeant
<1>7. AnsweredAsMeant'
  <2>1. Answered' = Answered /\ Choice!Answer' = Choice!Answer /\ Choice!Refusal' = Choice!Refusal
    BY <1>1, AnsweredStays, AnswerStays DEF Choice!Refusal, RInv
  <2>2. QED
    BY <1>1, <2>1 DEF Meant, AnsweredAsMeant
<1>8. QED
  BY <1>2, <1>3, <1>4, <1>5, <1>6, <1>7 DEF Meant

(* Every step keeps to what is meant.                                     *)
LEMMA NextKeepsMeant ==
  ASSUME RInv, Recorded, Traced, Listed, Meant, [Next]_vars
  PROVE  Meant'
<1>1. CASE Parse
  BY <1>1, ParseKeepsMeant
<1>2. CASE Resolve
  BY <1>2, ResolveKeepsMeant
<1>3. CASE Emit
  BY <1>3, EmitKeepsMeant
<1>4. CASE Show
  BY <1>4, ShowKeepsMeant
<1>5. CASE FindHunk \/ RefuseAddress
  BY <1>5, FindKeepsMeant
<1>6. CASE UNCHANGED vars
  BY <1>6, StutterKeepsMeant
<1>7. QED
  BY <1>1, <1>2, <1>3, <1>4, <1>5, <1>6 DEF Next, Ended

(* The answer is given in one step, and is the one that is meant.          *)
LEMMA StepsChoose ==
  ASSUME TypeOK, Meant', [Next]_vars
  PROVE  [Choice!Next]_<<patch, request, Answered>>
<1>1. CASE UNCHANGED vars
  <2>1. UNCHANGED <<patch, request>>
    BY <1>1 DEF vars, input
  <2>2. QED
    BY <1>1, <2>1, AnsweredStays
<1>2. CASE Parse \/ Resolve \/ Emit \/ Show \/ FindHunk \/ RefuseAddress
  <2>1. phase \notin {"done", "refused"} /\ UNCHANGED input
    <3>1. CASE Parse
      BY <3>1 DEF Parse, ReadStar, ReadId, OpenSet, RefuseArg, TakePart, RefusePart, CloseSet, EndParse,
                  RefuseCutToList, Parsing, ReadingSet, Refuse
    <3>2. CASE Resolve
      BY <3>2 DEF Resolve, RefuseOwner, TakeBinary, RefuseBinary, TakeAll, TakeIndices, TakeCut, RefuseIndex,
                  ResolveId, RepeatId, RefuseId, EndResolve, RefuseEmpty, OfPath, Resolving, Refuse, RefusePath
    <3>3. CASE Emit
      BY <3>3 DEF Emit, PassEntry, EmitBinary, BeginEntry, RefuseConflict, TakePick, RefuseLines, EndEntry,
                  RefuseDeletion, EndEmit, Emitting, Refuse
    <3>4. CASE Show \/ FindHunk \/ RefuseAddress
      BY <3>4 DEF Show, ListEntry, SkipEntry, EndList, FindHunk, RefuseAddress, Refuse, RefusePath
    <3>5. QED
      BY <1>2, <3>1, <3>2, <3>3, <3>4
  <2>2. Answered = Choice!Open
    BY <2>1, AnsweredIs
  <2>3. CASE phase' \in {"done", "refused"}
    <3>1. phase' = "refused" => Answered' = Choice!Refusal /\ Choice!Refusal' = Choice!Refusal
      BY AnsweredBecomes DEF Choice!Refusal
    <3>2. Answered' = Choice!Answer'
      BY <2>3, <3>1 DEF Meant, AnsweredAsMeant
    <3>3. Answered' = Choice!Answer
      BY <2>1, <3>2, AnswerStays
    <3>4. QED
      BY <2>1, <2>2, <3>3 DEF Choice!Next, input
  <2>4. CASE phase' \notin {"done", "refused"}
    <3>1. Answered' = Answered
      BY <2>2, <2>4, AnsweredBecomes
    <3>2. QED
      BY <2>1, <3>1 DEF input
  <2>5. QED
    BY <2>3, <2>4
<1>3. QED
  BY <1>1, <1>2 DEF Next, Ended

-----------------------------------------------------------------------------
(* The theorems.                                                           *)

(* The invariant holds whatever the patch, the arguments, the hash and the *)
(* allowance (src/select.rs, parse_selectors to emit_selection).           *)
THEOREM Invariance == Spec => []IInv
<1>1. Init => IInv
  BY InitRInv, InitRecorded, InitTraced, InitListed, InitMeant DEF IInv
<1>2. IInv /\ [Next]_vars => IInv'
  BY NextKeepsRInv, NextKeepsRecorded, NextKeepsTraced, NextKeepsListed, NextKeepsMeant DEF IInv
<1>3. QED
  BY <1>1, <1>2, PTL DEF Spec

(* Every variable keeps to its type; the allowance never goes below none   *)
(* (src/select.rs, IndexBudget::take).                                     *)
THEOREM TypeCorrect == Spec => []TypeOK
<1>1. IInv => TypeOK
  BY DEF IInv, RInv
<1>2. QED
  BY <1>1, Invariance, PTL

(* However the arguments divide it, what is held, being read and left      *)
(* together is the allowance (src/select.rs, IndexBudget).                 *)
THEOREM BudgetIsKept == Spec => []BudgetKept
<1>1. IInv => BudgetKept
  BY DEF IInv, RInv, Spent
<1>2. QED
  BY <1>1, Invariance, PTL

(* Emission looks nothing up that resolution has not split and checked     *)
(* (src/select.rs, emit_selection, materialise_picks).                     *)
THEOREM LookupsAreSafe == Spec => []LookupsHold
<1>1. IInv => LookupsHold
  <2> SUFFICES ASSUME RInv, NEW fi \in named, ~files[fi].binary
               PROVE  /\ fi \in cache
                      /\ whole[fi] \subseteq DOMAIN Subs(fi)
                      /\ \A c \in DOMAIN cuts[fi] : cuts[fi][c].index \in DOMAIN Subs(fi)
    BY DEF LookupsHold, IInv
  <2>1. fi \in Files
    BY DEF RInv, TypeOK
  <2>2. QED
    BY <2>1 DEF RInv, Stored
<1>2. QED
  BY <1>1, Invariance, PTL

(* No sub-hunk comes out twice and all in the order of the diff, however   *)
(* they were named (src/select.rs, reject_conflicting_line_set_picks,      *)
(* emit_selection).                                                        *)
THEOREM NoSubHunkTwice == Spec => []EachSubHunkOnce
<1>1. IInv => EachSubHunkOnce
  BY DEF IInv, RInv, InOrder
<1>2. QED
  BY <1>1, Invariance, PTL

(* The missing newline is dropped from the line that missed it and from no *)
(* other, wherever the selection ends (src/select.rs, emit_selection).     *)
THEOREM CropIsOfTheLastLine == Spec => []CropsOnlyTheLastLine
<1>1. IInv => CropsOnlyTheLastLine
  <2> SUFFICES ASSUME IInv, phase = "done", out # <<>>
               PROVE  LET last == out[Len(out)]
                      IN  /\ crop => patch.cropped /\ EndOf(last.entry, last.picks) = EndOfInput
                          /\ /\ patch.cropped /\ EndOf(last.entry, last.picks) = EndOfInput
                             /\ \A i \in DOMAIN last.picks : last.picks[i].whole
                             => crop
    BY DEF CropsOnlyTheLastLine
  <2> DEFINE last == out[Len(out)]
             ps == last.picks
             n == Len(files)
  <2>1. last \in Output /\ ps \in Seq(Pick) /\ last.entry \in Files
    <3>1. out \in Seq(Output) /\ Len(out) \in DOMAIN out
      BY EmptySeq DEF IInv, RInv, TypeOK
    <3>2. last \in Output
      BY <3>1
    <3>3. QED
      BY <3>2 DEF Output
  <2>2. crop <=> patch.cropped /\ last.entry = n /\ last.ends
    BY DEF IInv, Recorded
  <2>3. /\ last.ends <=> EndsOn(last.entry, ps)
        /\ \A j \in DOMAIN ps : AsTaken(last.entry, ps[j])
    <3>1. Len(out) \in DOMAIN out
      BY EmptySeq DEF IInv, RInv, TypeOK
    <3>2. QED
      BY <3>1 DEF IInv, Recorded, EntriesRecorded
  <2>4. n \in Files /\ Len(Subs(n)) \in Nat /\ (Len(Subs(n)) = 0 <=> Subs(n) = <<>>)
    <3>1. n \in Nat /\ Files = 1..n
      BY FilesAre DEF IInv, RInv
    <3>2. n \in Files
      BY <2>1, <3>1
    <3>3. Subs(n) \in Seq(Body)
      BY <3>2, FilesAre DEF IInv, RInv
    <3>4. QED
      BY <3>2, <3>3
  <2>5. ps # <<>> => Len(ps) \in DOMAIN ps
    BY <2>1
  <2> DEFINE m == Len(Subs(n))
             end == LastLine(Subs(n)[m], WholePick(n, m).lines)
             p == ps[Len(ps)]
  <2>6. EndOfInput = IF files[n].tail THEN <<n, "tail">>
                     ELSE IF m = 0 THEN <<n, "entry">> ELSE <<n, m, end>>
    BY DEF EndOfInput, EndOf, WholePick
  <2>7. EndOf(last.entry, ps) =
          IF files[last.entry].tail THEN <<last.entry, "tail">>
          ELSE IF ps = <<>> THEN <<last.entry, "entry">>
          ELSE <<last.entry, p.index, LastLine(Subs(last.entry)[p.index], p.lines)>>
    BY DEF EndOf
  <2>8. ASSUME last.entry = n, last.ends
        PROVE  EndOf(last.entry, ps) = EndOfInput
    <3>1. CASE files[n].tail
      BY <2>6, <2>7, <2>8, <3>1
    <3>2. CASE ~files[n].tail /\ Subs(n) = <<>>
      <4>1. ps = <<>>
        <5> SUFFICES ASSUME ps # <<>> PROVE FALSE
          OBVIOUS
        <5>1. p.index \in DOMAIN Subs(n)
          BY <2>3, <2>5, <2>8 DEF AsTaken
        <5>2. QED
          BY <3>2, <5>1
      <4>2. QED
        BY <2>4, <2>6, <2>7, <2>8, <3>2, <4>1
    <3>3. CASE ~files[n].tail /\ Subs(n) # <<>>
      <4>1. ps # <<>> /\ p.whole /\ p.index = m
        BY <2>3, <2>8, <3>3 DEF EndsOn
      <4>2. p = WholePick(n, m)
        BY <2>3, <2>5, <2>8, <4>1 DEF AsTaken
      <4>3. QED
        BY <2>4, <2>6, <2>7, <2>8, <3>3, <4>1, <4>2
    <3>4. QED
      BY <3>1, <3>2, <3>3
  <2>9. ASSUME EndOf(last.entry, ps) = EndOfInput, \A i \in DOMAIN ps : ps[i].whole
        PROVE  last.entry = n /\ last.ends
    <3>1. EndOfInput[1] = n /\ EndOf(last.entry, ps)[1] = last.entry
      BY <2>6, <2>7
    <3>2. last.entry = n
      BY <2>9, <3>1
    <3>3. CASE files[n].tail \/ Subs(n) = <<>>
      BY <2>3, <3>2, <3>3 DEF EndsOn
    <3>4. CASE ~files[n].tail /\ Subs(n) # <<>>
      <4>1. EndOfInput = <<n, m, end>>
        BY <2>4, <2>6, <3>4
      <4>2. ps # <<>>
        <5> SUFFICES ASSUME ps = <<>> PROVE FALSE
          OBVIOUS
        <5>1. <<n, m, end>> = <<n, "entry">>
          BY <2>7, <2>9, <3>2, <3>4, <4>1
        <5>2. QED
          BY <5>1
      <4>3. EndOf(last.entry, ps) = <<n, p.index, LastLine(Subs(n)[p.index], p.lines)>>
        BY <2>7, <3>2, <3>4, <4>2
      <4>4. p.index = m /\ p.whole
        BY <2>5, <2>9, <4>1, <4>2, <4>3
      <4>5. QED
        BY <2>3, <3>2, <4>2, <4>4 DEF EndsOn
    <3>5. QED
      BY <3>2, <3>3, <3>4
  <2>10. QED
    BY <2>2, <2>8, <2>9
<1>2. QED
  BY <1>1, Invariance, PTL

(* Whatever is asked, a refusal that names a path, an index or an id names *)
(* what is the matter with one of the arguments (src/select.rs,            *)
(* SelectError, resolve_selectors, resolve_hunk).                          *)
THEOREM CausesAreNamed == Spec => []RefusalNamesItsCause
<1>1. IInv => RefusalNamesItsCause
  BY DEF IInv, Traced
<1>2. QED
  BY <1>1, Invariance, PTL

(* What a listing shows beside a sub-hunk selects that sub-hunk, filtered  *)
(* or not (src/list.rs, list_json; src/select.rs, resolve_id).             *)
THEOREM ListedNumbersSelect == Spec => []ListedIsSelectable
<1>1. IInv => ListedIsSelectable
  <2> SUFFICES ASSUME RInv, Listed, NEW r \in DOMAIN rows, NEW h \in DOMAIN rows[r].hunks
               PROVE  LET row  == rows[r].hunks[h]
                          byId == {p \in UNION {{fi} \X DOMAIN Subs(fi) : fi \in TextFiles} :
                                     IdOf(files[p[1]], Subs(p[1])[p[2]]) = row.id}
                      IN  /\ rows[r].path # EmptyPath /\ Owned(rows[r].path) =>
                               row.changed_lines
                                 = ChangedLines(Subs(Owner(rows[r].path))[row.index])
                          /\ <<rows[r].entry, row.index>> \in byId
                          /\ Cardinality(byId) = row.id_count
    BY DEF IInv, ListedIsSelectable
  <2>1. PICK e \in Files : rows[r] = EntryRow(e)
    BY DEF Listed
  <2>2. /\ rows[r].entry = e /\ rows[r].path = DisplayPath(files[e])
        /\ h \in Shown(e) /\ rows[r].hunks[h] = Row(e, h)
    BY <2>1 DEF EntryRow
  <2> DEFINE row  == rows[r].hunks[h]
             id   == IdOf(files[e], Subs(e)[h])
             byId == {p \in UNION {{fi} \X DOMAIN Subs(fi) : fi \in TextFiles} :
                        IdOf(files[p[1]], Subs(p[1])[p[2]]) = row.id}
  <2>3. /\ row.index = h /\ row.id = id /\ row.changed_lines = ChangedLines(Subs(e)[h])
        /\ row.id_count = Cardinality(Carrying(files, id))
    BY <2>2 DEF Row
  <2>4. /\ e \in TextFiles /\ h \in DOMAIN Subs(e)
        /\ rows[r].path # EmptyPath /\ Owned(rows[r].path) => Owner(rows[r].path) = e
    BY <2>2, RowsLeadBack
  <2>5. <<e, h>> \in byId
    BY <2>3, <2>4
  <2>6. byId = Carrying(files, id)
    <3> HIDE DEF id
    <3>1. byId = {p \in UNION {{fi} \X DOMAIN Subs(fi) : fi \in TextFiles} :
                    IdOf(files[p[1]], Subs(p[1])[p[2]]) = id}
      BY <2>3
    <3>2. Carrying(files, id) =
            UNION {{fi} \X {si \in DOMAIN Subs(fi) : IdOf(files[fi], Subs(fi)[si]) = id} :
                   fi \in TextFiles}
      BY DEF Carrying, TextFiles, Files, Subs
    <3> HIDE DEF byId
    <3>3. ASSUME NEW p PROVE p \in byId <=> p \in Carrying(files, id)
      BY <3>1, <3>2
    <3>4. QED
      BY <3>3
  <2>7. QED
    BY <2>2, <2>3, <2>4, <2>5, <2>6
<1>2. QED
  BY <1>1, Invariance, PTL

(* However the selectors are spelled, ordered and repeated, and whatever   *)
(* the hash and the allowance, the command answers with what all of them   *)
(* mean together or refuses where that cannot be had, and never otherwise  *)
(* (src/select.rs, select, resolve_subhunk_filter, resolve_hunk).          *)
THEOREM ChoosesRightly == Spec => Chooses
<1>1. Init => Choice!Init
  BY AnsweredIs DEF Init, Begins, Choice!Init
<1>2. IInv /\ IInv' /\ [Next]_vars => [Choice!Next]_<<patch, request, Answered>>
  BY StepsChoose DEF IInv, RInv
<1>3. QED
  BY <1>1, <1>2, Invariance, PTL DEF Spec, Chooses, Choice!Spec
=============================================================================

----------------------------- MODULE ResolveInv ------------------------------
(***************************************************************************)
(* The inductive invariant of ResolveSelectors.                            *)
(***************************************************************************)
EXTENDS ResolveSelectors

\* numbers are checked as they are read and count from 1
NumbersFromOne ==
  /\ phase = "set" => at <= Len(request.args) /\ HasSet(Arg)
  /\ \A j \in DOMAIN list : list[j] >= 1
  /\ \A i \in DOMAIN sels :
       /\ sels[i].form = "list" => \A j \in DOMAIN sels[i].indices : sels[i].indices[j] >= 1
       /\ sels[i].form = "cut"  => sels[i].index >= 1

Spent == IsFiniteSet(Held) /\ BudgetKept

\* what is stored can be looked up, from the moment it is stored
Stored ==
  \A fi \in Files :
    /\ fi \in named /\ ~files[fi].binary => fi \in cache
    /\ whole[fi] \subseteq DOMAIN Subs(fi)
    /\ \A c \in DOMAIN cuts[fi] : cuts[fi][c].index \in DOMAIN Subs(fi)

\* what is done of an entry stands above what is still to do
Ascending ==
  /\ \A j, k \in DOMAIN picks : j < k => picks[j].index < picks[k].index
  /\ \A p \in todo : \A j \in DOMAIN picks : picks[j].index < p.index
  /\ \A p, q \in todo : p.index = q.index => p = q

InOrder ==
  /\ phase \in {"parse", "set", "resolve"} => out = <<>>
  /\ phase \in {"emit", "pick"} => \A i \in DOMAIN out : out[i].entry < at
  /\ phase = "pick" => at \in Files /\ Ascending
  /\ EachSubHunkOnce

(* The allowance accounts for every number held, what resolution stores is  *)
(* there to be looked up, and what is emitted stands above what is still to *)
(* come (src/select.rs, IndexBudget, resolve_selectors, emit_selection).    *)
RInv == TypeOK /\ NumbersFromOne /\ Spent /\ Stored /\ InOrder

\* a pick is of a sub-hunk that is there, a whole one is all of it
AsTaken(fi, p) ==
  /\ p.index \in DOMAIN Subs(fi)
  /\ p.whole => p = WholePick(fi, p.index)

EndsOn(fi, ps) ==
  \/ Subs(fi) = <<>>
  \/ ps # <<>> /\ ps[Len(ps)].whole /\ ps[Len(ps)].index = Len(Subs(fi))
  \/ files[fi].tail

\* what is kept of an entry is what was said of it while it was read
EntriesRecorded ==
  \A i \in DOMAIN out :
    /\ out[i].ends <=> EndsOn(out[i].entry, out[i].picks)
    /\ \A j \in DOMAIN out[i].picks : AsTaken(out[i].entry, out[i].picks[j])

Recorded ==
  /\ EntriesRecorded
  /\ phase = "pick" =>
       /\ \A p \in todo : AsTaken(at, p)
       /\ \A j \in DOMAIN picks : AsTaken(at, picks[j])
  /\ phase \in {"list", "address"} => out = <<>>
  /\ phase = "done" /\ out # <<>> =>
       (crop <=> patch.cropped /\ out[Len(out)].entry = Len(files) /\ out[Len(out)].ends)

\* a number of a list is within one of its parts
ListedBy(arg, n) == \E k \in DOMAIN arg.parts : n <= arg.parts[k][Len(arg.parts[k])]

\* what a selector has of the argument it was read from
ReadFrom(s, arg) ==
  /\ s.path = arg.path /\ s.form = arg.form /\ s.id = arg.id
  /\ s.form = "cut" => s.index = arg.index
  /\ \A j \in DOMAIN s.indices : ListedBy(arg, s.indices[j])

\* the selectors are the arguments, one by one
ArgumentsRead ==
  /\ Len(sels) <= Len(request.args)
  /\ \A i \in DOMAIN sels : ReadFrom(sels[i], request.args[i])
  /\ phase \in {"parse", "set"} => at = Len(sels) + 1
  /\ phase = "parse" => list = <<>>
  /\ phase = "set" => \A j \in DOMAIN list : ListedBy(Arg, list[j])
  /\ phase = "resolve" => Len(sels) = Len(request.args)

\* each selector names an entry, and a refusal has its cause in an argument
Traced ==
  /\ ArgumentsRead
  /\ phase = "resolve" /\ at > 1 => named # {}
  /\ resolved # {} => named # {}
  /\ phase \in {"parse", "set", "resolve"} => request.command # "split"
  /\ phase = "address" => request.command = "split"
  /\ phase # "refused" => why = "none"
  /\ RefusalNamesItsCause

\* a row is of its entry, as the filter leaves it
Listed ==
  /\ rows \in Seq({EntryRow(fi) : fi \in Files})
  /\ phase \notin {"list", "done"} => rows = <<>>

-----------------------------------------------------------------------------
(* What has been read, resolved and emitted so far is what the arguments so *)
(* far mean (ChooseSubhunks).                                                *)

Args == request.args
Before(n) == 1..(n - 1)

AsSaid(s, arg) ==
  /\ Choice!Reads(arg)
  /\ arg.form \in {"list", "cut"} =>
       {s.indices[j] : j \in DOMAIN s.indices} = Choice!Numbers(arg)

\* the parts of the argument being read that have been
ListedSoFar == UNION {{j} \X Choice!NumbersOf(Arg.parts[j]) : j \in Before(part)}

ReadAsSaid ==
  /\ \A i \in DOMAIN sels : AsSaid(sels[i], Args[i])
  /\ phase = "parse" => part = 1
  /\ phase = "set" =>
       /\ part <= Len(Arg.parts) + 1
       /\ \A j \in Before(part) : Choice!PartReads(Arg.parts[j])
       /\ {list[j] : j \in DOMAIN list} = {n[2] : n \in ListedSoFar}

AskedBefore == UNION {{i} \X Choice!Asked(Args[i]) : i \in DOMAIN sels}
AskedNow    == IF phase = "set" THEN {at} \X ListedSoFar ELSE {}
AskedSoFar  == AskedBefore \union AskedNow

\* the allowance is charged for what is asked
Charged ==
  /\ phase \in {"parse", "set"} =>
       IsFiniteSet(AskedSoFar) /\ Cardinality(AskedSoFar) + left = MaxIndices
  /\ phase \in {"parse", "set", "resolve"} /\ Listing => Args # <<>>
  /\ phase = "resolve" =>
       Choice!Affordable /\ (Listing => \A i \in DOMAIN Args : Args[i].form # "cut")

\* the c-th cut of an entry is what argument i asks for
CutBy(fi, c, i) ==
  /\ Args[i].form = "cut" /\ Choice!Target(Args[i]) = fi
  /\ cuts[fi][c].index = Args[i].index
  /\ {cuts[fi][c].lines[j] : j \in DOMAIN cuts[fi][c].lines} = Choice!Numbers(Args[i])

SameCut(i, j) ==
  /\ Args[i].form = "cut" /\ Args[j].form = "cut"
  /\ Choice!Target(Args[i]) = Choice!Target(Args[j]) /\ Args[i].index = Args[j].index

\* every cut is asked for, and one asked for twice is there twice
CutsAsMeant(is) ==
  /\ \A i \in is : Args[i].form = "cut" =>
       LET fi == Choice!Target(Args[i]) IN \E c \in DOMAIN cuts[fi] : CutBy(fi, c, i)
  /\ \A fi \in Files : \A c \in DOMAIN cuts[fi] : \E i \in is : CutBy(fi, c, i)
  /\ \A fi \in Files : \A c, d \in DOMAIN cuts[fi] :
       c # d /\ cuts[fi][c].index = cuts[fi][d].index =>
         \E i, j \in is : i # j /\ SameCut(i, j) /\ CutBy(fi, c, i)
  /\ \A i, j \in is : i # j /\ SameCut(i, j) =>
       LET fi == Choice!Target(Args[i])
       IN  \E c, d \in DOMAIN cuts[fi] :
             c # d /\ cuts[fi][c].index = Args[i].index /\ cuts[fi][d].index = Args[i].index

\* what is chosen is what these arguments mean
ChosenAsMeant(is) ==
  /\ \A i \in is : Choice!Known(Args[i])
  /\ named = UNION {Choice!EntriesOf(Args[i]) : i \in is}
  /\ \A fi \in Files :
       whole[fi] = {k \in DOMAIN Subs(fi) :
                      \E i \in is : Args[i].form # "cut" /\ <<fi, k>> \in Choice!Named(Args[i])}
  /\ CutsAsMeant(is)

ResolvedAsMeant ==
  /\ phase \in {"parse", "set"} => ChosenAsMeant({}) /\ resolved = {}
  /\ phase = "resolve" =>
       /\ at <= Len(Args) + 1
       /\ ChosenAsMeant(Before(at))
       /\ \A id \in resolved : \E i \in Before(at) : Args[i].form = "id" /\ Args[i].id = id
  /\ phase \in {"emit", "pick", "list"} => ChosenAsMeant(DOMAIN Args)

PicksOf(fi) ==
  {WholePick(fi, i) : i \in whole[fi]} \union {CutPick(cuts[fi][c]) : c \in DOMAIN cuts[fi]}

Taken(fi, p) == p.lines \subseteq 1..ChangedCount(Subs(fi)[p.index])

\* an entry that could be emitted
Emittable(fi) ==
  /\ ~Conflicting(fi)
  /\ \A p \in PicksOf(fi) : /\ Taken(fi, p)
                            /\ files[fi].deletes => ~LeavesContext(Subs(fi)[p.index], p.lines)

EmittedAsMeant ==
  /\ phase \in {"emit", "pick"} =>
       /\ request.command = "select" /\ Choice!Understood
       /\ {out[i].entry : i \in DOMAIN out} = {fi \in named : fi < at}
       /\ \A i \in DOMAIN out :
            {out[i].picks[j] : j \in DOMAIN out[i].picks} = PicksOf(out[i].entry)
       /\ \A fi \in named : fi < at => Emittable(fi)
  /\ phase = "pick" =>
       /\ at \in named /\ ~files[at].binary /\ ~Conflicting(at)
       /\ todo \union {picks[j] : j \in DOMAIN picks} = PicksOf(at)
       /\ \A j \in DOMAIN picks : Taken(at, picks[j])

ListedAsMeant ==
  phase = "list" =>
    /\ Listing
    /\ Args # <<>> => Choice!Understood /\ \A i \in DOMAIN Args : Args[i].form # "cut"
    /\ {rows[r].entry : r \in DOMAIN rows} = {fi \in Files : fi < at /\ ShowsFile(fi)}

AnsweredAsMeant ==
  /\ phase = "refused" => Choice!Answer = Choice!Refusal
  /\ phase = "done" => Answered = Choice!Answer

Meant ==
  /\ ReadAsSaid /\ Charged /\ ResolvedAsMeant
  /\ EmittedAsMeant /\ ListedAsMeant /\ AnsweredAsMeant

(* And what is known of each entry emitted still says on which line it      *)
(* ends, and of each selector which argument it is (src/select.rs,          *)
(* select_from_file, resolve_selectors).                                    *)
IInv == RInv /\ Recorded /\ Traced /\ Listed /\ Meant
=============================================================================

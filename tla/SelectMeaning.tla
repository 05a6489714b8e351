--------------------------- MODULE SelectMeaning ---------------------------
(***************************************************************************)
(* What SelectFile's result does to the file it is applied to.             *)
(***************************************************************************)
EXTENDS SelectFileInv, GitApply

(* An entry says here whether it is the diff of two real files.  If it is,  *)
(* it says of which (`full`) and where in them its hunks stand (`tops`); a  *)
(* removal is one hunk of deletions.                                        *)
ASSUME RealAssumption ==
  \A e \in Entries : e.real =>
    /\ GitShaped(e.hunks)
    /\ IsDiffOf(e.full, e.tops, e.hunks)
    /\ e.deletes => Len(e.hunks) = 1 /\ Count(e.full, NewSide) = 0

RealDiff == entry.real
Full == entry.full

\* the changed lines picked, numbered over the whole entry
Chosen ==
  UNION {{ChangedTo(subs, j - 1) + c : c \in picked[j]} : j \in DOMAIN picked}

(* Applying the result makes exactly the picked changes: every picked       *)
(* deletion gone, every picked addition in, all else as it was, each hunk   *)
(* found at the very line its header names although the changes left out    *)
(* above it moved the file (src/select.rs select, src/renumber.rs,          *)
(* src/split.rs auto_split_hunk and slice_changed_lines).  At the last      *)
(* position of u32 a start may stand for any position past it.              *)
MakesThePickedChanges ==
  phase = "emitted" /\ RealDiff /\ ~OutOfPositions(hunks) =>
    Apply(OldFile(Full), hunks) = FileWith(Full, Chosen)

\* ... for diffs whose runs are in the order git writes
SelectionApplies == DeletionsFirst(Full) => MakesThePickedChanges

(* "Because unselected deletions are kept as context, every subset of       *)
(* changed lines is realisable as one applicable hunk [...] and a deletion  *)
(* split by additions (`+x -y +z`) can be addressed" (src/split.rs,         *)
(* slice_changed_lines): the same for every order of the lines of a run.    *)
EverySubsetIsRealisable == MakesThePickedChanges

(* A result that declares the file removed leaves no line of it: git refuses *)
(* a deletion that "still has contents" (src/select.rs,                      *)
(* reject_partial_selection_of_a_deleted_file).                              *)
DeletionLeavesNothing ==
  phase = "emitted" /\ RealDiff /\ entry.deletes => Apply(OldFile(Full), hunks) = <<>>

-----------------------------------------------------------------------------
(* What the loops have established about the files, line by line.           *)

\* each sub-hunk stands where its lines do
SubsStand == Standing(Full, subs, 0)

\* the sub-hunks hold every change above the next piece
PassedInv ==
  At("split") /\ hi <= Len(hunks) =>
    ChangedTo(subs, Len(subs))
      = CountIn(Full, Changes, 1, entry.tops[hi] + PieceFrom - 1)

\* the sub-hunks picked up to j
TakenTo(j) == Cardinality({i \in 1..j : picked[i] # {}})

PickedInv ==
  /\ phase = "input" \/ At("split") => picked = <<>> /\ out = <<>>
  /\ phase = "cut" /\ step # "split" => Len(picked) = k - 1
  /\ Len(picked) <= Len(subs)
  /\ Len(out) = TakenTo(Len(picked))
  /\ \A j \in DOMAIN picked :
       /\ picked[j] \subseteq ChangedLines(subs[j])
       /\ picked[j] # {} => Takes(out[TakenTo(j)], subs[j], picked[j])

\* below a line without its newline there are additions only, and below an
\* addition without one nothing
MarkedLast(lines) ==
  \A i, j \in DOMAIN lines :
    lines[i].nonl /\ i < j => lines[i].kind # "add" /\ lines[j].kind = "add"

SliceSides ==
  At("slice") =>
    LET ls == subs[k].lines
    IN  /\ SideOf(body, OldSide) = Listing(FileLines(ls), Side(ls, OldSide), 0, li - 1)
        /\ SideOf(body, NewSide) = Listing(FileLines(ls), Staying(ls, lineSet), 0, li - 1)
        /\ MarkedLast(body)
        /\ \A i \in DOMAIN body : body[i].nonl =>
             \E m \in 1..(li - 1) : ls[m].nonl /\ (body[i].kind = "add" => ls[m].kind = "add")

FixSides ==
  At("fix") =>
    LET ls == subs[k].lines
    IN  /\ lineSet # {} /\ lineSet \subseteq ChangedLines(subs[k])
        /\ SideOf(body, OldSide) = SideOf(ls, OldSide)
        /\ Ended(SideOf(body, NewSide)) = FileWith(ls, lineSet)
        /\ MarkedLast(body)
        /\ SideOf(fixed, OldSide) = Listing(FileLines(body), Side(body, OldSide), 0, li - 1)
        /\ SideOf(fixed, NewSide)
             = Listing(Ended(FileLines(body)), Side(body, NewSide), 0, li - 1)

\* renumbering and the check touch new-side starts only
HandedOver ==
  phase \in {"renumber", "result", "emitted"} =>
    /\ Len(picked) = Len(subs) /\ Len(hunks) = Len(out)
    /\ \A m \in DOMAIN hunks : OldAt(hunks[m]) = OldAt(out[m]) /\ hunks[m].lines = out[m].lines

\* no addition is made of a removal, and none of its lines stays
NoAdds(lines) == \A i \in DOMAIN lines : lines[i].kind # "add"

RemovalInv ==
  /\ phase = "input" => subs = <<>>
  /\ At("split") => subs = IF hi = 1 THEN <<>> ELSE entry.hunks
  /\ phase = "cut" /\ step # "split" => subs = entry.hunks
  /\ \A m \in DOMAIN out : NoAdds(out[m].lines)
  /\ At("slice") => NoAdds(body)
  /\ At("fix") => NoAdds(body) /\ NoAdds(fixed)
  /\ phase \in {"renumber", "result", "emitted"} =>
       /\ subs = entry.hunks /\ out # <<>>
       /\ \A m \in DOMAIN out : Count(out[m].lines, {"ctx"}) = 0

(* What every reachable state satisfies: the strengthening that the proofs *)
(* of SelectionApplies and DeletionLeavesNothing rest on.                  *)
MInv ==
  /\ IInv
  /\ RealDiff /\ DeletionsFirst(Full) =>
       /\ SubsStand /\ PassedInv /\ HandedOver
       /\ PickedInv /\ SliceSides /\ FixSides
  /\ RealDiff /\ entry.deletes => RemovalInv
=============================================================================

------------------------------ MODULE ParseInv ------------------------------
(***************************************************************************)
(* The inductive invariant of Parse.                                       *)
(***************************************************************************)
EXTENDS Parse

HunksFit(f) == \A j \in DOMAIN f.hunks : WithinCounts(f.hunks[j])

\* a binary entry has no hunks, and no trailer line stands below a hunk to come
KeptInPlace(f) ==
  /\ IsBinary(f) => f.hunks = <<>>
  /\ f.hunks = <<>> => f.trailer = <<>>
  /\ \A t \in DOMAIN f.trailer : f.trailer[t].at <= Len(f.hunks)

\* an entry that is done with
EntryInv(f) == HunksFit(f) /\ KeptInPlace(f) /\ (AllComplete(f) => ~HoldsFileHeader(f))

\* a hunk that will stay incomplete: a later one is being read, or none
LeftIncomplete(f) ==
  \E j \in DOMAIN f.hunks : ~Complete(f.hunks[j]) /\ (j = Len(f.hunks) => ~inHunk)

\* the entry being read, of which FileState tells
CurInv ==
  cur # <<>> =>
    /\ HunksFit(File) /\ KeptInPlace(File)
    /\ sawHunk <=> File.hunks # <<>>
    /\ inHunk => sawHunk
    /\ sawHunk => BudgetIsTheLastHunks
    /\ HoldsFileHeader(File) => LeftIncomplete(File)

(* FileState tells of the entry being read and of no other, and a file      *)
(* header among its trailer lines has an incomplete hunk above it for ever  *)
(* (src/parser.rs, FileState, starts_plain_file).                           *)
StateInv ==
  /\ TypeOK
  /\ \A i \in DOMAIN files : EntryInv(files[i])
  /\ CurInv
  /\ phase = "reading" /\ cur = <<>> => ~inHunk /\ ~sawHunk

\* a line that has its marker was followed by it
JustMarked(l) == l.nonl => input # <<>> /\ input[Len(input)] = NoNewline

(* The next line's place is below all that was read so far: entries begin   *)
(* below the preamble, a body grows while nothing is kept below its hunk,   *)
(* and a marker is read below the line it belongs to (src/parser.rs,        *)
(* push_header, take_body_line).                                            *)
PlaceInv ==
  phase = "reading" =>
    /\ cur = <<>> => files = <<>>
    /\ cur # <<>> /\ inHunk =>
         /\ \A t \in DOMAIN File.trailer : File.trailer[t].at < Len(File.hunks)
         /\ LastHunk.lines # <<>> => JustMarked(LastHunk.lines[Len(LastHunk.lines)])

IInv == StateInv /\ PlaceInv
=============================================================================

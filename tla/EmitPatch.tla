----------------------------- MODULE EmitPatch ------------------------------
(***************************************************************************)
(* src/emit.rs emit: a parsed diff is written out again, one action per    *)
(* hunk and per trailer line, with the cursor that walks the trailer once. *)
(* The diff need not come from the parser: the trailer of an entry may be  *)
(* in any order and tagged past the hunks the entry still has, as after a  *)
(* selection.                                                              *)
(***************************************************************************)
EXTENDS EmitText

CONSTANT Patches   \* the diffs tried: [preamble, files, cropped]

VARIABLES
  fi, i,     \* the entry and the hunk of it
  trailer,   \* its trailer lines, in order
  ti,        \* the cursor
  ended      \* whether the last of them has its newline

vars == <<patch, step, fi, i, trailer, ti, out, ended>>

Init ==
  /\ patch \in Patches
  /\ step = "preamble"
  /\ fi = 1 /\ i = 1 /\ ti = 1
  /\ trailer = <<>> /\ out = <<>>
  /\ ended = TRUE

File == patch.files[fi]

Write(lines) == out' = out \o lines

Preamble ==
  /\ step = "preamble"
  /\ Write(patch.preamble)
  /\ step' = "file"
  /\ UNCHANGED <<patch, fi, i, trailer, ti, ended>>

\* mutant: the order the lines came in
InOrder_AsGiven(lines) == lines

\* a stable sort by position
InOrder(lines) ==
  LET with(at) == Concat([k \in DOMAIN lines |-> IF lines[k].at = at THEN <<lines[k]>> ELSE <<>>])
  IN  Concat([n \in 1..(LastTag(lines) + 1) |-> with(n - 1)])

LinesOf(lines) == [k \in DOMAIN lines |-> lines[k].line]

\* headers, and the payload of a binary entry
OpenFile ==
  /\ step = "file" /\ fi <= Len(patch.files)
  /\ Write(File.headers \o File.payload)
  /\ trailer' = InOrder(File.trailer)
  /\ ti' = 1 /\ i' = 1
  /\ step' = IF IsBinary(File) THEN "rest" ELSE "hunk"
  /\ UNCHANGED <<patch, fi, ended>>

EmitHunk ==
  /\ step = "hunk" /\ i <= Len(File.hunks)
  /\ Write(HunkText(File.hunks[i]))
  /\ step' = "trailer"
  /\ UNCHANGED <<patch, fi, i, trailer, ti, ended>>

\* emit_trailer_upto: the next trailer line belongs here
Here == ti <= Len(trailer) /\ trailer[ti].at <= i

EmitTrailer ==
  /\ step = "trailer" /\ Here
  /\ Write(<<trailer[ti].line>>)
  /\ ti' = ti + 1
  /\ UNCHANGED <<patch, step, fi, i, trailer, ended>>

NextHunk ==
  /\ step = "trailer" /\ ~Here
  /\ i' = i + 1
  /\ step' = "hunk"
  /\ UNCHANGED <<patch, fi, trailer, ti, out, ended>>

EndHunks ==
  /\ step = "hunk" /\ i > Len(File.hunks)
  /\ step' = "rest"
  /\ UNCHANGED <<patch, fi, i, trailer, ti, out, ended>>

\* the lines tagged past the last hunk
CloseFile ==
  /\ step = "rest"
  /\ Write(LinesOf(SubSeq(trailer, ti, Len(trailer))))
  /\ fi' = fi + 1
  /\ step' = "file"
  /\ UNCHANGED <<patch, i, trailer, ti, ended>>

\* the last newline goes if the input had none
Finish ==
  /\ step = "file" /\ fi > Len(patch.files)
  /\ ended' = ~(patch.cropped /\ out # <<>>)
  /\ step' = "done"
  /\ UNCHANGED <<patch, fi, i, trailer, ti, out>>

Done == step = "done" /\ UNCHANGED vars

Next ==
  \/ Preamble \/ OpenFile \/ EmitHunk \/ EmitTrailer \/ NextHunk \/ EndHunks \/ CloseFile
  \/ Finish \/ Done

Spec == Init /\ [][Next]_vars
=============================================================================

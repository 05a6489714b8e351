------------------------------ MODULE EmitText ------------------------------
(***************************************************************************)
(* What src/emit.rs promises: a diff, how far its writing is, what has     *)
(* been written, and the text that this must be in the end.  EmitPatch     *)
(* writes it.                                                              *)
(***************************************************************************)
EXTENDS DiffText

VARIABLES
  patch,
  step,      \* what is written next
  out        \* the lines written

(* What is written is the text of the diff: every trailer line below the   *)
(* hunk it is tagged with, lines of one place in the order they were given,*)
(* lines tagged past the hunks at the end of their own entry, and none left*)
(* out or written twice by the cursor (src/emit.rs, emit).                 *)
EmitsTheText ==
  step = "done" => out = PatchText(patch.preamble, patch.files)
=============================================================================

---------------------------- MODULE MCRunCommand ----------------------------
(***************************************************************************)
(* An instance of RunCommand: git says up to two lines on stderr, more     *)
(* than its pipe holds; `git apply --check` is silent on stdout.  A line   *)
(* is a head of each class alone, with what belongs to it or with text in  *)
(* another script, or no diff line.                                        *)
(***************************************************************************)
EXTENDS RunCommandInv

MCMaxSaid == [stdout |-> 0, stderr |-> 2]
MCWords == {"error", "fatal"}

Heads   == {"--- ", "rename to ", "index "}
Lines   == {<<>>, <<"x">>, <<Foreign>>, <<HunkHead>>, <<HunkHead, Ranges>>, <<HunkHead, "x">>}
             \union {<<h>> : h \in Heads}
             \union {<<h, follows>> : h \in Heads, follows \in {"x", " ", Foreign}}
             \union {<<"--- ", " ", "x">>}
Joined(a, b) == a \o <<Newline>> \o b

\* two lines, or two after a blank line or one in another script
Texts == Lines
  \union {Joined(a, b) : a \in Lines, b \in Lines}
  \union {Joined(first, Joined(a, b)) :
            first \in {<<>>, <<Foreign>>}, a \in {<<"--- ", "x">>, <<"rename to ", Foreign>>, <<"x">>},
            b \in Lines}
  \union {<<"--- ", "x", Newline, Nul>>}

Few == {<<>>, <<Nul>>, <<" ", Newline>>, <<"--- ", "x", Newline>>, <<HunkHead, Ranges>>, <<"x">>}

MaxInput == 40

MCInputs ==
  {[text |-> t, encoding |-> e, limit |-> 0] : t \in Texts, e \in Encodings}
  \union {[text |-> t, encoding |-> e, limit |-> 0] : t \in Few, e \in Marked}
  \union {[text |-> t, encoding |-> "UTF-8", limit |-> n] :
            t \in Few, n \in {1, 2, 3, MaxInput - 1, MaxInput}}
=============================================================================

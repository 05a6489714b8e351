------------------------- MODULE MCResolveSelectors -------------------------
(***************************************************************************)
(* Patches of up to two entries and requests of up to three arguments:     *)
(* entries that share a path on one side or both, renames, deletions,      *)
(* binary and header-only entries, one without a path; sub-hunks with the  *)
(* same change, and two different ones with the same id.                   *)
(***************************************************************************)
EXTENDS ResolveInv

MCTexts == {"p", "q", "u", "v", "c"}
MCPaths == {"f", "g", "/dev/null"}

\* "u" and "v" have the same hash wherever they are
MCHash(fed) ==
  IF fed[3] # <<>> /\ fed[3][1].text \in {"u", "v"} THEN <<"clash">> ELSE fed

L(kind, text) == [kind |-> kind, text |-> text, nonl |-> FALSE]

P == <<L("add", "p")>>
C == <<L("ctx", "c"), L("add", "p"), L("ctx", "c")>>   \* P among other lines
Q == <<L("ctx", "c"), L("del", "q"), L("add", "q")>>
U == <<L("add", "u")>>
V == <<L("add", "v")>>
D == <<L("del", "p"), L("del", "q")>>
N == <<[L("del", "p") EXCEPT !.nonl = TRUE], L("add", "p")>>

Text(old, new, subs) ==
  [old |-> old, new |-> new, binary |-> FALSE, deletes |-> new = "/dev/null", tail |-> FALSE,
   hunks |-> IF subs = <<>> THEN 0 ELSE 1, subs |-> subs]
Binary(path) == [Text(path, path, <<>>) EXCEPT !.binary = TRUE]
Tailed(f) == [f EXCEPT !.tail = TRUE]

Diffs ==
  {<<Text("f", "f", <<Q, P>>)>>, <<Text("f", "f", <<P, C, Q>>)>>, <<Text("f", "f", <<U, V>>)>>,
   <<Text("f", "f", <<Q, N>>)>>,
   <<Tailed(Text("f", "f", <<Q, P>>))>>,
   <<Text("f", "f", <<U>>), Text("g", "g", <<V>>)>>, <<Text("f", "f", <<U>>), Text("g", "g", <<U>>)>>,
   <<Text("f", "f", <<P, Q>>), Tailed(Text("g", "g", <<Q>>))>>,
   <<Text("f", "f", <<P, Q>>), Text("g", "g", <<Q, P>>)>>,
   <<Text("f", "g", <<Q>>), Text("g", "g", <<P>>)>>,
   <<Text("f", "f", <<P>>), Text("f", "f", <<P, Q>>)>>,
   <<Binary("f"), Text("g", "g", <<P>>)>>, <<Text("g", "g", <<P>>), Binary("f")>>, <<Binary("f")>>,
   <<Text("f", "/dev/null", <<D>>)>>,
   <<Text("f", "/dev/null", <<D>>), Text("g", "/dev/null", <<D>>)>>,
   <<Text("f", "g", <<>>)>>, <<Text("f", "f", <<P>>), Text("g", "g", <<>>)>>,
   <<Text(NoPath, NoPath, <<P>>)>>, <<Text(NoPath, "f", <<Q>>), Text("g", "g", <<P>>)>>,
   <<>>}

MCPatches == {[files |-> fs, cropped |-> c] : fs \in Diffs, c \in BOOLEAN}

MCIds == {<<"clash">>, <<"unknown">>}
         \union {Fed(f, b) : f \in UNION {{fs[i] : i \in DOMAIN fs} : fs \in Diffs},
                             b \in {P, Q, N, D}}

Arg_(path, form, index, parts) ==
  [path |-> path, form |-> form, index |-> index, parts |-> parts, id |-> <<"unknown">>]

\* arguments that parse
Sets(path) ==
  {Arg_(path, "*", 0, <<>>), Arg_(path, "list", 0, <<<<1>>>>), Arg_(path, "list", 0, <<<<2>>>>),
   Arg_(path, "list", 0, <<<<2>>, <<1, 2>>>>),
   Arg_(path, "cut", 1, <<<<1>>>>), Arg_(path, "cut", 1, <<<<2>>, <<1>>>>),
   Arg_(path, "cut", 2, <<<<1>>>>)}
ById(fs) ==
  {[Arg_(NoPath, "id", 0, <<>>) EXCEPT !.id = id] :
     id \in {<<"clash">>, <<"unknown">>}
            \union UNION {{IdOf(fs[i], fs[i].subs[k]) : k \in DOMAIN fs[i].subs} : i \in DOMAIN fs}}
Good(fs) == UNION {Sets(path) : path \in IF Len(fs) = 1 THEN {NoPath, "f"} ELSE {"f", "g"}}
            \union ById(fs)

\* arguments that do not, or that spend the allowance
Bad(path) ==
  {Arg_(path, "other", 0, <<>>), Arg_(path, "range", 1, <<>>), Arg_(path, "range", 0, <<>>),
   Arg_(path, "list", 0, <<>>), Arg_(path, "cut", 0, <<<<1>>>>), Arg_(path, "cut", NaN, <<<<1>>>>),
   Arg_(path, "cut", 1, <<<<3>>>>), Arg_(path, "cut", 3, <<<<1>>>>),
   Arg_(EmptyPath, "*", 0, <<>>), Arg_(EmptyPath, "list", 0, <<<<1>>>>),
   Arg_(path, "id", 0, <<>>)}
  \union {Arg_(path, "list", 0, parts) :
            parts \in {<<<<0>>>>, <<<<NaN>>>>, <<<<3>>>>, <<<<2, 1>>>>, <<<<0, 2>>>>, <<<<1, NaN>>>>,
                       <<<<1, 4>>>>, <<<<1, 5>>>>, <<<<1, 2>>, <<1, 2>>>>, <<<<1, 2>>, <<2, 1>>>>,
                       <<<<1>>, <<2>>, <<1>>, <<2>>, <<1>>>>}}

MCRequests(p) == LET fs == p.files IN
  {[command |-> c, args |-> as] :
     c \in {"select", "list"},
     as \in {<<a>> : a \in Good(fs) \union Bad("f") \union Bad(NoPath)}
            \union {<<a, b>> : a \in Good(fs), b \in Good(fs)}
            \union {<<a, Arg_("f", "list", 0, <<<<1, 2>>>>), b>> :
                      a \in Bad("f") \union {Arg_("f", "*", 0, <<>>)},
                      b \in {Arg_("f", "list", 0, <<<<1, 2>>>>), Arg_("f", "list", 0, <<<<1>>>>)}}}
  \union {[command |-> "list", args |-> <<>>], [command |-> "select", args |-> <<>>]}
  \union {[command |-> "split", args |-> <<a>>] : a \in Good(fs) \union Bad("f") \union Bad(NoPath)
                                                  \union Sets("/dev/null")}

=============================================================================

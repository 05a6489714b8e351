------------------------------ MODULE RunChild ------------------------------
(***************************************************************************)
(* What src/gitenv.rs feed_and_wait promises its caller: a program is run, *)
(* says what it says on two streams and ends, and the caller gets either   *)
(* how it ended together with all it said, or an error.  No threads and no *)
(* pipes here; FeedAndWait implements this.                                *)
(***************************************************************************)
EXTENDS Sequences

CONSTANTS Streams,   \* the streams the child answers on
          Words,     \* what it can say on them, piece by piece
          Endings,   \* how it can end
          Errors     \* the errors a caller can get instead of an answer

VARIABLES child,     \* "unborn", "running" or how it ended
          said,      \* what it said on each stream
          result     \* what the caller got

vars == <<child, said, result>>

Pending == [kind |-> "pending"]

Init ==
  /\ child = "unborn"
  /\ said = [s \in Streams |-> <<>>]
  /\ result = Pending

Start ==
  /\ child = "unborn" /\ result = Pending
  /\ child' = "running"
  /\ UNCHANGED <<said, result>>

Say(s) ==
  /\ child = "running"
  /\ \E w \in Words : said' = [said EXCEPT ![s] = Append(@, w)]
  /\ UNCHANGED <<child, result>>

End ==
  /\ child = "running"
  /\ child' \in Endings
  /\ UNCHANGED <<said, result>>

Answer ==
  /\ child \in Endings /\ result = Pending
  /\ result' = [kind |-> "output", status |-> child, said |-> said]
  /\ UNCHANGED <<child, said>>

Fail ==
  /\ result = Pending
  /\ result' \in [kind : Errors]
  /\ UNCHANGED <<child, said>>

Next == Start \/ (\E s \in Streams : Say(s)) \/ End \/ Answer \/ Fail

Safety == Init /\ [][Next]_vars

\* once the child has ended the caller is not kept waiting
Spec == Safety /\ WF_vars(Answer)
=============================================================================

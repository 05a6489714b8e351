--------------------------- MODULE MCFeedAndWait ----------------------------
(***************************************************************************)
(* Small instances of FeedAndWait: an input and an answer on each stream   *)
(* that outgrow a pipe.  One word is enough to tell the streams apart, the *)
(* child being free to say it once on one and twice on the other.          *)
(***************************************************************************)
EXTENDS FeedAndWait

MCMaxSaid == [s \in Streams |-> 2]
=============================================================================

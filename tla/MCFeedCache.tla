----------------------------- MODULE MCFeedCache -----------------------------
(* Instances of FeedCache for TLC. *)
EXTENDS FeedCache

CONSTANTS r1, r2
=============================================================================

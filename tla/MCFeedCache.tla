----------------------------- MODULE MCFeedCache -----------------------------
(***************************************************************************)
(* Instances of FeedCache for TLC.  Tokens are uuids: one more than can be *)
(* in use at once keeps Acquire from ever waiting for one.                 *)
(***************************************************************************)
EXTENDS FeedCache
=============================================================================

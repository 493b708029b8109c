--------------------------- MODULE MCFeedRefresh ---------------------------
(***************************************************************************)
(* A request, the interval and a moderator share a refresh; one restart.   *)
(***************************************************************************)
EXTENDS FeedRefresh
=============================================================================

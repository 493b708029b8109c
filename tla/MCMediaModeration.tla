------------------------- MODULE MCMediaModeration -------------------------
(***************************************************************************)
(* Two images that compete for one place, two calls that request or rescan *)
(* them, one restart, one failing write.                                   *)
(***************************************************************************)
EXTENDS MediaModeration
=============================================================================

--------------------------- MODULE MCRelaySession ---------------------------
(***************************************************************************)
(* A configured and a hinted relay, two queries at the same time, one      *)
(* event on each relay.                                                    *)
(***************************************************************************)
EXTENDS RelaySession
=============================================================================

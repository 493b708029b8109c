---------------------------- MODULE MCWiredPosts ----------------------------
(***************************************************************************)
(* Two calls that may bring the same proof, two relays, evidence queues of *)
(* one entry, one crash.                                                   *)
(***************************************************************************)
EXTENDS WiredPosts
=============================================================================

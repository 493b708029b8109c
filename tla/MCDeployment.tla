---------------------------- MODULE MCDeployment ----------------------------
(***************************************************************************)
(* Two revisions of one version over the one installed, of which the last  *)
(* does not match its manifest; two runs of the script; one client.        *)
(***************************************************************************)
EXTENDS Deployment

OneVersion == [r \in 0..2 |-> "0.2.15"]
=============================================================================

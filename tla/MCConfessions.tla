---------------------------- MODULE MCConfessions ----------------------------
(***************************************************************************)
(* Confessions submitted at the same time, all with the same text or each  *)
(* with its own, mirrored by timers that overlap the interval runs.        *)
(***************************************************************************)
EXTENDS Confessions, TLC

CONSTANTS e1, e2, e3

MCTextOf == [e \in Confessions |-> "text"]
MCTextsDiffer == [e \in Confessions |-> e]

\* For runs of safety properties only.
Symmetry == Permutations(Confessions) \cup Permutations(Runners)
=============================================================================

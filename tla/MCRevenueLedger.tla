-------------------------- MODULE MCRevenueLedger --------------------------
(***************************************************************************)
(* The revenue ledger under every sequence of legal calls: two creators,   *)
(* zaps whose 70 percent share leaves a sub-satoshi remainder, and payouts *)
(* with and without a rounding.                                            *)
(***************************************************************************)
EXTENDS RevenueLedger, TLC

CONSTANTS k1, k2, s1, s2, p1, p2, v1, v2

MCZapAmounts == {21000, 1430}
MCPayoutAmounts == {14000, 1000}
MCRoundings == {0, 700}
MCFees == {0, 2000}

Symmetry == Permutations({k1, k2}) \cup Permutations({s1, s2})
              \cup Permutations({p1, p2}) \cup Permutations({v1, v2})
=============================================================================

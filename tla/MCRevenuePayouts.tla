-------------------------- MODULE MCRevenuePayouts --------------------------
(***************************************************************************)
(* One creator, two zaps, a webhook racing a reconcileAll run.  Each zap   *)
(* leaves a remainder, may be paid alone (an address that accepts 14000)   *)
(* or together, and earns Wired less than two worst routing fees.          *)
(***************************************************************************)
EXTENDS RevenuePayouts

CONSTANTS k1, s1, s2, p1, p2, v1, h1, r1

MCZapKey == [s \in SettlementIds |-> k1]
MCZapAmount == [s \in SettlementIds |-> 21000]
MCZapAmounts == {21000}
MCPayoutAmounts == {14000}
MCRoundings == {0, 700}
MCFees == {0, 12000}
MCQuotes == {1000, 14000}
MCMaxSendables == {14000, 100000}
=============================================================================

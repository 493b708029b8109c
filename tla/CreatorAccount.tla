--------------------------- MODULE CreatorAccount ---------------------------
(***************************************************************************)
(* What the revenue service promises a creator: every settled zap is       *)
(* credited once, money leaves only what is owed, and whatever reaches the *)
(* creator's Lightning address is no longer owed.  Less than one satoshi   *)
(* at a time may be given up to rounding.                                  *)
(***************************************************************************)
EXTENDS Integers

CONSTANTS
  Creators, Zaps,
  ShareOf,      \* zap -> the creator's share of it
  CreatorOf     \* zap -> the creator it was meant for

VARIABLES
  credited,   \* zaps whose share was credited
  owed,       \* creator -> amount Wired still owes
  sent        \* creator -> amount that reached the creator's address

accountVars == <<credited, owed, sent>>

AccountInit ==
  /\ credited = {}
  /\ owed = [k \in Creators |-> 0]
  /\ sent = [k \in Creators |-> 0]

Earn(s) ==
  /\ s \notin credited
  /\ credited' = credited \cup {s}
  /\ owed' = [owed EXCEPT ![CreatorOf[s]] = @ + ShareOf[s]]
  /\ UNCHANGED sent

\* Any amount moves from owed to sent, but never beyond what is owed.
Send(k) ==
  LET n == sent'[k] - sent[k]
  IN  /\ n \in 1..owed[k]
      /\ sent' = [sent EXCEPT ![k] = @ + n]
      /\ owed' = [owed EXCEPT ![k] = @ - n]
      /\ UNCHANGED credited

ForfeitDust(k) ==
  LET d == owed[k] - owed'[k]
  IN  /\ d \in 1..999
      /\ owed' = [owed EXCEPT ![k] = @ - d]
      /\ UNCHANGED <<credited, sent>>

AccountNext ==
  \/ \E s \in Zaps : Earn(s)
  \/ \E k \in Creators : Send(k) \/ ForfeitDust(k)

AccountSpec == AccountInit /\ [][AccountNext]_accountVars
=============================================================================

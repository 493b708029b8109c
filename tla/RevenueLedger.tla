--------------------------- MODULE RevenueLedger ---------------------------
(***************************************************************************)
(* The SQLite revenue ledger (web/src/revenue/ledger.ts): settlements,     *)
(* creator balances and payouts.  Every action is one call of a ledger     *)
(* method; each method is one synchronous SQLite transaction, so an action *)
(* is atomic, and a method that throws or rolls back is an action that is  *)
(* not enabled.                                                            *)
(*                                                                         *)
(* revenue_ledger_entries is represented by what its readers take from it: *)
(* the sums per payout key, the Wired sum, the set of unique keys that     *)
(* INSERT OR IGNORE tests, and the amount of a rounding reservation.       *)
(* Amounts are millisatoshi.  The invoice intents and receipts of the same *)
(* file are modelled in ZapInvoices, the enrollments are not.              *)
(***************************************************************************)
EXTENDS Integers, FiniteSetsExt

CONSTANTS
  PayoutKeys,       \* one per creator Lightning address
  SettlementIds,    \* "<backend>:<payment hash>"
  PayoutIds,        \* the UUIDs reservePayout is called with
  ProviderIds,      \* payment identities the wallet returns
  NoProvider,       \* provider_payment_id IS NULL
  ZapAmounts,       \* amounts of settled zaps
  PayoutAmounts,    \* amounts passed to reservePayout
  Roundings,        \* sub-satoshi roundings passed to reservePayout
  Fees              \* final routing fees a provider reports

ASSUME AmountsAssumption ==
  /\ ZapAmounts \subseteq Nat \ {0}
  /\ PayoutAmounts \subseteq Nat \ {0}
  /\ Roundings \subseteq 0..999
  /\ Fees \subseteq Nat

ASSUME KeysAssumption == IsFiniteSet(PayoutKeys)

ASSUME ProviderAssumption == NoProvider \notin ProviderIds

VARIABLES
  settlements,   \* set of settlement ids with a row (PRIMARY KEY)
  payouts,       \* payout id -> row; DOMAIN payouts is the set of rows
  deferral,      \* payout key -> state of its row 'deferred:<key>'
  entries,       \* unique keys of revenue_ledger_entries that concern payouts
  laterCredit,   \* succeeded payouts whose key was credited after completion
  balance,       \* payout key -> sums of its available, reserved, paid deltas
  wired,         \* sum of all wired deltas
  ledgerTotal,   \* sum of all deltas of all entries
  grossSettled,  \* sum of amount_msat over revenue_settlements
  payoutFees     \* sum of fee_msat over succeeded payouts

tables == <<settlements, payouts, deferral, entries, laterCredit>>
sums == <<balance, wired, ledgerTotal, grossSettled, payoutFees>>
ledgerVars == <<tables, sums>>

EntryKinds == {"reserve", "complete", "rounding-complete", "release",
               "rounding-release", "fee-adjustment", "legacy-rounding-complete"}

PayoutRow == [key : PayoutKeys, amount : Nat, rounding : 0..999,
              state : {"attempting", "ambiguous", "succeeded", "deferred", "resolved"},
              provider : ProviderIds \cup {NoProvider},
              fee : Nat]              \* fee_msat, 0 until the payout succeeds

\* Operators named Faulty... are plausible mistakes in the definition that
\* follows them; no other definition uses them.

\* The rows the partial unique index revenue_payout_active_key covers.
Active(p) == p \in DOMAIN payouts /\ payouts[p].state \in {"attempting", "ambiguous"}
ActiveOf(k) == {p \in DOMAIN payouts : payouts[p].key = k /\ Active(p)}
Succeeded(p) == p \in DOMAIN payouts /\ payouts[p].state = "succeeded"

CreatorShare(amount) == (amount * 70) \div 100

Fresh(kind, p) == <<kind, p>> \notin entries
IfFresh(kind, p, amount) == IF Fresh(kind, p) THEN amount ELSE 0

\* Inserting entries of payout key k moves every sum that ranges over them.
Post(k, available, reserved, paid, toWired) ==
  /\ balance' = [balance EXCEPT ![k] = [available |-> @.available + available,
                                        reserved |-> @.reserved + reserved,
                                        paid |-> @.paid + paid]]
  /\ wired' = wired + toWired
  /\ ledgerTotal' = ledgerTotal + available + reserved + paid + toWired

LedgerInit ==
  /\ settlements = {}
  /\ payouts = [p \in {} |-> 0]
  /\ deferral = [k \in PayoutKeys |-> "none"]
  /\ entries = {}
  /\ laterCredit = {}
  /\ balance = [k \in PayoutKeys |-> [available |-> 0, reserved |-> 0, paid |-> 0]]
  /\ wired = 0
  /\ ledgerTotal = 0
  /\ grossSettled = 0
  /\ payoutFees = 0

----------------------------------------------------------------------------

\* The settlement id is the idempotency key: a second credit returns early.
CreditSettledZap(s, k, amount) ==
  /\ s \notin settlements
  /\ settlements' = settlements \cup {s}
  /\ grossSettled' = grossSettled + amount
  /\ Post(k, CreatorShare(amount), 0, 0, amount - CreatorShare(amount))
  /\ laterCredit' = laterCredit \cup
       {p \in DOMAIN payouts : Succeeded(p) /\ payouts[p].key = k}
  /\ UNCHANGED <<payouts, deferral, entries, payoutFees>>

FaultyCanReserveNoIndex(p, k, amount, rounding) ==
  /\ amount > 0
  /\ rounding \in 0..999
  /\ balance[k].available >= amount + rounding
  /\ p \notin DOMAIN payouts
FaultyCanReserveUnfunded(p, k, amount, rounding) ==
  /\ amount > 0
  /\ rounding \in 0..999
  /\ p \notin DOMAIN payouts
  /\ ActiveOf(k) = {}

\* Throws (and rolls back) when the balance is gone, the id is taken, or the
\* unique index already holds an active payout of the same key.
CanReserve(p, k, amount, rounding) ==
  /\ amount > 0
  /\ rounding \in 0..999
  /\ balance[k].available >= amount + rounding
  /\ p \notin DOMAIN payouts
  /\ ActiveOf(k) = {}
WithReserved(p, k, amount, rounding) ==
  [q \in DOMAIN payouts \cup {p} |->
     IF q = p THEN [key |-> k, amount |-> amount, rounding |-> rounding,
                    state |-> "attempting", provider |-> NoProvider, fee |-> 0]
     ELSE payouts[q]]
PostReserve(p, k, amount, rounding) ==
  /\ entries' = entries \cup {<<"reserve", p>>}
  /\ Post(k, -(amount + rounding), amount + rounding, 0, 0)
  /\ UNCHANGED <<settlements, laterCredit, grossSettled, payoutFees>>

ReservePayout(p, k, amount, rounding) ==
  /\ CanReserve(p, k, amount, rounding)
  /\ payouts' = WithReserved(p, k, amount, rounding)
  /\ PostReserve(p, k, amount, rounding)
  /\ UNCHANGED deferral

CompletePayout(p, provider, fee) ==
  /\ Active(p)
  /\ LET row == payouts[p]
         paid == IfFresh("complete", p, row.amount)
         dust == IfFresh("rounding-complete", p, row.rounding)
     IN  /\ Post(row.key, 0, -(paid + dust), paid,
                 dust - IfFresh("complete", p, fee))
         /\ entries' = entries \cup {<<"complete", p>>} \cup
              (IF row.rounding > 0 THEN {<<"rounding-complete", p>>} ELSE {})
         /\ payouts' = [payouts EXCEPT ![p].state = "succeeded",
                                       ![p].provider = provider, ![p].fee = fee]
  /\ payoutFees' = payoutFees + fee
  /\ UNCHANGED <<settlements, deferral, laterCredit, grossSettled>>

ReleasePayout(p) ==
  /\ Active(p)
  /\ LET row == payouts[p]
         back == IfFresh("release", p, row.amount)
                 + IfFresh("rounding-release", p, row.rounding)
     IN  /\ Post(row.key, back, -back, 0, 0)
         /\ entries' = entries \cup {<<"release", p>>} \cup
              (IF row.rounding > 0 THEN {<<"rounding-release", p>>} ELSE {})
         /\ payouts' = [payouts EXCEPT ![p].state = "deferred"]
  /\ UNCHANGED <<settlements, deferral, laterCredit, grossSettled, payoutFees>>

MarkPayoutAmbiguous(p, provider) ==
  /\ Active(p)
  /\ payouts' = [payouts EXCEPT ![p].state = "ambiguous", ![p].provider = provider]
  /\ UNCHANGED <<settlements, deferral, entries, laterCredit, sums>>

\* Upserts the key's own deferral row, whatever its state was.
DeferPayout(k) ==
  /\ deferral' = [deferral EXCEPT ![k] = "deferred"]
  /\ UNCHANGED <<settlements, payouts, entries, laterCredit, sums>>

\* Resolves the deferral row and every released payout of the key.
ResolvedDeferral(k) ==
  [deferral EXCEPT ![k] = IF @ = "deferred" THEN "resolved" ELSE @]
ResolvedRows(rows, k) ==
  [p \in DOMAIN rows |->
     IF rows[p].key = k /\ rows[p].state = "deferred"
     THEN [rows[p] EXCEPT !.state = "resolved"] ELSE rows[p]]

ResolveDeferredPayouts(k) ==
  /\ deferral' = ResolvedDeferral(k)
  /\ payouts' = ResolvedRows(payouts, k)
  /\ UNCHANGED <<settlements, entries, laterCredit, sums>>

FaultyFeeOnlyInEntries(p, provider, fee) ==
  /\ Succeeded(p)
  /\ payouts[p].provider = provider /\ payouts[p].fee # fee
  /\ Fresh("fee-adjustment", p)
  /\ entries' = entries \cup {<<"fee-adjustment", p>>}
  /\ Post(payouts[p].key, 0, 0, 0, payouts[p].fee - fee)
  /\ payoutFees' = payoutFees + fee - payouts[p].fee
  /\ UNCHANGED <<settlements, payouts, deferral, laterCredit, grossSettled>>

\* A fee that finalises differently is corrected once; the second correction
\* finds the unique key taken and throws.
ReconcileSucceededPayoutFee(p, provider, fee) ==
  /\ Succeeded(p)
  /\ payouts[p].provider = provider
  /\ payouts[p].fee # fee
  /\ Fresh("fee-adjustment", p)
  /\ entries' = entries \cup {<<"fee-adjustment", p>>}
  /\ Post(payouts[p].key, 0, 0, 0, payouts[p].fee - fee)
  /\ payoutFees' = payoutFees + fee - payouts[p].fee
  /\ payouts' = [payouts EXCEPT ![p].fee = fee]
  /\ UNCHANGED <<settlements, deferral, laterCredit, grossSettled>>

FaultySweepAnyRemainder(p) ==
  /\ Succeeded(p)
  /\ Fresh("legacy-rounding-complete", p)
  /\ LET row == balance[payouts[p].key]
     IN  row.available > 0 /\ Post(payouts[p].key, -row.available, 0, 0, row.available)
  /\ entries' = entries \cup {<<"legacy-rounding-complete", p>>}
  /\ UNCHANGED <<settlements, payouts, deferral, laterCredit, grossSettled, payoutFees>>

\* Operator repair for payouts completed before roundings were reserved.
SweepLegacySucceededPayoutRemainder(p) ==
  /\ Succeeded(p)
  /\ Fresh("legacy-rounding-complete", p)
  /\ ~Fresh("complete", p)
  /\ p \notin laterCredit
  /\ LET row == balance[payouts[p].key]
     IN  /\ row.reserved = 0
         /\ row.available > 0
         /\ row.available < 1000
         /\ Post(payouts[p].key, -row.available, 0, 0, row.available)
  /\ entries' = entries \cup {<<"legacy-rounding-complete", p>>}
  /\ UNCHANGED <<settlements, payouts, deferral, laterCredit, grossSettled, payoutFees>>

LedgerNext ==
  \/ \E s \in SettlementIds, k \in PayoutKeys, a \in ZapAmounts :
       CreditSettledZap(s, k, a)
  \/ \E p \in PayoutIds, k \in PayoutKeys, a \in PayoutAmounts, r \in Roundings :
       ReservePayout(p, k, a, r)
  \/ \E p \in PayoutIds, v \in ProviderIds, f \in Fees : CompletePayout(p, v, f)
  \/ \E p \in PayoutIds : ReleasePayout(p)
  \/ \E p \in PayoutIds, v \in ProviderIds : MarkPayoutAmbiguous(p, v)
  \/ \E k \in PayoutKeys : DeferPayout(k)
  \/ \E k \in PayoutKeys : ResolveDeferredPayouts(k)
  \/ \E p \in PayoutIds, v \in ProviderIds, f \in Fees :
       ReconcileSucceededPayoutFee(p, v, f)
  \/ \E p \in PayoutIds : SweepLegacySucceededPayoutRemainder(p)

LedgerSpec == LedgerInit /\ [][LedgerNext]_ledgerVars

----------------------------------------------------------------------------

\* Every table holds rows of its schema; a sum is an integer.
LedgerTypeOK ==
  /\ settlements \subseteq SettlementIds
  /\ DOMAIN payouts \subseteq PayoutIds
  /\ \A p \in DOMAIN payouts : payouts[p] \in PayoutRow
  /\ deferral \in [PayoutKeys -> {"none", "deferred", "resolved"}]
  /\ entries \subseteq EntryKinds \X PayoutIds
  /\ laterCredit \subseteq PayoutIds
  /\ balance \in [PayoutKeys -> [available : Int, reserved : Int, paid : Int]]
  /\ wired \in Int
  /\ ledgerTotal \in Int
  /\ grossSettled \in Int
  /\ payoutFees \in Int

\* The conservation check of the operator status page,
\* accountingDivergenceMsat() = 0: gross zaps, less the routing fees of
\* succeeded payouts, are all accounted for by ledger entries.
Conservation == grossSettled - payoutFees - ledgerTotal = 0

\* The rows that totals range over, and what they add up to.
SucceededRows == {p \in DOMAIN payouts : Succeeded(p)}
CreatorFunds(k) == balance[k].available + balance[k].reserved + balance[k].paid
FeesCharged ==
  SumFunctionOnSet([p \in DOMAIN payouts |-> payouts[p].fee], SucceededRows)
PaidTo(k) ==
  SumFunctionOnSet([p \in DOMAIN payouts |-> payouts[p].amount],
                   {p \in SucceededRows : payouts[p].key = k})
FundsOfAll == SumFunctionOnSet([k \in PayoutKeys |-> CreatorFunds(k)], PayoutKeys)

\* The sums the SQL queries compute agree with the rows they range over, so
\* Conservation speaks of the tables and not of bookkeeping beside them; and a
\* creator is recorded as paid exactly the amounts of the payouts that succeeded.
SumsMatchRows ==
  /\ payoutFees = FeesCharged
  /\ ledgerTotal = wired + FundsOfAll
  /\ \A k \in PayoutKeys : balance[k].paid = PaidTo(k)

\* The operator's check cannot fail, and it checks what it seems to.
BooksBalance == Conservation /\ SumsMatchRows

\* What a key holds in reserve is exactly the amount and rounding of its one
\* active payout, and nothing when no payout is active: a completion, release
\* or re-reservation in any order never strands or frees reserved funds.
ReservedFor(k) ==
  \/ ActiveOf(k) = {} /\ balance[k].reserved = 0
  \/ \E p \in PayoutIds :
       /\ ActiveOf(k) = {p}
       /\ balance[k].reserved = payouts[p].amount + payouts[p].rounding

ReservedIsActivePayout == \A k \in PayoutKeys : ReservedFor(k)

\* The entries that close a reservation exist only for a payout whose row says
\* so: INSERT OR IGNORE never swallows the entry a completion or release needs,
\* and no payout is both completed and released.
Released(p) == p \in DOMAIN payouts /\ payouts[p].state \in {"deferred", "resolved"}
ClosingFor(p) ==
  /\ (Fresh("complete", p) /\ Fresh("rounding-complete", p)) \/ Succeeded(p)
  /\ (Fresh("release", p) /\ Fresh("rounding-release", p)) \/ Released(p)
ClosingEntriesMatchOutcome == \A p \in PayoutIds : ClosingFor(p)

\* A balance never goes below zero, whatever payouts were tried on it.
NeverOverdrawn == \A k \in PayoutKeys : balance[k].available >= 0

\* A reservation is funded when it is made, stays whole while its payout is open
\* and is closed once, whatever order the calls about it arrive in.
ReservesAreHeld == ReservedIsActivePayout /\ ClosingEntriesMatchOutcome /\ NeverOverdrawn

\* No ledger call takes a whole satoshi away from a creator: what is available,
\* reserved and paid for a key shrinks only by a rounding or a swept remainder.
CreatorLosesOnlyDust ==
  [][\A k \in PayoutKeys : CreatorFunds(k)' > CreatorFunds(k) - 1000]_ledgerVars

\* A stale failure, ambiguity or completion never rewrites an outcome: a
\* succeeded payout stays succeeded with its provider and amount, a released
\* one is never reserved or paid again under the same id.
OutcomesAreFinal ==
  [][\A p \in DOMAIN payouts :
       /\ p \in DOMAIN payouts'
       /\ Succeeded(p) => /\ payouts'[p].state = "succeeded"
                          /\ payouts'[p].provider = payouts[p].provider
       /\ payouts[p].state \in {"deferred", "resolved"}
            => payouts'[p].state \in {"deferred", "resolved"}]_ledgerVars

\* What was paid or charged stands: no call takes it back or changes whom it
\* belongs to.
OutcomesStand == CreatorLosesOnlyDust /\ OutcomesAreFinal
=============================================================================

--------------------------- MODULE RevenuePayouts ---------------------------
(***************************************************************************)
(* Payouts of the revenue service (web/src/revenue/service.ts) over the    *)
(* ledger: webhooks that credit a settled zap and then try to pay its      *)
(* creator, the scheduled reconcileAll runs, and a wallet provider that    *)
(* answers late, wrongly or never.                                         *)
(*                                                                         *)
(* A worker is one call of an async function; every await is a step, so    *)
(* that anything may run between a read and the write that relies on it.   *)
(* Requests of an attempt that touch no shared state (address validation,  *)
(* invoice, fee quote) are one await.  A crash ends every call; SQLite and *)
(* the provider keep what they hold.                                       *)
(***************************************************************************)
EXTENDS RevenueLedger

CONSTANTS
  Webhooks,        \* concurrent reconcileInvoice calls
  Reconcilers,     \* concurrent reconcileAll calls: setInterval awaits none
  ZapKey,          \* settlement id -> payout key of its enrollment
  ZapAmount,       \* settlement id -> amount
  MinimumPayout,   \* minimumPayoutMsat
  MaxRoutingFee,   \* maxRoutingFeeMsat
  Quotes,          \* fees the wallet may estimate
  MaxSendables,    \* upper limits a Lightning address may announce
  MaxCrashes       \* bound on crashes of the process

Workers == Webhooks \cup Reconcilers

ASSUME ServiceAssumption ==
  /\ Webhooks \cap Reconcilers = {}
  /\ ZapKey \in [SettlementIds -> PayoutKeys]
  /\ ZapAmount \in [SettlementIds -> Nat \ {0}]
  /\ MinimumPayout \in Nat /\ MinimumPayout >= 1000
  /\ MaxRoutingFee \in Nat
  /\ Quotes \subseteq Nat
  /\ MaxSendables \subseteq Nat
  /\ Fees \subseteq 0..MaxRoutingFee
  /\ MaxCrashes \in Nat

VARIABLES
  worker,     \* what each call is waiting for, with its local variables
  todo,       \* reconciler -> rows of its duePayouts() snapshot still to visit
  seen,       \* reconciler -> its consideredPayoutKeys
  latest,     \* payout key -> state last written to one of its rows
  provider,   \* payout id -> what became of its payment
  crashes

serviceVars == <<worker, todo, seen, latest>>
vars == <<ledgerVars, serviceVars, provider, crashes>>

ProviderStates == {"none", "sent", "lost", "pending", "succeeded", "failed"}

Idle == [at |-> "idle"]
Visiting == [at |-> "next"]
Resting(w) == IF w \in Reconcilers THEN Visiting ELSE Idle
Goto(w, state) == worker' = [worker EXCEPT ![w] = state]
Return(w) == Goto(w, Resting(w))
Wrote(k, state) == latest' = [latest EXCEPT ![k] = state]

Init ==
  /\ LedgerInit
  /\ worker = [w \in Workers |-> Idle]
  /\ todo = [w \in Reconcilers |-> {}]
  /\ seen = [w \in Reconcilers |-> {}]
  /\ latest = [k \in PayoutKeys |-> "none"]
  /\ provider = [p \in PayoutIds |-> "none"]
  /\ crashes = 0

----------------------------------------------------------------------------
(* attemptPayout *)

Defer(k) == DeferPayout(k) /\ Wrote(k, "deferred")

\* Up to the first await: the balance read here is what the payout is sized by.
Attempt(w, k) ==
  LET enough == balance[k].available >= MinimumPayout
  IN  \/ ~enough /\ Return(w) /\ UNCHANGED <<ledgerVars, latest>>
      \/ enough /\ wired < MaxRoutingFee /\ Defer(k) /\ Return(w)
      \/ /\ enough /\ wired >= MaxRoutingFee
         /\ Goto(w, [at |-> "quoting", key |-> k, funds |-> balance[k].available])
         /\ UNCHANGED <<ledgerVars, latest>>

\* The address, its limits, the invoice or the quote stop the attempt.
QuoteFails(w) ==
  /\ worker[w].at = "quoting"
  /\ Defer(worker[w].key)
  /\ Return(w)
  /\ UNCHANGED <<todo, seen, provider, crashes>>

Basis(w, limit) == IF worker[w].funds < limit THEN worker[w].funds ELSE limit
WholeSats(msat) == (msat \div 1000) * 1000

QuoteFits(quote) == quote <= MaxRoutingFee /\ quote <= wired

\* A payout's id is new; which unused one it is makes no difference.
NewPayout ==
  LET unused == PayoutIds \ DOMAIN payouts
  IN  IF unused = {} THEN {} ELSE {CHOOSE p \in unused : TRUE}

QuoteReserves(w) ==
  /\ worker[w].at = "quoting"
  /\ \E quote \in Quotes : QuoteFits(quote)
  /\ \E limit \in MaxSendables, p \in NewPayout :
       LET k == worker[w].key
           amount == WholeSats(Basis(w, limit))
           rounding == Basis(w, limit) - amount
       IN  /\ CanReserve(p, k, amount, rounding)
           /\ payouts' = WithReserved(p, k, amount, rounding)
           /\ PostReserve(p, k, amount, rounding)
           /\ Wrote(k, "attempting")
           /\ Goto(w, [at |-> "reserved", payout |-> p])
  /\ UNCHANGED <<deferral, todo, seen, provider, crashes>>

\* reservePayout throws: the funds went elsewhere during the quote, or the
\* address takes less than a satoshi.
ReserveThrows(w) ==
  /\ worker[w].at = "quoting"
  /\ \E limit \in MaxSendables :
       \/ balance[worker[w].key].available < Basis(w, limit)
       \/ ActiveOf(worker[w].key) # {}
       \/ WholeSats(Basis(w, limit)) = 0
  /\ Return(w)
  /\ UNCHANGED <<ledgerVars, latest, todo, seen, provider, crashes>>

\* Resolving the deferrals follows the reservation without an await, but it is
\* another transaction: only a crash comes between.  Rows written in the same
\* millisecond tie for latestPayout.
Dispatch(w) ==
  /\ worker[w].at = "reserved"
  /\ LET p == worker[w].payout
         k == payouts[p].key
     IN  /\ ResolveDeferredPayouts(k)
         /\ \/ Wrote(k, "attempting")
            \/ /\ ResolvedDeferral(k) # deferral \/ ResolvedRows(payouts, k) # payouts
               /\ Wrote(k, "resolved")
         /\ provider' = [provider EXCEPT ![p] = "sent"]
         /\ Goto(w, [at |-> "paying", payout |-> p])
  /\ UNCHANGED <<todo, seen, crashes>>

----------------------------------------------------------------------------
(* The wallet provider, and what the calls do with its answers *)

Deliver(p) ==
  /\ provider[p] = "sent"
  /\ provider' = [provider EXCEPT ![p] = "pending"]
  /\ UNCHANGED <<ledgerVars, serviceVars, crashes>>

Lose(p) ==
  /\ provider[p] = "sent"
  /\ provider' = [provider EXCEPT ![p] = "lost"]
  /\ UNCHANGED <<ledgerVars, serviceVars, crashes>>

Conclude(p) ==
  /\ provider[p] = "pending"
  /\ \E outcome \in {"succeeded", "failed"} :
       provider' = [provider EXCEPT ![p] = outcome]
  /\ UNCHANGED <<ledgerVars, serviceVars, crashes>>

FaultyNotFoundIsFailed(p) ==
  IF provider[p] \in {"none", "sent", "lost"} THEN "failed"
  ELSE IF provider[p] \in {"succeeded", "failed"} THEN provider[p] ELSE "open"

\* An answer reports the payment as it is when the provider looks, and may be
\* handled much later.  "open" is every answer that proves nothing: pending,
\* unknown, and not_found for a payment the provider has never seen.
Report(p) == IF provider[p] \in {"succeeded", "failed"} THEN provider[p] ELSE "open"
Answer(w, answer) ==
  /\ Goto(w, [at |-> "answered", payout |-> worker[w].payout, answer |-> answer])
  /\ UNCHANGED <<ledgerVars, latest, todo, seen, provider, crashes>>

PayReply(w) ==
  /\ worker[w].at = "paying"
  /\ provider[worker[w].payout] \notin {"sent", "lost"}
  /\ Answer(w, Report(worker[w].payout))

FaultyTimeoutForgotten(w) ==
  /\ worker[w].at = "paying"
  /\ Return(w)
  /\ UNCHANGED <<ledgerVars, latest, todo, seen, provider, crashes>>

\* A timeout, an HTTP error or a missing fee after the payment was dispatched.
PayThrows(w) == worker[w].at = "paying" /\ Answer(w, "open")

LookupReply(w) == worker[w].at = "lookup" /\ Answer(w, Report(worker[w].payout))

LookupThrows(w) ==
  /\ worker[w].at = "lookup"
  /\ Return(w)
  /\ UNCHANGED <<ledgerVars, latest, todo, seen, provider, crashes>>

\* A row that is no longer active ignores the answer (or throws it away).
HandleAnswer(w) ==
  /\ worker[w].at = "answered"
  /\ LET p == worker[w].payout
         answer == worker[w].answer
     IN  \/ /\ answer = "succeeded"
            /\ \E v \in ProviderIds, fee \in Fees : CompletePayout(p, v, fee)
            /\ Wrote(payouts[p].key, "succeeded")
         \/ answer = "failed" /\ ReleasePayout(p) /\ Wrote(payouts[p].key, "deferred")
         \/ /\ answer = "open"
            /\ \E v \in ProviderIds : MarkPayoutAmbiguous(p, v)
            /\ Wrote(payouts[p].key, "ambiguous")
         \/ ~Active(p) /\ UNCHANGED <<ledgerVars, latest>>
  /\ Return(w)
  /\ UNCHANGED <<todo, seen, provider, crashes>>

----------------------------------------------------------------------------
(* reconcileInvoice and reconcileAll *)

\* Credit the zap unless it was credited before, then publish its receipt.
ReconcileInvoice(w, s) ==
  /\ w \in Webhooks /\ worker[w] = Idle
  /\ \/ CreditSettledZap(s, ZapKey[s], ZapAmount[s])
     \/ s \in settlements /\ UNCHANGED ledgerVars
  /\ Goto(w, [at |-> "publishing", key |-> ZapKey[s]])
  /\ UNCHANGED <<latest, todo, seen, provider, crashes>>

PublishFails(w) ==
  /\ worker[w].at = "publishing"
  /\ Return(w)
  /\ UNCHANGED <<ledgerVars, latest, todo, seen, provider, crashes>>

Published(w) ==
  /\ worker[w].at = "publishing"
  /\ Attempt(w, worker[w].key)
  /\ UNCHANGED <<todo, seen, provider, crashes>>

\* duePayouts(now): a row being attempted has no next_attempt_at and is due at
\* once, any other open row may or may not have reached its time.
PayoutItem(p) == [row |-> p, key |-> payouts[p].key, lookup |-> Active(p)]
DeferralItem(k) == [row |-> k, key |-> k, lookup |-> FALSE]
FaultyOnlyAttemptingIsOpen ==
  {PayoutItem(p) : p \in {q \in DOMAIN payouts : payouts[q].state \in {"attempting", "deferred"}}}
  \cup {DeferralItem(k) : k \in {j \in PayoutKeys : deferral[j] = "deferred"}}
OpenItems ==
  {PayoutItem(p) : p \in {q \in DOMAIN payouts : Active(q) \/ payouts[q].state = "deferred"}}
  \cup {DeferralItem(k) : k \in {j \in PayoutKeys : deferral[j] = "deferred"}}
DueAtOnce == {PayoutItem(p) : p \in {q \in DOMAIN payouts : payouts[q].state = "attempting"}}

StartReconcile(w, due) ==
  /\ worker[w] = Idle
  /\ DueAtOnce \subseteq due /\ due \subseteq OpenItems
  /\ Goto(w, Visiting)
  /\ todo' = [todo EXCEPT ![w] = due]
  /\ seen' = [seen EXCEPT ![w] = {}]
  /\ UNCHANGED <<ledgerVars, latest, provider, crashes>>

VisitDue(w, item) ==
  /\ worker[w] = Visiting
  /\ item \in todo[w]
  /\ todo' = [todo EXCEPT ![w] = @ \ {item}]
  /\ seen' = [seen EXCEPT ![w] = @ \cup {item.key}]
  /\ \/ /\ item.lookup
        /\ Goto(w, [at |-> "lookup", payout |-> item.row])
        /\ UNCHANGED <<ledgerVars, latest>>
     \/ ~item.lookup /\ Attempt(w, item.key)
  /\ UNCHANGED <<provider, crashes>>

\* The remaining active enrollments, unless their latest payout is still open.
VisitActive(w, k) ==
  /\ worker[w] = Visiting /\ todo[w] = {}
  /\ k \notin seen[w]
  /\ seen' = [seen EXCEPT ![w] = @ \cup {k}]
  /\ \/ /\ latest[k] \in {"attempting", "ambiguous", "deferred"}
        /\ UNCHANGED <<ledgerVars, worker, latest>>
     \/ latest[k] \notin {"attempting", "ambiguous", "deferred"} /\ Attempt(w, k)
  /\ UNCHANGED <<todo, provider, crashes>>

FinishReconcile(w) ==
  /\ worker[w] = Visiting /\ todo[w] = {} /\ seen[w] = PayoutKeys
  /\ Goto(w, Idle)
  /\ UNCHANGED <<ledgerVars, todo, seen, latest, provider, crashes>>

Crash ==
  /\ crashes < MaxCrashes
  /\ crashes' = crashes + 1
  /\ worker' = [w \in Workers |-> Idle]
  /\ todo' = [w \in Reconcilers |-> {}]
  /\ seen' = [w \in Reconcilers |-> {}]
  /\ UNCHANGED <<ledgerVars, latest, provider>>

----------------------------------------------------------------------------

\* One call runs at a time, and only an await lets another one run.
LoopFree == \A w \in Workers : worker[w].at # "reserved"

Call(w) ==
  \/ Dispatch(w)
  \/ /\ LoopFree
     /\ \/ QuoteFails(w) \/ QuoteReserves(w) \/ ReserveThrows(w)
        \/ PayReply(w) \/ PayThrows(w) \/ LookupReply(w) \/ LookupThrows(w)
        \/ HandleAnswer(w)
        \/ PublishFails(w) \/ Published(w)

Reconcile(w) ==
  /\ LoopFree
  /\ \/ \E item \in todo[w] : VisitDue(w, item)
     \/ \E k \in PayoutKeys : VisitActive(w, k)
     \/ FinishReconcile(w)

Next ==
  \/ \E w \in Workers : Call(w)
  \/ \E w \in Reconcilers : Reconcile(w)
  \/ LoopFree /\ \E w \in Webhooks, s \in SettlementIds : ReconcileInvoice(w, s)
  \/ LoopFree /\ \E w \in Reconcilers, due \in SUBSET OpenItems : StartReconcile(w, due)
  \/ \E p \in PayoutIds : Deliver(p) \/ Lose(p) \/ Conclude(p)
  \/ Crash

Spec == Init /\ [][Next]_vars

\* The event loop runs every call on; setInterval starts another run again and
\* again, and a row's next_attempt_at passes within minutes; a lookup that is
\* repeated for ever is not refused for ever.  The provider owes nothing.
StartsWith(p) ==
  /\ LoopFree
  /\ \E w \in Reconcilers, due \in SUBSET OpenItems :
       StartReconcile(w, due) /\ \E item \in due : item.row = p
LookupAnswered(w, p) ==
  LoopFree /\ worker[w].at = "lookup" /\ worker[w].payout = p /\ LookupReply(w)

Fairness ==
  /\ \A w \in Workers : WF_vars(Call(w))
  /\ \A w \in Reconcilers : WF_vars(Reconcile(w))
  /\ \A p \in PayoutIds : SF_vars(StartsWith(p))
  /\ \A w \in Reconcilers, p \in PayoutIds : SF_vars(LookupAnswered(w, p))

FairSpec == Spec /\ Fairness

----------------------------------------------------------------------------

WorkerState ==
  {Idle, Visiting}
  \cup [at : {"publishing"}, key : PayoutKeys]
  \cup [at : {"quoting"}, key : PayoutKeys, funds : Nat]
  \cup [at : {"reserved", "paying", "lookup"}, payout : PayoutIds]
  \cup [at : {"answered"}, payout : PayoutIds, answer : {"succeeded", "failed", "open"}]

\* A payout is "attempting" only while some call is still going to write its
\* outcome, unless the process crashed: no error path leaves one behind.
AttemptingIsOwned ==
  \A p \in DOMAIN payouts :
    payouts[p].state = "attempting" =>
      \/ crashes > 0
      \/ \E w \in Workers : worker[w].at \in {"reserved", "paying", "answered"}
                            /\ worker[w].payout = p

\* Every call waits for something the service awaits, with local variables of
\* the right kind, and owns the payouts that are being attempted; the ledger is
\* well typed whatever the calls do to it.
TypeOK ==
  /\ LedgerTypeOK
  /\ AttemptingIsOwned
  /\ worker \in [Workers -> WorkerState]
  /\ \A w \in Reconcilers : seen[w] \subseteq PayoutKeys
  /\ latest \in [PayoutKeys -> {"none", "attempting", "ambiguous", "succeeded",
                                "deferred", "resolved"}]
  /\ provider \in [PayoutIds -> ProviderStates]
  /\ crashes \in 0..MaxCrashes

\* Reserved funds go back to the creator's balance, from which they are paid
\* again, only when the provider has refused the payment for good: not after a
\* timeout, a not_found, a crash or an answer that came too late.
ReleaseOnlyAfterFailure == \A p \in PayoutIds : Released(p) => provider[p] = "failed"

\* The fee check happens before the fee is charged, and nothing is reserved for
\* it: the Wired balance can go negative, but by less than one routing-fee bound
\* for every creator who is not being paid at that moment.
ActivePayouts == {p \in DOMAIN payouts : Active(p)}
WiredOverdraftBounded ==
  \A least \in Quotes : (\A quote \in Quotes : least <= quote) =>
    \/ DOMAIN payouts = {}
    \/ wired >= least - (Cardinality(PayoutKeys) - Cardinality(ActivePayouts)) * MaxRoutingFee

\* Neither the creator's funds nor Wired's are spent on what was paid already
\* or cannot be afforded, whatever calls overlap.
PayoutsAreSafe == ReleaseOnlyAfterFailure /\ WiredOverdraftBounded

\* The service keeps the promise of CreatorAccount: a payment that reached the
\* creator is no longer owed from the moment the provider made it, even while
\* the ledger still shows its funds as reserved.
Reached(k) == {p \in DOMAIN payouts : payouts[p].key = k /\ provider[p] = "succeeded"}
AmountOf(rows) == SumFunctionOnSet([p \in DOMAIN payouts |-> payouts[p].amount], rows)
Account == INSTANCE CreatorAccount WITH
  Creators <- PayoutKeys, Zaps <- SettlementIds,
  ShareOf <- [s \in SettlementIds |-> CreatorShare(ZapAmount[s])], CreatorOf <- ZapKey,
  credited <- settlements,
  owed <- [k \in PayoutKeys |-> balance[k].available + balance[k].reserved
                                - AmountOf({p \in Reached(k) : Active(p)})],
  sent <- [k \in PayoutKeys |-> AmountOf(Reached(k))]
KeepsAccount == Account!AccountSpec

\* What the provider finally did with a payment reaches the ledger: a crash, a
\* lost answer or an unanswered lookup only delays it.
OutcomeRecorded ==
  \A p \in PayoutIds :
    /\ provider[p] = "succeeded" ~> Succeeded(p)
    /\ provider[p] = "failed" ~> Released(p)
=============================================================================

---------------------------- MODULE ZapInvoices ----------------------------
(***************************************************************************)
(* From a signed zap request to a published receipt: createZapInvoice,     *)
(* reconcileInvoice and the receipt part of reconcileAll                   *)
(* (web/src/revenue/service.ts) over the tables revenue_invoices and       *)
(* revenue_invoice_intents (web/src/revenue/ledger.ts).                    *)
(*                                                                         *)
(* Several processes share the database file: each has its own creation    *)
(* queue, and a lease on the intent keeps the others out.  A step is one   *)
(* SQL statement (or the statements of one transaction) or one await.      *)
(***************************************************************************)
EXTENDS Integers, FiniteSets, Sequences

CONSTANTS
  Processes,     \* processes that opened the database file
  Calls,         \* createZapInvoice calls
  Zaps,          \* signed zap requests; a client may submit one repeatedly
  Hashes,        \* payment hashes the wallet can hand out
  Reconcilers,   \* calls that reconcile or republish one invoice
  Receipts,      \* finalized kind 9735 events, all different
  None,
  MaxExpiries,   \* bound on leases that run out
  MaxCrashes     \* bound on crashes of a process

ASSUME InvoiceAssumption ==
  /\ None \notin Hashes \cup Receipts \cup Zaps
  /\ MaxExpiries \in Nat /\ MaxCrashes \in Nat

VARIABLES
  call,        \* createZapInvoice call -> where it is, with its locals
  queue,       \* process -> its #invoiceCreationQueue, the head is running
  intent,      \* zap -> lease of its row in revenue_invoice_intents
  invoice,     \* zap -> its row in revenue_invoices, with hash None if absent
  reconciler,  \* reconcile call -> where it is, with its stale invoice row
  credited,    \* hashes whose settlement creditSettledZap recorded
  issued,      \* wallet: hash -> zap it was issued for, or None
  paid,        \* wallet: hashes a client paid
  onRelays,    \* <<hash, receipt>> pairs some relay accepted
  expiries, crashes

creationVars == <<call, queue, intent>>
walletVars == <<issued, paid>>
vars == <<creationVars, invoice, reconciler, credited, walletVars, onRelays,
          expiries, crashes>>

Row(hash) == [hash |-> hash, receipt |-> None, published |-> FALSE]
Stored(z) == invoice[z].hash # None
Settled(row) == row.receipt # None

Fresh == [at |-> "new"]
Idle == [at |-> "idle"]

Init ==
  /\ call = [c \in Calls |-> Fresh]
  /\ queue = [i \in Processes |-> <<>>]
  /\ intent = [z \in Zaps |-> "none"]
  /\ invoice = [z \in Zaps |-> Row(None)]
  /\ reconciler = [r \in Reconcilers |-> Idle]
  /\ credited = {}
  /\ issued = [h \in Hashes |-> None]
  /\ paid = {}
  /\ onRelays = {}
  /\ expiries = 0
  /\ crashes = 0

\* Operators named Faulty... are plausible mistakes in the definition that
\* follows them; no other definition uses them.

----------------------------------------------------------------------------
(* createZapInvoice *)

Running(c) == call[c].at \notin {"new", "ended"} /\ Head(queue[call[c].process]) = c
Goto(c, state, hash) == call' = [call EXCEPT ![c].at = state, ![c].hash = hash]

\* Which unused hash the wallet hands out next, or which receipt a row gets
\* first, makes no difference: one is taken.
AnyOf(unused) == IF unused = {} THEN {} ELSE {CHOOSE x \in unused : TRUE}
NewHash == AnyOf({h \in Hashes : issued[h] = None})
NewReceipt == AnyOf({x \in Receipts : \A z \in Zaps : invoice[z].receipt # x})

\* The queue goes on with its next call whether this one succeeds or throws.
End(c, hash) ==
  /\ Goto(c, "ended", hash)
  /\ queue' = [queue EXCEPT ![call[c].process] = Tail(@)]

Submit(c, i, z) ==
  /\ call[c] = Fresh
  /\ call' = [call EXCEPT ![c] = [at |-> "queued", process |-> i, zap |-> z, hash |-> None]]
  /\ queue' = [queue EXCEPT ![i] = Append(@, c)]
  /\ UNCHANGED <<intent, invoice, reconciler, credited, walletVars, onRelays,
                 expiries, crashes>>

Find(c) ==
  /\ call[c].at = "queued"
  /\ LET z == call[c].zap
     IN  \/ Stored(z) /\ End(c, invoice[z].hash)
         \/ ~Stored(z) /\ Goto(c, "claiming", None) /\ UNCHANGED queue
  /\ UNCHANGED intent

Claim(c) ==
  /\ call[c].at = "claiming"
  /\ \/ /\ intent[call[c].zap] # "live"
        /\ intent' = [intent EXCEPT ![call[c].zap] = "live"]
        /\ Goto(c, "creating", None)
     \/ intent[call[c].zap] = "live" /\ Goto(c, "polling", None) /\ UNCHANGED intent
  /\ UNCHANGED queue

\* Forty looks, 50 ms apart; the last one throws.
Poll(c) ==
  /\ call[c].at = "polling"
  /\ \/ Stored(call[c].zap) /\ End(c, invoice[call[c].zap].hash)
     \/ End(c, None)
  /\ UNCHANGED intent

\* The wallet knows its invoices by idempotency key, but finding none and
\* issuing one are two requests, and Spark's memory of keys ends with the
\* process: another invoice for the same zap may come into being.
WalletIssues(c) ==
  /\ call[c].at = "creating"
  /\ \E h \in NewHash \cup {g \in Hashes : issued[g] = call[c].zap} :
       /\ issued' = [issued EXCEPT ![h] = call[c].zap]
       /\ Goto(c, "checking", h)
  /\ UNCHANGED <<queue, intent>>

\* The request fails, or its response is lost; the lease is not given back.
WalletThrows(c) ==
  /\ call[c].at = "creating"
  /\ \/ UNCHANGED issued
     \/ \E h \in NewHash : issued' = [issued EXCEPT ![h] = call[c].zap]
  /\ End(c, None)
  /\ UNCHANGED intent

FaultyCheckAnswersOwn(c) ==
  /\ call[c].at = "checking"
  /\ \/ Stored(call[c].zap) /\ End(c, call[c].hash)
     \/ ~Stored(call[c].zap) /\ Goto(c, "inserting", call[c].hash) /\ UNCHANGED queue
  /\ UNCHANGED intent

\* createInvoice answers with the row it finds, not with the wallet's invoice.
Check(c) ==
  /\ call[c].at = "checking"
  /\ \/ Stored(call[c].zap) /\ End(c, invoice[call[c].zap].hash)
     \/ ~Stored(call[c].zap) /\ Goto(c, "inserting", call[c].hash) /\ UNCHANGED queue
  /\ UNCHANGED intent

\* zap_request_id is UNIQUE: losing the race against another process throws.
Insert(c) ==
  /\ call[c].at = "inserting"
  /\ \/ /\ ~Stored(call[c].zap)
        /\ invoice' = [invoice EXCEPT ![call[c].zap] = Row(call[c].hash)]
        /\ Goto(c, "deleting", call[c].hash)
        /\ UNCHANGED queue
     \/ Stored(call[c].zap) /\ End(c, None) /\ UNCHANGED invoice
  /\ UNCHANGED intent

DeleteIntent(c) ==
  /\ call[c].at = "deleting"
  /\ intent' = [intent EXCEPT ![call[c].zap] = "none"]
  /\ End(c, call[c].hash)

Create(c) ==
  /\ Running(c)
  /\ \/ (Find(c) \/ Claim(c) \/ Poll(c) \/ Check(c) \/ DeleteIntent(c))
          /\ UNCHANGED <<issued, invoice>>
     \/ (WalletIssues(c) \/ WalletThrows(c)) /\ UNCHANGED invoice
     \/ Insert(c) /\ UNCHANGED issued
  /\ UNCHANGED <<reconciler, credited, paid, onRelays, expiries, crashes>>

\* The lease is 120 s; a slow wallet can outlast it, a failed call leaves it.
LeaseExpires(z) ==
  /\ intent[z] = "live"
  /\ expiries < MaxExpiries
  /\ expiries' = expiries + 1
  /\ intent' = [intent EXCEPT ![z] = "expired"]
  /\ UNCHANGED <<call, queue, invoice, reconciler, credited, walletVars, onRelays, crashes>>

----------------------------------------------------------------------------
(* A client pays what it was answered; reconciliation turns it into a receipt *)

Pay(c) ==
  /\ call[c].at = "ended" /\ call[c].hash # None
  /\ call[c].hash \notin paid
  /\ paid' = paid \cup {call[c].hash}
  /\ UNCHANGED <<creationVars, invoice, reconciler, credited, issued, onRelays,
                 expiries, crashes>>

At(r, state) == reconciler' = [reconciler EXCEPT ![r] = state]

\* A webhook, an operator or pendingInvoices() names an invoice; the row read
\* here is used after the wallet has answered.
StartReconcile(r, z) ==
  /\ reconciler[r] = Idle /\ Stored(z)
  /\ At(r, [at |-> "asking", zap |-> z, row |-> invoice[z]])
  /\ UNCHANGED <<creationVars, invoice, credited, walletVars, onRelays, expiries, crashes>>

FaultyRepublishPublished(r, z) ==
  /\ reconciler[r] = Idle /\ Stored(z)
  /\ Settled(invoice[z]) /\ invoice[z].published
  /\ At(r, [at |-> "publishing", zap |-> z, row |-> invoice[z]])
  /\ UNCHANGED <<creationVars, invoice, credited, walletVars, onRelays, expiries, crashes>>

FaultyRepublishPending(r, z) ==
  /\ reconciler[r] = Idle /\ Stored(z)
  /\ ~invoice[z].published
  /\ At(r, [at |-> "publishing", zap |-> z, row |-> invoice[z]])
  /\ UNCHANGED <<creationVars, invoice, credited, walletVars, onRelays, expiries, crashes>>

\* unpublishedReceipts(): publish again what was stored and not yet accepted.
StartRepublish(r, z) ==
  /\ reconciler[r] = Idle /\ Stored(z)
  /\ Settled(invoice[z]) /\ ~invoice[z].published
  /\ At(r, [at |-> "publishing", zap |-> z, row |-> invoice[z]])
  /\ UNCHANGED <<creationVars, invoice, credited, walletVars, onRelays, expiries, crashes>>

NotSettled(r) ==
  /\ reconciler[r].at = "asking"
  /\ At(r, Idle)
  /\ UNCHANGED <<invoice, credited, onRelays>>

\* creditSettledZap is a transaction of its own, before the receipt is stored.
Credit(r) ==
  /\ reconciler[r].at = "asking"
  /\ reconciler[r].row.hash \in paid
  /\ credited' = credited \cup {reconciler[r].row.hash}
  /\ At(r, [reconciler[r] EXCEPT !.at = "credited"])
  /\ UNCHANGED <<invoice, onRelays>>

\* settleInvoice keeps a receipt that is already there (COALESCE) and returns
\* the row as it is now; a row read with its receipt is not read again.
FaultyLastReceiptWins(row, receipt) == [row EXCEPT !.receipt = receipt]
SettledRow(row, receipt) ==
  [row EXCEPT !.receipt = IF row.receipt = None THEN receipt ELSE row.receipt]

Settle(r) ==
  /\ reconciler[r].at = "credited"
  /\ LET z == reconciler[r].zap
         old == reconciler[r].row
         Continue(row) ==
           IF row.published THEN At(r, Idle)
           ELSE At(r, [at |-> "publishing", zap |-> z, row |-> row])
     IN  \/ Settled(old) /\ Continue(old) /\ UNCHANGED invoice
         \/ /\ ~Settled(old)
            /\ \E receipt \in IF Settled(invoice[z]) THEN Receipts ELSE NewReceipt :
                 /\ invoice' = [invoice EXCEPT ![z] = SettledRow(@, receipt)]
                 /\ Continue(invoice'[z])
  /\ UNCHANGED <<credited, onRelays>>

\* A relay may store the event and still not be heard to accept it.
Publish(r) ==
  /\ reconciler[r].at = "publishing"
  /\ LET pair == <<reconciler[r].row.hash, reconciler[r].row.receipt>>
     IN  \/ /\ onRelays' = onRelays \cup {pair}
            /\ At(r, [reconciler[r] EXCEPT !.at = "marking"]) \/ At(r, Idle)
         \/ UNCHANGED onRelays /\ At(r, Idle)
  /\ UNCHANGED <<invoice, credited>>

Mark(r) ==
  /\ reconciler[r].at = "marking"
  /\ invoice' = [invoice EXCEPT ![reconciler[r].zap].published = TRUE]
  /\ At(r, Idle)
  /\ UNCHANGED <<credited, onRelays>>

Advance(r) ==
  /\ NotSettled(r) \/ Credit(r) \/ Settle(r) \/ Publish(r) \/ Mark(r)
  /\ UNCHANGED <<creationVars, walletVars, expiries, crashes>>

\* The calls of a process end with it, and the reconcile calls it was running.
Crash(i) ==
  /\ crashes < MaxCrashes
  /\ crashes' = crashes + 1
  /\ call' = [c \in Calls |->
       IF call[c] # Fresh /\ call[c].at # "ended" /\ call[c].process = i
       THEN [call[c] EXCEPT !.at = "ended", !.hash = None] ELSE call[c]]
  /\ queue' = [queue EXCEPT ![i] = <<>>]
  /\ \E ended \in SUBSET Reconcilers :
       reconciler' = [r \in Reconcilers |-> IF r \in ended THEN Idle ELSE reconciler[r]]
  /\ UNCHANGED <<intent, invoice, credited, walletVars, onRelays, expiries>>

Next ==
  \/ \E c \in Calls, i \in Processes, z \in Zaps : Submit(c, i, z)
  \/ \E c \in Calls : Create(c) \/ Pay(c)
  \/ \E z \in Zaps : LeaseExpires(z)
  \/ \E r \in Reconcilers, z \in Zaps : StartReconcile(r, z) \/ StartRepublish(r, z)
  \/ \E r \in Reconcilers : Advance(r)
  \/ \E i \in Processes : Crash(i)

Spec == Init /\ [][Next]_vars

\* Calls go on while their process runs.  reconcileAll comes round to every
\* pending and every unpublished invoice; a wallet asked for ever eventually
\* says that a paid invoice is settled, and some relay eventually accepts.
Accepted(r) == Publish(r) /\ reconciler'[r] # Idle
Fairness ==
  /\ \A c \in Calls : WF_vars(Create(c))
  /\ \A r \in Reconcilers :
       /\ WF_vars(Advance(r))
       /\ SF_vars(Credit(r) /\ UNCHANGED <<creationVars, walletVars, expiries, crashes>>)
       /\ SF_vars(Accepted(r) /\ UNCHANGED <<creationVars, walletVars, expiries, crashes>>)
  /\ \A z \in Zaps :
       /\ SF_vars(\E r \in Reconcilers : StartReconcile(r, z) /\ ~Settled(invoice[z]))
       /\ SF_vars(\E r \in Reconcilers : StartRepublish(r, z))

FairSpec == Spec /\ Fairness

----------------------------------------------------------------------------

TypeOK ==
  /\ \A i \in Processes : \A n \in 1..Len(queue[i]) : queue[i][n] \in Calls
  /\ intent \in [Zaps -> {"none", "live", "expired"}]
  /\ invoice \in [Zaps -> [hash : Hashes \cup {None}, receipt : Receipts \cup {None},
                            published : BOOLEAN]]
  /\ credited \subseteq Hashes
  /\ issued \in [Hashes -> Zaps \cup {None}]
  /\ paid \subseteq Hashes
  /\ onRelays \subseteq Hashes \X Receipts

\* Every caller of a zap request, however often it retries, in whatever process
\* and whoever won the race, is answered with the one invoice that was stored:
\* an invoice nobody will reconcile is never handed out to be paid.
AnswersAreStored ==
  \A c \in Calls : call[c].at = "ended" /\ call[c].hash # None =>
    Stored(call[c].zap) /\ invoice[call[c].zap].hash = call[c].hash

\* A zap has one receipt, whatever reconciliations overlap: what a relay ever
\* accepted is the receipt in the row.
OneReceipt ==
  \A z \in Zaps, h \in Hashes, receipt \in Receipts :
    <<h, receipt>> \in onRelays /\ issued[h] = z =>
      Stored(z) /\ invoice[z].hash = h /\ invoice[z].receipt = receipt

\* No receipt is seen before the money is in the wallet and in the ledger.
ReceiptsAreCredited ==
  \A pair \in onRelays : pair[1] \in paid /\ pair[1] \in credited

\* A receipt counts as published only once a relay has it.
PublishedIsOnRelays ==
  \A z \in Zaps : Stored(z) /\ invoice[z].published =>
    <<invoice[z].hash, invoice[z].receipt>> \in onRelays

\* A receipt is a promise: there is one for a zap, it is for money that came,
\* and it says that it is published when it is.
ReceiptsAreTrue == OneReceipt /\ ReceiptsAreCredited /\ PublishedIsOnRelays

\* A zap that was paid is credited and gets its receipt, across crashes.
PaidGetsReceipt ==
  \A z \in Zaps :
    (Stored(z) /\ invoice[z].hash \in paid) ~>
      (invoice[z].hash \in credited /\ invoice[z].published)

\* No caller waits for ever: the queue of a process never gets stuck behind a
\* call that polls for an invoice, or one that failed.
CallsEnd == \A c \in Calls : call[c] # Fresh ~> call[c].at = "ended"

\* What a client starts comes to its end.
ZapsEnd == PaidGetsReceipt /\ CallsEnd
=============================================================================

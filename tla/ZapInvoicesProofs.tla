------------------------- MODULE ZapInvoicesProofs -------------------------
(***************************************************************************)
(* Proofs about ZapInvoices, for any number of processes, of calls, of     *)
(* zaps and of overlapping reconciliations: types, that every answer is    *)
(* the stored invoice, and that receipts are true.                         *)
(*                                                                         *)
(* The argument: the row of a zap gets its hash once and its receipt once. *)
(* A reconciliation works with the row as it read it, so what it holds may *)
(* be out of date, but never differs from the row in what the row has.     *)
(***************************************************************************)
EXTENDS ZapInvoices, SequenceTheorems, TLAPS

CallAts == {"queued", "claiming", "polling", "creating", "checking", "inserting", "deleting",
            "ended"}
CallState == {Fresh} \cup [at : CallAts, process : Processes, zap : Zaps,
                           hash : Hashes \cup {None}]
RowState == [hash : Hashes \cup {None}, receipt : Receipts \cup {None}, published : BOOLEAN]
BusyState == [at : {"asking", "credited", "publishing", "marking"}, zap : Zaps, row : RowState]
ReconcilerState == {Idle} \cup BusyState

StatesTyped ==
  /\ call \in [Calls -> CallState]
  /\ queue \in [Processes -> Seq(Calls)]
  /\ intent \in [Zaps -> {"none", "live", "expired"}]
  /\ invoice \in [Zaps -> RowState]
  /\ reconciler \in [Reconcilers -> ReconcilerState]
  /\ credited \subseteq Hashes /\ paid \subseteq Hashes
  /\ issued \in [Hashes -> Zaps \cup {None}]
  /\ onRelays \subseteq Hashes \X Receipts

\* A call that has work left is in the queue of its process.
Waits(c) == call[c].at \notin {"new", "ended"}
IsQueued(c) == \E n \in 1..Len(queue[call[c].process]) : queue[call[c].process][n] = c
WaitersAreQueued == \A c \in Calls : Waits(c) => IsQueued(c)

\* What a call holds was issued for its zap; what it answers is stored.
CallGood(c) ==
  /\ call[c].at \in {"checking", "inserting"} =>
       call[c].hash \in Hashes /\ issued[call[c].hash] = call[c].zap
  /\ call[c].at \in {"deleting", "ended"} /\ call[c].hash # None =>
       Stored(call[c].zap) /\ invoice[call[c].zap].hash = call[c].hash

InvoiceGood(z) ==
  /\ Stored(z) => issued[invoice[z].hash] = z
  /\ Settled(invoice[z]) =>
       Stored(z) /\ invoice[z].hash \in credited /\ invoice[z].hash \in paid
  /\ invoice[z].published =>
       Settled(invoice[z]) /\ <<invoice[z].hash, invoice[z].receipt>> \in onRelays

\* What some relay has is the receipt of the row.
RelayGood(h, receipt) ==
  /\ issued[h] \in Zaps
  /\ invoice[issued[h]].hash = h /\ invoice[issued[h]].receipt = receipt

\* A reconciliation's row may lack what the stored one has, no more.
ReconcilerGood(r) ==
  /\ reconciler[r].at # "idle" =>
       /\ Stored(reconciler[r].zap)
       /\ reconciler[r].row.hash = invoice[reconciler[r].zap].hash
       /\ Settled(reconciler[r].row) =>
            reconciler[r].row.receipt = invoice[reconciler[r].zap].receipt
  /\ reconciler[r].at \in {"credited", "publishing", "marking"} =>
       reconciler[r].row.hash \in credited /\ reconciler[r].row.hash \in paid
  /\ reconciler[r].at \in {"publishing", "marking"} => Settled(reconciler[r].row)
  /\ reconciler[r].at = "marking" =>
       <<reconciler[r].row.hash, reconciler[r].row.receipt>> \in onRelays

ZapInv ==
  /\ StatesTyped
  /\ WaitersAreQueued
  /\ \A c \in Calls : CallGood(c)
  /\ \A z \in Zaps : InvoiceGood(z)
  /\ \A h \in Hashes, receipt \in Receipts : <<h, receipt>> \in onRelays => RelayGood(h, receipt)
  /\ \A r \in Reconcilers : ReconcilerGood(r)

----------------------------------------------------------------------------
(* Values *)

LEMMA CallFields ==
  ASSUME NEW s \in CallState
  PROVE  /\ s.at \in CallAts \cup {"new"}
         /\ s.at # "new" =>
              s \in [at : CallAts, process : Processes, zap : Zaps, hash : Hashes \cup {None}]
         /\ s.at # "new" => /\ s.process \in Processes /\ s.zap \in Zaps
                            /\ s.hash \in Hashes \cup {None}
BY DEF CallState, Fresh, CallAts

LEMMA ReconcilerFields ==
  ASSUME NEW s \in ReconcilerState
  PROVE  /\ s.at \in {"idle", "asking", "credited", "publishing", "marking"}
         /\ s.at = "idle" => s = Idle
         /\ s.at # "idle" => s \in BusyState /\ s.zap \in Zaps /\ s.row \in RowState
BY DEF ReconcilerState, Idle, BusyState

LEMMA RowFields ==
  /\ \A row \in RowState : /\ row.hash \in Hashes \cup {None}
                           /\ row.receipt \in Receipts \cup {None}
                           /\ row.published \in BOOLEAN
  /\ \A h \in Hashes \cup {None} : /\ Row(h) \in RowState /\ Row(h).hash = h
                                   /\ Row(h).receipt = None /\ ~Row(h).published
BY DEF RowState, Row

\* A call goes to its next state with a hash.
LEMMA Going ==
  ASSUME StatesTyped, NEW c \in Calls, call[c].at # "new", NEW a \in CallAts,
         NEW h \in Hashes \cup {None}, Goto(c, a, h)
  PROVE  /\ call' \in [Calls -> CallState]
         /\ call'[c].at = a /\ call'[c].hash = h /\ call'[c].zap = call[c].zap
         /\ call'[c].process = call[c].process
         /\ \A d \in Calls \ {c} : call'[d] = call[d]
<1>1. PICK s \in [at : CallAts, process : Processes, zap : Zaps, hash : Hashes \cup {None}] :
        s = call[c]
  BY CallFields DEF StatesTyped
<1> DEFINE t == [[s EXCEPT !.at = a] EXCEPT !.hash = h]
<1>2. /\ t \in [at : CallAts, process : Processes, zap : Zaps, hash : Hashes \cup {None}]
      /\ t.at = a /\ t.hash = h /\ t.zap = s.zap /\ t.process = s.process
  OBVIOUS
<1>3. call' = [call EXCEPT ![c] = t]
  BY <1>1 DEF Goto, StatesTyped
<1> HIDE DEF t
<1>4. t \in CallState
  BY <1>2 DEF CallState
<1>5. QED BY <1>1, <1>2, <1>3, <1>4 DEF StatesTyped

\* The call that is running goes on, or ends and leaves the queue.
LEMMA QueueGoesOn ==
  ASSUME StatesTyped, WaitersAreQueued, NEW c \in Calls, Running(c), NEW a \in CallAts,
         NEW h \in Hashes \cup {None}, Goto(c, a, h),
         \/ queue' = queue
         \/ a = "ended" /\ queue' = [queue EXCEPT ![call[c].process] = Tail(@)]
  PROVE  queue' \in [Processes -> Seq(Calls)] /\ WaitersAreQueued'
<1>1. call[c].at # "new" /\ Waits(c) /\ call[c] \in CallState
  BY DEF Running, Waits, StatesTyped
<1>2. /\ call'[c].at = a /\ call'[c].process = call[c].process
      /\ \A d \in Calls \ {c} : call'[d] = call[d]
  BY <1>1, Going
<1>3. PICK p \in Processes : p = call[c].process
  BY <1>1, CallFields
<1>4. PICK q \in Seq(Calls) : q = queue[p]
  BY DEF StatesTyped
<1>5. q # <<>> /\ Head(q) = c
  <2>1. IsQueued(c)
    BY <1>1 DEF WaitersAreQueued
  <2>2. Len(q) # 0
    BY <1>3, <1>4, <2>1 DEF IsQueued
  <2>3. QED BY <1>3, <1>4, <2>2 DEF Running
<1>6. CASE queue' = queue
  <2>1. \A d \in Calls : Waits(d)' => IsQueued(d)'
    BY <1>1, <1>2, <1>6 DEF WaitersAreQueued, IsQueued, Waits
  <2>2. QED BY <1>6, <2>1 DEF WaitersAreQueued, StatesTyped
<1>7. CASE a = "ended" /\ queue' = [queue EXCEPT ![call[c].process] = Tail(@)]
  <2>0. Tail(q) \in Seq(Calls)
    BY <1>5, HeadTailProperties
  <2>1. PICK rest \in Seq(Calls) : rest = Tail(q)
    BY <2>0
  <2>2. /\ queue' \in [Processes -> Seq(Calls)] /\ queue'[p] = rest
        /\ \A o \in Processes \ {p} : queue'[o] = queue[o]
    BY <1>3, <1>4, <1>7, <2>1 DEF StatesTyped
  <2>3. ASSUME NEW d \in Calls, Waits(d)' PROVE IsQueued(d)'
    <3>1. d # c /\ call'[d] = call[d] /\ Waits(d)
      BY <1>2, <1>7, <2>3 DEF Waits
    <3>2. PICK n \in 1..Len(queue[call[d].process]) : queue[call[d].process][n] = d
      BY <3>1 DEF WaitersAreQueued, IsQueued
    <3>3. CASE call[d].process # p
      <4>1. call[d].process \in Processes
        BY <3>1, CallFields DEF StatesTyped, Waits
      <4>2. queue'[call'[d].process] = queue[call[d].process]
        BY <2>2, <3>1, <3>3, <4>1
      <4>3. QED BY <3>2, <4>2 DEF IsQueued
    <3>4. CASE call[d].process = p
      <4>1. n \in 1..Len(q) /\ q[n] = d
        BY <1>4, <3>2, <3>4
      <4>2. n # 1
        BY <1>5, <3>1, <4>1
      <4>3. n - 1 \in 1..Len(rest) /\ rest[n - 1] = d
        BY <1>5, <2>1, <4>1, <4>2
      <4>4. queue'[call'[d].process] = rest
        BY <2>2, <3>1, <3>4
      <4>5. QED BY <4>3, <4>4 DEF IsQueued
    <3>5. QED BY <3>3, <3>4
  <2>4. QED BY <2>2, <2>3 DEF WaitersAreQueued
<1>8. QED BY <1>6, <1>7

----------------------------------------------------------------------------
(* What stays true while others move on *)

\* Hashes and receipts of rows stay, and nothing that happened is undone.
Grows ==
  /\ \A h \in Hashes : issued[h] \in Zaps => issued'[h] = issued[h]
  /\ \A z \in Zaps : /\ Stored(z) => invoice'[z].hash = invoice[z].hash
                     /\ Settled(invoice[z]) => invoice'[z].receipt = invoice[z].receipt
  /\ credited \subseteq credited' /\ paid \subseteq paid' /\ onRelays \subseteq onRelays'

LEMMA CallStays ==
  ASSUME StatesTyped, Grows, NEW c \in Calls, CallGood(c), call'[c] = call[c]
  PROVE  CallGood(c)'
<1>1. call[c].at # "new" => call[c].zap \in Zaps
  BY CallFields DEF StatesTyped
<1>2. ASSUME call[c].at \in {"checking", "inserting"}
      PROVE  call[c].hash \in Hashes /\ issued'[call[c].hash] = call[c].zap
  BY <1>1, <1>2 DEF CallGood, Grows
<1>3. ASSUME call[c].at \in {"deleting", "ended"}, call[c].hash # None
      PROVE  Stored(call[c].zap)' /\ invoice'[call[c].zap].hash = call[c].hash
  <2>1. call[c].zap \in Zaps /\ Stored(call[c].zap)
        /\ invoice[call[c].zap].hash = call[c].hash
    BY <1>1, <1>3 DEF CallGood
  <2>2. invoice'[call[c].zap].hash = call[c].hash
    BY <2>1 DEF Grows
  <2>3. QED BY <1>3, <2>2 DEF Stored
<1>4. QED BY <1>2, <1>3 DEF CallGood, Stored

LEMMA RelayStays ==
  ASSUME StatesTyped, Grows, NEW h \in Hashes, NEW receipt \in Receipts, RelayGood(h, receipt)
  PROVE  RelayGood(h, receipt)'
<1>1. PICK z \in Zaps : z = issued[h]
  BY DEF RelayGood
<1>2. invoice[z].hash = h /\ invoice[z].receipt = receipt
  BY <1>1 DEF RelayGood
<1>3. Stored(z) /\ Settled(invoice[z])
  BY <1>2, InvoiceAssumption DEF Stored, Settled
<1>4. issued'[h] = z /\ invoice'[z].hash = h /\ invoice'[z].receipt = receipt
  BY <1>1, <1>2, <1>3 DEF Grows
<1>5. QED BY <1>4 DEF RelayGood

LEMMA ReconcilerStays ==
  ASSUME StatesTyped, Grows, NEW r \in Reconcilers, ReconcilerGood(r),
         reconciler'[r] = reconciler[r], \A z \in Zaps : InvoiceGood(z)
  PROVE  ReconcilerGood(r)'
<1>1. PICK s \in ReconcilerState : s = reconciler[r]
  BY DEF StatesTyped
<1>2. reconciler'[r] = s
  BY <1>1
<1>3. ASSUME s.at # "idle"
      PROVE  /\ Stored(s.zap)' /\ s.row.hash = invoice'[s.zap].hash
             /\ Settled(s.row) => s.row.receipt = invoice'[s.zap].receipt
  <2>1. PICK z \in Zaps : z = s.zap
    BY <1>3, ReconcilerFields
  <2>2. /\ Stored(z) /\ s.row.hash = invoice[z].hash
        /\ Settled(s.row) => s.row.receipt = invoice[z].receipt
    BY <1>1, <1>3, <2>1 DEF ReconcilerGood
  <2>3. invoice'[z].hash = invoice[z].hash
        /\ (Settled(invoice[z]) => invoice'[z].receipt = invoice[z].receipt)
    BY <2>2 DEF Grows
  <2>4. Stored(z)' /\ s.row.hash = invoice'[z].hash
    BY <2>2, <2>3 DEF Stored
  <2>5. Settled(s.row) => s.row.receipt = invoice'[z].receipt
    BY <2>2, <2>3 DEF Settled
  <2>6. QED BY <2>1, <2>4, <2>5 DEF Stored
<1>4. /\ s.at \in {"credited", "publishing", "marking"} =>
           s.row.hash \in credited' /\ s.row.hash \in paid'
      /\ s.at \in {"publishing", "marking"} => Settled(s.row)
      /\ s.at = "marking" => <<s.row.hash, s.row.receipt>> \in onRelays'
  BY <1>1 DEF ReconcilerGood, Grows
<1>5. QED BY <1>2, <1>3, <1>4 DEF ReconcilerGood, Stored, Settled

\* Rows that are as they were.
LEMMA InvoiceStays ==
  ASSUME StatesTyped, Grows, NEW z \in Zaps, InvoiceGood(z), invoice'[z] = invoice[z]
  PROVE  InvoiceGood(z)'
<1>1. PICK row \in RowState : row = invoice[z]
  BY DEF StatesTyped
<1>2. invoice'[z] = row
  BY <1>1
<1>3. row.hash # None => issued'[row.hash] = z
  <2>1. row.hash # None => row.hash \in Hashes /\ issued[row.hash] = z
    BY <1>1, RowFields DEF InvoiceGood, Stored
  <2>2. QED BY <2>1 DEF Grows
<1>4. /\ Settled(row) => row.hash # None /\ row.hash \in credited' /\ row.hash \in paid'
      /\ row.published => Settled(row) /\ <<row.hash, row.receipt>> \in onRelays'
  BY <1>1 DEF InvoiceGood, Stored, Grows
<1>5. QED BY <1>2, <1>3, <1>4 DEF InvoiceGood, Stored, Settled

----------------------------------------------------------------------------
(* createZapInvoice *)

\* Whatever a step of a call does to the row and to the wallet, the rest stays.
LEMMA CreateMoves ==
  ASSUME ZapInv, Grows, NEW c \in Calls, Running(c), NEW a \in CallAts,
         NEW h \in Hashes \cup {None}, Goto(c, a, h),
         \/ queue' = queue
         \/ a = "ended" /\ queue' = [queue EXCEPT ![call[c].process] = Tail(@)],
         UNCHANGED <<reconciler, credited, paid, onRelays>>,
         intent' \in [Zaps -> {"none", "live", "expired"}],
         invoice' \in [Zaps -> RowState],
         issued' \in [Hashes -> Zaps \cup {None}],
         \A z \in Zaps : InvoiceGood(z)',
         CallGood(c)'
  PROVE  ZapInv'
<1>0. StatesTyped /\ WaitersAreQueued /\ call[c].at # "new"
  BY DEF ZapInv, Running
<1>1. call' \in [Calls -> CallState] /\ \A d \in Calls \ {c} : call'[d] = call[d]
  BY <1>0, Going
<1>2. queue' \in [Processes -> Seq(Calls)] /\ WaitersAreQueued'
  BY <1>0, QueueGoesOn
<1>3. StatesTyped'
  BY <1>0, <1>1, <1>2 DEF StatesTyped
<1>4. ASSUME NEW d \in Calls PROVE CallGood(d)'
  <2>1. CASE d = c
    BY <2>1
  <2>2. CASE d # c
    BY <1>0, <1>1, <2>2, CallStays DEF ZapInv
  <2>3. QED BY <2>1, <2>2
<1>5. \A x \in Hashes, receipt \in Receipts :
        <<x, receipt>> \in onRelays' => RelayGood(x, receipt)'
  BY <1>0, RelayStays DEF ZapInv
<1>6. \A r \in Reconcilers : ReconcilerGood(r)'
  BY <1>0, ReconcilerStays DEF ZapInv
<1>7. QED BY <1>2, <1>3, <1>4, <1>5, <1>6 DEF ZapInv

\* A step of a call that changes neither rows nor what the wallet issued.
LEMMA QuietCreate ==
  ASSUME ZapInv, NEW c \in Calls, Running(c), NEW a \in CallAts,
         NEW h \in Hashes \cup {None}, Goto(c, a, h),
         \/ queue' = queue
         \/ a = "ended" /\ queue' = [queue EXCEPT ![call[c].process] = Tail(@)],
         UNCHANGED <<reconciler, credited, paid, onRelays, invoice, issued>>,
         intent' \in [Zaps -> {"none", "live", "expired"}],
         a \in {"checking", "inserting"} => h \in Hashes /\ issued[h] = call[c].zap,
         a \in {"deleting", "ended"} /\ h # None =>
           Stored(call[c].zap) /\ invoice[call[c].zap].hash = h
  PROVE  ZapInv'
<1>1. StatesTyped /\ call[c].at # "new" /\ \A z \in Zaps : InvoiceGood(z)
  BY DEF ZapInv, Running
<1>2. Grows
  BY DEF Grows
<1>3. \A z \in Zaps : InvoiceGood(z)'
  BY <1>1, <1>2, InvoiceStays
<1>4. call'[c].at = a /\ call'[c].hash = h /\ call'[c].zap = call[c].zap
  BY <1>1, Going
<1>5. CallGood(c)'
  BY <1>4 DEF CallGood, Stored
<1>6. invoice' \in [Zaps -> RowState] /\ issued' \in [Hashes -> Zaps \cup {None}]
  BY <1>1 DEF StatesTyped
<1>7. QED BY <1>2, <1>3, <1>5, <1>6, CreateMoves

\* The facts about a running call that its steps use.
LEMMA RunningCall ==
  ASSUME ZapInv, NEW c \in Calls, Running(c)
  PROVE  /\ StatesTyped /\ call[c].zap \in Zaps /\ call[c].hash \in Hashes \cup {None}
         /\ invoice[call[c].zap].hash \in Hashes \cup {None}
         /\ CallGood(c)
BY CallFields, RowFields DEF ZapInv, StatesTyped, Running

LEMMA FindKeeps ==
  ASSUME ZapInv, NEW c \in Calls, Running(c), Find(c),
         UNCHANGED <<reconciler, credited, paid, onRelays, invoice, issued>>
  PROVE  ZapInv'
<1>1. intent' \in [Zaps -> {"none", "live", "expired"}] /\ "ended" \in CallAts
      /\ "claiming" \in CallAts
  BY RunningCall DEF Find, StatesTyped, CallAts
<1>2. PICK h \in Hashes \cup {None} : h = invoice[call[c].zap].hash
  BY RunningCall
<1>3. CASE Stored(call[c].zap) /\ End(c, invoice[call[c].zap].hash)
  <2>1. Goto(c, "ended", h) /\ queue' = [queue EXCEPT ![call[c].process] = Tail(@)]
    BY <1>2, <1>3 DEF End
  <2>2. QED BY <1>1, <1>2, <1>3, <2>1, QuietCreate
<1>4. CASE Goto(c, "claiming", None) /\ UNCHANGED queue
  <2>1. None \in Hashes \cup {None}
    OBVIOUS
  <2>2. QED BY <1>1, <1>4, <2>1, QuietCreate
<1>5. QED BY <1>3, <1>4 DEF Find

LEMMA ClaimKeeps ==
  ASSUME ZapInv, NEW c \in Calls, Running(c), Claim(c),
         UNCHANGED <<reconciler, credited, paid, onRelays, invoice, issued>>
  PROVE  ZapInv'
<1>1. intent' \in [Zaps -> {"none", "live", "expired"}] /\ {"creating", "polling"} \subseteq CallAts
  BY RunningCall DEF Claim, StatesTyped, CallAts
<1>2. PICK a \in {"creating", "polling"} : Goto(c, a, None) /\ queue' = queue
  BY DEF Claim
<1>3. None \in Hashes \cup {None} /\ a \in CallAts
  BY <1>1
<1>4. QED BY <1>1, <1>2, <1>3, QuietCreate

LEMMA PollKeeps ==
  ASSUME ZapInv, NEW c \in Calls, Running(c), Poll(c),
         UNCHANGED <<reconciler, credited, paid, onRelays, invoice, issued>>
  PROVE  ZapInv'
<1>1. intent' \in [Zaps -> {"none", "live", "expired"}] /\ "ended" \in CallAts
  BY RunningCall DEF Poll, StatesTyped, CallAts
<1>2. PICK h \in Hashes \cup {None} :
        /\ End(c, h)
        /\ h # None => Stored(call[c].zap) /\ invoice[call[c].zap].hash = h
  BY RunningCall DEF Poll
<1>3. Goto(c, "ended", h) /\ queue' = [queue EXCEPT ![call[c].process] = Tail(@)]
  BY <1>2 DEF End
<1>4. QED BY <1>1, <1>2, <1>3, QuietCreate

LEMMA CheckKeeps ==
  ASSUME ZapInv, NEW c \in Calls, Running(c), Check(c),
         UNCHANGED <<reconciler, credited, paid, onRelays, invoice, issued>>
  PROVE  ZapInv'
<1>1. intent' \in [Zaps -> {"none", "live", "expired"}] /\ "ended" \in CallAts
      /\ "inserting" \in CallAts
  BY RunningCall DEF Check, StatesTyped, CallAts
<1>2. call[c].hash \in Hashes /\ issued[call[c].hash] = call[c].zap
  BY RunningCall DEF CallGood, Check
<1>3. PICK h \in Hashes \cup {None} : h = invoice[call[c].zap].hash
  BY RunningCall
<1>4. PICK g \in Hashes \cup {None} : g = call[c].hash
  BY RunningCall
<1>5. CASE Stored(call[c].zap) /\ End(c, invoice[call[c].zap].hash)
  <2>1. Goto(c, "ended", h) /\ queue' = [queue EXCEPT ![call[c].process] = Tail(@)]
    BY <1>3, <1>5 DEF End
  <2>2. QED BY <1>1, <1>3, <1>5, <2>1, QuietCreate
<1>6. CASE Goto(c, "inserting", call[c].hash) /\ UNCHANGED queue
  <2>1. Goto(c, "inserting", g) /\ queue' = queue
    BY <1>4, <1>6
  <2>2. QED BY <1>1, <1>2, <1>4, <2>1, QuietCreate
<1>7. QED BY <1>5, <1>6 DEF Check

LEMMA DeleteKeeps ==
  ASSUME ZapInv, NEW c \in Calls, Running(c), DeleteIntent(c),
         UNCHANGED <<reconciler, credited, paid, onRelays, invoice, issued>>
  PROVE  ZapInv'
<1>1. intent' \in [Zaps -> {"none", "live", "expired"}] /\ "ended" \in CallAts
  BY RunningCall DEF DeleteIntent, StatesTyped, CallAts
<1>2. PICK h \in Hashes \cup {None} : h = call[c].hash
  BY RunningCall
<1>3. h # None => Stored(call[c].zap) /\ invoice[call[c].zap].hash = h
  BY <1>2, RunningCall DEF CallGood, DeleteIntent
<1>4. Goto(c, "ended", h) /\ queue' = [queue EXCEPT ![call[c].process] = Tail(@)]
  BY <1>2 DEF DeleteIntent, End
<1>5. QED BY <1>1, <1>3, <1>4, QuietCreate

\* The wallet issues a new hash, or one that it has issued for this zap.
LEMMA WalletGrows ==
  ASSUME ZapInv, NEW c \in Calls, Running(c), NEW h \in Hashes,
         issued[h] \in {None, call[c].zap},
         issued' = [issued EXCEPT ![h] = call[c].zap],
         UNCHANGED <<credited, paid, onRelays, invoice>>
  PROVE  /\ Grows /\ issued' \in [Hashes -> Zaps \cup {None}] /\ issued'[h] = call[c].zap
         /\ \A z \in Zaps : InvoiceGood(z)'
<1>1. StatesTyped /\ call[c].zap \in Zaps /\ \A z \in Zaps : InvoiceGood(z)
  BY RunningCall DEF ZapInv
<1>2. issued' \in [Hashes -> Zaps \cup {None}] /\ issued'[h] = call[c].zap
  BY <1>1 DEF StatesTyped
<1>3. \A g \in Hashes : issued[g] \in Zaps => issued'[g] = issued[g]
  BY <1>1, InvoiceAssumption DEF StatesTyped
<1>4. Grows
  BY <1>3 DEF Grows
<1>5. QED BY <1>1, <1>2, <1>4, InvoiceStays

LEMMA NewHashes == \A h \in NewHash : h \in Hashes /\ issued[h] = None
BY DEF NewHash, AnyOf

LEMMA WalletIssuesKeeps ==
  ASSUME ZapInv, NEW c \in Calls, Running(c), WalletIssues(c),
         UNCHANGED <<reconciler, credited, paid, onRelays, invoice>>
  PROVE  ZapInv'
<1>1. StatesTyped /\ intent' \in [Zaps -> {"none", "live", "expired"}] /\ "checking" \in CallAts
      /\ call[c].at # "new" /\ queue' = queue /\ invoice' \in [Zaps -> RowState]
  BY RunningCall DEF WalletIssues, StatesTyped, CallAts
<1>2. PICK h \in Hashes : /\ issued[h] \in {None, call[c].zap}
                          /\ issued' = [issued EXCEPT ![h] = call[c].zap]
                          /\ Goto(c, "checking", h)
  BY NewHashes DEF WalletIssues
<1>3. /\ Grows /\ issued' \in [Hashes -> Zaps \cup {None}] /\ issued'[h] = call[c].zap
      /\ \A z \in Zaps : InvoiceGood(z)'
  BY <1>2, WalletGrows
<1>4. h \in Hashes \cup {None}
  OBVIOUS
<1>5. call'[c].at = "checking" /\ call'[c].hash = h /\ call'[c].zap = call[c].zap
  BY <1>1, <1>2, <1>4, Going
<1>6. CallGood(c)'
  BY <1>3, <1>5 DEF CallGood
<1>7. QED BY <1>1, <1>2, <1>3, <1>4, <1>6, CreateMoves

LEMMA WalletThrowsKeeps ==
  ASSUME ZapInv, NEW c \in Calls, Running(c), WalletThrows(c),
         UNCHANGED <<reconciler, credited, paid, onRelays, invoice>>
  PROVE  ZapInv'
<1>1. StatesTyped /\ intent' \in [Zaps -> {"none", "live", "expired"}] /\ "ended" \in CallAts
      /\ call[c].at # "new" /\ invoice' \in [Zaps -> RowState] /\ None \in Hashes \cup {None}
  BY RunningCall DEF WalletThrows, StatesTyped, CallAts
<1>2. Goto(c, "ended", None) /\ queue' = [queue EXCEPT ![call[c].process] = Tail(@)]
  BY DEF WalletThrows, End
<1>3. CASE issued' = issued
  BY <1>1, <1>2, <1>3, QuietCreate
<1>4. ASSUME NEW h \in NewHash, issued' = [issued EXCEPT ![h] = call[c].zap] PROVE ZapInv'
  <2>1. h \in Hashes /\ issued[h] \in {None, call[c].zap}
    BY NewHashes
  <2>2. /\ Grows /\ issued' \in [Hashes -> Zaps \cup {None}]
        /\ \A z \in Zaps : InvoiceGood(z)'
    BY <1>4, <2>1, WalletGrows
  <2>3. call'[c].at = "ended" /\ call'[c].hash = None
    BY <1>1, <1>2, Going
  <2>4. CallGood(c)'
    BY <2>3 DEF CallGood
  <2>5. QED BY <1>1, <1>2, <2>2, <2>4, CreateMoves
<1>5. QED BY <1>3, <1>4 DEF WalletThrows

\* The first to insert stores the row; the others find it there.
LEMMA InsertKeeps ==
  ASSUME ZapInv, NEW c \in Calls, Running(c), Insert(c),
         UNCHANGED <<reconciler, credited, paid, onRelays, issued>>
  PROVE  ZapInv'
<1>1. StatesTyped /\ intent' \in [Zaps -> {"none", "live", "expired"}]
      /\ "ended" \in CallAts /\ "deleting" \in CallAts
      /\ call[c].at # "new" /\ None \in Hashes \cup {None}
      /\ issued' \in [Hashes -> Zaps \cup {None}] /\ \A z \in Zaps : InvoiceGood(z)
  BY RunningCall DEF Insert, StatesTyped, CallAts, ZapInv
<1>2. CASE Stored(call[c].zap) /\ End(c, None) /\ UNCHANGED invoice
  <2>1. Goto(c, "ended", None) /\ queue' = [queue EXCEPT ![call[c].process] = Tail(@)]
    BY <1>2 DEF End
  <2>2. QED BY <1>1, <1>2, <2>1, QuietCreate
<1>3. CASE /\ ~Stored(call[c].zap)
           /\ invoice' = [invoice EXCEPT ![call[c].zap] = Row(call[c].hash)]
           /\ Goto(c, "deleting", call[c].hash)
           /\ UNCHANGED queue
  <2>1. PICK z \in Zaps : z = call[c].zap
    BY RunningCall
  <2>2. PICK h \in Hashes : h = call[c].hash /\ issued[h] = z
    BY <2>1, RunningCall DEF CallGood, Insert
  <2>3. h # None /\ h \in Hashes \cup {None}
    BY InvoiceAssumption
  <2>4. Row(h) \in RowState /\ Row(h).hash = h /\ Row(h).receipt = None /\ ~Row(h).published
    BY <2>3, RowFields
  <2>5. PICK row \in RowState : row = Row(h)
    BY <2>4
  <2>6. /\ invoice' \in [Zaps -> RowState] /\ invoice'[z] = row
        /\ \A y \in Zaps \ {z} : invoice'[y] = invoice[y]
    BY <1>1, <1>3, <2>1, <2>2, <2>5 DEF StatesTyped
  <2>7. ~Stored(z) /\ ~Settled(invoice[z])
    BY <1>1, <1>3, <2>1 DEF InvoiceGood
  <2>8. Grows
    BY <2>6, <2>7 DEF Grows
  <2>9. ASSUME NEW y \in Zaps PROVE InvoiceGood(y)'
    <3>1. CASE y = z
      BY <2>2, <2>4, <2>5, <2>6, <3>1 DEF InvoiceGood, Settled
    <3>2. CASE y # z
      BY <1>1, <2>6, <2>8, <3>2, InvoiceStays
    <3>3. QED BY <3>1, <3>2
  <2>10. Goto(c, "deleting", h) /\ queue' = queue
    BY <1>3, <2>2
  <2>11. call'[c].at = "deleting" /\ call'[c].hash = h /\ call'[c].zap = z
    BY <1>1, <2>1, <2>3, <2>10, Going
  <2>12. CallGood(c)'
    BY <2>3, <2>4, <2>5, <2>6, <2>11 DEF CallGood, Stored
  <2>13. QED BY <1>1, <2>3, <2>6, <2>8, <2>9, <2>10, <2>12, CreateMoves
<1>4. QED BY <1>2, <1>3 DEF Insert

LEMMA CreateKeeps ==
  ASSUME ZapInv, NEW c \in Calls, Create(c)
  PROVE  ZapInv'
BY FindKeeps, ClaimKeeps, PollKeeps, CheckKeeps, DeleteKeeps, WalletIssuesKeeps,
   WalletThrowsKeeps, InsertKeeps DEF Create

----------------------------------------------------------------------------
(* Payment and reconciliation *)

\* A step of a reconciliation.
LEMMA ReconcilerMoves ==
  ASSUME ZapInv, Grows, NEW r \in Reconcilers, NEW t \in ReconcilerState, At(r, t),
         UNCHANGED <<creationVars, walletVars>>,
         invoice' \in [Zaps -> RowState], credited' \subseteq Hashes,
         \A z \in Zaps : InvoiceGood(z)',
         \A h \in Hashes, receipt \in Receipts :
           <<h, receipt>> \in onRelays' => <<h, receipt>> \in onRelays \/ RelayGood(h, receipt)',
         onRelays' \subseteq Hashes \X Receipts,
         ReconcilerGood(r)'
  PROVE  ZapInv'
<1>0. StatesTyped /\ WaitersAreQueued
  BY DEF ZapInv
<1>1. call' = call /\ queue' = queue /\ intent' = intent /\ issued' = issued /\ paid' = paid
  BY DEF creationVars, walletVars
<1>2. reconciler' \in [Reconcilers -> ReconcilerState]
      /\ \A q \in Reconcilers \ {r} : reconciler'[q] = reconciler[q]
  BY <1>0 DEF StatesTyped, At
<1>3. StatesTyped'
  BY <1>0, <1>1, <1>2 DEF StatesTyped
<1>4. WaitersAreQueued'
  BY <1>0, <1>1 DEF WaitersAreQueued, IsQueued, Waits
<1>5. \A c \in Calls : CallGood(c)'
  BY <1>0, <1>1, CallStays DEF ZapInv
<1>6. \A h \in Hashes, receipt \in Receipts :
        <<h, receipt>> \in onRelays' => RelayGood(h, receipt)'
  BY <1>0, RelayStays DEF ZapInv
<1>7. ASSUME NEW q \in Reconcilers PROVE ReconcilerGood(q)'
  <2>1. CASE q = r
    BY <2>1
  <2>2. CASE q # r
    BY <1>0, <1>2, <2>2, ReconcilerStays DEF ZapInv
  <2>3. QED BY <2>1, <2>2
<1>8. QED BY <1>3, <1>4, <1>5, <1>6, <1>7 DEF ZapInv

\* A step of a reconciliation that leaves rows, ledger and relays alone.
LEMMA QuietReconciler ==
  ASSUME ZapInv, NEW r \in Reconcilers, NEW t \in ReconcilerState, At(r, t),
         UNCHANGED <<creationVars, walletVars, invoice, credited, onRelays>>,
         ReconcilerGood(r)'
  PROVE  ZapInv'
<1>1. StatesTyped /\ \A z \in Zaps : InvoiceGood(z)
  BY DEF ZapInv
<1>2. Grows
  BY DEF Grows, walletVars
<1>3. \A z \in Zaps : InvoiceGood(z)'
  BY <1>1, <1>2, InvoiceStays
<1>4. invoice' \in [Zaps -> RowState] /\ credited' \subseteq Hashes
      /\ onRelays' \subseteq Hashes \X Receipts /\ onRelays' = onRelays
  BY <1>1 DEF StatesTyped
<1>5. QED BY <1>2, <1>3, <1>4, ReconcilerMoves

LEMMA ToIdle ==
  ASSUME StatesTyped, NEW r \in Reconcilers, At(r, Idle)
  PROVE  Idle \in ReconcilerState /\ ReconcilerGood(r)'
<1>1. Idle \in ReconcilerState /\ Idle.at = "idle"
  BY DEF Idle, ReconcilerState
<1>2. reconciler'[r] = Idle
  BY DEF At, StatesTyped
<1>3. QED BY <1>1, <1>2 DEF ReconcilerGood

\* The row of a zap, as a reconciliation reads it.
LEMMA ReadsRow ==
  ASSUME ZapInv, NEW r \in Reconcilers, NEW z \in Zaps, Stored(z),
         NEW a \in {"asking", "publishing"}, a = "publishing" => Settled(invoice[z]),
         At(r, [at |-> a, zap |-> z, row |-> invoice[z]]),
         UNCHANGED <<creationVars, walletVars, invoice, credited, onRelays>>
  PROVE  ZapInv'
<1>1. StatesTyped /\ InvoiceGood(z)
  BY DEF ZapInv
<1>2. PICK row \in RowState : row = invoice[z]
  BY <1>1 DEF StatesTyped
<1> DEFINE t == [at |-> a, zap |-> z, row |-> row]
<1>3. t \in BusyState /\ t.at = a /\ t.zap = z /\ t.row = row
  BY DEF BusyState
<1>4. At(r, t)
  BY <1>2
<1> HIDE DEF t
<1>5. t \in ReconcilerState
  BY <1>3 DEF ReconcilerState
<1>6. reconciler'[r] = t
  BY <1>1, <1>4 DEF At, StatesTyped
<1>7. invoice'[z] = row /\ credited' = credited /\ paid' = paid
  BY <1>2 DEF walletVars
<1>8. ReconcilerGood(r)'
  BY <1>1, <1>2, <1>3, <1>6, <1>7 DEF ReconcilerGood, Stored, Settled, InvoiceGood
<1>9. QED BY <1>4, <1>5, <1>8, QuietReconciler

LEMMA StartReconcileKeeps ==
  ASSUME ZapInv, NEW r \in Reconcilers, NEW z \in Zaps, StartReconcile(r, z)
  PROVE  ZapInv'
<1> DEFINE a == "asking"
<1>1. a \in {"asking", "publishing"} /\ a # "publishing"
      /\ At(r, [at |-> a, zap |-> z, row |-> invoice[z]])
  BY DEF StartReconcile
<1> HIDE DEF a
<1>2. QED BY <1>1, ReadsRow DEF StartReconcile

LEMMA StartRepublishKeeps ==
  ASSUME ZapInv, NEW r \in Reconcilers, NEW z \in Zaps, StartRepublish(r, z)
  PROVE  ZapInv'
<1> DEFINE a == "publishing"
<1>1. a \in {"asking", "publishing"} /\ At(r, [at |-> a, zap |-> z, row |-> invoice[z]])
  BY DEF StartRepublish
<1> HIDE DEF a
<1>2. QED BY <1>1, ReadsRow DEF StartRepublish

LEMMA NotSettledKeeps ==
  ASSUME ZapInv, NEW r \in Reconcilers, NotSettled(r), UNCHANGED <<creationVars, walletVars>>
  PROVE  ZapInv'
<1>1. StatesTyped /\ At(r, Idle)
  BY DEF ZapInv, NotSettled
<1>2. Idle \in ReconcilerState /\ ReconcilerGood(r)'
  BY <1>1, ToIdle
<1> HIDE DEF Idle
<1>3. QED BY <1>1, <1>2, QuietReconciler DEF NotSettled

\* What a reconciliation that is under way holds.
HeldBy(r, s, z, row) ==
  /\ s = reconciler[r] /\ z = s.zap /\ row = s.row
  /\ Stored(z) /\ row.hash = invoice[z].hash /\ row.hash \in Hashes
  /\ Settled(row) => row.receipt = invoice[z].receipt /\ row.receipt \in Receipts
  /\ s.at \in {"credited", "publishing", "marking"} =>
       row.hash \in credited /\ row.hash \in paid
  /\ s.at \in {"publishing", "marking"} => Settled(row)
  /\ s.at = "marking" => <<row.hash, row.receipt>> \in onRelays

LEMMA Holds ==
  ASSUME ZapInv, NEW r \in Reconcilers, reconciler[r].at # "idle"
  PROVE  \E s \in BusyState, z \in Zaps, row \in RowState : HeldBy(r, s, z, row)
<1>1. StatesTyped /\ ReconcilerGood(r)
  BY DEF ZapInv
<1>2. PICK s \in BusyState : s = reconciler[r]
  BY <1>1, ReconcilerFields DEF StatesTyped
<1>3. PICK z \in Zaps : z = s.zap
  BY DEF BusyState
<1>4. PICK row \in RowState : row = s.row
  BY DEF BusyState
<1>5. /\ Stored(z) /\ row.hash = invoice[z].hash
      /\ Settled(row) => row.receipt = invoice[z].receipt
      /\ s.at \in {"credited", "publishing", "marking"} =>
           row.hash \in credited /\ row.hash \in paid
      /\ s.at \in {"publishing", "marking"} => Settled(row)
      /\ s.at = "marking" => <<row.hash, row.receipt>> \in onRelays
  BY <1>1, <1>2, <1>3, <1>4 DEF ReconcilerGood
<1>6. row.hash \in Hashes /\ (Settled(row) => row.receipt \in Receipts)
  BY <1>5, RowFields DEF Stored, Settled
<1>7. HeldBy(r, s, z, row)
  BY <1>2, <1>3, <1>4, <1>5, <1>6 DEF HeldBy
<1>8. QED BY <1>7

LEMMA CreditKeeps ==
  ASSUME ZapInv, NEW r \in Reconcilers, Credit(r), UNCHANGED <<creationVars, walletVars>>
  PROVE  ZapInv'
<1>0. StatesTyped /\ (\A z \in Zaps : InvoiceGood(z)) /\ reconciler[r].at = "asking"
  BY DEF ZapInv, Credit
<1>1. PICK s \in BusyState, z \in Zaps, row \in RowState : HeldBy(r, s, z, row)
  BY <1>0, Holds
<1>2. /\ s = reconciler[r] /\ z = s.zap /\ row = s.row
      /\ Stored(z) /\ row.hash = invoice[z].hash /\ row.hash \in Hashes
      /\ Settled(row) => row.receipt = invoice[z].receipt
  BY <1>1 DEF HeldBy
<1>3. credited' = credited \cup {row.hash} /\ row.hash \in paid
      /\ invoice' = invoice /\ onRelays' = onRelays /\ paid' = paid /\ issued' = issued
  BY <1>2 DEF Credit, walletVars
<1> DEFINE t == [s EXCEPT !.at = "credited"]
<1>4. t \in BusyState /\ t.at = "credited" /\ t.zap = z /\ t.row = row
  BY <1>2 DEF BusyState
<1>5. At(r, t)
  BY <1>2 DEF Credit
<1> HIDE DEF t
<1>6. t \in ReconcilerState
  BY <1>4 DEF ReconcilerState
<1>7. Grows
  BY <1>3 DEF Grows
<1>8. \A y \in Zaps : InvoiceGood(y)'
  BY <1>0, <1>3, <1>7, InvoiceStays
<1>9. reconciler'[r] = t
  BY <1>0, <1>5 DEF At, StatesTyped
<1>10. ReconcilerGood(r)'
  BY <1>2, <1>3, <1>4, <1>9 DEF ReconcilerGood, Stored
<1>11. /\ invoice' \in [Zaps -> RowState] /\ credited' \subseteq Hashes
       /\ onRelays' \subseteq Hashes \X Receipts
  BY <1>0, <1>2, <1>3 DEF StatesTyped
<1>12. QED BY <1>3, <1>5, <1>6, <1>7, <1>8, <1>10, <1>11, ReconcilerMoves

\* After the settlement the run publishes the row, or is done.
LEMMA Continues ==
  ASSUME ZapInv, Grows, NEW r \in Reconcilers, NEW z \in Zaps, NEW row \in RowState,
         \/ At(r, Idle)
         \/ At(r, [at |-> "publishing", zap |-> z, row |-> row]),
         invoice' \in [Zaps -> RowState], \A y \in Zaps : InvoiceGood(y)',
         Stored(z)', row.hash = invoice'[z].hash, Settled(row),
         row.receipt = invoice'[z].receipt, row.hash \in credited, row.hash \in paid,
         UNCHANGED <<creationVars, walletVars, credited, onRelays>>
  PROVE  ZapInv'
<1>0. StatesTyped
  BY DEF ZapInv
<1>1. credited' \subseteq Hashes /\ onRelays' \subseteq Hashes \X Receipts /\ onRelays' = onRelays
  BY <1>0 DEF StatesTyped
<1>2. CASE At(r, Idle)
  <2>1. Idle \in ReconcilerState /\ ReconcilerGood(r)'
    BY <1>0, <1>2, ToIdle
  <2> HIDE DEF Idle
  <2>2. QED BY <1>1, <1>2, <2>1, ReconcilerMoves
<1>3. CASE At(r, [at |-> "publishing", zap |-> z, row |-> row])
  <2> DEFINE t == [at |-> "publishing", zap |-> z, row |-> row]
  <2>1. t \in BusyState /\ t.at = "publishing" /\ t.zap = z /\ t.row = row
    BY DEF BusyState
  <2>2. At(r, t)
    BY <1>3
  <2> HIDE DEF t
  <2>3. t \in ReconcilerState
    BY <2>1 DEF ReconcilerState
  <2>4. reconciler'[r] = t
    BY <1>0, <2>2 DEF At, StatesTyped
  <2>5. paid' = paid
    BY DEF walletVars
  <2>6. ReconcilerGood(r)'
    BY <2>1, <2>4, <2>5 DEF ReconcilerGood, Stored, Settled
  <2>7. QED BY <1>1, <2>2, <2>3, <2>6, ReconcilerMoves
<1>4. QED BY <1>2, <1>3

LEMMA NewReceipts == NewReceipt \subseteq Receipts
BY DEF NewReceipt, AnyOf

\* settleInvoice keeps the receipt that is there.
LEMMA SettleKeeps ==
  ASSUME ZapInv, NEW r \in Reconcilers, Settle(r), UNCHANGED <<creationVars, walletVars>>
  PROVE  ZapInv'
<1>0. StatesTyped /\ (\A y \in Zaps : InvoiceGood(y)) /\ reconciler[r].at = "credited"
  BY DEF ZapInv, Settle
<1>1. PICK s \in BusyState, z \in Zaps, row \in RowState : HeldBy(r, s, z, row)
  BY <1>0, Holds
<1>2. /\ z = reconciler[r].zap /\ row = reconciler[r].row
      /\ Stored(z) /\ row.hash = invoice[z].hash /\ row.hash \in credited /\ row.hash \in paid
      /\ Settled(row) => row.receipt = invoice[z].receipt
  BY <1>0, <1>1 DEF HeldBy
<1>3. credited' = credited /\ onRelays' = onRelays /\ issued' = issued /\ paid' = paid
  BY DEF Settle, walletVars
<1>4. CASE /\ Settled(row) /\ invoice' = invoice
           /\ \/ At(r, Idle)
              \/ At(r, [at |-> "publishing", zap |-> z, row |-> row])
  <2>1. Grows
    BY <1>3, <1>4 DEF Grows
  <2>2. \A y \in Zaps : InvoiceGood(y)'
    BY <1>0, <1>4, <2>1, InvoiceStays
  <2>3. /\ Stored(z)' /\ row.hash = invoice'[z].hash /\ row.receipt = invoice'[z].receipt
        /\ invoice' \in [Zaps -> RowState]
    BY <1>0, <1>2, <1>4 DEF Stored, StatesTyped
  <2>4. QED BY <1>2, <1>3, <1>4, <2>1, <2>2, <2>3, Continues
<1>5. ASSUME NEW x \in Receipts, invoice' = [invoice EXCEPT ![z] = SettledRow(@, x)],
             \/ At(r, Idle)
             \/ At(r, [at |-> "publishing", zap |-> z, row |-> invoice'[z]])
      PROVE  ZapInv'
  <2>1. PICK old \in RowState : old = invoice[z]
    BY <1>0 DEF StatesTyped
  <2> DEFINE receipt == IF old.receipt = None THEN x ELSE old.receipt
  <2>2. receipt \in Receipts /\ receipt # None
        /\ (old.receipt # None => receipt = old.receipt)
    BY RowFields, InvoiceAssumption
  <2>3. SettledRow(old, x) = [old EXCEPT !.receipt = receipt]
    BY DEF SettledRow
  <2> HIDE DEF receipt
  <2>4. /\ [old EXCEPT !.receipt = receipt] \in RowState
        /\ [old EXCEPT !.receipt = receipt].hash = old.hash
        /\ [old EXCEPT !.receipt = receipt].receipt = receipt
    BY <2>2 DEF RowState
  <2>5. [old EXCEPT !.receipt = receipt].published = old.published
    BY DEF RowState
  <2>6. PICK new \in RowState : /\ new = SettledRow(old, x) /\ new.hash = old.hash
                                /\ new.receipt = receipt /\ new.published = old.published
    BY <2>3, <2>4, <2>5
  <2>7. /\ invoice' \in [Zaps -> RowState] /\ invoice'[z] = new
        /\ \A y \in Zaps \ {z} : invoice'[y] = invoice[y]
    BY <1>0, <1>5, <2>1, <2>6 DEF StatesTyped
  <2>8. Grows
    BY <1>3, <2>1, <2>2, <2>6, <2>7 DEF Grows, Settled
  <2>9. ASSUME NEW y \in Zaps PROVE InvoiceGood(y)'
    <3>1. CASE y = z
      <4>1. issued'[new.hash] = z /\ new.hash # None
        BY <1>0, <1>2, <1>3, <2>1, <2>6 DEF InvoiceGood, Stored
      <4>2. new.hash \in credited' /\ new.hash \in paid'
        BY <1>2, <1>3, <2>1, <2>6
      <4>3. new.published => <<new.hash, new.receipt>> \in onRelays'
        <5>1. old.published => Settled(old) /\ <<old.hash, old.receipt>> \in onRelays
          BY <1>0, <2>1 DEF InvoiceGood
        <5>2. QED BY <1>3, <2>2, <2>6, <5>1 DEF Settled
      <4>4. QED BY <2>2, <2>6, <2>7, <3>1, <4>1, <4>2, <4>3 DEF InvoiceGood, Stored, Settled
    <3>2. CASE y # z
      BY <1>0, <2>7, <2>8, <3>2, InvoiceStays
    <3>3. QED BY <3>1, <3>2
  <2>10. Settled(new) /\ Stored(z)' /\ new.hash = invoice'[z].hash /\ new.receipt = invoice'[z].receipt
         /\ new.hash \in credited /\ new.hash \in paid
    BY <1>2, <2>1, <2>2, <2>6, <2>7 DEF Settled, Stored
  <2>11. \/ At(r, Idle)
         \/ At(r, [at |-> "publishing", zap |-> z, row |-> new])
    BY <1>5, <2>7
  <2>12. QED BY <1>3, <2>7, <2>8, <2>9, <2>10, <2>11, Continues
<1>6. QED
  <2>1. Receipts \subseteq Receipts /\ NewReceipt \subseteq Receipts
    BY NewReceipts
  <2>2. QED BY <1>2, <1>4, <1>5, <2>1 DEF Settle

\* A relay gets the receipt of the row.
LEMMA PublishKeeps ==
  ASSUME ZapInv, NEW r \in Reconcilers, Publish(r), UNCHANGED <<creationVars, walletVars>>
  PROVE  ZapInv'
<1>0. StatesTyped /\ (\A y \in Zaps : InvoiceGood(y)) /\ reconciler[r].at = "publishing"
  BY DEF ZapInv, Publish
<1>1. PICK s \in BusyState, z \in Zaps, row \in RowState : HeldBy(r, s, z, row)
  BY <1>0, Holds
<1>2. /\ s = reconciler[r] /\ z = s.zap /\ row = s.row
      /\ Stored(z) /\ row.hash = invoice[z].hash /\ row.hash \in credited /\ row.hash \in paid
      /\ row.hash \in Hashes /\ Settled(row) /\ row.receipt = invoice[z].receipt
      /\ row.receipt \in Receipts
  BY <1>0, <1>1 DEF HeldBy
<1>3. invoice' = invoice /\ credited' = credited /\ issued' = issued /\ paid' = paid
  BY DEF Publish, walletVars
<1>4. /\ onRelays' \in {onRelays, onRelays \cup {<<row.hash, row.receipt>>}}
      /\ \/ At(r, Idle)
         \/ /\ At(r, [s EXCEPT !.at = "marking"])
            /\ onRelays' = onRelays \cup {<<row.hash, row.receipt>>}
  BY <1>2 DEF Publish
<1>5. Grows
  BY <1>3, <1>4 DEF Grows
<1>6. \A y \in Zaps : InvoiceGood(y)'
  BY <1>0, <1>3, <1>5, InvoiceStays
<1>7. RelayGood(row.hash, row.receipt)'
  <2>1. issued[row.hash] = z
    BY <1>0, <1>2 DEF InvoiceGood
  <2>2. QED BY <1>2, <1>3, <2>1 DEF RelayGood
<1>8. ASSUME NEW h \in Hashes, NEW x \in Receipts, <<h, x>> \in onRelays'
      PROVE  <<h, x>> \in onRelays \/ RelayGood(h, x)'
  <2>1. <<h, x>> \in onRelays \/ (h = row.hash /\ x = row.receipt)
    BY <1>4, <1>8
  <2>2. CASE h = row.hash /\ x = row.receipt
    BY <1>7, <2>2 DEF RelayGood
  <2>3. QED BY <2>1, <2>2
<1>9. /\ invoice' \in [Zaps -> RowState] /\ credited' \subseteq Hashes
      /\ onRelays' \subseteq Hashes \X Receipts
  BY <1>0, <1>2, <1>3, <1>4 DEF StatesTyped
<1>10. CASE At(r, Idle)
  <2>1. Idle \in ReconcilerState /\ ReconcilerGood(r)'
    BY <1>0, <1>10, ToIdle
  <2> HIDE DEF Idle
  <2>2. QED BY <1>5, <1>6, <1>8, <1>9, <1>10, <2>1, ReconcilerMoves
<1>11. CASE /\ At(r, [s EXCEPT !.at = "marking"])
            /\ onRelays' = onRelays \cup {<<row.hash, row.receipt>>}
  <2> DEFINE t == [s EXCEPT !.at = "marking"]
  <2>1. t \in BusyState /\ t.at = "marking" /\ t.zap = z /\ t.row = row
    BY <1>2 DEF BusyState
  <2>2. At(r, t)
    BY <1>11
  <2> HIDE DEF t
  <2>3. t \in ReconcilerState
    BY <2>1 DEF ReconcilerState
  <2>4. reconciler'[r] = t
    BY <1>0, <2>2 DEF At, StatesTyped
  <2>5. <<row.hash, row.receipt>> \in onRelays'
    BY <1>11
  <2>6. ReconcilerGood(r)'
    BY <1>2, <1>3, <2>1, <2>4, <2>5 DEF ReconcilerGood, Stored, Settled
  <2>7. QED BY <1>5, <1>6, <1>8, <1>9, <2>2, <2>3, <2>6, ReconcilerMoves
<1>12. QED BY <1>4, <1>10, <1>11

LEMMA MarkKeeps ==
  ASSUME ZapInv, NEW r \in Reconcilers, Mark(r), UNCHANGED <<creationVars, walletVars>>
  PROVE  ZapInv'
<1>0. StatesTyped /\ (\A y \in Zaps : InvoiceGood(y)) /\ reconciler[r].at = "marking"
  BY DEF ZapInv, Mark
<1>1. PICK s \in BusyState, z \in Zaps, row \in RowState : HeldBy(r, s, z, row)
  BY <1>0, Holds
<1>2. /\ z = reconciler[r].zap /\ row.hash = invoice[z].hash /\ row.receipt = invoice[z].receipt
      /\ Settled(row) /\ <<row.hash, row.receipt>> \in onRelays
  BY <1>0, <1>1 DEF HeldBy
<1>3. /\ credited' = credited /\ onRelays' = onRelays /\ issued' = issued /\ paid' = paid
      /\ invoice' = [invoice EXCEPT ![z].published = TRUE] /\ At(r, Idle)
  BY <1>2 DEF Mark, walletVars
<1>4. PICK old \in RowState : old = invoice[z]
  BY <1>0 DEF StatesTyped
<1>5. /\ [old EXCEPT !.published = TRUE] \in RowState
      /\ [old EXCEPT !.published = TRUE].hash = old.hash
      /\ [old EXCEPT !.published = TRUE].receipt = old.receipt
  BY DEF RowState
<1>6. PICK new \in RowState : /\ new = [old EXCEPT !.published = TRUE]
                              /\ new.hash = old.hash /\ new.receipt = old.receipt
  BY <1>5
<1>7. /\ invoice' \in [Zaps -> RowState] /\ invoice'[z] = new
      /\ \A y \in Zaps \ {z} : invoice'[y] = invoice[y]
  BY <1>0, <1>3, <1>4, <1>6 DEF StatesTyped
<1>8. Grows
  BY <1>3, <1>4, <1>6, <1>7 DEF Grows
<1>9. ASSUME NEW y \in Zaps PROVE InvoiceGood(y)'
  <2>1. CASE y = z
    <3>0. /\ old.hash # None => issued[old.hash] = z
          /\ Settled(old) => old.hash # None /\ old.hash \in credited /\ old.hash \in paid
      BY <1>0, <1>4 DEF InvoiceGood, Stored
    <3>1. new.hash # None => issued'[new.hash] = z
      BY <1>3, <1>6, <3>0
    <3>2. Settled(new) => new.hash # None /\ new.hash \in credited' /\ new.hash \in paid'
      BY <1>3, <1>6, <3>0 DEF Settled
    <3>3. Settled(new) /\ <<new.hash, new.receipt>> \in onRelays'
      BY <1>2, <1>3, <1>4, <1>6 DEF Settled
    <3>4. QED BY <1>7, <2>1, <3>1, <3>2, <3>3 DEF InvoiceGood, Stored, Settled
  <2>2. CASE y # z
    BY <1>0, <1>7, <1>8, <2>2, InvoiceStays
  <2>3. QED BY <2>1, <2>2
<1>10. Idle \in ReconcilerState /\ ReconcilerGood(r)'
  BY <1>0, <1>3, ToIdle
<1> HIDE DEF Idle
<1>11. credited' \subseteq Hashes /\ onRelays' \subseteq Hashes \X Receipts
  BY <1>0, <1>3 DEF StatesTyped
<1>12. QED BY <1>3, <1>7, <1>8, <1>9, <1>10, <1>11, ReconcilerMoves

LEMMA AdvanceKeeps ==
  ASSUME ZapInv, NEW r \in Reconcilers, Advance(r)
  PROVE  ZapInv'
BY NotSettledKeeps, CreditKeeps, SettleKeeps, PublishKeeps, MarkKeeps DEF Advance

----------------------------------------------------------------------------
(* Other steps and the invariant *)

LEMMA SubmitKeeps ==
  ASSUME ZapInv, NEW c \in Calls, NEW i \in Processes, NEW z \in Zaps, Submit(c, i, z)
  PROVE  ZapInv'
<1>0. StatesTyped /\ WaitersAreQueued
  BY DEF ZapInv
<1> DEFINE t == [at |-> "queued", process |-> i, zap |-> z, hash |-> None]
<1>1. t \in CallState /\ t.at = "queued" /\ t.process = i
  BY DEF CallState, CallAts
<1>2. call' = [call EXCEPT ![c] = t] /\ queue' = [queue EXCEPT ![i] = Append(@, c)]
      /\ UNCHANGED <<intent, invoice, reconciler, credited, issued, paid, onRelays>>
      /\ call[c] = Fresh
  BY DEF Submit, walletVars
<1> HIDE DEF t
<1>3. /\ call' \in [Calls -> CallState] /\ call'[c] = t
      /\ \A d \in Calls \ {c} : call'[d] = call[d]
  BY <1>0, <1>1, <1>2 DEF StatesTyped
<1>4. PICK q \in Seq(Calls) : q = queue[i]
  BY <1>0 DEF StatesTyped
<1>5. /\ Append(q, c) \in Seq(Calls) /\ Len(Append(q, c)) = Len(q) + 1
      /\ Append(q, c)[Len(q) + 1] = c /\ Len(q) \in Nat
      /\ \A n \in 1..Len(q) : Append(q, c)[n] = q[n]
  BY AppendProperties
<1>6. /\ queue' \in [Processes -> Seq(Calls)] /\ queue'[i] = Append(q, c)
      /\ \A p \in Processes \ {i} : queue'[p] = queue[p]
  BY <1>0, <1>2, <1>4, <1>5 DEF StatesTyped
<1>7. WaitersAreQueued'
  <2> SUFFICES ASSUME NEW d \in Calls, Waits(d)' PROVE IsQueued(d)'
    BY DEF WaitersAreQueued
  <2>1. CASE d = c
    <3>1. queue'[call'[d].process] = Append(q, c)
      BY <1>1, <1>3, <1>6, <2>1
    <3>2. Len(q) + 1 \in 1..Len(Append(q, c)) /\ Append(q, c)[Len(q) + 1] = d
      BY <1>5, <2>1
    <3>3. QED BY <3>1, <3>2 DEF IsQueued
  <2>2. CASE d # c
    <3>1. call'[d] = call[d] /\ Waits(d)
      BY <1>3, <2>2 DEF Waits
    <3>2. PICK n \in 1..Len(queue[call[d].process]) : queue[call[d].process][n] = d
      BY <1>0, <3>1 DEF WaitersAreQueued, IsQueued
    <3>3. call[d].process \in Processes
      BY <1>0, <3>1, CallFields DEF StatesTyped, Waits
    <3>4. CASE call[d].process = i
      <4>1. n \in 1..Len(Append(q, c)) /\ Append(q, c)[n] = d
        BY <1>4, <1>5, <3>2, <3>4
      <4>2. queue'[call'[d].process] = Append(q, c)
        BY <1>6, <3>1, <3>4
      <4>3. QED BY <4>1, <4>2 DEF IsQueued
    <3>5. CASE call[d].process # i
      <4>1. queue'[call'[d].process] = queue[call[d].process]
        BY <1>6, <3>1, <3>3, <3>5
      <4>2. QED BY <3>2, <4>1 DEF IsQueued
    <3>6. QED BY <3>4, <3>5
  <2>3. QED BY <2>1, <2>2
<1>8. StatesTyped'
  BY <1>0, <1>2, <1>3, <1>6 DEF StatesTyped
<1>9. Grows
  BY <1>2 DEF Grows
<1>10. ASSUME NEW d \in Calls PROVE CallGood(d)'
  <2>1. CASE d = c
    BY <1>1, <1>3, <2>1 DEF CallGood
  <2>2. CASE d # c
    BY <1>0, <1>3, <1>9, <2>2, CallStays DEF ZapInv
  <2>3. QED BY <2>1, <2>2
<1>11. /\ \A y \in Zaps : InvoiceGood(y)'
       /\ \A h \in Hashes, x \in Receipts : <<h, x>> \in onRelays' => RelayGood(h, x)'
       /\ \A r \in Reconcilers : ReconcilerGood(r)'
  BY <1>0, <1>2, <1>9, InvoiceStays, RelayStays, ReconcilerStays DEF ZapInv
<1>12. QED BY <1>7, <1>8, <1>10, <1>11 DEF ZapInv

\* Steps that leave calls, rows and reconciliations as they are.
LEMMA OthersKeep ==
  ASSUME ZapInv, UNCHANGED <<call, queue, invoice, reconciler, credited, issued, onRelays>>,
         paid \subseteq paid', paid' \subseteq Hashes,
         intent' \in [Zaps -> {"none", "live", "expired"}]
  PROVE  ZapInv'
<1>0. StatesTyped
  BY DEF ZapInv
<1>1. StatesTyped'
  BY <1>0 DEF StatesTyped
<1>2. WaitersAreQueued'
  BY DEF ZapInv, WaitersAreQueued, Waits, IsQueued
<1>3. Grows
  BY DEF Grows
<1>4. \A c \in Calls : CallGood(c)'
  BY <1>0, <1>3, CallStays DEF ZapInv
<1>5. /\ \A y \in Zaps : InvoiceGood(y)'
      /\ \A h \in Hashes, x \in Receipts : <<h, x>> \in onRelays' => RelayGood(h, x)'
      /\ \A r \in Reconcilers : ReconcilerGood(r)'
  BY <1>0, <1>3, InvoiceStays, RelayStays, ReconcilerStays DEF ZapInv
<1>6. QED BY <1>1, <1>2, <1>4, <1>5 DEF ZapInv

LEMMA PayKeeps ==
  ASSUME ZapInv, NEW c \in Calls, Pay(c)
  PROVE  ZapInv'
<1>0. StatesTyped
  BY DEF ZapInv
<1>1. call[c].hash \in Hashes
  BY <1>0, CallFields DEF Pay, StatesTyped
<1>2. /\ UNCHANGED <<call, queue, intent, invoice, reconciler, credited, issued, onRelays>>
      /\ paid' = paid \cup {call[c].hash}
  BY DEF Pay, creationVars
<1>3. paid \subseteq paid' /\ paid' \subseteq Hashes
      /\ intent' \in [Zaps -> {"none", "live", "expired"}]
  BY <1>0, <1>1, <1>2 DEF StatesTyped
<1>4. QED BY <1>2, <1>3, OthersKeep

LEMMA LeaseKeeps ==
  ASSUME ZapInv, NEW z \in Zaps, LeaseExpires(z)
  PROVE  ZapInv'
<1>0. StatesTyped
  BY DEF ZapInv
<1>1. /\ UNCHANGED <<call, queue, invoice, reconciler, credited, issued, onRelays, paid>>
      /\ intent' = [intent EXCEPT ![z] = "expired"]
  BY DEF LeaseExpires, walletVars
<1>2. intent' \in [Zaps -> {"none", "live", "expired"}] /\ paid \subseteq paid'
      /\ paid' \subseteq Hashes
  BY <1>0, <1>1 DEF StatesTyped
<1>3. QED BY <1>1, <1>2, OthersKeep

\* The calls of a process that crashes end without an answer.
LEMMA CrashKeeps ==
  ASSUME ZapInv, NEW i \in Processes, Crash(i)
  PROVE  ZapInv'
<1>0. StatesTyped /\ WaitersAreQueued
  BY DEF ZapInv
<1>1. /\ UNCHANGED <<intent, invoice, credited, issued, paid, onRelays>>
      /\ queue' = [queue EXCEPT ![i] = <<>>]
      /\ call' = [c \in Calls |->
           IF call[c] # Fresh /\ call[c].at # "ended" /\ call[c].process = i
           THEN [call[c] EXCEPT !.at = "ended", !.hash = None] ELSE call[c]]
  BY DEF Crash, walletVars
<1>2. PICK ended \in SUBSET Reconcilers :
        reconciler' = [r \in Reconcilers |-> IF r \in ended THEN Idle ELSE reconciler[r]]
  BY DEF Crash
<1>3. ASSUME NEW c \in Calls
      PROVE  /\ call'[c] \in CallState
             /\ \/ call'[c] = call[c] /\ (Waits(c) => call[c].process # i)
                \/ call'[c].at = "ended" /\ call'[c].hash = None
  <2>1. CASE call[c] # Fresh /\ call[c].at # "ended" /\ call[c].process = i
    <3>1. PICK s \in [at : CallAts, process : Processes, zap : Zaps, hash : Hashes \cup {None}] :
            s = call[c]
      BY <1>0, <2>1 DEF StatesTyped, CallState
    <3> DEFINE t == [[s EXCEPT !.at = "ended"] EXCEPT !.hash = None]
    <3>2. "ended" \in CallAts /\ None \in Hashes \cup {None}
      BY DEF CallAts
    <3>3. /\ t \in [at : CallAts, process : Processes, zap : Zaps, hash : Hashes \cup {None}]
          /\ t.at = "ended" /\ t.hash = None
      BY <3>2
    <3>4. call'[c] = t
      BY <1>1, <2>1, <3>1
    <3> HIDE DEF t
    <3>5. QED BY <3>3, <3>4 DEF CallState
  <2>2. CASE ~(call[c] # Fresh /\ call[c].at # "ended" /\ call[c].process = i)
    <3>1. call'[c] = call[c] /\ call[c] \in CallState
      BY <1>0, <1>1, <2>2 DEF StatesTyped
    <3>2. Waits(c) => call[c].process # i
      BY <2>2 DEF Waits, Fresh
    <3>3. QED BY <3>1, <3>2
  <2>3. QED BY <2>1, <2>2
<1>4. /\ queue' \in [Processes -> Seq(Calls)]
      /\ \A p \in Processes \ {i} : queue'[p] = queue[p]
  <2>1. <<>> \in Seq(Calls)
    BY EmptySeq
  <2>2. PICK none \in Seq(Calls) : none = <<>>
    BY <2>1
  <2>3. queue' = [queue EXCEPT ![i] = none]
    BY <1>1, <2>2
  <2>4. QED BY <1>0, <2>3 DEF StatesTyped
<1>5. Idle \in ReconcilerState /\ Idle.at = "idle"
  BY DEF Idle, ReconcilerState
<1> HIDE DEF Idle
<1>6. reconciler' \in [Reconcilers -> ReconcilerState]
      /\ \A r \in Reconcilers : reconciler'[r] = reconciler[r] \/ reconciler'[r] = Idle
  BY <1>0, <1>2, <1>5 DEF StatesTyped
<1>7. call' \in [Calls -> CallState]
  <2>1. \A c \in Calls : call'[c] \in CallState
    BY <1>3
  <2>2. call' = [c \in Calls |-> call'[c]]
    BY <1>1
  <2>3. QED BY <2>1, <2>2
<1>8. StatesTyped'
  BY <1>0, <1>1, <1>4, <1>6, <1>7 DEF StatesTyped
<1>9. WaitersAreQueued'
  <2> SUFFICES ASSUME NEW d \in Calls, Waits(d)' PROVE IsQueued(d)'
    BY DEF WaitersAreQueued
  <2>1. call'[d] = call[d] /\ Waits(d) /\ call[d].process # i
    BY <1>3 DEF Waits
  <2>2. call[d].process \in Processes
    BY <1>0, <2>1, CallFields DEF StatesTyped, Waits
  <2>3. IsQueued(d) /\ queue'[call'[d].process] = queue[call[d].process]
    BY <1>0, <1>4, <2>1, <2>2 DEF WaitersAreQueued
  <2>4. QED BY <2>1, <2>3 DEF IsQueued
<1>10. Grows
  BY <1>1 DEF Grows
<1>11. \A c \in Calls : CallGood(c)'
  <2> SUFFICES ASSUME NEW c \in Calls PROVE CallGood(c)'
    OBVIOUS
  <2>1. CASE call'[c] = call[c]
    BY <1>0, <1>10, <2>1, CallStays DEF ZapInv
  <2>2. CASE call'[c].at = "ended" /\ call'[c].hash = None
    BY <2>2 DEF CallGood
  <2>3. QED BY <1>3, <2>1, <2>2
<1>12. /\ \A y \in Zaps : InvoiceGood(y)'
       /\ \A h \in Hashes, x \in Receipts : <<h, x>> \in onRelays' => RelayGood(h, x)'
  BY <1>0, <1>1, <1>10, InvoiceStays, RelayStays DEF ZapInv
<1>13. \A r \in Reconcilers : ReconcilerGood(r)'
  <2> SUFFICES ASSUME NEW r \in Reconcilers PROVE ReconcilerGood(r)'
    OBVIOUS
  <2>1. CASE reconciler'[r] = reconciler[r]
    BY <1>0, <1>10, <2>1, ReconcilerStays DEF ZapInv
  <2>2. CASE reconciler'[r] = Idle
    BY <1>5, <2>2 DEF ReconcilerGood
  <2>3. QED BY <1>6, <2>1, <2>2
<1>14. QED BY <1>8, <1>9, <1>11, <1>12, <1>13 DEF ZapInv

LEMMA ZapInvInit == Init => ZapInv
<1> SUFFICES ASSUME Init PROVE ZapInv
  OBVIOUS
<1>1. Fresh.at = "new" /\ Fresh \in CallState /\ Idle.at = "idle" /\ Idle \in ReconcilerState
  BY DEF Fresh, CallState, Idle, ReconcilerState
<1>2. Row(None) \in RowState /\ Row(None).hash = None /\ Row(None).receipt = None
      /\ ~Row(None).published
  BY RowFields
<1> HIDE DEF Fresh, Idle
<1>3. queue \in [Processes -> Seq(Calls)]
  BY EmptySeq DEF Init
<1>4. invoice \in [Zaps -> RowState]
  BY <1>2 DEF Init
<1>5. StatesTyped
  BY <1>1, <1>3, <1>4 DEF Init, StatesTyped
<1>6. WaitersAreQueued /\ (\A c \in Calls : CallGood(c)) /\ \A r \in Reconcilers : ReconcilerGood(r)
  BY <1>1 DEF Init, WaitersAreQueued, Waits, CallGood, ReconcilerGood
<1>7. \A z \in Zaps : InvoiceGood(z)
  BY <1>2 DEF Init, InvoiceGood, Stored, Settled
<1>8. QED BY <1>5, <1>6, <1>7 DEF ZapInv, Init

LEMMA ZapStep == ZapInv /\ [Next]_vars => ZapInv'
<1> SUFFICES ASSUME ZapInv, [Next]_vars PROVE ZapInv'
  OBVIOUS
<1>1. CASE \E c \in Calls, i \in Processes, z \in Zaps : Submit(c, i, z)
  BY <1>1, SubmitKeeps
<1>2. CASE \E c \in Calls : Create(c) \/ Pay(c)
  BY <1>2, CreateKeeps, PayKeeps
<1>3. CASE \E z \in Zaps : LeaseExpires(z)
  BY <1>3, LeaseKeeps
<1>4. CASE \E r \in Reconcilers, z \in Zaps : StartReconcile(r, z) \/ StartRepublish(r, z)
  BY <1>4, StartReconcileKeeps, StartRepublishKeeps
<1>5. CASE \E r \in Reconcilers : Advance(r)
  BY <1>5, AdvanceKeeps
<1>6. CASE \E i \in Processes : Crash(i)
  BY <1>6, CrashKeeps
<1>7. CASE UNCHANGED vars
  <2>1. /\ UNCHANGED <<call, queue, invoice, reconciler, credited, issued, onRelays>>
        /\ UNCHANGED <<paid, intent>>
    BY <1>7 DEF vars, creationVars, walletVars
  <2>2. paid \subseteq paid' /\ paid' \subseteq Hashes
        /\ intent' \in [Zaps -> {"none", "live", "expired"}]
    BY <2>1 DEF ZapInv, StatesTyped
  <2>3. QED BY <2>1, <2>2, OthersKeep
<1>8. QED BY <1>1, <1>2, <1>3, <1>4, <1>5, <1>6, <1>7 DEF Next

THEOREM ZapInvariant == Spec => []ZapInv
BY ZapInvInit, ZapStep, PTL DEF Spec

\* Queues, leases, rows and what wallet and relays hold keep their types.
THEOREM ZapTypeOK == Spec => []TypeOK
<1>1. ZapInv => TypeOK
  <2> SUFFICES ASSUME ZapInv PROVE TypeOK
    OBVIOUS
  <2>1. \A i \in Processes : \A n \in 1..Len(queue[i]) : queue[i][n] \in Calls
    BY ElementOfSeq DEF ZapInv, StatesTyped
  <2>2. QED BY <2>1 DEF ZapInv, StatesTyped, TypeOK, RowState
<1>2. QED BY ZapInvariant, <1>1, PTL

\* createZapInvoice never answers with an invoice that is not the stored row's,
\* in whatever process, and however leases, wallet answers and crashes fall.
THEOREM ZapAnswersAreStored == Spec => []AnswersAreStored
<1>1. ZapInv => AnswersAreStored
  BY DEF ZapInv, CallGood, AnswersAreStored
<1>2. QED BY ZapInvariant, <1>1, PTL

\* Overlapping reconciliations give a zap one receipt, for money that is in the
\* wallet and in the ledger, and mark it as published only when a relay has it.
THEOREM ZapReceiptsAreTrue == Spec => []ReceiptsAreTrue
<1>1. ZapInv => ReceiptsAreTrue
  <2> SUFFICES ASSUME ZapInv PROVE ReceiptsAreTrue
    OBVIOUS
  <2>1. \A h \in Hashes, x \in Receipts : <<h, x>> \in onRelays =>
          RelayGood(h, x) /\ InvoiceGood(issued[h]) /\ issued[h] \in Zaps
    BY DEF ZapInv, RelayGood
  <2>2. OneReceipt
    BY <2>1, InvoiceAssumption DEF OneReceipt, RelayGood, Stored
  <2>3. ReceiptsAreCredited
    <3> SUFFICES ASSUME NEW pair \in onRelays
                 PROVE  pair[1] \in paid /\ pair[1] \in credited
      BY DEF ReceiptsAreCredited
    <3>1. PICK h \in Hashes, x \in Receipts : pair = <<h, x>>
      BY DEF ZapInv, StatesTyped
    <3>2. PICK z \in Zaps : z = issued[h] /\ RelayGood(h, x) /\ InvoiceGood(z)
      BY <2>1, <3>1
    <3>3. invoice[z].hash = h /\ Settled(invoice[z])
      BY <3>2, InvoiceAssumption DEF RelayGood, Settled
    <3>4. h \in credited /\ h \in paid
      BY <3>2, <3>3 DEF InvoiceGood
    <3>5. pair[1] = h
      BY <3>1
    <3>6. QED BY <3>4, <3>5
  <2>4. PublishedIsOnRelays
    BY DEF ZapInv, InvoiceGood, PublishedIsOnRelays
  <2>5. QED BY <2>2, <2>3, <2>4 DEF ReceiptsAreTrue
<1>2. QED BY ZapInvariant, <1>1, PTL

=============================================================================

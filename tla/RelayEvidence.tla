--------------------------- MODULE RelayEvidence ---------------------------
(***************************************************************************)
(* What the relay work of the server leaves behind for its operator        *)
(* (web/src/evidence/relay-workflow-*.ts, web/src/contracts/): samples are *)
(* deferred, added up by outcome, drained on a timer, cut into envelopes,  *)
(* queued and uploaded one at a time.  Both queues are bounded and drop    *)
(* their oldest entry.                                                     *)
(*                                                                         *)
(* One workflow owner and the operation "publish": aggregates are keyed by *)
(* outcome alone.  Of a sample's counters those are kept that the code     *)
(* derives from each other.                                                *)
(***************************************************************************)
EXTENDS Integers, Sequences, FiniteSets, SequencesExt, FiniteSetsExt

CONSTANTS
  MaxTasks,      \* MAX_PENDING_EVIDENCE_TASKS (100)
  MaxQueue,      \* queuedEnvelopes (100)
  PerEnvelope,   \* aggregatesPerEnvelope (100)
  CounterLimit   \* the collector's counter limit (1,000,000)

ASSUME EvidenceAssumption ==
  {MaxTasks, MaxQueue, PerEnvelope, CounterLimit} \subseteq Nat \ {0}

VARIABLES
  tasks,      \* dispatcher: deferred tasks, samples and late closes
  aggregates, \* collector: outcome -> counters
  timer,      \* adapter: the export timer is set
  queue,      \* exporter: envelopes that wait
  flight,     \* exporter: the envelopes being uploaded, one at most
  dropped,    \* the drop counters of dispatcher and exporter
  history     \* samples and envelopes not accounted for, for the properties only

evidenceVars == <<tasks, aggregates, timer, queue, flight, dropped, history>>

Outcomes == {"completed", "partial", "timed-out", "cancelled", "failed"}

\* relayWorkflowOutcome: the first rule that applies.
WorkflowOutcome(targets, successful, timedOut, cancelled) ==
  IF cancelled > 0 THEN "cancelled"
  ELSE IF targets = 0 THEN "completed"
  ELSE IF successful = 0 /\ timedOut > 0 THEN "timed-out"
  ELSE IF successful = 0 THEN "failed"
  ELSE IF successful < targets THEN "partial"
  ELSE "completed"

\* relayAcceptedCountBucket.
Bucket(accepted, targets) ==
  IF accepted = 0 THEN "none"
  ELSE IF accepted = targets THEN "all"
  ELSE IF accepted = 1 THEN "one"
  ELSE "multiple"

\* RELAY_EVIDENCE_LIMITS.count.
CountLimit == 1000000

\* isRelayWorkflowEvidence, for the counters kept here.
IsEvidence(e) ==
  /\ e.outcome \in Outcomes
  /\ e.bucket \in {"none", "one", "multiple", "all"}
  /\ \A f \in {"targets", "opened", "closed", "rejected", "terminalClosed",
               "connectFailed", "timedOut"} : e[f] \in 0..CountLimit

Zero == [samples |-> 0, overflowed |-> 0, late |-> 0]
NoAggregates == [o \in Outcomes |-> Zero]
NoDrops == [tasks |-> 0, envelopes |-> 0]
\* Samples deferred and neither exported, sampled out nor dropped; envelopes
\* made and not accepted by the sink.
NoHistory == [samples |-> 0, envelopes |-> 0]

EvidenceInit ==
  /\ tasks = <<>> /\ aggregates = NoAggregates /\ timer = FALSE
  /\ queue = <<>> /\ flight = <<>> /\ dropped = NoDrops /\ history = NoHistory

----------------------------------------------------------------------------
(* Dispatcher and collector *)

SumSeq(s) == FoldLeft(LAMBDA a, b : a + b, 0, s)
Samples(ts) == Cardinality({i \in DOMAIN ts : ts[i].kind = "sample"})

\* defer(), for one task after the other.
Defer(new) ==
  LET all == tasks \o new
      cut == Max({0, Len(all) - MaxTasks})
  IN /\ tasks' = SubSeq(all, cut + 1, Len(all))
     /\ dropped' = [dropped EXCEPT !.tasks = @ + cut]
     /\ history' = [history EXCEPT !.samples =
                       @ + Samples(new) - Samples(SubSeq(all, 1, cut))]

Plus(a, b) == Min({CounterLimit, a + b})

\* record() and recordLateConnectionClosed() of one task.
FaultyRecorded(aggs, task) ==
  IF task.kind = "late" THEN aggs ELSE [aggs EXCEPT ![task.outcome].samples = Plus(@, 1)]
Recorded(aggs, task) ==
  LET o == task.outcome IN
  IF task.kind = "late" THEN [aggs EXCEPT ![o].late = Plus(@, 1)]
  ELSE IF ~IsEvidence(task.evidence) THEN aggs
  ELSE IF aggs[o].samples >= CounterLimit
       THEN [aggs EXCEPT ![o].overflowed = Plus(@, 1)]
       ELSE [aggs EXCEPT ![o].samples = Plus(@, 1)]

\* The scheduled flush runs every task, and a change sets the export timer.
FlushTasks ==
  /\ tasks # <<>>
  /\ tasks' = <<>>
  /\ aggregates' = FoldLeft(Recorded, aggregates, tasks)
  /\ timer' = (timer \/ aggregates' # aggregates)
  /\ UNCHANGED <<queue, flight, dropped, history>>

----------------------------------------------------------------------------
(* Adapter and exporter *)

\* drain(): the aggregates that exist, in the order of their keys.
Kept(o) == IF aggregates[o] = Zero THEN <<>> ELSE <<aggregates[o]>>
Drained == Kept("cancelled") \o Kept("completed") \o Kept("failed")
           \o Kept("partial") \o Kept("timed-out")

FaultyEmptied == aggregates
Emptied == NoAggregates

\* flushNow(): envelopes of at most PerEnvelope aggregates; an envelope is
\* kept as the number of samples in it.
Count(aggs) == FoldLeft(LAMBDA n, a : n + a.samples + a.overflowed, 0, aggs)
Envelopes ==
  LET n == Len(Drained)
      full == (n + PerEnvelope - 1) \div PerEnvelope
  IN [k \in 1..full |->
        Count(SubSeq(Drained, (k - 1) * PerEnvelope + 1, Min({n, k * PerEnvelope})))]

\* enqueue() of one envelope after the other: a full queue drops its oldest.
FaultyEnqueue(new) ==
  LET room == MaxQueue - Len(queue)
  IN /\ queue' = queue \o SubSeq(new, 1, Min({room, Len(new)}))
     /\ dropped' = dropped
     /\ history' = [history EXCEPT !.envelopes = @ + Len(new)]
Enqueue(new) ==
  LET all == queue \o new
      cut == Max({0, Len(all) - MaxQueue})
  IN /\ queue' = SubSeq(all, cut + 1, Len(all))
     /\ dropped' = [dropped EXCEPT !.envelopes = @ + cut]
     /\ history' = [history EXCEPT !.envelopes = @ + Len(new),
                                   !.samples = @ - SumSeq(SubSeq(all, 1, cut))]

\* The timer drains the collector; a window that is not sampled for export
\* (RELAY_WORKFLOW_STATUS_EXPORT_PERCENT) is not counted as dropped.
ExportTimer(sampled) ==
  /\ timer /\ timer' = FALSE
  /\ aggregates' = Emptied
  /\ IF sampled
     THEN Enqueue(Envelopes)
     ELSE /\ history' = [history EXCEPT !.samples = @ - Count(Drained)]
          /\ UNCHANGED <<queue, dropped>>
  /\ UNCHANGED <<tasks, flight>>

Export == \E sampled \in BOOLEAN : ExportTimer(sampled)

\* flush(): one upload at a time, the next as soon as one has ended.
StartUpload ==
  /\ queue # <<>> /\ flight = <<>>
  /\ flight' = <<Head(queue)>> /\ queue' = Tail(queue)
  /\ UNCHANGED <<tasks, aggregates, timer, dropped, history>>

EndUpload(accepted) ==
  /\ flight # <<>> /\ flight' = <<>>
  /\ dropped' = [dropped EXCEPT !.envelopes = @ + IF accepted THEN 0 ELSE 1]
  /\ history' = [history EXCEPT !.envelopes = @ - IF accepted THEN 1 ELSE 0,
                                !.samples = @ - flight[1]]
  /\ UNCHANGED <<tasks, aggregates, timer, queue>>

Uploaded == EndUpload(TRUE)
UploadFails == EndUpload(FALSE)    \* refused, or its time limit passes

EvidenceNext == FlushTasks \/ Export \/ StartUpload \/ Uploaded \/ UploadFails

----------------------------------------------------------------------------
(* Properties *)

EvidenceTypeOK ==
  /\ Len(tasks) <= MaxTasks /\ Len(queue) <= MaxQueue /\ Len(flight) <= 1
  /\ \A o \in Outcomes : aggregates[o].samples <= CounterLimit
  /\ timer \/ aggregates = NoAggregates

\* No sample is lost unnoticed or counted twice, and none is refused by the
\* collector's own check: each one that has not left by the export, by
\* sampling or by a drop is deferred, in the collector, or in an envelope.
\* (In a window whose overflow counter is full too, the code loses count.)
SamplesAreConserved ==
  history.samples = Samples(tasks) + Count(Drained) + SumSeq(queue) + SumSeq(flight)

\* Every envelope that the sink did not accept waits, is being uploaded, or is
\* in the drop counter that the status shows.
EnvelopesAreConserved ==
  history.envelopes = Len(queue) + Len(flight) + dropped.envelopes
=============================================================================

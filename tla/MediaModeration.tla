-------------------------- MODULE MediaModeration --------------------------
(***************************************************************************)
(* The job queue of the media moderation service                           *)
(* (web/src/media-moderation/service.ts) and the store under it            *)
(* (web/src/media-moderation/store.ts): clients ask for verdicts, jobs     *)
(* wait for a slot, and every change of the store is one more write of the *)
(* whole file behind the writes that are under way.                        *)
(*                                                                         *)
(* A step ends at an await; what awaits a write goes on as soon as it is   *)
(* done.  pump starts jobs until no more can start before anything else    *)
(* happens.  Overrides, the moderation manifest and the cache by content   *)
(* hash choose among verdicts without touching the queue: they are left    *)
(* out, and a verdict is only "scanned" or "unavailable".                  *)
(***************************************************************************)
EXTENDS Integers, FiniteSets, SequencesExt

CONSTANTS
  Urls,          \* media URLs; a job is identified by its URL
  Videos,        \* those of media type video, the others are images
  ImageSlots,    \* imageConcurrency places for running jobs
  VideoSlots,    \* videoConcurrency places
  Callers,       \* concurrent verdict requests and rescans
  MaxRestarts,   \* bound on crashes and orderly restarts
  MaxFailures    \* bound on file writes that fail

Slots == ImageSlots \cup VideoSlots

ASSUME MediaAssumption ==
  /\ Videos \subseteq Urls
  /\ ImageSlots \cap VideoSlots = {}
  /\ Callers \cap Slots = {}
  /\ MaxRestarts \in Nat /\ MaxFailures \in Nat

VARIABLES
  data,      \* the store in memory: verdictsByUrl and jobs
  disk,      \* the store file
  writes,    \* writeQueue: snapshots to be written, and who awaits each
  broken,    \* a write was rejected, and so is every later one
  expired,   \* URLs whose verdict is past expiresAt
  queue,     \* queuedJobs
  ids,       \* queuedJobIds
  slot,      \* the job that occupies a place, and what it awaits
  caller,    \* what a request or rescan awaits
  closed,    \* close was called
  restarts

storeVars == <<data, disk, writes, broken, expired>>
jobVars == <<queue, ids, slot>>
vars == <<storeVars, jobVars, caller, closed, restarts>>

Empty == [verdict |-> [u \in Urls |-> "none"], jobs |-> {}]
Free == [at |-> "free"]
Idle == [at |-> "idle"]

Init ==
  /\ data = Empty
  /\ disk = Empty
  /\ writes = <<>>
  /\ broken = FALSE
  /\ expired = {}
  /\ queue = <<>>
  /\ ids = {}
  /\ slot = [s \in Slots |-> Free]
  /\ caller = [c \in Callers |-> Idle]
  /\ closed = FALSE
  /\ restarts = 0

\* Operators named Faulty... are plausible mistakes in the definition that
\* follows them; no other definition uses them.

----------------------------------------------------------------------------
(* The store *)

\* The snapshot of a write is taken when the change is made, not when it is
\* its turn.
Snapshot(changed) == changed

Persist(changed, waiter) ==
  /\ data' = changed
  /\ writes' = Append(writes, [store |-> Snapshot(changed), by |-> waiter])

WithJob(u) == [data EXCEPT !.jobs = @ \cup {u}]
FaultyRescanned(u) == [data EXCEPT !.jobs = @ \cup {u}]
Rescanned(u) == [data EXCEPT !.jobs = @ \cup {u}, !.verdict[u] = "none"]

FaultyCompleted(u, verdict) == [data EXCEPT !.jobs = @ \ {u}]
Completed(u, verdict) == [data EXCEPT !.jobs = @ \ {u}, !.verdict[u] = verdict]

----------------------------------------------------------------------------
(* pump *)

SlotsFor(u) == IF u \in Videos THEN VideoSlots ELSE ImageSlots
FreeSlots(u) == {s \in SlotsFor(u) : slot[s] = Free}
Startable == {n \in DOMAIN queue : ~closed /\ FreeSlots(queue[n]) # {}}
Pumped == Startable = {}

\* The first job for which there is a place, even behind one that must wait.
Pump ==
  \E n \in Startable :
    /\ \A m \in Startable : n <= m
    /\ \E s \in FreeSlots(queue[n]) :
         slot' = [slot EXCEPT ![s] = [at |-> "analyzing", url |-> queue[n]]]
    /\ queue' = RemoveAt(queue, n)
    /\ UNCHANGED <<storeVars, ids, caller, closed, restarts>>

----------------------------------------------------------------------------
(* Requests *)

FaultyQueued(u) == u \in ToSet(queue)
Queued(u) == u \in ids

\* A request finds a verdict, or is told that one is pending; only the first
\* stores a job, and queues it once it is stored.
VerdictFor(c, u) ==
  /\ ~closed /\ caller[c] = Idle
  /\ data.verdict[u] = "none" \/ u \in expired
  /\ ~Queued(u)
  /\ ids' = ids \cup {u}
  /\ Persist(WithJob(u), c)
  /\ caller' = [caller EXCEPT ![c] = [at |-> "storing", url |-> u]]
  /\ UNCHANGED <<disk, broken, expired, queue, slot, closed, restarts>>

\* An administrator wants a URL that has a verdict, current or not, looked at
\* once more.
Rescan(c, u) ==
  /\ ~closed /\ caller[c] = Idle
  /\ data.verdict[u] # "none"
  /\ Persist(Rescanned(u), c)
  /\ expired' = expired \ {u}
  /\ caller' = [caller EXCEPT ![c] = [at |-> "rescanning", url |-> u]]
  /\ UNCHANGED <<disk, broken, jobVars, closed, restarts>>

Expire(u) ==
  /\ data.verdict[u] # "none" /\ u \notin expired
  /\ expired' = expired \cup {u}
  /\ UNCHANGED <<data, disk, writes, broken, jobVars, caller, closed, restarts>>

\* The analysis ends with a verdict, or with an error that is recorded as one.
Analyzed(s) ==
  /\ slot[s].at = "analyzing"
  /\ LET u == slot[s].url
     IN  /\ \/ /\ Persist(Completed(u, "scanned"), s)
               /\ slot' = [slot EXCEPT ![s].at = "saving"]
            \/ /\ Persist(Completed(u, "unavailable"), s)
               /\ slot' = [slot EXCEPT ![s].at = "excusing"]
         /\ expired' = expired \ {u}
  /\ UNCHANGED <<disk, broken, queue, ids, caller, closed, restarts>>

----------------------------------------------------------------------------
(* Writes *)

FaultyFinished(s) == slot' = [slot EXCEPT ![s] = Free] /\ UNCHANGED <<queue, ids>>
Finished(s) ==
  /\ slot' = [slot EXCEPT ![s] = Free]
  /\ ids' = ids \ {slot[s].url}
  /\ UNCHANGED queue

Returns(c) == caller' = [caller EXCEPT ![c] = Idle]

WriteSucceeds ==
  /\ writes # <<>> /\ ~broken
  /\ disk' = Head(writes).store
  /\ writes' = Tail(writes)
  /\ LET by == Head(writes).by
     IN  \/ by \in Slots /\ Finished(by) /\ UNCHANGED caller
         \/ /\ by \in Callers
            /\ caller[by].at = "storing" \/ caller[by].url \notin ids
            /\ ids' = ids \cup {caller[by].url}
            /\ queue' = Append(queue, caller[by].url)
            /\ Returns(by)
            /\ UNCHANGED slot
         \/ /\ by \in Callers
            /\ caller[by].at = "rescanning" /\ caller[by].url \in ids
            /\ Returns(by)
            /\ UNCHANGED jobVars
  /\ UNCHANGED <<data, broken, expired, closed, restarts>>

\* writeQueue stays rejected.  A request throws and its job is not queued; a
\* job whose verdict could not be stored is recorded as unavailable, or, when
\* that is what failed, given up.
WriteFails ==
  /\ writes # <<>>
  /\ broken \/ MaxFailures > 0
  /\ broken' = TRUE
  /\ LET by == Head(writes).by
     IN  \/ /\ by \in Callers
            /\ writes' = Tail(writes)
            /\ Returns(by)
            /\ UNCHANGED <<data, expired, jobVars>>
         \/ /\ by \in Slots /\ slot[by].at = "excusing"
            /\ writes' = Tail(writes)
            /\ Finished(by)
            /\ UNCHANGED <<data, expired, caller>>
         \/ /\ by \in Slots /\ slot[by].at = "saving"
            /\ data' = Completed(slot[by].url, "unavailable")
            /\ writes' = Append(Tail(writes), [store |-> Snapshot(data'), by |-> by])
            /\ slot' = [slot EXCEPT ![by].at = "excusing"]
            /\ expired' = expired \ {slot[by].url}
            /\ UNCHANGED <<queue, ids, caller>>
  /\ UNCHANGED <<disk, closed, restarts>>

----------------------------------------------------------------------------
(* Shutdown and restart *)

\* Jobs not yet started remain in the store; the running ones are awaited.
Close ==
  /\ ~closed /\ restarts < MaxRestarts
  /\ closed' = TRUE
  /\ queue' = <<>>
  /\ UNCHANGED <<storeVars, ids, slot, caller, restarts>>

\* load() queues the jobs of the file in its order.
Recovered(store) == SetToSeqs(store.jobs)

\* A verdict of the file may be past expiresAt by now; that of a URL asked for
\* again was so already.
Dated(store) == {u \in Urls : store.verdict[u] # "none"}

Restart ==
  /\ restarts < MaxRestarts
  /\ restarts' = restarts + 1
  /\ data' = disk
  /\ writes' = <<>>
  /\ broken' = FALSE
  /\ expired' \in {late \in SUBSET Dated(disk) : disk.jobs \cap Dated(disk) \subseteq late}
  /\ queue' \in Recovered(disk)
  /\ ids' = ToSet(queue')
  /\ slot' = [s \in Slots |-> Free]
  /\ caller' = [c \in Callers |-> Idle]
  /\ closed' = FALSE
  /\ UNCHANGED disk

Step ==
  \/ \E c \in Callers, u \in Urls : VerdictFor(c, u) \/ Rescan(c, u)
  \/ \E u \in Urls : Expire(u)
  \/ \E s \in Slots : Analyzed(s)
  \/ WriteSucceeds
  \/ WriteFails
  \/ Close
  \/ Restart

Next == Pump \/ (Pumped /\ Step)

Spec == Init /\ [][Next]_vars

\* Analyses have time limits, writes end, a closed process is started again,
\* and a client that was told "pending" keeps asking.  Strong fairness, for a
\* step is disabled while pump runs.
Fairness ==
  /\ WF_vars(Pump)
  /\ SF_vars(Pumped /\ (WriteSucceeds \/ WriteFails))
  /\ \A s \in Slots : SF_vars(Pumped /\ Analyzed(s))
  /\ SF_vars(Pumped /\ closed /\ Restart)
  /\ \A u \in Urls : SF_vars(Pumped /\ \E c \in Callers : VerdictFor(c, u))

FairSpec == Spec /\ Fairness

----------------------------------------------------------------------------

Stores == [verdict : [Urls -> {"none", "scanned", "unavailable"}], jobs : SUBSET Urls]
Running == {s \in Slots : slot[s] # Free}

\* When no write is under way and none failed, the file holds the store.
FileHoldsStore == writes = <<>> /\ ~broken => disk = data

\* The store keeps its shape in memory and in the file, which agree when nothing
\* is being written; a job that is stored has no verdict that would be served
\* instead.
TypeOK ==
  /\ data \in Stores /\ disk \in Stores /\ FileHoldsStore
  /\ \A n \in DOMAIN writes : writes[n].by \in Callers \cup Slots
  /\ \A u \in data.jobs : data.verdict[u] = "none" \/ u \in expired
  /\ ids \subseteq Urls
  /\ restarts \in 0..MaxRestarts

\* No URL is ever scanned twice at a time, or waits twice for its scan, however
\* requests, rescans and the recovery after a restart overlap.
OneScanPerUrl ==
  /\ IsInjective(queue)
  /\ \A s \in Running : slot[s].url \notin ToSet(queue)
  /\ \A s, t \in Running : slot[s].url = slot[t].url => s = t

\* A URL marked as queued is really on its way: while writes succeed and the
\* service is open no path leaves the mark behind, which would keep the URL
\* "pending" for ever.
QueuedIsOnItsWay ==
  \A u \in ids :
    \/ broken \/ closed
    \/ u \in ToSet(queue)
    \/ \E s \in Running : slot[s].url = u
    \/ \E c \in Callers : caller[c].at = "storing" /\ caller[c].url = u

\* The queue has every URL that waits for a scan, and has it once.
QueueIsSound == OneScanPerUrl /\ QueuedIsOnItsWay

\* A job leaves the file only together with the arrival of its verdict, so a
\* crash between the two cannot lose it.
JobsLeaveWithVerdict ==
  [][\A u \in disk.jobs \ disk'.jobs : disk'.verdict[u] # "none"]_disk

\* Every stored job is done, across restarts, unless the store cannot be
\* written any more.
JobsGetDone == \A u \in Urls : u \in data.jobs ~> u \notin data.jobs \/ broken
=============================================================================

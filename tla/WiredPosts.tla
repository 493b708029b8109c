----------------------------- MODULE WiredPosts -----------------------------
(***************************************************************************)
(* Posts of the Wired account (createWiredAccountPost in web/server.ts)    *)
(* and the revenue enrollments they open (enrollEvent, activateEnrollment  *)
(* and failEnrollment in web/src/revenue/service.ts over the table of      *)
(* web/src/revenue/ledger.ts), composed with the publisher they call.      *)
(*                                                                         *)
(* A call is a request to post a proof event; the publication it makes has *)
(* its name.  The event is signed anew by each call (finalizeEvent), and   *)
(* two signatures of one event differ: an enrollment row is told by the    *)
(* call that signed its event.  Calls that fail validation, or that ask    *)
(* for revenue while enrollment is disabled, change nothing and are left   *)
(* out, as are the payout address and its encryption: every call of an     *)
(* event brings the same address.  The process may end at any point; the   *)
(* files and the database stay.                                            *)
(***************************************************************************)
EXTENDS Publishing

CONSTANTS
  Events,      \* proof events, by id
  MaxCrashes   \* bound on crashes

Calls == Publications

ASSUME PostsAssumption == MaxCrashes \in Nat

VARIABLES
  call,      \* call -> its event, how far it is, and its answer
  lock,      \* wiredAccountStoreQueue: calls in the order of their arrival
  store,     \* wired-account.json: events with a record
  row,       \* event with a revenue tag -> its row in revenue_enrollments
  crashes

postVars == <<call, lock, store, row, crashes>>
vars == <<postVars, publishingVars, evidenceVars>>

NoRow == [state |-> "none", signer |-> "none"]
RevenueEvents == DOMAIN row

Init ==
  /\ call = [c \in Calls |-> [at |-> "idle", event |-> "none", answer |-> "none"]]
  /\ lock = <<>>
  /\ store = {}
  /\ \E tagged \in SUBSET Events : row = [e \in tagged |-> NoRow]
  /\ crashes = 0
  /\ PublishingInit /\ EvidenceInit

\* Operators named Faulty... are plausible mistakes in the definition that
\* follows them; no other definition uses them.

Answer(c, a) == call' = [call EXCEPT ![c].at = "done", ![c].answer = a]
FaultyLeave == lock' = lock
Leave == lock' = Tail(lock)

----------------------------------------------------------------------------
(* Enrollments *)

\* createEnrollment: a row for the event is reused when it is the same to the
\* last byte, its signature included.
Conflicts(e, c) == row[e].state # "none" /\ row[e].signer # c

Enrolled(e, c) ==
  IF e \in RevenueEvents /\ row[e].state = "none"
  THEN [row EXCEPT ![e] = [state |-> "pending", signer |-> c]] ELSE row

\* setEnrollmentState: only a pending row changes.
SetState(e, state) ==
  IF e \in RevenueEvents /\ row[e].state = "pending"
  THEN [row EXCEPT ![e].state = state] ELSE row

----------------------------------------------------------------------------
(* createWiredAccountPost *)

Submit(c) ==
  /\ call[c].at = "idle"
  /\ \E e \in Events : call' = [call EXCEPT ![c].at = "queued", ![c].event = e]
  /\ lock' = Append(lock, c)
  /\ UNCHANGED <<store, row, crashes, publishingVars, evidenceVars>>

FaultyTurn(c) == call[c].at = "queued"
Turn(c) == call[c].at = "queued" /\ Head(lock) = c

\* The lock is granted and the store read: a used proof or a row of another
\* signature ends the call, otherwise the event is enrolled and published.
Refuse(c) ==
  /\ Turn(c)
  /\ LET e == call[c].event IN
     \/ e \in store /\ Answer(c, "conflict")
     \/ e \notin store /\ e \in RevenueEvents /\ Conflicts(e, c) /\ Answer(c, "error")
  /\ Leave
  /\ UNCHANGED <<store, row, crashes, publishingVars, evidenceVars>>

Begin(c) ==
  /\ Turn(c)
  /\ LET e == call[c].event IN
     /\ e \notin store
     /\ e \in RevenueEvents => ~Conflicts(e, c)
     /\ row' = Enrolled(e, c)
  /\ call' = [call EXCEPT ![c].at = "publishing"]
  /\ StartPublish(c)
  /\ UNCHANGED <<lock, store, crashes, evidenceVars>>

NotPublished(c) ==
  /\ call[c].at = "publishing" /\ job[c].at = "done" /\ job[c].accepted = {}
  /\ row' = SetState(call[c].event, "failed")
  /\ Answer(c, "unpublished") /\ Leave
  /\ UNCHANGED <<store, crashes, publishingVars, evidenceVars>>

\* The record is written to a new file that replaces the store.
Stored(c) == call[c].at = "publishing" /\ job[c].at = "done" /\ job[c].accepted # {}
WriteStore(c) ==
  /\ Stored(c)
  /\ store' = store \cup {call[c].event}
  /\ call' = [call EXCEPT ![c].at = "stored"]
  /\ UNCHANGED <<lock, row, crashes, publishingVars, evidenceVars>>

WriteFails(c) ==
  /\ Stored(c)
  /\ Answer(c, "error") /\ Leave
  /\ UNCHANGED <<store, row, crashes, publishingVars, evidenceVars>>

Activate(c) ==
  /\ call[c].at = "stored"
  /\ row' = SetState(call[c].event, "active")
  /\ Answer(c, "published") /\ Leave
  /\ UNCHANGED <<store, crashes, publishingVars, evidenceVars>>

\* The process ends: calls under way get no answer, connections and evidence
\* are gone.
Crash ==
  /\ crashes < MaxCrashes /\ crashes' = crashes + 1
  /\ call' = [c \in Calls |-> IF call[c].at \in {"idle", "done"} THEN call[c]
                              ELSE [call[c] EXCEPT !.at = "done", !.answer = "lost"]]
  /\ lock' = <<>>
  /\ job' = [p \in Publications |-> IF job[p].at = "running" THEN NoJob ELSE job[p]]
  /\ socket' = [p \in Publications |-> [r \in Relays |-> "none"]]
  /\ late' = [p \in Publications |-> 0]
  /\ tasks' = <<>> /\ aggregates' = NoAggregates /\ timer' = FALSE
  /\ queue' = <<>> /\ flight' = <<>> /\ dropped' = NoDrops /\ history' = NoHistory
  /\ UNCHANGED <<store, row>>

Continue(c) ==
  Refuse(c) \/ Begin(c) \/ NotPublished(c) \/ WriteStore(c) \/ WriteFails(c) \/ Activate(c)

Next ==
  \/ \E c \in Calls : Submit(c) \/ Continue(c)
  \/ PublishingNext /\ UNCHANGED postVars
  \/ EvidenceNext /\ UNCHANGED <<postVars, publishingVars>>
  \/ Crash

Spec == Init /\ [][Next]_vars

\* The event loop runs what is ready, and the time limits pass.  Relays may
\* never answer.  No call goes on for ever, so that fairness of the steps as
\* a whole is enough.
Fairness == WF_vars(\E c \in Calls : Continue(c) \/ (Settling /\ UNCHANGED postVars))
FairSpec == Spec /\ Fairness

----------------------------------------------------------------------------
(* Properties *)

\* Calls, rows and the parts of the publisher stay within their sets; only a
\* call in the lock's queue is under way.
PostsTypeOK ==
  /\ PublishingTypeOK /\ EvidenceTypeOK
  /\ \A c \in Calls :
       /\ call[c].at \in {"idle", "queued", "publishing", "stored", "done"}
       /\ call[c].at \in {"queued", "publishing", "stored"} <=> c \in Range(lock)
  /\ \A e \in RevenueEvents : row[e].state \in {"none", "pending", "active", "failed"}

\* A proof buys one post: however many calls bring it at the same time or
\* again after a restart, one is told that it published it.
ProofBuysOnePost ==
  \A c, d \in Calls : c # d /\ call[c].answer = "published" /\ call[d].answer = "published"
    => call[c].event # call[d].event

\* Zaps are sold only for posts that exist: an active enrollment of a
\* Wired-account post has its record in the store and the event on a relay.
ActiveIsPublished ==
  \A e \in RevenueEvents : row[e].state = "active" =>
    e \in store /\ \E c \in Calls : call[c].event = e /\ job[c].accepted # {}

\* The answer "revenueEnrolled: true" is true: the row of a revenue post that
\* was answered as published is active, whatever became of earlier attempts
\* to publish the same event.
AnsweredIsEnrolled ==
  \A c \in Calls : call[c].answer = "published" /\ call[c].event \in RevenueEvents
    => row[call[c].event].state = "active"

\* What callers are told of posts and enrollments is so.
PostsAreHonest == ProofBuysOnePost /\ ActiveIsPublished /\ AnsweredIsEnrolled

\* Publishing leaves nothing open and is accounted for exactly, whatever its
\* evidence meets on its way.
EvidenceAddsUp == ConnectionsAreClosed /\ SamplesAddUp /\ EnvelopesAreConserved

\* Relays may be silent for ever: every call is answered, by the time limits
\* of its publication at the latest, and passes the lock on.
CallsAreAnswered == \A c \in Calls : call[c].at = "queued" ~> call[c].at = "done"
=============================================================================

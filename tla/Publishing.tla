----------------------------- MODULE Publishing -----------------------------
(***************************************************************************)
(* publishNostrEvent (web/src/nostr-publisher.ts): one connection to each  *)
(* relay, a time limit for the connection and one for the answer, and a    *)
(* sample of evidence when every relay is settled.                         *)
(*                                                                         *)
(* What the relays do is external.                                         *)
(***************************************************************************)
EXTENDS RelayEvidence

CONSTANTS
  Publications,  \* calls of publishNostrEvent
  Relays         \* its target relays, normalised and unique

\* With more relays the outcome is not computed but a RangeError thrown.
ASSUME PublishingAssumption ==
  /\ IsFiniteSet(Publications) /\ IsFiniteSet(Relays)
  /\ Cardinality(Relays) <= CountLimit

VARIABLES
  job,       \* publication -> its stage, settlements, and what it returned
  socket,    \* publication -> relay -> the connection
  late       \* publication -> connections closed after their time limit

publishingVars == <<job, socket, late>>

Pending == {"dialing", "open"}
Settlement == {"accepted", "rejected", "terminal", "publish-timeout",
               "connect-failed", "connect-timeout"}

NoJob == [at |-> "idle", relay |-> [r \in Relays |-> "dialing"],
          accepted |-> {}, outcome |-> "none"]

PublishingInit ==
  /\ job = [p \in Publications |-> NoJob]
  /\ socket = [p \in Publications |-> [r \in Relays |-> "none"]]
  /\ late = [p \in Publications |-> 0]

StartPublish(p) ==
  /\ job' = [job EXCEPT ![p].at = "running"]
  /\ socket' = [socket EXCEPT ![p] = [r \in Relays |-> "dialing"]]
  /\ UNCHANGED late

Is(p, r, stage) == job[p].at = "running" /\ job[p].relay[r] = stage

Become(p, r, stage, connection) ==
  /\ job' = [job EXCEPT ![p].relay[r] = stage]
  /\ socket' = [socket EXCEPT ![p][r] = connection]

\* The key and the counters of a publication's sample.
Of(p, settlements) == Cardinality({r \in Relays : job[p].relay[r] \in settlements})
Accepted(p) == {r \in Relays : job[p].relay[r] = "accepted"}
TimedOut(p) == Of(p, {"publish-timeout", "connect-timeout"})
OutcomeOf(p) ==
  WorkflowOutcome(Cardinality(Relays), Cardinality(Accepted(p)), TimedOut(p), 0)
Opened == {"accepted", "rejected", "terminal", "publish-timeout"}
Evidence(p) ==
  [outcome |-> OutcomeOf(p), targets |-> Cardinality(Relays),
   opened |-> Of(p, Opened), closed |-> Of(p, Opened),
   rejected |-> Of(p, {"rejected"}), terminalClosed |-> Of(p, {"terminal"}),
   connectFailed |-> Of(p, {"connect-failed"}), timedOut |-> TimedOut(p),
   bucket |-> Bucket(Cardinality(Accepted(p)), Cardinality(Relays))]

SampleTask(p) == [kind |-> "sample", outcome |-> OutcomeOf(p), evidence |-> Evidence(p)]
LateTask(o) == [kind |-> "late", outcome |-> o, evidence |-> "none"]

----------------------------------------------------------------------------
(* The connection *)

\* Relay.connect resolves.  After the time limit the connection is closed at
\* once, and counted when the publication has deferred its sample.
Dialed(p, r) ==
  /\ socket[p][r] = "dialing"
  /\ IF Is(p, r, "dialing")
     THEN Become(p, r, "open", "open") /\ UNCHANGED <<late, evidenceVars>>
     ELSE /\ socket' = [socket EXCEPT ![p][r] = "none"]
          /\ IF job[p].at = "done"
             THEN /\ Defer(<<LateTask(job[p].outcome)>>)
                  /\ UNCHANGED <<late, aggregates, timer, queue, flight>>
             ELSE late' = [late EXCEPT ![p] = @ + 1] /\ UNCHANGED evidenceVars
          /\ UNCHANGED job

DialFails(p, r) ==
  /\ socket[p][r] = "dialing"
  /\ socket' = [socket EXCEPT ![p][r] = "none"]
  /\ job' = IF Is(p, r, "dialing") THEN [job EXCEPT ![p].relay[r] = "connect-failed"] ELSE job
  /\ UNCHANGED <<late, evidenceVars>>

ConnectTimeout(p, r) ==
  /\ Is(p, r, "dialing") /\ Become(p, r, "connect-timeout", "dialing")
  /\ UNCHANGED <<late, evidenceVars>>

----------------------------------------------------------------------------
(* The answer: every way to settle closes the connection *)

EndPublish(p, r, settlement) ==
  /\ Is(p, r, "open") /\ Become(p, r, settlement, "none")
  /\ UNCHANGED <<late, evidenceVars>>

RelayAccepts(p, r) == EndPublish(p, r, "accepted")
RelayRejects(p, r) == EndPublish(p, r, "rejected")
PublishTimeout(p, r) == EndPublish(p, r, "publish-timeout")
ConnectionLost(p, r) == EndPublish(p, r, "terminal")

\* All settlements are in: the accepted relays are returned, the sample and
\* the late connections closed so far are deferred.
Finish(p) ==
  /\ job[p].at = "running" /\ \A r \in Relays : job[p].relay[r] \notin Pending
  /\ job' = [job EXCEPT ![p] = [NoJob EXCEPT !.at = "done", !.accepted = Accepted(p),
                                            !.outcome = OutcomeOf(p)]]
  /\ Defer(<<SampleTask(p)>> \o [i \in 1..late[p] |-> LateTask(OutcomeOf(p))])
  /\ late' = [late EXCEPT ![p] = 0]
  /\ UNCHANGED <<socket, aggregates, timer, queue, flight>>

PublishingNext ==
  \/ \E p \in Publications, r \in Relays :
       \/ Dialed(p, r) \/ DialFails(p, r) \/ ConnectTimeout(p, r)
       \/ RelayAccepts(p, r) \/ RelayRejects(p, r)
       \/ PublishTimeout(p, r) \/ ConnectionLost(p, r)
  \/ \E p \in Publications : Finish(p)

\* The steps that the time limits of withTimeout force.
Settling ==
  \E p \in Publications :
    Finish(p) \/ \E r \in Relays : ConnectTimeout(p, r) \/ PublishTimeout(p, r)

----------------------------------------------------------------------------
(* Properties *)

PublishingTypeOK ==
  \A p \in Publications :
    /\ job[p].at \in {"idle", "running", "done"}
    /\ job[p].relay \in [Relays -> Pending \cup Settlement]
    /\ socket[p] \in [Relays -> {"none", "dialing", "open"}]
    /\ job[p].accepted \subseteq Relays /\ late[p] \in 0..Cardinality(Relays)

\* No connection outlives its publication: an open one belongs to a relay that
\* is still to answer, and one that came too late is not left open.
ConnectionsAreClosed ==
  \A p \in Publications, r \in Relays : socket[p][r] = "open" => Is(p, r, "open")

\* A sample accounts for every target exactly once, opened connections and
\* failed ones alike, and its outcome says "completed" only when every relay
\* accepted and "failed" or "timed-out" only when there was one and none did.
SamplesAddUp ==
  \A i \in DOMAIN tasks : tasks[i].kind = "sample" =>
    LET e == tasks[i].evidence
        accepted == e.targets - e.rejected - e.terminalClosed - e.connectFailed - e.timedOut
    IN /\ IsEvidence(e) /\ accepted \in 0..e.targets
       /\ e.opened <= e.targets /\ e.closed = e.opened
       /\ e.bucket = Bucket(accepted, e.targets)
       /\ (e.outcome = "completed") = (accepted = e.targets)
       /\ (e.outcome \in {"failed", "timed-out"}) = (accepted = 0 /\ e.targets # 0)
=============================================================================

---------------------------- MODULE RelaySession ----------------------------
(***************************************************************************)
(* A finite relay session (web/src/server-relay-session.ts): the feed's    *)
(* queries connect to relays, ask them, and give every connection back     *)
(* when the work ends, however late it was established.                    *)
(*                                                                         *)
(* The run callback (feed-snapshot-service.ts) is any program of the       *)
(* session's two operations, so its queries and its further ensureRelays   *)
(* call (for hinted relays) happen in every order and at the same time.    *)
(* The two promises of an attempt, the outcome and what waits for it, are  *)
(* settled in one turn of the event loop: no other event comes between.    *)
(***************************************************************************)
EXTENDS Integers, FiniteSets, FiniteSetsExt

CONSTANTS
  Relays,      \* the relay URLs, normalised
  Configured,  \* those the session is opened with
  Queries,     \* the query calls of the run callback
  Stored       \* events each relay has for a query

ASSUME SessionAssumption ==
  /\ IsFiniteSet(Relays) /\ Configured \subseteq Relays
  /\ Stored \in Nat

Ensures == {"configured", "hinted"}

VARIABLES
  phase,    \* withFiniteRelaySession: opening, running or returned
  closed,   \* the session's flag
  attempt,  \* relay -> none, pending, or the settled state of its attempt
  socket,   \* relay -> the socket of Relay.connect
  held,     \* the session's relays map
  ensure,   \* ensureRelays call -> its relays and whether it has returned
  query,    \* query call -> its targets' states, subscriptions and completion
  got       \* query call -> relay -> calls of its onEvent

vars == <<phase, closed, attempt, socket, held, ensure, query, got>>

Settled == {"connected", "connect-failed", "timed-out", "cancelled"}
TargetEnd == {"eose", "closed", "connect-failed", "timed-out", "cancelled"}

NoQuery == [at |-> "idle", reason |-> "none", sub |-> {}, received |-> 0,
            state |-> [r \in {} |-> "open"]]

Init ==
  /\ phase = "opening"
  /\ closed \in BOOLEAN             \* a signal that is aborted already
  /\ attempt = [r \in Relays |-> IF ~closed /\ r \in Configured THEN "pending" ELSE "none"]
  /\ socket = [r \in Relays |-> IF attempt[r] = "pending" THEN "dialing" ELSE "none"]
  /\ held = {}
  /\ ensure = [e \in Ensures |-> [at |-> IF e = "hinted" THEN "idle"
                                         ELSE IF closed \/ Configured = {} THEN "returned"
                                         ELSE "waiting",
                                  relays |-> IF e = "hinted" THEN {} ELSE Configured]]
  /\ query = [q \in Queries |-> NoQuery]
  /\ got = [q \in Queries |-> [r \in Relays |-> 0]]

\* Operators named Faulty... are plausible mistakes in the definition that
\* follows them; no other definition uses them.

----------------------------------------------------------------------------
(* Queries: targets, completion, cancellation *)

Targets(Q) == DOMAIN Q.state
Unsettled(Q) == {r \in Targets(Q) : Q.state[r] = "open"}

\* finish(): unfinished targets get the state of the reason, subscriptions
\* are closed, and the counter is read into the answer.
Finish(Q, reason, n) ==
  [at |-> "done", reason |-> reason, sub |-> {}, received |-> n,
   state |-> [r \in Targets(Q) |->
                IF Q.state[r] # "open" THEN Q.state[r]
                ELSE IF reason = "cancelled" THEN "cancelled" ELSE "timed-out"]]

FaultyMaybeFinish(Q, n) ==
  IF Unsettled(Q) # Targets(Q) THEN Finish(Q, "settled", n) ELSE Q
MaybeFinish(Q, n) == IF Unsettled(Q) = {} THEN Finish(Q, "settled", n) ELSE Q

\* The counter of the calls of onEvent.
Received(q) == SumFunctionOnSet(got[q], Relays)

\* settleTarget for every relay of end, in a query that is under way.
SettleTargets(Q, end, n) ==
  IF Q.at # "active" THEN Q
  ELSE LET settled == DOMAIN end \cap Unsettled(Q) IN
       IF settled = {} THEN Q
       ELSE MaybeFinish([Q EXCEPT
              !.state = [r \in Targets(Q) |-> IF r \in settled THEN end[r] ELSE Q.state[r]],
              !.sub = @ \ settled], n)

\* What a target becomes once its relay's attempt is settled: a subscription
\* (subscribeTarget) or a state.
Subscribable(r) == r \in held /\ socket[r] = "open"
StateOfAttempt(r) ==
  CASE r \in held -> "closed"
    [] r \notin held /\ attempt[r] = "none" -> "connect-failed"
    [] r \notin held /\ attempt[r] \in {"connect-failed", "cancelled"} -> attempt[r]
    [] OTHER -> "timed-out"

\* query(): starts with the targets named, or the relays of all attempts.
Query(q, targets) ==
  /\ phase = "running" /\ query[q].at = "idle"
  /\ LET open == [NoQuery EXCEPT !.at = "active", !.state = [r \in targets |-> "open"],
                                 !.sub = {r \in targets : Subscribable(r)}]
         ends == [r \in {s \in targets : ~Subscribable(s) /\ attempt[s] # "pending"} |->
                    StateOfAttempt(r)]
     IN query' = [query EXCEPT ![q] =
          CASE targets = {} -> Finish(open, "settled", Received(q))
            [] targets # {} /\ closed -> Finish(open, "cancelled", Received(q))
            [] OTHER -> SettleTargets(open, ends, Received(q))]
  /\ UNCHANGED <<phase, closed, attempt, socket, held, ensure, got>>

QueryNamed(q) == \E targets \in SUBSET Relays : Query(q, targets)
QueryAttempted(q) == Query(q, {r \in Relays : attempt[r] # "none"})

\* onevent, oneose and onclose of a subscription.
Event(q, r) ==
  /\ query[q].at = "active" /\ r \in query[q].sub /\ got[q][r] < Stored
  /\ got' = [got EXCEPT ![q][r] = @ + 1]
  /\ UNCHANGED <<phase, closed, attempt, socket, held, ensure, query>>

EndTarget(q, r, state) ==
  /\ query[q].at = "active" /\ r \in query[q].sub
  /\ query' = [query EXCEPT ![q] =
                 SettleTargets(query[q], [s \in {r} |-> state], Received(q))]
  /\ UNCHANGED <<phase, closed, attempt, socket, held, ensure, got>>

Eose(q, r) == got[q][r] = Stored /\ EndTarget(q, r, "eose")
SubscriptionClosed(q, r) == EndTarget(q, r, "closed")

EndQuery(q, reason) ==
  /\ query[q].at = "active"
  /\ query' = [query EXCEPT ![q] = Finish(query[q], reason, Received(q))]
  /\ UNCHANGED <<phase, closed, attempt, socket, held, ensure, got>>

QueryDeadline(q) == ~closed /\ EndQuery(q, "deadline")
QueryAborted(q) == EndQuery(q, "cancelled")      \* the signal of the query

----------------------------------------------------------------------------
(* Attempts *)

\* Queries and ensureRelays calls that waited for the attempt of r go on.
Woken(r, state, connected) ==
  [q \in Queries |->
     IF query[q].at = "active" /\ r \in Unsettled(query[q]) \ query[q].sub
     THEN IF connected
          THEN [query[q] EXCEPT !.sub = @ \cup {r}]
          ELSE SettleTargets(query[q], [s \in {r} |-> state], Received(q))
     ELSE query[q]]

Waiting(e, attempts) == {r \in ensure[e].relays : attempts[r] = "pending"}
Returned(attempts) ==
  [e \in Ensures |-> IF ensure[e].at = "waiting" /\ Waiting(e, attempts) = {}
                     THEN [ensure[e] EXCEPT !.at = "returned"] ELSE ensure[e]]

Settle(r, state) ==
  /\ attempt' = [attempt EXCEPT ![r] = state]
  /\ ensure' = Returned(attempt')
  /\ query' = Woken(r, state, state = "connected")

\* Relay.connect resolves: a relay that comes too late is closed.
FaultyConnected(r) ==
  /\ socket[r] = "dialing"
  /\ socket' = [socket EXCEPT ![r] = "open"]
  /\ IF attempt[r] = "pending"
     THEN Settle(r, "connected") /\ held' = held \cup {r}
     ELSE UNCHANGED <<attempt, held, ensure, query>>
  /\ UNCHANGED <<phase, closed, got>>
Connected(r) ==
  /\ socket[r] = "dialing"
  /\ IF attempt[r] = "pending"
     THEN /\ Settle(r, "connected")
          /\ held' = held \cup {r}
          /\ socket' = [socket EXCEPT ![r] = "open"]
     ELSE /\ socket' = [socket EXCEPT ![r] = "closed"]
          /\ UNCHANGED <<attempt, held, ensure, query>>
  /\ UNCHANGED <<phase, closed, got>>

ConnectFails(r) ==
  /\ socket[r] = "dialing"
  /\ socket' = [socket EXCEPT ![r] = "none"]
  /\ IF attempt[r] = "pending" THEN Settle(r, "connect-failed")
     ELSE UNCHANGED <<attempt, ensure, query>>
  /\ UNCHANGED <<phase, closed, held, got>>

\* The timer an ensureRelays call holds for an attempt; close() clears it.
ConnectDeadline(e, r) ==
  /\ ~closed /\ ensure[e].at = "waiting" /\ r \in Waiting(e, attempt)
  /\ Settle(r, "timed-out")
  /\ UNCHANGED <<phase, closed, socket, held, got>>

\* ensureRelays of the run callback: what is held or settled is answered at
\* once, an attempt under way is shared, and nothing is dialled twice.
Ensure(relays) ==
  /\ phase = "running" /\ ensure["hinted"].at = "idle"
  /\ LET dialed == IF closed THEN {} ELSE {r \in relays : attempt[r] = "none"}
         waits == \E r \in relays : r \in dialed \/ attempt[r] = "pending"
     IN /\ attempt' = [r \in Relays |-> IF r \in dialed THEN "pending" ELSE attempt[r]]
        /\ socket' = [r \in Relays |-> IF r \in dialed THEN "dialing" ELSE socket[r]]
        /\ ensure' = [ensure EXCEPT !["hinted"] =
                        [at |-> IF waits THEN "waiting" ELSE "returned", relays |-> relays]]
  /\ UNCHANGED <<phase, closed, held, query, got>>

EnsureHinted == \E relays \in SUBSET Relays : Ensure(relays)

\* A relay closes the connection: its subscriptions are told, the map keeps it.
RelayDrops(r) ==
  /\ socket[r] = "open"
  /\ socket' = [socket EXCEPT ![r] = "dropped"]
  /\ query' = [q \in Queries |->
       IF r \in query[q].sub
       THEN SettleTargets(query[q], [s \in {r} |-> "closed"], Received(q)) ELSE query[q]]
  /\ UNCHANGED <<phase, closed, attempt, held, ensure, got>>

----------------------------------------------------------------------------
(* The session *)

\* close(): queries are cancelled first, then the attempts.
FaultyClose ==
  /\ closed' = TRUE
  /\ query' = query
  /\ attempt' = [r \in Relays |-> IF attempt[r] = "pending" THEN "cancelled" ELSE attempt[r]]
  /\ ensure' = Returned(attempt')
  /\ socket' = [r \in Relays |-> IF r \in held THEN "closed" ELSE socket[r]]
  /\ held' = {}
Close ==
  /\ closed' = TRUE
  /\ query' = [q \in Queries |->
       IF query[q].at = "active" THEN Finish(query[q], "cancelled", Received(q)) ELSE query[q]]
  /\ attempt' = [r \in Relays |-> IF attempt[r] = "pending" THEN "cancelled" ELSE attempt[r]]
  /\ ensure' = Returned(attempt')
  /\ socket' = [r \in Relays |-> IF r \in held THEN "closed" ELSE socket[r]]
  /\ held' = {}

Abort == phase # "returned" /\ ~closed /\ Close /\ UNCHANGED <<phase, got>>

Run ==
  /\ phase = "opening" /\ ensure["configured"].at = "returned"
  /\ phase' = "running"
  /\ UNCHANGED <<closed, attempt, socket, held, ensure, query, got>>

\* The callback returns or throws, with its calls under way or not.
Return ==
  /\ phase = "running" /\ phase' = "returned"
  /\ IF closed THEN UNCHANGED <<closed, query, attempt, ensure, socket, held>> ELSE Close
  /\ UNCHANGED got

Next ==
  \/ \E q \in Queries : QueryNamed(q) \/ QueryAttempted(q)
                          \/ QueryDeadline(q) \/ QueryAborted(q)
  \/ \E q \in Queries, r \in Relays :
       Event(q, r) \/ Eose(q, r) \/ SubscriptionClosed(q, r)
  \/ \E r \in Relays : Connected(r) \/ ConnectFails(r) \/ RelayDrops(r)
  \/ \E e \in Ensures, r \in Relays : ConnectDeadline(e, r)
  \/ EnsureHinted \/ Abort \/ Run \/ Return

Spec == Init /\ [][Next]_vars

\* Timers fire.  Nothing is assumed of relays or of the callback.
Fairness ==
  /\ \A q \in Queries : WF_vars(QueryDeadline(q))
  /\ \A e \in Ensures, r \in Relays : WF_vars(ConnectDeadline(e, r))
FairSpec == Spec /\ Fairness

----------------------------------------------------------------------------
(* Properties *)

\* Every open connection is in the session's map, which is empty once the
\* session is closed: a connection established after its deadline, after an
\* abort or after the callback returned is closed and not leaked.
OpenConnectionsAreHeld ==
  /\ \A r \in Relays : socket[r] = "open" => r \in held
  /\ closed \/ phase = "returned" => held = {}

\* The session's variables stay within their sets, no connection is leaked, and
\* a call waits only while one of its attempts is pending.
SessionTypeOK ==
  /\ phase \in {"opening", "running", "returned"} /\ closed \in BOOLEAN
  /\ attempt \in [Relays -> Settled \cup {"none", "pending"}]
  /\ socket \in [Relays -> {"none", "dialing", "open", "dropped", "closed"}]
  /\ held \subseteq Relays /\ OpenConnectionsAreHeld
  /\ \A e \in Ensures : ensure[e].at = "waiting" => Waiting(e, attempt) # {}
  /\ \A q \in Queries : query[q].at = "active" => query[q].sub \subseteq Unsettled(query[q])

\* What a completed query answers is what happened: the count is the number of
\* events handed out, which does not grow afterwards; a target that reached
\* its end handed out everything the relay had; a query that "settled" has a
\* state from each relay or attempt and not one it made up.
CompletionIsTruthful ==
  \A q \in Queries : query[q].at = "done" =>
    /\ query[q].received = Received(q)
    /\ \A r \in Targets(query[q]) :
         /\ query[q].state[r] \in TargetEnd
         /\ query[q].state[r] = "eose" => got[q][r] = Stored
         /\ query[q].reason = "settled" /\ query[q].state[r] = "timed-out"
              => attempt[r] = "timed-out"

\* No relay can keep a call: every ensureRelays and every query returns, by
\* its deadline at the latest, also when the session is closed under it.
CallsReturn ==
  /\ \A e \in Ensures : ensure[e].at = "waiting" ~> ensure[e].at = "returned"
  /\ \A q \in Queries : query[q].at = "active" ~> query[q].at = "done"
=============================================================================

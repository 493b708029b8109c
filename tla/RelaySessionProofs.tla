------------------------- MODULE RelaySessionProofs -------------------------
(***************************************************************************)
(* Proofs about RelaySession, for any relays, any concurrent queries and   *)
(* any program of the run callback: types, that no connection is leaked,   *)
(* and that what a completed query answers is what happened.               *)
(*                                                                         *)
(* The argument: an attempt is settled once and stays as it was settled,   *)
(* so a target that took its state from an attempt remains right; and the  *)
(* relays of connected attempts are in the map until the session closes,   *)
(* so that a target is "timed-out" early only when its attempt was.        *)
(***************************************************************************)
EXTENDS RelaySession, TLAPS

States == TargetEnd \cup {"open"}

QueryShape(Q) ==
  /\ Q = [at |-> Q.at, reason |-> Q.reason, sub |-> Q.sub, received |-> Q.received,
          state |-> Q.state]
  /\ Q.state \in [Targets(Q) -> States]
  /\ Targets(Q) \subseteq Relays
  /\ Q.at \in {"idle", "active", "done"}

\* A state that is more than a name for how the query ended.
Earned(r, state, attempts, events) ==
  /\ state = "eose" => events[r] = Stored
  /\ state = "timed-out" => attempts[r] = "timed-out"

ActiveGood(Q, attempts, events) ==
  /\ Q.sub \subseteq Unsettled(Q)
  /\ \A r \in Targets(Q) : Earned(r, Q.state[r], attempts, events)

DoneGood(Q, attempts, events) ==
  /\ Q.received = SumFunctionOnSet(events, Relays)
  /\ \A r \in Targets(Q) :
       /\ Q.state[r] \in TargetEnd
       /\ Q.state[r] = "eose" => events[r] = Stored
       /\ Q.reason = "settled" => Earned(r, Q.state[r], attempts, events)

QueryGood(Q, attempts, events) ==
  /\ QueryShape(Q)
  /\ Q.at = "active" => ActiveGood(Q, attempts, events)
  /\ Q.at = "done" => DoneGood(Q, attempts, events)

StatesTyped ==
  /\ phase \in {"opening", "running", "returned"} /\ closed \in BOOLEAN
  /\ attempt \in [Relays -> Settled \cup {"none", "pending"}]
  /\ socket \in [Relays -> {"none", "dialing", "open", "dropped", "closed"}]
  /\ held \in SUBSET Relays
  /\ ensure \in [Ensures -> [at : {"idle", "waiting", "returned"}, relays : SUBSET Relays]]
  /\ got \in [Queries -> [Relays -> Nat]]
  /\ query = [q \in Queries |-> query[q]]

\* The map has the relays of connected attempts, until it is emptied for good.
ConnectionsHeld ==
  /\ \A r \in Relays : socket[r] = "open" => r \in held
  /\ \A r \in Relays : attempt[r] = "connected" => r \in held \/ closed
  /\ closed => held = {} /\ \A r \in Relays : attempt[r] # "pending"
  /\ phase = "returned" => closed

WaitersHaveReason ==
  \A e \in Ensures : ensure[e].at = "waiting" =>
    \E r \in ensure[e].relays : attempt[r] = "pending"

SessionInv ==
  /\ StatesTyped
  /\ ConnectionsHeld
  /\ WaitersHaveReason
  /\ \A q \in Queries : QueryGood(query[q], attempt, got[q])

----------------------------------------------------------------------------
(* Queries *)

LEMMA FinishGood ==
  ASSUME NEW Q, QueryShape(Q), NEW attempts, NEW events, ActiveGood(Q, attempts, events),
         NEW reason, reason = "settled" => Unsettled(Q) = {},
         NEW n, n = SumFunctionOnSet(events, Relays)
  PROVE  QueryGood(Finish(Q, reason, n), attempts, events)
<1> DEFINE F == Finish(Q, reason, n)
<1>1. PICK T : T = DOMAIN Q.state
  OBVIOUS
<1>2. PICK st \in [T -> States] : st = Q.state
  BY <1>1 DEF QueryShape, Targets
<1>3. PICK end \in {"cancelled", "timed-out"} :
        end = IF reason = "cancelled" THEN "cancelled" ELSE "timed-out"
  OBVIOUS
<1>4. PICK f : f = [r \in T |-> IF st[r] # "open" THEN st[r] ELSE end]
  OBVIOUS
<1>5. /\ F = [at |-> "done", reason |-> reason, sub |-> {}, received |-> n, state |-> f]
  BY <1>1, <1>2, <1>3, <1>4 DEF Finish, Targets
<1> HIDE DEF F
<1>6. /\ F.at = "done" /\ F.reason = reason /\ F.sub = {} /\ F.received = n /\ F.state = f
  BY <1>5
<1>7. f \in [T -> TargetEnd]
  BY <1>3, <1>4 DEF States, TargetEnd
<1>8. QueryShape(F)
  <2>1. DOMAIN f = T /\ f \in [T -> States]
    BY <1>7 DEF States
  <2>2. T \subseteq Relays
    BY <1>1 DEF QueryShape, Targets
  <2>3. QED BY <2>1, <2>2, <1>5, <1>6 DEF QueryShape, Targets
<1>9. ASSUME NEW r \in T
      PROVE  /\ f[r] \in TargetEnd
             /\ f[r] = "eose" => events[r] = Stored
             /\ reason = "settled" => Earned(r, f[r], attempts, events)
  <2>1. Earned(r, st[r], attempts, events)
    BY <1>1, <1>2 DEF ActiveGood, Targets
  <2>2. reason = "settled" => st[r] # "open"
    BY <1>1, <1>2 DEF Unsettled, Targets
  <2>3. f[r] = IF st[r] # "open" THEN st[r] ELSE end
    BY <1>4
  <2>4. QED BY <2>1, <2>2, <2>3, <1>3, <1>7 DEF Earned
<1>10. DOMAIN f = T
  BY <1>4
<1>11. DoneGood(F, attempts, events)
  BY <1>6, <1>9, <1>10 DEF DoneGood, Targets
<1>12. QueryGood(F, attempts, events)
  BY <1>6, <1>8, <1>11 DEF QueryGood
<1>13. QED BY <1>12 DEF F

LEMMA SettleGood ==
  ASSUME NEW Q, NEW attempts, NEW events, QueryGood(Q, attempts, events),
         NEW n, n = SumFunctionOnSet(events, Relays),
         NEW end,
         \A r \in DOMAIN end : end[r] \in TargetEnd /\ Earned(r, end[r], attempts, events)
  PROVE  QueryGood(SettleTargets(Q, end, n), attempts, events)
<1>1. CASE Q.at # "active" \/ DOMAIN end \cap Unsettled(Q) = {}
  BY <1>1 DEF SettleTargets
<1>2. CASE Q.at = "active" /\ DOMAIN end \cap Unsettled(Q) # {}
  <2>1. PICK settled : settled = DOMAIN end \cap Unsettled(Q)
    OBVIOUS
  <2>2. PICK T : T = DOMAIN Q.state
    OBVIOUS
  <2>3. PICK st \in [T -> States] : st = Q.state
    BY <2>2 DEF QueryGood, QueryShape, Targets
  <2>4. PICK f : f = [r \in T |-> IF r \in settled THEN end[r] ELSE st[r]]
    OBVIOUS
  <2>5. PICK R : R = [at |-> "active", reason |-> Q.reason, sub |-> Q.sub \ settled,
                      received |-> Q.received, state |-> f]
    OBVIOUS
  <2>6. [Q EXCEPT !.state = [r \in Targets(Q) |-> IF r \in settled THEN end[r] ELSE Q.state[r]],
                  !.sub = @ \ settled] = R
    <3>1. Q = [at |-> "active", reason |-> Q.reason, sub |-> Q.sub, received |-> Q.received,
               state |-> st]
      BY <1>2, <2>3 DEF QueryGood, QueryShape
    <3>2. [r \in Targets(Q) |-> IF r \in settled THEN end[r] ELSE Q.state[r]] = f
      BY <2>2, <2>3, <2>4 DEF Targets
    <3>3. [Q EXCEPT !.state = f, !.sub = @ \ settled] = R
      <4>1. PICK re, su, rc : re = Q.reason /\ su = Q.sub /\ rc = Q.received
        OBVIOUS
      <4>2. Q = [at |-> "active", reason |-> re, sub |-> su, received |-> rc, state |-> st]
        BY <3>1, <4>1
      <4>3. R = [at |-> "active", reason |-> re, sub |-> su \ settled, received |-> rc,
                 state |-> f]
        BY <2>5, <4>1
      <4>4. PICK P : P = [Q EXCEPT !.state = f]
        OBVIOUS
      <4>5. P = [at |-> "active", reason |-> re, sub |-> su, received |-> rc, state |-> f]
        BY <4>2, <4>4
      <4>6. [P EXCEPT !.sub = su \ settled] = R
        BY <4>3, <4>5
      <4>7. [Q EXCEPT !.state = f, !.sub = @ \ settled] = [P EXCEPT !.sub = su \ settled]
        BY <4>2, <4>4
      <4>8. QED BY <4>6, <4>7
    <3>4. QED BY <3>2, <3>3
  <2>7. SettleTargets(Q, end, n) = MaybeFinish(R, n)
    BY <1>2, <2>1, <2>6 DEF SettleTargets
  <2>8. /\ R.at = "active" /\ R.sub = Q.sub \ settled /\ R.state = f /\ DOMAIN f = T
    BY <2>4, <2>5
  <2>9. QueryShape(R)
    <3>1. f \in [T -> States]
      BY <2>1, <2>3, <2>4 DEF States
    <3>2. R.reason = Q.reason /\ R.received = Q.received
      BY <2>5
    <3>3. T \subseteq Relays
      BY <2>2 DEF QueryGood, QueryShape, Targets
    <3>4. QED BY <3>1, <3>2, <3>3, <2>5, <2>8 DEF QueryShape, Targets
  <2>10. ActiveGood(R, attempts, events)
    <3>1. ActiveGood(Q, attempts, events)
      BY <1>2 DEF QueryGood
    <3>2. ASSUME NEW r \in T PROVE Earned(r, f[r], attempts, events)
      <4>1. Earned(r, st[r], attempts, events)
        BY <3>1, <2>2, <2>3 DEF ActiveGood, Targets
      <4>2. CASE r \in settled
        <5>1. f[r] = end[r] /\ r \in DOMAIN end
          BY <4>2, <2>1, <2>4
        <5>2. QED BY <5>1
      <4>3. CASE r \notin settled
        BY <4>1, <4>3, <2>4
      <4>4. QED BY <4>2, <4>3
    <3>3. ASSUME NEW r \in Q.sub \ settled PROVE r \in T /\ f[r] = "open"
      <4>1. r \in T /\ st[r] = "open"
        BY <3>1, <2>2, <2>3 DEF ActiveGood, Unsettled, Targets
      <4>2. QED BY <4>1, <3>3, <2>4
    <3>4. QED BY <3>2, <3>3, <2>8 DEF ActiveGood, Unsettled, Targets
  <2>11. QueryGood(R, attempts, events)
    BY <2>8, <2>9, <2>10 DEF QueryGood
  <2>12. CASE Unsettled(R) = {}
    <3>1. PICK reason : reason = "settled"
      OBVIOUS
    <3>2. QueryGood(Finish(R, reason, n), attempts, events)
      BY <2>9, <2>10, <2>12, FinishGood
    <3>3. QED BY <3>1, <3>2, <2>7, <2>12 DEF MaybeFinish
  <2>13. CASE Unsettled(R) # {}
    BY <2>13, <2>7, <2>11 DEF MaybeFinish
  <2>14. QED BY <2>12, <2>13
<1>3. QED BY <1>1, <1>2

\* What was said of settled attempts stays true.
LEMMA GoodStays ==
  ASSUME NEW Q, NEW attempts, NEW events, QueryGood(Q, attempts, events),
         NEW later,
         \A r \in Relays : attempts[r] = "timed-out" => later[r] = "timed-out"
  PROVE  QueryGood(Q, later, events)
BY DEF QueryGood, QueryShape, ActiveGood, DoneGood, Earned

\* Queries go on as they are.
LEMMA QueriesStay ==
  ASSUME SessionInv, UNCHANGED <<query, got>>,
         \A r \in Relays : attempt[r] = "timed-out" => attempt'[r] = "timed-out",
         attempt' \in [Relays -> Settled \cup {"none", "pending"}]
  PROVE  \A q \in Queries : QueryGood(query[q], attempt, got[q])'
<1> SUFFICES ASSUME NEW q \in Queries PROVE QueryGood(query[q], attempt', got[q])
  OBVIOUS
<1>1. PICK before, later, Q, events :
        before = attempt /\ later = attempt' /\ Q = query[q] /\ events = got[q]
  OBVIOUS
<1>2. QueryGood(Q, before, events)
  BY <1>1 DEF SessionInv
<1>3. QueryGood(Q, later, events)
  BY <1>1, <1>2, GoodStays
<1>4. QED BY <1>1, <1>3

LEMMA RecordsStay ==
  ASSUME SessionInv, UNCHANGED <<phase, closed, attempt, socket, held, ensure>>
  PROVE  ConnectionsHeld' /\ WaitersHaveReason'
BY DEF SessionInv, ConnectionsHeld, WaitersHaveReason

\* One query changes, and stays good.
LEMMA OneQueryChanges ==
  ASSUME SessionInv, NEW q \in Queries, NEW Q, QueryGood(Q, attempt, got[q]),
         query' = [query EXCEPT ![q] = Q],
         UNCHANGED <<phase, closed, attempt, socket, held, ensure, got>>
  PROVE  SessionInv'
<1>1. query = [p \in Queries |-> query[p]]
  BY DEF SessionInv, StatesTyped
<1>2. /\ query' = [p \in Queries |-> query'[p]]
      /\ query'[q] = Q /\ \A p \in Queries : p # q => query'[p] = query[p]
  BY <1>1
<1>3. ASSUME NEW p \in Queries PROVE QueryGood(query'[p], attempt, got[p])
  BY <1>2 DEF SessionInv
<1>4. \A p \in Queries : QueryGood(query[p], attempt, got[p])'
  BY <1>3
<1>5. StatesTyped'
  BY <1>2 DEF SessionInv, StatesTyped
<1>6. QED BY <1>4, <1>5, RecordsStay DEF SessionInv

LEMMA EventKeeps ==
  ASSUME SessionInv, NEW q \in Queries, NEW r \in Relays, Event(q, r)
  PROVE  SessionInv'
<1>1. /\ query[q].at = "active" /\ r \in query[q].sub /\ got[q][r] < Stored
      /\ got' = [got EXCEPT ![q][r] = @ + 1]
      /\ UNCHANGED <<phase, closed, attempt, socket, held, ensure, query>>
  BY DEF Event
<1>2. /\ got' \in [Queries -> [Relays -> Nat]]
      /\ \A p \in Queries : p # q => got'[p] = got[p]
      /\ \A s \in Relays : s # r => got'[q][s] = got[q][s]
  BY <1>1 DEF SessionInv, StatesTyped
<1>3. ASSUME NEW p \in Queries PROVE QueryGood(query[p], attempt, got'[p])
  <2>1. QueryGood(query[p], attempt, got[p])
    BY DEF SessionInv
  <2>2. CASE p # q
    BY <2>1, <2>2, <1>2
  <2>3. CASE p = q
    <3>1. PICK Q : Q = query[q]
      OBVIOUS
    <3>2. PICK before, after : before = got[q] /\ after = got'[q]
      OBVIOUS
    <3>3. QueryGood(Q, attempt, before) /\ Q.at = "active" /\ r \in Q.sub
      BY <1>1, <2>1, <2>3, <3>1, <3>2
    <3>4. Q.state[r] = "open"
      BY <3>3 DEF QueryGood, ActiveGood, Unsettled
    <3>5. \A s \in Targets(Q) : s # r => after[s] = before[s]
      BY <1>2, <3>2, <3>3 DEF QueryGood, QueryShape
    <3>6. ActiveGood(Q, attempt, after)
      <4>1. ASSUME NEW s \in Targets(Q) PROVE Earned(s, Q.state[s], attempt, after)
        <5>1. Earned(s, Q.state[s], attempt, before)
          BY <3>3 DEF QueryGood, ActiveGood
        <5>2. QED BY <5>1, <3>4, <3>5 DEF Earned
      <4>2. QED BY <4>1, <3>3 DEF QueryGood, ActiveGood
    <3>7. QueryGood(Q, attempt, after)
      BY <3>3, <3>6 DEF QueryGood
    <3>8. QED BY <3>1, <3>2, <3>7, <2>3
  <2>4. QED BY <2>2, <2>3
<1>4. \A p \in Queries : QueryGood(query[p], attempt, got[p])'
  BY <1>1, <1>3
<1>5. StatesTyped'
  BY <1>1, <1>2 DEF SessionInv, StatesTyped
<1>6. QED BY <1>1, <1>4, <1>5, RecordsStay DEF SessionInv

LEMMA EndTargetKeeps ==
  ASSUME SessionInv, NEW q \in Queries, NEW r \in Relays, NEW state \in {"eose", "closed"},
         state = "eose" => got[q][r] = Stored,
         EndTarget(q, r, state)
  PROVE  SessionInv'
<1>1. /\ query' = [query EXCEPT ![q] =
                     SettleTargets(query[q], [s \in {r} |-> state], Received(q))]
      /\ UNCHANGED <<phase, closed, attempt, socket, held, ensure, got>>
  BY DEF EndTarget
<1>2. PICK end : end = [s \in {r} |-> state]
  OBVIOUS
<1>3. PICK n : n = Received(q)
  OBVIOUS
<1>4. PICK Q, attempts, events : Q = query[q] /\ attempts = attempt /\ events = got[q]
  OBVIOUS
<1>5. QueryGood(Q, attempts, events)
  BY <1>4 DEF SessionInv
<1>6. n = SumFunctionOnSet(events, Relays)
  BY <1>3, <1>4 DEF Received
<1>7. ASSUME NEW s \in DOMAIN end
      PROVE  end[s] \in TargetEnd /\ Earned(s, end[s], attempts, events)
  <2>1. s = r /\ end[s] = state
    BY <1>2
  <2>2. QED BY <2>1, <1>4 DEF TargetEnd, Earned
<1>8. QueryGood(SettleTargets(Q, end, n), attempts, events)
  BY <1>5, <1>6, <1>7, SettleGood
<1>9. PICK R : R = SettleTargets(Q, end, n)
  OBVIOUS
<1>10. query' = [query EXCEPT ![q] = R]
  BY <1>1, <1>2, <1>3, <1>4, <1>9
<1>11. QueryGood(R, attempt, got[q])
  BY <1>4, <1>8, <1>9
<1>12. QED BY <1>1, <1>10, <1>11, OneQueryChanges

LEMMA EndQueryKeeps ==
  ASSUME SessionInv, NEW q \in Queries, NEW reason \in {"deadline", "cancelled"},
         EndQuery(q, reason)
  PROVE  SessionInv'
<1>1. /\ query[q].at = "active"
      /\ query' = [query EXCEPT ![q] = Finish(query[q], reason, Received(q))]
      /\ UNCHANGED <<phase, closed, attempt, socket, held, ensure, got>>
  BY DEF EndQuery
<1>2. PICK n : n = Received(q)
  OBVIOUS
<1>3. PICK Q, attempts, events : Q = query[q] /\ attempts = attempt /\ events = got[q]
  OBVIOUS
<1>4. QueryShape(Q) /\ ActiveGood(Q, attempts, events)
  BY <1>1, <1>3 DEF SessionInv, QueryGood
<1>5. n = SumFunctionOnSet(events, Relays)
  BY <1>2, <1>3 DEF Received
<1>6. reason = "settled" => Unsettled(Q) = {}
  OBVIOUS
<1>7. QueryGood(Finish(Q, reason, n), attempts, events)
  BY <1>4, <1>5, <1>6, FinishGood
<1>8. PICK R : R = Finish(Q, reason, n)
  OBVIOUS
<1>9. query' = [query EXCEPT ![q] = R]
  BY <1>1, <1>2, <1>3, <1>8
<1>10. QueryGood(R, attempt, got[q])
  BY <1>3, <1>7, <1>8
<1>11. QED BY <1>1, <1>9, <1>10, OneQueryChanges

\* A new query: no target has a state but those its relay's attempt gives it.
LEMMA QueryKeeps ==
  ASSUME SessionInv, NEW q \in Queries, NEW targets \in SUBSET Relays, Query(q, targets)
  PROVE  SessionInv'
<1>1. PICK subs : subs = {r \in targets : Subscribable(r)}
  OBVIOUS
<1>2. PICK st : st = [r \in targets |-> "open"]
  OBVIOUS
<1>3. PICK open : open = [at |-> "active", reason |-> "none", sub |-> subs, received |-> 0,
                          state |-> st]
  OBVIOUS
<1>4. [NoQuery EXCEPT !.at = "active", !.state = [r \in targets |-> "open"],
                      !.sub = {r \in targets : Subscribable(r)}] = open
  <2>1. PICK nothing : nothing = [r \in {} |-> "open"]
    OBVIOUS
  <2>2. NoQuery = [at |-> "idle", reason |-> "none", sub |-> {}, received |-> 0,
                   state |-> nothing]
    BY <2>1 DEF NoQuery
  <2>3. PICK P : P = [NoQuery EXCEPT !.at = "active"]
    OBVIOUS
  <2>4. P = [at |-> "active", reason |-> "none", sub |-> {}, received |-> 0,
             state |-> nothing]
    BY <2>2, <2>3
  <2>5. PICK R : R = [P EXCEPT !.state = st]
    OBVIOUS
  <2>6. R = [at |-> "active", reason |-> "none", sub |-> {}, received |-> 0, state |-> st]
    BY <2>4, <2>5
  <2>7. [R EXCEPT !.sub = subs] = open
    BY <2>6, <1>3
  <2>8. [NoQuery EXCEPT !.at = "active", !.state = st, !.sub = subs] = [R EXCEPT !.sub = subs]
    BY <2>2, <2>3, <2>5
  <2>9. QED BY <2>7, <2>8, <1>1, <1>2
<1>5. PICK ends : ends = [r \in {s \in targets : ~Subscribable(s) /\ attempt[s] # "pending"} |->
                            StateOfAttempt(r)]
  OBVIOUS
<1>6. PICK n : n = Received(q)
  OBVIOUS
<1>7. PICK R : R = CASE targets = {} -> Finish(open, "settled", n)
                     [] targets # {} /\ closed -> Finish(open, "cancelled", n)
                     [] OTHER -> SettleTargets(open, ends, n)
  OBVIOUS
<1>8. /\ query' = [query EXCEPT ![q] = R]
      /\ UNCHANGED <<phase, closed, attempt, socket, held, ensure, got>>
  BY <1>4, <1>5, <1>6, <1>7 DEF Query
<1>9. PICK attempts, events : attempts = attempt /\ events = got[q]
  OBVIOUS
<1>10. n = SumFunctionOnSet(events, Relays)
  BY <1>6, <1>9 DEF Received
<1>11. /\ open.at = "active" /\ open.reason = "none" /\ open.sub = subs /\ open.received = 0
       /\ open.state = st
  BY <1>3
<1>12. DOMAIN st = targets /\ st \in [targets -> States] /\ \A r \in targets : st[r] = "open"
  BY <1>2 DEF States
<1>13. QueryShape(open)
  BY <1>3, <1>11, <1>12 DEF QueryShape, Targets
<1>14. ActiveGood(open, attempts, events)
  <2>1. Unsettled(open) = targets
    BY <1>11, <1>12 DEF Unsettled, Targets
  <2>2. subs \subseteq targets
    BY <1>1
  <2>3. QED BY <2>1, <2>2, <1>11, <1>12 DEF ActiveGood, Earned, Targets
<1>15. QueryGood(open, attempts, events)
  BY <1>11, <1>13, <1>14 DEF QueryGood
<1>16. QueryGood(R, attempts, events)
  <2>1. CASE targets = {}
    <3>1. PICK reason : reason = "settled"
      OBVIOUS
    <3>2. Unsettled(open) = {}
      BY <2>1, <1>11, <1>12 DEF Unsettled, Targets
    <3>3. QueryGood(Finish(open, reason, n), attempts, events)
      BY <3>2, <1>10, <1>13, <1>14, FinishGood
    <3>4. QED BY <3>1, <3>3, <2>1, <1>7
  <2>2. CASE targets # {} /\ closed
    <3>1. PICK reason : reason = "cancelled"
      OBVIOUS
    <3>2. reason # "settled"
      BY <3>1
    <3>3. QueryGood(Finish(open, reason, n), attempts, events)
      BY <3>2, <1>10, <1>13, <1>14, FinishGood
    <3>4. QED BY <3>1, <3>3, <2>2, <1>7
  <2>3. CASE targets # {} /\ ~closed
    <3>1. ASSUME NEW r \in DOMAIN ends
          PROVE  ends[r] \in TargetEnd /\ Earned(r, ends[r], attempts, events)
      <4>1. /\ r \in Relays /\ ~Subscribable(r) /\ attempt[r] # "pending"
            /\ ends[r] = StateOfAttempt(r)
        BY <1>5
      <4>2. attempt[r] \in Settled \cup {"none"}
        BY <4>1 DEF SessionInv, StatesTyped
      <4>3. attempt[r] = "connected" => r \in held
        BY <2>3, <4>1 DEF SessionInv, ConnectionsHeld
      <4>4. CASE r \in held
        <5>1. ends[r] = "closed"
          BY <4>1, <4>4 DEF StateOfAttempt
        <5>2. QED BY <5>1 DEF TargetEnd, Earned
      <4>5. CASE r \notin held /\ attempt[r] = "none"
        <5>1. ends[r] = "connect-failed"
          BY <4>1, <4>5 DEF StateOfAttempt
        <5>2. QED BY <5>1 DEF TargetEnd, Earned
      <4>6. CASE r \notin held /\ attempt[r] \in {"connect-failed", "cancelled"}
        <5>1. ends[r] = attempt[r]
          BY <4>1, <4>6 DEF StateOfAttempt
        <5>2. QED BY <5>1, <4>6 DEF TargetEnd, Earned
      <4>7. CASE r \notin held /\ attempt[r] = "timed-out"
        <5>1. ends[r] = "timed-out"
          BY <4>1, <4>7 DEF StateOfAttempt
        <5>2. QED BY <5>1, <4>7, <1>9 DEF TargetEnd, Earned
      <4>8. QED BY <4>2, <4>3, <4>4, <4>5, <4>6, <4>7 DEF Settled
    <3>2. QueryGood(SettleTargets(open, ends, n), attempts, events)
      BY <3>1, <1>10, <1>15, SettleGood
    <3>3. R = SettleTargets(open, ends, n)
      BY <2>3, <1>7
    <3>4. QED BY <3>2, <3>3
  <2>4. QED BY <2>1, <2>2, <2>3
<1>17. QueryGood(R, attempt, got[q])
  BY <1>9, <1>16
<1>18. QED BY <1>8, <1>17, OneQueryChanges

----------------------------------------------------------------------------
(* Attempts *)

\* An ensureRelays call that still waits has a pending attempt.
LEMMA ReturnedGood ==
  ASSUME SessionInv, NEW attempts, ensure' = Returned(attempts), attempt' = attempts
  PROVE  /\ ensure' \in [Ensures -> [at : {"idle", "waiting", "returned"}, relays : SUBSET Relays]]
         /\ WaitersHaveReason'
<1>1. PICK calls \in [Ensures -> [at : {"idle", "waiting", "returned"}, relays : SUBSET Relays]] :
        calls = ensure
  BY DEF SessionInv, StatesTyped
<1>2. ASSUME NEW e \in Ensures
      PROVE  /\ ensure'[e] \in [at : {"idle", "waiting", "returned"}, relays : SUBSET Relays]
             /\ ensure'[e].at = "waiting" => \E r \in ensure'[e].relays : attempts[r] = "pending"
  <2>1. PICK c \in [at : {"idle", "waiting", "returned"}, relays : SUBSET Relays] : c = ensure[e]
    BY <1>1
  <2>2. PICK d : d = [c EXCEPT !.at = "returned"]
    OBVIOUS
  <2>3. d \in [at : {"idle", "waiting", "returned"}, relays : SUBSET Relays] /\ d.at = "returned"
    BY <2>2
  <2>4. ensure'[e] = IF c.at = "waiting" /\ {r \in c.relays : attempts[r] = "pending"} = {}
                     THEN d ELSE c
    BY <2>1, <2>2 DEF Returned, Waiting
  <2>5. QED BY <2>3, <2>4
<1>3. ensure' = [e \in Ensures |-> ensure'[e]]
  BY DEF Returned
<1>4. ensure' \in [Ensures -> [at : {"idle", "waiting", "returned"}, relays : SUBSET Relays]]
  BY <1>2, <1>3
<1>5. QED BY <1>2, <1>4 DEF WaitersHaveReason

\* An attempt that is settled for the first time: what waited for it is told.
LEMMA SettleKeeps ==
  ASSUME SessionInv, NEW r \in Relays, attempt[r] = "pending",
         NEW state \in {"connected", "connect-failed", "timed-out"},
         Settle(r, state), got' = got
  PROVE  /\ attempt' \in [Relays -> Settled \cup {"none", "pending"}]
         /\ attempt'[r] = state /\ \A s \in Relays : s # r => attempt'[s] = attempt[s]
         /\ ensure' \in [Ensures -> [at : {"idle", "waiting", "returned"}, relays : SUBSET Relays]]
         /\ WaitersHaveReason'
         /\ query' = [q \in Queries |-> query'[q]]
         /\ \A q \in Queries : QueryGood(query[q], attempt, got[q])'
<1>1. /\ attempt' = [attempt EXCEPT ![r] = state]
      /\ ensure' = Returned(attempt')
      /\ query' = Woken(r, state, state = "connected")
  BY DEF Settle
<1>2. /\ attempt' \in [Relays -> Settled \cup {"none", "pending"}]
      /\ attempt'[r] = state /\ \A s \in Relays : s # r => attempt'[s] = attempt[s]
  BY <1>1 DEF SessionInv, StatesTyped, Settled
<1>3. PICK attempts : attempts = attempt'
  OBVIOUS
<1>4. ensure' = Returned(attempts)
  BY <1>1, <1>3
<1>5. /\ ensure' \in [Ensures -> [at : {"idle", "waiting", "returned"}, relays : SUBSET Relays]]
      /\ WaitersHaveReason'
  BY <1>3, <1>4, ReturnedGood
<1>6. ASSUME NEW q \in Queries PROVE QueryGood(query'[q], attempts, got[q])
  <2>1. PICK Q, events, before : Q = query[q] /\ events = got[q] /\ before = attempt
    OBVIOUS
  <2>2. QueryGood(Q, before, events)
    BY <2>1 DEF SessionInv
  <2>3. \A s \in Relays : before[s] = "timed-out" => attempts[s] = "timed-out"
    BY <1>2, <1>3, <2>1
  <2>4. QueryGood(Q, attempts, events)
    BY <2>2, <2>3, GoodStays
  <2>5. PICK n : n = Received(q)
    OBVIOUS
  <2>6. n = SumFunctionOnSet(events, Relays)
    BY <2>1, <2>5 DEF Received
  <2>7. PICK end : end = [s \in {r} |-> state]
    OBVIOUS
  <2>8. query'[q] = IF Q.at = "active" /\ r \in Unsettled(Q) \ Q.sub
                    THEN IF state = "connected" THEN [Q EXCEPT !.sub = @ \cup {r}]
                         ELSE SettleTargets(Q, end, n)
                    ELSE Q
    BY <1>1, <2>1, <2>5, <2>7 DEF Woken
  <2>9. CASE Q.at = "active" /\ r \in Unsettled(Q) \ Q.sub /\ state = "connected"
    <3>1. PICK re, su, rc, st : re = Q.reason /\ su = Q.sub /\ rc = Q.received /\ st = Q.state
      OBVIOUS
    <3>2. Q = [at |-> "active", reason |-> re, sub |-> su, received |-> rc, state |-> st]
      BY <2>4, <2>9, <3>1 DEF QueryGood, QueryShape
    <3>3. PICK R : R = [Q EXCEPT !.sub = @ \cup {r}]
      OBVIOUS
    <3>4. R = [at |-> "active", reason |-> re, sub |-> su \cup {r}, received |-> rc, state |-> st]
      BY <3>2, <3>3
    <3>5. R.at = "active" /\ R.reason = re /\ R.sub = su \cup {r} /\ R.received = rc /\ R.state = st
      BY <3>4
    <3>6. Targets(R) = Targets(Q) /\ Unsettled(R) = Unsettled(Q)
      BY <3>1, <3>5 DEF Targets, Unsettled
    <3>7. QueryShape(R)
      BY <2>4, <3>1, <3>4, <3>5, <3>6 DEF QueryGood, QueryShape
    <3>8. ActiveGood(R, attempts, events)
      BY <2>4, <2>9, <3>1, <3>5, <3>6 DEF QueryGood, ActiveGood
    <3>9. QueryGood(R, attempts, events)
      BY <3>5, <3>7, <3>8 DEF QueryGood
    <3>10. QED BY <2>1, <2>8, <2>9, <3>3, <3>9
  <2>10. CASE Q.at = "active" /\ r \in Unsettled(Q) \ Q.sub /\ state # "connected"
    <3>1. ASSUME NEW s \in DOMAIN end
          PROVE  end[s] \in TargetEnd /\ Earned(s, end[s], attempts, events)
      <4>1. s = r /\ end[s] = state /\ attempts[r] = state
        BY <1>2, <1>3, <2>7
      <4>2. QED BY <4>1, <2>10 DEF TargetEnd, Earned
    <3>2. QueryGood(SettleTargets(Q, end, n), attempts, events)
      BY <3>1, <2>4, <2>6, SettleGood
    <3>3. QED BY <3>2, <2>1, <2>8, <2>10
  <2>11. CASE ~(Q.at = "active" /\ r \in Unsettled(Q) \ Q.sub)
    BY <2>1, <2>4, <2>8, <2>11
  <2>12. QED BY <2>9, <2>10, <2>11
<1>7. \A q \in Queries : QueryGood(query[q], attempt, got[q])'
  BY <1>3, <1>6
<1>8. query' = [q \in Queries |-> query'[q]]
  BY <1>1 DEF Woken
<1>9. QED BY <1>2, <1>5, <1>7, <1>8

LEMMA PendingIsOpen ==
  ASSUME SessionInv, NEW r \in Relays, attempt[r] = "pending"
  PROVE  ~closed /\ phase # "returned"
BY DEF SessionInv, ConnectionsHeld

LEMMA ConnectedKeeps ==
  ASSUME SessionInv, NEW r \in Relays, Connected(r)
  PROVE  SessionInv'
<1>1. CASE attempt[r] = "pending"
  <2>1. /\ Settle(r, "connected") /\ held' = held \cup {r}
        /\ socket' = [socket EXCEPT ![r] = "open"]
        /\ phase' = phase /\ closed' = closed /\ got' = got
    BY <1>1 DEF Connected
  <2>2. PICK state \in {"connected", "connect-failed", "timed-out"} : state = "connected"
    OBVIOUS
  <2>3. Settle(r, state)
    BY <2>1, <2>2
  <2>4. /\ attempt' \in [Relays -> Settled \cup {"none", "pending"}]
        /\ attempt'[r] = state /\ \A s \in Relays : s # r => attempt'[s] = attempt[s]
        /\ ensure' \in [Ensures -> [at : {"idle", "waiting", "returned"}, relays : SUBSET Relays]]
        /\ WaitersHaveReason'
        /\ query' = [q \in Queries |-> query'[q]]
        /\ \A q \in Queries : QueryGood(query[q], attempt, got[q])'
    BY <1>1, <2>1, <2>3, SettleKeeps
  <2>5. StatesTyped'
    BY <2>1, <2>4 DEF SessionInv, StatesTyped
  <2>6. ~closed /\ phase # "returned"
    BY <1>1, PendingIsOpen
  <2>7. ConnectionsHeld'
    BY <2>1, <2>4, <2>6 DEF SessionInv, StatesTyped, ConnectionsHeld
  <2>8. QED BY <2>4, <2>5, <2>7 DEF SessionInv
<1>2. CASE attempt[r] # "pending"
  <2>1. /\ socket' = [socket EXCEPT ![r] = "closed"]
        /\ UNCHANGED <<attempt, held, ensure, query, phase, closed, got>>
    BY <1>2 DEF Connected
  <2>2. StatesTyped'
    BY <2>1 DEF SessionInv, StatesTyped
  <2>3. ConnectionsHeld'
    BY <2>1 DEF SessionInv, StatesTyped, ConnectionsHeld
  <2>4. \A q \in Queries : QueryGood(query[q], attempt, got[q])'
    BY <2>1, <2>2, QueriesStay DEF StatesTyped
  <2>5. WaitersHaveReason'
    BY <2>1 DEF SessionInv, WaitersHaveReason
  <2>6. QED BY <2>2, <2>3, <2>4, <2>5 DEF SessionInv
<1>3. QED BY <1>1, <1>2

LEMMA ConnectFailsKeeps ==
  ASSUME SessionInv, NEW r \in Relays, ConnectFails(r)
  PROVE  SessionInv'
<1>1. /\ socket' = [socket EXCEPT ![r] = "none"]
      /\ phase' = phase /\ closed' = closed /\ held' = held /\ got' = got
  BY DEF ConnectFails
<1>2. CASE attempt[r] = "pending"
  <2>1. PICK state \in {"connected", "connect-failed", "timed-out"} : state = "connect-failed"
    OBVIOUS
  <2>2. Settle(r, state)
    BY <1>2, <2>1 DEF ConnectFails
  <2>3. /\ attempt' \in [Relays -> Settled \cup {"none", "pending"}]
        /\ attempt'[r] = state /\ \A s \in Relays : s # r => attempt'[s] = attempt[s]
        /\ ensure' \in [Ensures -> [at : {"idle", "waiting", "returned"}, relays : SUBSET Relays]]
        /\ WaitersHaveReason'
        /\ query' = [q \in Queries |-> query'[q]]
        /\ \A q \in Queries : QueryGood(query[q], attempt, got[q])'
    BY <1>1, <1>2, <2>2, SettleKeeps
  <2>4. StatesTyped'
    BY <1>1, <2>3 DEF SessionInv, StatesTyped
  <2>5. ~closed
    BY <1>2, PendingIsOpen
  <2>6. ConnectionsHeld'
    BY <1>1, <2>1, <2>3, <2>5 DEF SessionInv, StatesTyped, ConnectionsHeld
  <2>7. QED BY <2>3, <2>4, <2>6 DEF SessionInv
<1>3. CASE attempt[r] # "pending"
  <2>1. UNCHANGED <<attempt, ensure, query>>
    BY <1>3 DEF ConnectFails
  <2>2. StatesTyped'
    BY <1>1, <2>1 DEF SessionInv, StatesTyped
  <2>3. ConnectionsHeld'
    BY <1>1, <2>1 DEF SessionInv, StatesTyped, ConnectionsHeld
  <2>4. \A q \in Queries : QueryGood(query[q], attempt, got[q])'
    BY <1>1, <2>1, <2>2, QueriesStay DEF StatesTyped
  <2>5. WaitersHaveReason'
    BY <2>1 DEF SessionInv, WaitersHaveReason
  <2>6. QED BY <2>2, <2>3, <2>4, <2>5 DEF SessionInv
<1>4. QED BY <1>2, <1>3

LEMMA ConnectDeadlineKeeps ==
  ASSUME SessionInv, NEW e \in Ensures, NEW r \in Relays, ConnectDeadline(e, r)
  PROVE  SessionInv'
<1>1. /\ attempt[r] = "pending" /\ Settle(r, "timed-out")
      /\ UNCHANGED <<phase, closed, socket, held, got>>
  BY DEF ConnectDeadline, Waiting
<1>2. PICK state \in {"connected", "connect-failed", "timed-out"} : state = "timed-out"
  OBVIOUS
<1>3. Settle(r, state)
  BY <1>1, <1>2
<1>4. /\ attempt' \in [Relays -> Settled \cup {"none", "pending"}]
      /\ attempt'[r] = state /\ \A s \in Relays : s # r => attempt'[s] = attempt[s]
      /\ ensure' \in [Ensures -> [at : {"idle", "waiting", "returned"}, relays : SUBSET Relays]]
      /\ WaitersHaveReason'
      /\ query' = [q \in Queries |-> query'[q]]
      /\ \A q \in Queries : QueryGood(query[q], attempt, got[q])'
  BY <1>1, <1>3, SettleKeeps
<1>5. StatesTyped'
  BY <1>1, <1>4 DEF SessionInv, StatesTyped
<1>6. ConnectionsHeld'
  BY <1>1, <1>2, <1>4, PendingIsOpen DEF SessionInv, StatesTyped, ConnectionsHeld
<1>7. QED BY <1>4, <1>5, <1>6 DEF SessionInv

LEMMA EnsureKeeps ==
  ASSUME SessionInv, NEW relays \in SUBSET Relays, Ensure(relays)
  PROVE  SessionInv'
<1>1. PICK dialed : dialed = IF closed THEN {} ELSE {r \in relays : attempt[r] = "none"}
  OBVIOUS
<1>2. PICK at \in {"waiting", "returned"} :
        /\ at = IF \E r \in relays : r \in dialed \/ attempt[r] = "pending"
                THEN "waiting" ELSE "returned"
        /\ attempt' = [r \in Relays |-> IF r \in dialed THEN "pending" ELSE attempt[r]]
        /\ socket' = [r \in Relays |-> IF r \in dialed THEN "dialing" ELSE socket[r]]
        /\ ensure' = [ensure EXCEPT !["hinted"] = [at |-> at, relays |-> relays]]
        /\ phase = "running"
        /\ UNCHANGED <<phase, closed, held, query, got>>
  BY <1>1 DEF Ensure
<1>3. \A r \in dialed : r \in Relays /\ attempt[r] = "none" /\ ~closed
  BY <1>1
<1>4. PICK call : call = [at |-> at, relays |-> relays]
  OBVIOUS
<1>5. /\ call \in [at : {"idle", "waiting", "returned"}, relays : SUBSET Relays]
      /\ call.at = at /\ call.relays = relays
  BY <1>4
<1>6. ensure' = [ensure EXCEPT !["hinted"] = call]
  BY <1>2, <1>4
<1>7. /\ ensure' \in [Ensures -> [at : {"idle", "waiting", "returned"}, relays : SUBSET Relays]]
      /\ ensure'["hinted"] = call
      /\ \A e \in Ensures : e # "hinted" => ensure'[e] = ensure[e]
  BY <1>5, <1>6 DEF SessionInv, StatesTyped, Ensures
<1>8. \A r \in Relays : attempt'[r] = IF r \in dialed THEN "pending" ELSE attempt[r]
  BY <1>2
<1>9. /\ attempt' \in [Relays -> Settled \cup {"none", "pending"}]
      /\ socket' \in [Relays -> {"none", "dialing", "open", "dropped", "closed"}]
  BY <1>2 DEF SessionInv, StatesTyped
<1>10. StatesTyped'
  BY <1>2, <1>7, <1>9 DEF SessionInv, StatesTyped
<1>11. ConnectionsHeld'
  BY <1>2, <1>3 DEF SessionInv, ConnectionsHeld
<1>12. ASSUME NEW e \in Ensures, ensure'[e].at = "waiting"
       PROVE  \E r \in ensure'[e].relays : attempt'[r] = "pending"
  <2>1. CASE e = "hinted"
    <3>1. at = "waiting"
      BY <2>1, <1>5, <1>7, <1>12
    <3>2. PICK r \in relays : r \in dialed \/ attempt[r] = "pending"
      BY <3>1, <1>2
    <3>3. attempt'[r] = "pending"
      BY <3>2, <1>8
    <3>4. QED BY <3>3, <2>1, <1>5, <1>7
  <2>2. CASE e # "hinted"
    <3>1. ensure'[e] = ensure[e]
      BY <2>2, <1>7
    <3>2. PICK r \in ensure[e].relays : attempt[r] = "pending"
      BY <3>1, <1>12 DEF SessionInv, WaitersHaveReason
    <3>3. r \in Relays
      BY DEF SessionInv, StatesTyped
    <3>4. QED BY <3>1, <3>2, <3>3, <1>8
  <2>3. QED BY <2>1, <2>2
<1>13. WaitersHaveReason'
  BY <1>12 DEF WaitersHaveReason
<1>14. \A q \in Queries : QueryGood(query[q], attempt, got[q])'
  BY <1>2, <1>3, <1>8, <1>9, QueriesStay
<1>15. QED BY <1>10, <1>11, <1>13, <1>14 DEF SessionInv

LEMMA RelayDropsKeeps ==
  ASSUME SessionInv, NEW r \in Relays, RelayDrops(r)
  PROVE  SessionInv'
<1>1. PICK end : end = [s \in {r} |-> "closed"]
  OBVIOUS
<1>2. /\ socket' = [socket EXCEPT ![r] = "dropped"]
      /\ query' = [q \in Queries |->
           IF r \in query[q].sub THEN SettleTargets(query[q], end, Received(q)) ELSE query[q]]
      /\ UNCHANGED <<phase, closed, attempt, held, ensure, got>>
  BY <1>1 DEF RelayDrops
<1>3. ASSUME NEW q \in Queries PROVE QueryGood(query'[q], attempt, got[q])
  <2>1. PICK Q, events, attempts, n :
          Q = query[q] /\ events = got[q] /\ attempts = attempt /\ n = Received(q)
    OBVIOUS
  <2>2. QueryGood(Q, attempts, events) /\ n = SumFunctionOnSet(events, Relays)
    BY <2>1 DEF SessionInv, Received
  <2>3. ASSUME NEW s \in DOMAIN end
        PROVE  end[s] \in TargetEnd /\ Earned(s, end[s], attempts, events)
    <3>1. end[s] = "closed"
      BY <1>1
    <3>2. QED BY <3>1 DEF TargetEnd, Earned
  <2>4. QueryGood(SettleTargets(Q, end, n), attempts, events)
    BY <2>2, <2>3, SettleGood
  <2>5. query'[q] = SettleTargets(Q, end, n) \/ query'[q] = Q
    BY <1>2, <2>1
  <2>6. QED BY <2>1, <2>2, <2>4, <2>5
<1>4. \A q \in Queries : QueryGood(query[q], attempt, got[q])'
  BY <1>2, <1>3
<1>5. StatesTyped'
  BY <1>2 DEF SessionInv, StatesTyped
<1>6. ConnectionsHeld'
  BY <1>2 DEF SessionInv, StatesTyped, ConnectionsHeld
<1>7. WaitersHaveReason'
  BY <1>2 DEF SessionInv, WaitersHaveReason
<1>8. QED BY <1>4, <1>5, <1>6, <1>7 DEF SessionInv

----------------------------------------------------------------------------
(* The session *)

LEMMA CloseKeeps ==
  ASSUME SessionInv, Close, got' = got, phase' \in {"opening", "running", "returned"}
  PROVE  SessionInv'
<1>1. /\ closed' = TRUE
      /\ query' = [q \in Queries |->
           IF query[q].at = "active" THEN Finish(query[q], "cancelled", Received(q)) ELSE query[q]]
      /\ attempt' = [r \in Relays |-> IF attempt[r] = "pending" THEN "cancelled" ELSE attempt[r]]
      /\ ensure' = Returned(attempt')
      /\ socket' = [r \in Relays |-> IF r \in held THEN "closed" ELSE socket[r]]
      /\ held' = {}
  BY DEF Close
<1>2. PICK attempts : attempts = attempt'
  OBVIOUS
<1>3. ensure' = Returned(attempts)
  BY <1>1, <1>2
<1>4. /\ ensure' \in [Ensures -> [at : {"idle", "waiting", "returned"}, relays : SUBSET Relays]]
      /\ WaitersHaveReason'
  BY <1>2, <1>3, ReturnedGood
<1>5. attempt' \in [Relays -> Settled \cup {"none", "pending"}]
  BY <1>1 DEF SessionInv, StatesTyped, Settled
<1>6. ASSUME NEW q \in Queries PROVE QueryGood(query'[q], attempts, got[q])
  <2>1. PICK Q, events, before, n, reason :
          /\ Q = query[q] /\ events = got[q] /\ before = attempt /\ n = Received(q)
          /\ reason = "cancelled"
    OBVIOUS
  <2>2. QueryGood(Q, before, events) /\ n = SumFunctionOnSet(events, Relays)
    BY <2>1 DEF SessionInv, Received
  <2>3. \A s \in Relays : before[s] = "timed-out" => attempts[s] = "timed-out"
    BY <1>1, <1>2, <2>1
  <2>4. QueryGood(Q, attempts, events)
    BY <2>2, <2>3, GoodStays
  <2>5. query'[q] = IF Q.at = "active" THEN Finish(Q, reason, n) ELSE Q
    BY <1>1, <2>1
  <2>6. CASE Q.at = "active"
    <3>1. QueryShape(Q) /\ ActiveGood(Q, attempts, events)
      BY <2>4, <2>6 DEF QueryGood
    <3>2. reason = "settled" => Unsettled(Q) = {}
      BY <2>1
    <3>3. QueryGood(Finish(Q, reason, n), attempts, events)
      BY <2>2, <3>1, <3>2, FinishGood
    <3>4. QED BY <3>3, <2>1, <2>5, <2>6
  <2>7. CASE Q.at # "active"
    BY <2>1, <2>4, <2>5, <2>7
  <2>8. QED BY <2>6, <2>7
<1>7. \A q \in Queries : QueryGood(query[q], attempt, got[q])'
  BY <1>2, <1>6
<1>8. /\ socket' \in [Relays -> {"none", "dialing", "open", "dropped", "closed"}]
      /\ held' \in SUBSET Relays
  BY <1>1 DEF SessionInv, StatesTyped
<1>9. StatesTyped'
  BY <1>1, <1>4, <1>5, <1>8 DEF SessionInv, StatesTyped
<1>10. ConnectionsHeld'
  BY <1>1 DEF SessionInv, ConnectionsHeld
<1>11. QED BY <1>4, <1>7, <1>9, <1>10 DEF SessionInv

LEMMA AbortKeeps ==
  ASSUME SessionInv, Abort
  PROVE  SessionInv'
<1>1. Close /\ phase' = phase /\ got' = got
  BY DEF Abort
<1>2. phase' \in {"opening", "running", "returned"}
  BY <1>1 DEF SessionInv, StatesTyped
<1>3. QED BY <1>1, <1>2, CloseKeeps

LEMMA RunKeeps ==
  ASSUME SessionInv, Run
  PROVE  SessionInv'
<1>1. phase' = "running" /\ UNCHANGED <<closed, attempt, socket, held, ensure, query, got>>
  BY DEF Run
<1>2. StatesTyped' /\ ConnectionsHeld' /\ WaitersHaveReason'
  BY <1>1 DEF SessionInv, StatesTyped, ConnectionsHeld, WaitersHaveReason
<1>3. \A q \in Queries : QueryGood(query[q], attempt, got[q])'
  BY <1>1, <1>2, QueriesStay DEF StatesTyped
<1>4. QED BY <1>2, <1>3 DEF SessionInv

LEMMA ReturnKeeps ==
  ASSUME SessionInv, Return
  PROVE  SessionInv'
<1>1. phase' = "returned" /\ got' = got
  BY DEF Return
<1>2. CASE closed
  <2>1. UNCHANGED <<closed, query, attempt, ensure, socket, held>>
    BY <1>2 DEF Return
  <2>2. StatesTyped' /\ ConnectionsHeld' /\ WaitersHaveReason'
    BY <1>1, <1>2, <2>1 DEF SessionInv, StatesTyped, ConnectionsHeld, WaitersHaveReason
  <2>3. \A q \in Queries : QueryGood(query[q], attempt, got[q])'
    BY <1>1, <2>1, <2>2, QueriesStay DEF StatesTyped
  <2>4. QED BY <2>2, <2>3 DEF SessionInv
<1>3. CASE ~closed
  BY <1>1, <1>3, CloseKeeps DEF Return
<1>4. QED BY <1>2, <1>3

LEMMA SessionInit == Init => SessionInv
<1> SUFFICES ASSUME Init PROVE SessionInv
  OBVIOUS
<1>1. StatesTyped
  <2>1. ensure \in [Ensures -> [at : {"idle", "waiting", "returned"}, relays : SUBSET Relays]]
    BY SessionAssumption DEF Init
  <2>2. got \in [Queries -> [Relays -> Nat]]
    BY DEF Init
  <2>3. query = [q \in Queries |-> query[q]]
    BY DEF Init
  <2>4. /\ attempt \in [Relays -> Settled \cup {"none", "pending"}]
        /\ socket \in [Relays -> {"none", "dialing", "open", "dropped", "closed"}]
    BY DEF Init
  <2>5. held \in SUBSET Relays /\ phase \in {"opening", "running", "returned"}
    BY DEF Init
  <2>6. closed \in BOOLEAN
    BY DEF Init
  <2>7. QED BY <2>1, <2>2, <2>3, <2>4, <2>5, <2>6 DEF StatesTyped
<1>2. ConnectionsHeld
  BY DEF Init, ConnectionsHeld
<1>3. WaitersHaveReason
  <2>1. ASSUME NEW e \in Ensures, ensure[e].at = "waiting"
        PROVE  \E r \in ensure[e].relays : attempt[r] = "pending"
    <3>1. e # "hinted" /\ ~closed /\ Configured # {} /\ ensure[e].relays = Configured
      BY <2>1 DEF Init
    <3>2. QED BY <3>1, SessionAssumption DEF Init
  <2>2. QED BY <2>1 DEF WaitersHaveReason
<1>4. ASSUME NEW q \in Queries PROVE QueryGood(query[q], attempt, got[q])
  <2>1. PICK nothing : nothing = [r \in {} |-> "open"]
    OBVIOUS
  <2>2. PICK Q : Q = [at |-> "idle", reason |-> "none", sub |-> {}, received |-> 0,
                      state |-> nothing]
    OBVIOUS
  <2>3. query[q] = Q
    BY <2>1, <2>2 DEF Init, NoQuery
  <2>4. /\ Q.at = "idle" /\ Q.reason = "none" /\ Q.sub = {} /\ Q.received = 0
        /\ Q.state = nothing /\ DOMAIN nothing = {} /\ nothing \in [{} -> States]
    BY <2>1, <2>2
  <2>5. QueryShape(Q)
    BY <2>2, <2>4 DEF QueryShape, Targets
  <2>6. QED BY <2>3, <2>4, <2>5 DEF QueryGood
<1>5. QED BY <1>1, <1>2, <1>3, <1>4 DEF SessionInv

LEMMA SessionStep == SessionInv /\ [Next]_vars => SessionInv'
<1> SUFFICES ASSUME SessionInv, [Next]_vars PROVE SessionInv'
  OBVIOUS
<1>1. CASE \E q \in Queries : QueryNamed(q) \/ QueryAttempted(q)
  <2>1. PICK q \in Queries, targets \in SUBSET Relays : Query(q, targets)
    <3>1. {r \in Relays : attempt[r] # "none"} \in SUBSET Relays
      OBVIOUS
    <3>2. QED BY <1>1, <3>1 DEF QueryNamed, QueryAttempted
  <2>2. QED BY <2>1, QueryKeeps
<1>2. CASE \E q \in Queries : QueryDeadline(q) \/ QueryAborted(q)
  <2>1. PICK q \in Queries, reason \in {"deadline", "cancelled"} : EndQuery(q, reason)
    BY <1>2 DEF QueryDeadline, QueryAborted
  <2>2. QED BY <2>1, EndQueryKeeps
<1>3. CASE \E q \in Queries, r \in Relays : Event(q, r)
  BY <1>3, EventKeeps
<1>4. CASE \E q \in Queries, r \in Relays : Eose(q, r) \/ SubscriptionClosed(q, r)
  <2>1. PICK q \in Queries, r \in Relays, state \in {"eose", "closed"} :
          EndTarget(q, r, state) /\ (state = "eose" => got[q][r] = Stored)
    BY <1>4 DEF Eose, SubscriptionClosed
  <2>2. QED BY <2>1, EndTargetKeeps
<1>5. CASE \E r \in Relays : Connected(r) \/ ConnectFails(r) \/ RelayDrops(r)
  BY <1>5, ConnectedKeeps, ConnectFailsKeeps, RelayDropsKeeps
<1>6. CASE \E e \in Ensures, r \in Relays : ConnectDeadline(e, r)
  BY <1>6, ConnectDeadlineKeeps
<1>7. CASE EnsureHinted
  BY <1>7, EnsureKeeps DEF EnsureHinted
<1>8. CASE Abort \/ Run \/ Return
  BY <1>8, AbortKeeps, RunKeeps, ReturnKeeps
<1>9. CASE UNCHANGED vars
  <2>1. UNCHANGED <<phase, closed, attempt, socket, held, ensure, query, got>>
    BY <1>9 DEF vars
  <2>2. StatesTyped'
    BY <2>1 DEF SessionInv, StatesTyped
  <2>3. \A q \in Queries : QueryGood(query[q], attempt, got[q])'
    BY <2>1, <2>2, QueriesStay DEF StatesTyped
  <2>4. QED BY <2>1, <2>2, <2>3, RecordsStay DEF SessionInv
<1>10. QED BY <1>1, <1>2, <1>3, <1>4, <1>5, <1>6, <1>7, <1>8, <1>9 DEF Next

THEOREM SessionInvariant == Spec => []SessionInv
BY SessionInit, SessionStep, PTL DEF Spec

\* The session's variables keep their types; a connection that comes after its
\* deadline, after an abort or after the callback returned is never left open
\* outside the session's map; and ensureRelays waits for a pending attempt only.
THEOREM SessionTyped == Spec => []SessionTypeOK
<1>1. SessionInv => SessionTypeOK
  <2> SUFFICES ASSUME SessionInv PROVE SessionTypeOK
    OBVIOUS
  <2>1. OpenConnectionsAreHeld
    BY DEF SessionInv, ConnectionsHeld, OpenConnectionsAreHeld
  <2>2. \A e \in Ensures : ensure[e].at = "waiting" => Waiting(e, attempt) # {}
    BY DEF SessionInv, WaitersHaveReason, Waiting
  <2>3. \A q \in Queries : query[q].at = "active" => query[q].sub \subseteq Unsettled(query[q])
    BY DEF SessionInv, QueryGood, ActiveGood
  <2>4. QED BY <2>1, <2>2, <2>3 DEF SessionInv, StatesTyped, SessionTypeOK
<1>2. QED BY SessionInvariant, <1>1, PTL

\* The count, the states and the reason of a query's completion are what
\* happened, whatever deadlines, aborts, drops and late connections came first.
THEOREM SessionCompletionIsTruthful == Spec => []CompletionIsTruthful
<1>1. SessionInv => CompletionIsTruthful
  BY DEF SessionInv, QueryGood, DoneGood, Earned, Received, CompletionIsTruthful
<1>2. QED BY SessionInvariant, <1>1, PTL

=============================================================================

-------------------------- MODULE WiredPostsProofs --------------------------
(***************************************************************************)
(* Proofs about WiredPosts and the publisher it is composed with, for any  *)
(* calls, events, relays and bounds of the evidence.                       *)
(*                                                                         *)
(* The argument: only the first call of the lock's queue is past its turn, *)
(* so its event has no record when it starts to publish and nobody writes  *)
(* one before it does; the row it enrolled stays pending until it settles  *)
(* it; and a row is settled once.                                          *)
(*                                                                         *)
(* The samples of the evidence: those that are still deferred, held by the *)
(* collector, queued, under way or already dropped make up those that were *)
(* recorded. A flush is a fold over the deferred tasks, so that the proof  *)
(* counts by running sums; it loses a sample only when both counters of an *)
(* outcome are full.                                                       *)
(***************************************************************************)
EXTENDS WiredPosts, FiniteSetTheorems, SequenceTheorems, TLAPS

CallStates == [at : {"idle", "queued", "publishing", "stored", "done"},
               event : Events \cup {"none"},
               answer : {"none", "conflict", "error", "unpublished", "published", "lost"}]
Rows == [state : {"none", "pending", "active", "failed"}, signer : Calls \cup {"none"}]
Jobs == [at : {"idle", "running", "done"}, relay : [Relays -> Pending \cup Settlement],
         accepted : SUBSET Relays, outcome : Outcomes \cup {"none"}]
Sockets == [Relays -> {"none", "dialing", "open"}]

Begun == {"publishing", "stored"}
Claims(x) == x.at = "stored" \/ x.answer = "published"

\* A call past its turn is the first in the queue; the queue has no call twice.
LockGood(queued, calls) ==
  /\ queued \in Seq(Calls)
  /\ \A i, j \in DOMAIN queued : queued[i] = queued[j] => i = j
  /\ \A c \in Calls :
       /\ calls[c].at \in {"queued"} \cup Begun <=> \E i \in DOMAIN queued : queued[i] = c
       /\ calls[c].at \in Begun => queued # <<>> /\ Head(queued) = c

\* One call, its job, and what the store and the table have of its event.
CallGood(x, j, records, rows) ==
  /\ x.at # "idle" => x.event \in Events
  /\ x.at \in {"idle", "queued"} => j = NoJob
  /\ x.answer # "none" => x.at = "done"
  /\ j.at = "running" => x.at = "publishing"
  /\ j.at # "done" => j.accepted = {}
  /\ x.at = "publishing" => x.event \notin records
  /\ x.at = "stored" => x.event \in records /\ j.accepted # {}
  /\ x.at \in Begun /\ x.event \in DOMAIN rows => rows[x.event].state = "pending"
  /\ x.answer = "published" =>
       /\ x.event \in records
       /\ x.event \in DOMAIN rows => rows[x.event].state = "active"

\* One row: the call that signed it is past its turn, and an active one has a
\* record and an event that a relay accepted.
Signed(s, e, calls) == s \in Calls /\ calls[s].event = e /\ calls[s].at \notin {"idle", "queued"}
OnRelay(e, calls, jobs) == \E c \in Calls : calls[c].event = e /\ jobs[c].accepted # {}
RowGood(x, e, calls, jobs, records) ==
  /\ x.state # "none" => Signed(x.signer, e, calls)
  /\ x.state = "active" => e \in records /\ OnRelay(e, calls, jobs)

CallsInv ==
  /\ call \in [Calls -> CallStates]
  /\ store \in SUBSET Events
  /\ DOMAIN row \subseteq Events /\ row \in [DOMAIN row -> Rows]
  /\ LockGood(lock, call)
  /\ \A c \in Calls : CallGood(call[c], job[c], store, row)
  /\ \A c, d \in Calls : c # d /\ Claims(call[c]) /\ Claims(call[d]) => call[c].event # call[d].event
  /\ \A e \in DOMAIN row : RowGood(row[e], e, call, job, store)

\* One publication and its connections; those that were closed late have none.
Unused(sockets) == {r \in Relays : sockets[r] = "none"}
ConnGood(j, sockets, n) ==
  /\ j \in Jobs /\ sockets \in Sockets /\ n \in Nat
  /\ j.at = "idle" => n = 0 /\ sockets = [r \in Relays |-> "none"]
  /\ j.at = "done" => j.outcome \in Outcomes
  /\ n <= Cardinality(Unused(sockets))
  /\ \A r \in Relays :
       /\ j.at = "running" /\ j.relay[r] = "dialing" => sockets[r] = "dialing"
       /\ sockets[r] = "open" => j.at = "running" /\ j.relay[r] = "open"

ConnInv ==
  /\ job \in [Publications -> Jobs] /\ socket \in [Publications -> Sockets]
  /\ late \in [Publications -> Nat]
  /\ \A p \in Publications : ConnGood(job[p], socket[p], late[p])

----------------------------------------------------------------------------
(* The queue of the lock *)

LEMMA JoinLock ==
  ASSUME NEW q, NEW k \in [Calls -> CallStates], LockGood(q, k),
         NEW c \in Calls, k[c].at = "idle",
         NEW x \in CallStates, x.at = "queued",
         NEW r, r = Append(q, c), NEW l, l = [k EXCEPT ![c] = x]
  PROVE  LockGood(r, l)
<1>1. q \in Seq(Calls) /\ Len(q) \in Nat /\ DOMAIN q = 1..Len(q)
  BY DEF LockGood
<1>2. r \in Seq(Calls) /\ DOMAIN r = 1..(Len(q) + 1) /\ r[Len(q) + 1] = c
  BY <1>1
<1>3. \A i \in 1..Len(q) : r[i] = q[i]
  BY <1>1
<1>4. \A i \in 1..Len(q) : q[i] # c
  <2>1. ~ \E i \in DOMAIN q : q[i] = c
    BY DEF LockGood, Begun
  <2>2. QED BY <1>1, <2>1
<1>5. \A i, j \in DOMAIN r : r[i] = r[j] => i = j
  <2>1. \A i, j \in 1..Len(q) : q[i] = q[j] => i = j
    BY <1>1 DEF LockGood
  <2>2. QED BY <1>1, <1>2, <1>3, <1>4, <2>1
<1>6. l[c] = x /\ \A d \in Calls \ {c} : l[d] = k[d]
  OBVIOUS
<1>7. ASSUME NEW d \in Calls
      PROVE  /\ l[d].at \in {"queued"} \cup Begun <=> \E i \in DOMAIN r : r[i] = d
             /\ l[d].at \in Begun => r # <<>> /\ Head(r) = d
  <2>1. CASE d = c
    BY <1>1, <1>2, <1>6, <2>1 DEF Begun
  <2>2. CASE d # c
    <3>1. /\ k[d].at \in {"queued"} \cup Begun <=> \E i \in DOMAIN q : q[i] = d
          /\ k[d].at \in Begun => q # <<>> /\ Head(q) = d
      BY DEF LockGood
    <3>2. (\E i \in DOMAIN q : q[i] = d) <=> \E i \in DOMAIN r : r[i] = d
      BY <1>1, <1>2, <1>3, <2>2
    <3>3. q # <<>> => r # <<>> /\ Head(r) = Head(q)
      BY <1>1, <1>2, <1>3
    <3>4. l[d] = k[d]
      BY <1>6, <2>2
    <3>5. QED BY <3>1, <3>2, <3>3, <3>4
  <2>3. QED BY <2>1, <2>2
<1>8. QED BY <1>2, <1>5, <1>7 DEF LockGood

LEMMA LeaveLock ==
  ASSUME NEW q, NEW k \in [Calls -> CallStates], LockGood(q, k),
         NEW c \in Calls, q # <<>>, Head(q) = c,
         NEW x \in CallStates, x.at = "done",
         NEW r, r = Tail(q), NEW l, l = [k EXCEPT ![c] = x]
  PROVE  LockGood(r, l)
<1>1. q \in Seq(Calls) /\ Len(q) \in Nat /\ Len(q) > 0 /\ DOMAIN q = 1..Len(q) /\ q[1] = c
  BY DEF LockGood
<1>2. r \in Seq(Calls) /\ Len(r) = Len(q) - 1 /\ DOMAIN r = 1..(Len(q) - 1)
  BY <1>1
<1>3. \A i \in 1..(Len(q) - 1) : r[i] = q[i + 1]
  BY <1>1
<1>4. \A i, j \in 1..Len(q) : q[i] = q[j] => i = j
  BY <1>1 DEF LockGood
<1>5. \A i, j \in DOMAIN r : r[i] = r[j] => i = j
  <2>1. ASSUME NEW i \in 1..(Len(q) - 1), NEW j \in 1..(Len(q) - 1), r[i] = r[j]
        PROVE  i = j
    <3>1. i + 1 \in 1..Len(q) /\ j + 1 \in 1..Len(q) /\ q[i + 1] = q[j + 1]
      BY <1>1, <1>3, <2>1
    <3>2. i + 1 = j + 1
      BY <1>4, <3>1
    <3>3. QED BY <3>2
  <2>2. QED BY <1>2, <2>1
<1>6. l[c] = x /\ \A d \in Calls \ {c} : l[d] = k[d]
  OBVIOUS
<1>7. \A d \in Calls : (\E i \in DOMAIN r : r[i] = d) <=> d # c /\ \E i \in DOMAIN q : q[i] = d
  <2>1. ASSUME NEW d \in Calls, NEW i \in 1..(Len(q) - 1), r[i] = d
        PROVE  d # c /\ \E j \in DOMAIN q : q[j] = d
    <3>1. i + 1 \in 1..Len(q) /\ q[i + 1] = d /\ i + 1 # 1 /\ 1 \in 1..Len(q)
      BY <1>1, <1>3, <2>1
    <3>2. q[i + 1] # q[1]
      BY <1>4, <3>1
    <3>3. QED BY <1>1, <3>1, <3>2
  <2>2. ASSUME NEW d \in Calls, d # c, NEW j \in 1..Len(q), q[j] = d
        PROVE  \E i \in DOMAIN r : r[i] = d
    <3>1. j # 1
      BY <1>1, <2>2
    <3>2. j - 1 \in 1..(Len(q) - 1) /\ (j - 1) + 1 = j
      BY <1>1, <3>1
    <3>3. r[j - 1] = d
      BY <1>3, <2>2, <3>2
    <3>4. QED BY <1>2, <3>2, <3>3
  <2>3. QED BY <1>1, <1>2, <2>1, <2>2
<1>8. ASSUME NEW d \in Calls
      PROVE  /\ l[d].at \in {"queued"} \cup Begun <=> \E i \in DOMAIN r : r[i] = d
             /\ l[d].at \in Begun => r # <<>> /\ Head(r) = d
  <2>1. CASE d = c
    BY <1>6, <1>7, <2>1 DEF Begun
  <2>2. CASE d # c
    <3>1. /\ k[d].at \in {"queued"} \cup Begun <=> \E i \in DOMAIN q : q[i] = d
          /\ k[d].at \notin Begun
      BY <2>2 DEF LockGood
    <3>2. l[d] = k[d]
      BY <1>6, <2>2
    <3>3. QED BY <1>7, <2>2, <3>1, <3>2
  <2>3. QED BY <2>1, <2>2
<1>9. QED BY <1>2, <1>5, <1>8 DEF LockGood

LEMMA KeepLock ==
  ASSUME NEW q, NEW k \in [Calls -> CallStates], LockGood(q, k),
         NEW c \in Calls, q # <<>>, Head(q) = c, k[c].at \in {"queued"} \cup Begun,
         NEW x \in CallStates, x.at \in Begun,
         NEW l, l = [k EXCEPT ![c] = x]
  PROVE  LockGood(q, l)
<1>1. l[c] = x /\ \A d \in Calls \ {c} : l[d] = k[d]
  OBVIOUS
<1>2. ASSUME NEW d \in Calls
      PROVE  /\ l[d].at \in {"queued"} \cup Begun <=> \E i \in DOMAIN q : q[i] = d
             /\ l[d].at \in Begun => q # <<>> /\ Head(q) = d
  <2>1. CASE d = c
    BY <1>1, <2>1 DEF LockGood
  <2>2. CASE d # c
    BY <1>1, <2>2 DEF LockGood
  <2>3. QED BY <2>1, <2>2
<1>3. QED BY <1>2 DEF LockGood

\* Only the first of the queue is past its turn.
LEMMA HeadIsAlone ==
  ASSUME NEW q, NEW k, LockGood(q, k), NEW c, Head(q) = c
  PROVE  \A d \in Calls \ {c} : k[d].at \notin Begun
BY DEF LockGood

\* A call whose turn it is, or that is past it, is the first of the queue.
LEMMA TurnIsFirst ==
  ASSUME NEW q, NEW k, LockGood(q, k), NEW c \in Calls,
         (k[c].at = "queued" /\ Head(q) = c) \/ k[c].at \in Begun
  PROVE  q # <<>> /\ Head(q) = c
<1>1. CASE k[c].at = "queued" /\ Head(q) = c
  <2>1. \E i \in DOMAIN q : q[i] = c
    BY <1>1 DEF LockGood
  <2>2. q \in Seq(Calls)
    BY DEF LockGood
  <2>3. QED BY <1>1, <2>1, <2>2
<1>2. CASE k[c].at \in Begun
  BY <1>2 DEF LockGood
<1>3. QED BY <1>1, <1>2

----------------------------------------------------------------------------
(* Calls *)

\* What another call leaves of one that is not past its turn.
LEMMA OtherCallStays ==
  ASSUME NEW y, NEW j, NEW records, NEW rows, CallGood(y, j, records, rows),
         NEW records2, NEW rows2,
         (records2 = records /\ rows2 = rows) \/ y.at \notin Begun,
         records \subseteq records2, DOMAIN rows2 = DOMAIN rows,
         \A f \in DOMAIN rows : rows[f].state = "active" => rows2[f] = rows[f]
  PROVE  CallGood(y, j, records2, rows2)
<1>1. CASE records2 = records /\ rows2 = rows
  BY <1>1
<1>2. CASE y.at \notin Begun
  <2>1. y.answer = "published" =>
          /\ y.event \in records2
          /\ y.event \in DOMAIN rows2 => rows2[y.event].state = "active"
    BY DEF CallGood
  <2>2. QED BY <1>2, <2>1 DEF CallGood, Begun
<1>3. QED BY <1>1, <1>2

\* One call moves, in its turn where it changes the store or the table.
LEMMA OneCallMoves ==
  ASSUME CallsInv, job \in [Calls -> Jobs], job' \in [Calls -> Jobs],
         NEW c \in Calls, NEW x \in CallStates, call' = [call EXCEPT ![c] = x],
         NEW e \in Events, x.event = e, call[c].at # "idle" => call[c].event = e,
         x.at # "idle", x.at = "queued" => call[c].at = "idle",
         LockGood(lock', call'),
         \A d \in Calls \ {c} : job'[d] = job[d],
         job[c].accepted # {} => job'[c] = job[c],
         store' \in SUBSET Events, store \subseteq store',
         DOMAIN row' = DOMAIN row, row' \in [DOMAIN row -> Rows],
         \A f \in DOMAIN row : f # e \/ row[f].state = "active" => row'[f] = row[f],
         (store' = store /\ row' = row) \/ \A d \in Calls \ {c} : call[d].at \notin Begun,
         CallGood(x, job'[c], store', row'),
         e \in DOMAIN row /\ row'[e] # row[e] => RowGood(row'[e], e, call', job', store'),
         Claims(x) => Claims(call[c]) \/ e \notin store
  PROVE  CallsInv'
<1>1. /\ call' \in [Calls -> CallStates] /\ call'[c] = x
      /\ \A d \in Calls \ {c} : call'[d] = call[d]
  BY DEF CallsInv
<1>2. \A d \in Calls : CallGood(call[d], job[d], store, row)
  BY DEF CallsInv
<1>3. ASSUME NEW d \in Calls PROVE CallGood(call'[d], job'[d], store', row')
  <2>1. CASE d = c
    BY <1>1, <2>1
  <2>2. CASE d # c
    <3>1. PICK y \in CallStates : y = call[d] /\ y = call'[d]
      BY <1>1, <2>2 DEF CallsInv
    <3>2. PICK j \in Jobs : j = job[d] /\ j = job'[d]
      BY <2>2
    <3>3. CallGood(y, j, store, row)
      BY <1>2, <3>1, <3>2
    <3>4. PICK records, rows : records = store' /\ rows = row'
      OBVIOUS
    <3>5. \/ records = store /\ rows = row
          \/ y.at \notin Begun
      BY <2>2, <3>1, <3>4
    <3>6. /\ store \subseteq records /\ DOMAIN rows = DOMAIN row
          /\ \A f \in DOMAIN row : row[f].state = "active" => rows[f] = row[f]
      BY <3>4
    <3>7. CallGood(y, j, records, rows)
      BY <3>3, <3>5, <3>6, OtherCallStays
    <3>8. QED BY <3>1, <3>2, <3>4, <3>7
  <2>3. QED BY <2>1, <2>2
<1>4. ASSUME NEW d \in Calls, Claims(call[d]) PROVE call[d].event \in store /\ call[d].at # "idle"
  BY <1>2, <1>4 DEF CallGood, Claims
<1>5. ASSUME NEW d \in Calls, d # c, Claims(x), Claims(call[d])
      PROVE  call[d].event # e
  <2>1. CASE e \notin store
    BY <1>4, <1>5, <2>1
  <2>2. CASE Claims(call[c])
    <3>1. call[c].event = e
      BY <1>4, <2>2
    <3>2. call[d].event # call[c].event
      BY <1>5, <2>2 DEF CallsInv
    <3>3. QED BY <3>1, <3>2
  <2>3. QED BY <1>5, <2>1, <2>2
<1>6. ASSUME NEW a \in Calls, NEW d \in Calls, a # d, Claims(call'[a]), Claims(call'[d])
      PROVE  call'[a].event # call'[d].event
  <2>1. CASE a = c
    BY <1>1, <1>5, <1>6, <2>1
  <2>2. CASE d = c
    BY <1>1, <1>5, <1>6, <2>2
  <2>3. CASE a # c /\ d # c
    BY <1>1, <1>6, <2>3 DEF CallsInv
  <2>4. QED BY <2>1, <2>2, <2>3
<1>7. ASSUME NEW f \in DOMAIN row PROVE RowGood(row'[f], f, call', job', store')
  <2>1. CASE f = e /\ row'[e] # row[e]
    BY <2>1
  <2>2. CASE row'[f] = row[f]
    <3>1. PICK z : z = row[f] /\ z = row'[f] /\ RowGood(z, f, call, job, store)
      BY <2>2 DEF CallsInv
    <3>2. Signed(z.signer, f, call) => Signed(z.signer, f, call')
      <4>1. CASE z.signer = c
        BY <1>1, <4>1 DEF Signed
      <4>2. CASE z.signer # c
        BY <1>1, <4>2 DEF Signed
      <4>3. QED BY <4>1, <4>2
    <3>3. OnRelay(f, call, job) => OnRelay(f, call', job')
      <4>1. ASSUME NEW d \in Calls, call[d].event = f, job[d].accepted # {}
            PROVE  call'[d].event = f /\ job'[d].accepted # {}
        <5>1. job'[d] = job[d]
          BY <4>1
        <5>2. d = c => call[c].at # "idle"
          BY <1>2, <4>1 DEF CallGood, NoJob
        <5>3. QED BY <1>1, <4>1, <5>1, <5>2
      <4>2. QED BY <4>1 DEF OnRelay
    <3>4. RowGood(z, f, call', job', store')
      BY <3>1, <3>2, <3>3 DEF RowGood
    <3>5. QED BY <3>1, <3>4
  <2>3. QED BY <2>1, <2>2
<1>8. QED BY <1>1, <1>3, <1>6, <1>7 DEF CallsInv

\* A call is answered and passes the lock on.
LEMMA AnswerKeeps ==
  ASSUME CallsInv, job \in [Calls -> Jobs], job' = job, store' = store,
         NEW c \in Calls, (call[c].at = "queued" /\ Head(lock) = c) \/ call[c].at \in Begun,
         job[c].at # "running",
         NEW a \in {"conflict", "error", "unpublished", "published"}, Answer(c, a), Leave,
         NEW e, e = call[c].event,
         DOMAIN row' = DOMAIN row, row' \in [DOMAIN row -> Rows],
         \A f \in DOMAIN row : f # e \/ row[f].state = "active" => row'[f] = row[f],
         a = "published" =>
           /\ call[c].at = "stored"
           /\ e \in DOMAIN row => row'[e].state = "active",
         e \in DOMAIN row /\ row'[e] # row[e] => RowGood(row'[e], e, call', job', store')
  PROVE  CallsInv'
<1>1. PICK y \in CallStates : y = call[c]
  BY DEF CallsInv
<1>2. PICK j \in Jobs : j = job[c] /\ j = job'[c]
  OBVIOUS
<1>3. CallGood(y, j, store, row) /\ y.event = e /\ y.at \in {"queued"} \cup Begun
  BY <1>1, <1>2 DEF CallsInv
<1>4. e \in Events /\ y.at # "idle"
  BY <1>3 DEF CallGood, Begun
<1>5. PICK x : x = [y EXCEPT !.at = "done", !.answer = a]
  OBVIOUS
<1>6. x \in CallStates /\ x.at = "done" /\ x.answer = a /\ x.event = e
  BY <1>3, <1>5 DEF CallStates
<1>7. call' = [call EXCEPT ![c] = x]
  BY <1>1, <1>5 DEF Answer, CallsInv
<1>8. PICK q, r, k, l : q = lock /\ r = lock' /\ k = call /\ l = call'
  OBVIOUS
<1>9. k \in [Calls -> CallStates] /\ LockGood(q, k) /\ l = [k EXCEPT ![c] = x]
  BY <1>7, <1>8 DEF CallsInv
<1>10. q # <<>> /\ Head(q) = c
  BY <1>8, <1>9, TurnIsFirst
<1>11. r = Tail(q)
  BY <1>8 DEF Leave
<1>12. LockGood(r, l)
  BY <1>6, <1>9, <1>10, <1>11, LeaveLock
<1>13. \A d \in Calls \ {c} : k[d].at \notin Begun
  BY <1>9, <1>10, HeadIsAlone
<1>14. PICK records, rows : records = store' /\ rows = row'
  OBVIOUS
<1>15. CallGood(x, j, records, rows)
  <2>1. a = "published" => e \in records
    BY <1>1, <1>3, <1>14 DEF CallGood
  <2>2. a = "published" => (e \in DOMAIN rows => rows[e].state = "active")
    BY <1>14
  <2>3. j.at # "running" /\ (j.at # "done" => j.accepted = {})
    BY <1>2, <1>3 DEF CallGood
  <2>4. QED BY <1>4, <1>6, <2>1, <2>2, <2>3 DEF CallGood, Begun
<1>16. Claims(x) => Claims(call[c])
  BY <1>1, <1>6 DEF Claims
<1>17. /\ LockGood(lock', call')
       /\ CallGood(x, job'[c], store', row')
       /\ \A d \in Calls \ {c} : call[d].at \notin Begun
       /\ job' \in [Calls -> Jobs]
       /\ store' \in SUBSET Events
  BY <1>2, <1>8, <1>12, <1>13, <1>14, <1>15 DEF CallsInv
<1>18. /\ call[c].at # "idle" => call[c].event = e
       /\ x.at # "idle"
       /\ x.at = "queued" => call[c].at = "idle"
       /\ \A d \in Calls \ {c} : job'[d] = job[d]
       /\ job[c].accepted # {} => job'[c] = job[c]
       /\ store \subseteq store'
  BY <1>6
<1>19. QED BY <1>4, <1>6, <1>7, <1>16, <1>17, <1>18, OneCallMoves

\* The table is as it was.
LEMMA AnswerOnly ==
  ASSUME CallsInv, job \in [Calls -> Jobs], job' = job, store' = store, row' = row,
         NEW c \in Calls, (call[c].at = "queued" /\ Head(lock) = c) \/ call[c].at \in Begun,
         job[c].at # "running",
         NEW a \in {"conflict", "error"}, Answer(c, a), Leave
  PROVE  CallsInv'
<1>1. row \in [DOMAIN row -> Rows]
  BY DEF CallsInv
<1>2. PICK e : e = call[c].event
  OBVIOUS
<1>3. /\ DOMAIN row' = DOMAIN row /\ row' \in [DOMAIN row -> Rows]
      /\ \A f \in DOMAIN row : f # e \/ row[f].state = "active" => row'[f] = row[f]
      /\ ~(e \in DOMAIN row /\ row'[e] # row[e])
  BY <1>1
<1>4. a \in {"conflict", "error", "unpublished", "published"} /\ a # "published"
  OBVIOUS
<1>5. QED BY <1>2, <1>3, <1>4, AnswerKeeps

\* Every action of a call has its job within its set.
LEMMA QueuedHasNoJob ==
  ASSUME CallsInv, NEW c \in Calls, call[c].at = "queued"
  PROVE  job[c] = NoJob
BY DEF CallsInv, CallGood

LEMMA RefuseKeeps ==
  ASSUME CallsInv, job \in [Calls -> Jobs], NEW c \in Calls, Refuse(c)
  PROVE  CallsInv'
<1>1. /\ job' = job /\ store' = store /\ row' = row
      /\ call[c].at = "queued" /\ Head(lock) = c /\ Leave
  BY DEF Refuse, Turn, publishingVars
<1>2. job[c].at # "running"
  BY <1>1, QueuedHasNoJob DEF NoJob
<1>3. PICK a \in {"conflict", "error"} : Answer(c, a)
  BY DEF Refuse
<1>4. QED BY <1>1, <1>2, <1>3, AnswerOnly

LEMMA WriteFailsKeeps ==
  ASSUME CallsInv, job \in [Calls -> Jobs], NEW c \in Calls, WriteFails(c)
  PROVE  CallsInv'
<1>1. /\ job' = job /\ store' = store /\ row' = row
      /\ call[c].at \in Begun /\ job[c].at # "running" /\ Leave
  BY DEF WriteFails, Stored, publishingVars, Begun
<1>2. PICK a \in {"conflict", "error"} : Answer(c, a)
  BY DEF WriteFails
<1>3. QED BY <1>1, <1>2, AnswerOnly

\* What setEnrollmentState makes of the row of a call that was pending.
LEMMA StateIsSet ==
  ASSUME NEW rows, rows \in [DOMAIN rows -> Rows], NEW e, NEW state \in {"failed", "active"},
         e \in DOMAIN rows => rows[e].state = "pending",
         NEW rows2,
         rows2 = IF e \in DOMAIN rows /\ rows[e].state = "pending"
                 THEN [rows EXCEPT ![e].state = state] ELSE rows
  PROVE  /\ DOMAIN rows2 = DOMAIN rows /\ rows2 \in [DOMAIN rows -> Rows]
         /\ \A f \in DOMAIN rows : f # e \/ rows[f].state = "active" => rows2[f] = rows[f]
         /\ e \in DOMAIN rows => /\ rows2[e].state = state
                                 /\ rows2[e].signer = rows[e].signer
<1>1. CASE e \notin DOMAIN rows
  BY <1>1
<1>2. CASE e \in DOMAIN rows
  <2>1. PICK z \in Rows : z = rows[e]
    BY <1>2
  <2>2. PICK y : y = [z EXCEPT !.state = state]
    OBVIOUS
  <2>3. y \in Rows /\ y.state = state /\ y.signer = z.signer
    BY <2>1, <2>2 DEF Rows
  <2>4. rows2 = [rows EXCEPT ![e] = y]
    BY <1>2, <2>1, <2>2
  <2>5. QED BY <1>2, <2>1, <2>3, <2>4
<1>3. QED BY <1>1, <1>2

LEMMA NotPublishedKeeps ==
  ASSUME CallsInv, job \in [Calls -> Jobs], NEW c \in Calls, NotPublished(c)
  PROVE  CallsInv'
<1>1. /\ job' = job /\ store' = store /\ row' = SetState(call[c].event, "failed")
      /\ call[c].at \in Begun /\ job[c].at # "running" /\ Leave /\ Answer(c, "unpublished")
  BY DEF NotPublished, publishingVars, Begun
<1>2. PICK e : e = call[c].event
  OBVIOUS
<1>3. PICK y \in CallStates : y = call[c]
  BY DEF CallsInv
<1>4. e \in DOMAIN row => row[e].state = "pending"
  BY <1>1, <1>2 DEF CallsInv, CallGood
<1>5. PICK rows, rows2 : rows = row /\ rows2 = row'
  OBVIOUS
<1>6. rows2 = IF e \in DOMAIN rows /\ rows[e].state = "pending"
              THEN [rows EXCEPT ![e].state = "failed"] ELSE rows
  BY <1>1, <1>2, <1>5 DEF SetState, RevenueEvents
<1>7. PICK state \in {"failed", "active"} : state = "failed"
  OBVIOUS
<1>8. /\ rows \in [DOMAIN rows -> Rows]
      /\ e \in DOMAIN rows => rows[e].state = "pending"
      /\ rows2 = IF e \in DOMAIN rows /\ rows[e].state = "pending"
                 THEN [rows EXCEPT ![e].state = state] ELSE rows
  BY <1>4, <1>5, <1>6, <1>7 DEF CallsInv
<1>9. /\ DOMAIN rows2 = DOMAIN rows /\ rows2 \in [DOMAIN rows -> Rows]
      /\ \A f \in DOMAIN rows : f # e \/ rows[f].state = "active" => rows2[f] = rows[f]
      /\ e \in DOMAIN rows => /\ rows2[e].state = "failed"
                              /\ rows2[e].signer = rows[e].signer
  BY <1>7, <1>8, StateIsSet
<1>10. e \in DOMAIN row => RowGood(row'[e], e, call', job', store')
  <2>1. SUFFICES ASSUME e \in DOMAIN row PROVE RowGood(row'[e], e, call', job', store')
    OBVIOUS
  <2>2. Signed(row[e].signer, e, call)
    BY <1>4, <2>1 DEF CallsInv, RowGood
  <2>3. \A d \in Calls : call[d].at \notin {"idle", "queued"} =>
          call'[d].at \notin {"idle", "queued"} /\ call'[d].event = call[d].event
    BY <1>1, <1>3 DEF Answer, CallsInv, CallStates
  <2>4. Signed(row'[e].signer, e, call')
    BY <1>5, <1>9, <2>1, <2>2, <2>3 DEF Signed
  <2>5. QED BY <1>5, <1>9, <2>1, <2>4 DEF RowGood
<1>11. PICK a \in {"conflict", "error", "unpublished", "published"} : a = "unpublished"
  OBVIOUS
<1>12. Answer(c, a) /\ a # "published"
  BY <1>1, <1>11
<1>13. /\ DOMAIN row' = DOMAIN row /\ row' \in [DOMAIN row -> Rows]
       /\ \A f \in DOMAIN row : f # e \/ row[f].state = "active" => row'[f] = row[f]
  BY <1>5, <1>9
<1>14. QED BY <1>1, <1>2, <1>10, <1>12, <1>13, AnswerKeeps

LEMMA ActivateKeeps ==
  ASSUME CallsInv, job \in [Calls -> Jobs], NEW c \in Calls, Activate(c)
  PROVE  CallsInv'
<1>1. /\ job' = job /\ store' = store /\ row' = SetState(call[c].event, "active")
      /\ call[c].at = "stored" /\ call[c].at \in Begun /\ Leave /\ Answer(c, "published")
  BY DEF Activate, publishingVars, Begun
<1>2. PICK e : e = call[c].event
  OBVIOUS
<1>3. PICK y \in CallStates : y = call[c]
  BY DEF CallsInv
<1>4. /\ e \in DOMAIN row => row[e].state = "pending"
      /\ e \in store /\ job[c].accepted # {} /\ job[c].at # "running"
  BY <1>1, <1>2 DEF CallsInv, CallGood
<1>5. PICK rows, rows2 : rows = row /\ rows2 = row'
  OBVIOUS
<1>6. rows2 = IF e \in DOMAIN rows /\ rows[e].state = "pending"
              THEN [rows EXCEPT ![e].state = "active"] ELSE rows
  BY <1>1, <1>2, <1>5 DEF SetState, RevenueEvents
<1>7. PICK state \in {"failed", "active"} : state = "active"
  OBVIOUS
<1>8. /\ rows \in [DOMAIN rows -> Rows]
      /\ e \in DOMAIN rows => rows[e].state = "pending"
      /\ rows2 = IF e \in DOMAIN rows /\ rows[e].state = "pending"
                 THEN [rows EXCEPT ![e].state = state] ELSE rows
  BY <1>4, <1>5, <1>6, <1>7 DEF CallsInv
<1>9. /\ DOMAIN rows2 = DOMAIN rows /\ rows2 \in [DOMAIN rows -> Rows]
      /\ \A f \in DOMAIN rows : f # e \/ rows[f].state = "active" => rows2[f] = rows[f]
      /\ e \in DOMAIN rows => /\ rows2[e].state = "active"
                              /\ rows2[e].signer = rows[e].signer
  BY <1>7, <1>8, StateIsSet
<1>10. e \in DOMAIN row => RowGood(row'[e], e, call', job', store')
  <2>1. SUFFICES ASSUME e \in DOMAIN row PROVE RowGood(row'[e], e, call', job', store')
    OBVIOUS
  <2>2. Signed(row[e].signer, e, call)
    BY <1>4, <2>1 DEF CallsInv, RowGood
  <2>3. \A d \in Calls : call[d].at \notin {"idle", "queued"} =>
          call'[d].at \notin {"idle", "queued"} /\ call'[d].event = call[d].event
    BY <1>1, <1>3 DEF Answer, CallsInv, CallStates
  <2>4. Signed(row'[e].signer, e, call')
    BY <1>5, <1>9, <2>1, <2>2, <2>3 DEF Signed
  <2>5. call'[c].event = e /\ job'[c].accepted # {}
    BY <1>1, <1>2, <1>4, <2>3
  <2>6. OnRelay(e, call', job')
    BY <2>5 DEF OnRelay
  <2>7. e \in store'
    BY <1>1, <1>4
  <2>8. QED BY <1>5, <1>9, <2>1, <2>4, <2>6, <2>7 DEF RowGood
<1>11. PICK a \in {"conflict", "error", "unpublished", "published"} : a = "published"
  OBVIOUS
<1>12. Answer(c, a)
  BY <1>1, <1>11
<1>13. /\ DOMAIN row' = DOMAIN row /\ row' \in [DOMAIN row -> Rows]
       /\ \A f \in DOMAIN row : f # e \/ row[f].state = "active" => row'[f] = row[f]
       /\ e \in DOMAIN row => row'[e].state = "active"
  BY <1>5, <1>9
<1>14. QED BY <1>1, <1>2, <1>4, <1>10, <1>12, <1>13, AnswerKeeps

LEMMA SubmitKeeps ==
  ASSUME CallsInv, job \in [Calls -> Jobs], NEW c \in Calls, Submit(c)
  PROVE  CallsInv'
<1>1. /\ job' = job /\ store' = store /\ row' = row /\ call[c].at = "idle" /\ lock' = Append(lock, c)
  BY DEF Submit, publishingVars
<1>2. PICK e \in Events : call' = [call EXCEPT ![c].at = "queued", ![c].event = e]
  BY DEF Submit
<1>3. PICK y \in CallStates : y = call[c]
  BY DEF CallsInv
<1>4. PICK x : x = [y EXCEPT !.at = "queued", !.event = e]
  OBVIOUS
<1>5. PICK j : j = job[c]
  OBVIOUS
<1>6. CallGood(y, j, store, row) /\ y.at = "idle"
  BY <1>1, <1>3, <1>5 DEF CallsInv
<1>7. j = NoJob /\ y.answer = "none" /\ j.accepted = {} /\ j.at # "running"
  BY <1>6 DEF CallGood, NoJob
<1>8. x \in CallStates /\ x.at = "queued" /\ x.event = e /\ x.answer = "none"
  BY <1>4, <1>7 DEF CallStates
<1>9. call' = [call EXCEPT ![c] = x]
  BY <1>2, <1>3, <1>4 DEF CallsInv
<1>10. PICK q, r, k, l : q = lock /\ r = lock' /\ k = call /\ l = call'
  OBVIOUS
<1>11. /\ k \in [Calls -> CallStates] /\ LockGood(q, k) /\ l = [k EXCEPT ![c] = x]
       /\ k[c].at = "idle" /\ r = Append(q, c)
  BY <1>1, <1>9, <1>10 DEF CallsInv
<1>12. LockGood(r, l)
  BY <1>8, <1>11, JoinLock
<1>13. CallGood(x, j, store, row)
  BY <1>7, <1>8 DEF CallGood, Begun
<1>14. ~Claims(x)
  BY <1>8 DEF Claims
<1>15. /\ LockGood(lock', call')
       /\ CallGood(x, job'[c], store', row')
       /\ job' \in [Calls -> Jobs]
       /\ store' \in SUBSET Events
       /\ DOMAIN row' = DOMAIN row /\ row' \in [DOMAIN row -> Rows]
       /\ \A f \in DOMAIN row : f # e \/ row[f].state = "active" => row'[f] = row[f]
       /\ store' = store /\ row' = row
  BY <1>1, <1>5, <1>10, <1>12, <1>13 DEF CallsInv
<1>16. /\ call[c].at # "idle" => call[c].event = e
       /\ x.at # "idle"
       /\ x.at = "queued" => call[c].at = "idle"
       /\ \A d \in Calls \ {c} : job'[d] = job[d]
       /\ job[c].accepted # {} => job'[c] = job[c]
       /\ store \subseteq store'
       /\ e \in DOMAIN row /\ row'[e] # row[e] => RowGood(row'[e], e, call', job', store')
  BY <1>1, <1>8
<1>17. QED BY <1>8, <1>9, <1>14, <1>15, <1>16, OneCallMoves

\* The event has no record: it is published, with a row of its own if it has a
\* revenue tag.
LEMMA BeginKeeps ==
  ASSUME CallsInv, job \in [Calls -> Jobs], NEW c \in Calls, Begin(c)
  PROVE  CallsInv'
<1>1. PICK e : e = call[c].event
  OBVIOUS
<1>2. /\ store' = store /\ lock' = lock /\ row' = Enrolled(e, c)
      /\ e \notin store /\ (e \in DOMAIN row => ~Conflicts(e, c))
      /\ call[c].at = "queued" /\ Head(lock) = c
      /\ call' = [call EXCEPT ![c].at = "publishing"]
      /\ job' = [job EXCEPT ![c].at = "running"]
  BY <1>1 DEF Begin, Turn, StartPublish, RevenueEvents
<1>3. PICK y \in CallStates : y = call[c]
  BY DEF CallsInv
<1>4. PICK i \in Jobs : i = job[c]
  OBVIOUS
<1>5. CallGood(y, i, store, row) /\ y.at = "queued" /\ y.event = e
  BY <1>1, <1>2, <1>3, <1>4 DEF CallsInv
<1>6. i = NoJob /\ y.answer = "none" /\ e \in Events
  BY <1>5 DEF CallGood
<1>7. PICK x : x = [y EXCEPT !.at = "publishing"]
  OBVIOUS
<1>8. /\ x \in CallStates /\ x.at = "publishing" /\ x.event = e /\ x.answer = "none"
  BY <1>5, <1>6, <1>7 DEF CallStates
<1>9. call' = [call EXCEPT ![c] = x]
  BY <1>2, <1>3, <1>7 DEF CallsInv
<1>10. PICK j : j = [i EXCEPT !.at = "running"]
  OBVIOUS
<1>11. j \in Jobs /\ j.at = "running" /\ j.accepted = i.accepted
  BY <1>10 DEF Jobs
<1>12. i.accepted = {}
  BY <1>6 DEF NoJob
<1>13. job' = [job EXCEPT ![c] = j]
  BY <1>2, <1>4, <1>10
<1>14. PICK q, k, l : q = lock /\ k = call /\ l = call'
  OBVIOUS
<1>15. /\ k \in [Calls -> CallStates] /\ LockGood(q, k) /\ l = [k EXCEPT ![c] = x]
       /\ k[c].at = "queued" /\ Head(q) = c
  BY <1>2, <1>9, <1>14 DEF CallsInv
<1>16. q # <<>>
  BY <1>15, TurnIsFirst
<1>17. LockGood(q, l)
  BY <1>8, <1>15, <1>16, KeepLock DEF Begun
<1>18. \A d \in Calls \ {c} : k[d].at \notin Begun
  BY <1>15, HeadIsAlone
<1>19. e \in DOMAIN row => row[e].state = "none"
  <2>1. ASSUME e \in DOMAIN row, row[e].state # "none" PROVE FALSE
    <3>1. row[e].signer = c
      BY <1>2, <2>1 DEF Conflicts
    <3>2. Signed(c, e, call)
      BY <2>1, <3>1 DEF CallsInv, RowGood
    <3>3. QED BY <1>2, <3>2 DEF Signed
  <2>2. QED BY <2>1
<1>20. PICK z : z = [state |-> "pending", signer |-> c]
  OBVIOUS
<1>21. z \in Rows /\ z.state = "pending" /\ z.signer = c
  BY <1>20 DEF Rows
<1>22. PICK rows, rows2 : rows = row /\ rows2 = row'
  OBVIOUS
<1>23. rows2 = IF e \in DOMAIN rows THEN [rows EXCEPT ![e] = z] ELSE rows
  BY <1>2, <1>19, <1>20, <1>22 DEF Enrolled, RevenueEvents
<1>24. rows \in [DOMAIN rows -> Rows] /\ (e \in DOMAIN rows => rows[e].state = "none")
  BY <1>19, <1>22 DEF CallsInv
<1>25. /\ DOMAIN rows2 = DOMAIN rows /\ rows2 \in [DOMAIN rows -> Rows]
       /\ \A f \in DOMAIN rows : f # e \/ rows[f].state = "active" => rows2[f] = rows[f]
       /\ e \in DOMAIN rows => rows2[e] = z
  BY <1>21, <1>23, <1>24
<1>26. PICK records : records = store'
  OBVIOUS
<1>27. CallGood(x, j, records, rows2)
  <2>1. e \notin records
    BY <1>2, <1>26
  <2>2. x.event \in DOMAIN rows2 => rows2[x.event].state = "pending"
    BY <1>8, <1>21, <1>25
  <2>3. QED BY <1>6, <1>8, <1>11, <1>12, <2>1, <2>2 DEF CallGood
<1>28. RowGood(z, e, l, job', store')
  <2>1. l[c] = x
    BY <1>15
  <2>2. QED BY <1>8, <1>21, <2>1 DEF RowGood, Signed
<1>29. job' \in [Calls -> Jobs] /\ job'[c] = j /\ \A d \in Calls \ {c} : job'[d] = job[d]
  BY <1>11, <1>13
<1>30. /\ LockGood(lock', call')
       /\ CallGood(x, job'[c], store', row')
       /\ store' \in SUBSET Events
       /\ DOMAIN row' = DOMAIN row /\ row' \in [DOMAIN row -> Rows]
       /\ \A f \in DOMAIN row : f # e \/ row[f].state = "active" => row'[f] = row[f]
       /\ \A d \in Calls \ {c} : call[d].at \notin Begun
       /\ e \in DOMAIN row /\ row'[e] # row[e] => RowGood(row'[e], e, call', job', store')
  BY <1>2, <1>14, <1>17, <1>18, <1>22, <1>25, <1>26, <1>27, <1>28, <1>29 DEF CallsInv
<1>31. /\ call[c].at # "idle" => call[c].event = e
       /\ x.at # "idle"
       /\ x.at = "queued" => call[c].at = "idle"
       /\ job[c].accepted # {} => job'[c] = job[c]
       /\ store \subseteq store'
       /\ ~Claims(x)
  BY <1>1, <1>2, <1>4, <1>8, <1>12 DEF Claims
<1>32. QED BY <1>6, <1>8, <1>9, <1>29, <1>30, <1>31, OneCallMoves

LEMMA WriteStoreKeeps ==
  ASSUME CallsInv, job \in [Calls -> Jobs], NEW c \in Calls, WriteStore(c)
  PROVE  CallsInv'
<1>1. PICK e : e = call[c].event
  OBVIOUS
<1>2. /\ job' = job /\ row' = row /\ lock' = lock /\ store' = store \cup {e}
      /\ call[c].at = "publishing" /\ job[c].at = "done" /\ job[c].accepted # {}
      /\ call' = [call EXCEPT ![c].at = "stored"]
  BY <1>1 DEF WriteStore, Stored, publishingVars
<1>3. PICK y \in CallStates : y = call[c]
  BY DEF CallsInv
<1>4. PICK j \in Jobs : j = job[c]
  OBVIOUS
<1>5. CallGood(y, j, store, row) /\ y.at = "publishing" /\ y.event = e
  BY <1>1, <1>2, <1>3, <1>4 DEF CallsInv
<1>6. /\ y.answer = "none" /\ e \in Events /\ e \notin store
      /\ e \in DOMAIN row => row[e].state = "pending"
  BY <1>3, <1>5 DEF CallGood, Begun, CallStates
<1>7. PICK x : x = [y EXCEPT !.at = "stored"]
  OBVIOUS
<1>8. /\ x \in CallStates /\ x.at = "stored" /\ x.event = e /\ x.answer = "none"
  BY <1>5, <1>6, <1>7 DEF CallStates
<1>9. call' = [call EXCEPT ![c] = x]
  BY <1>2, <1>3, <1>7 DEF CallsInv
<1>10. PICK q, k, l : q = lock /\ k = call /\ l = call'
  OBVIOUS
<1>11. /\ k \in [Calls -> CallStates] /\ LockGood(q, k) /\ l = [k EXCEPT ![c] = x]
       /\ k[c].at \in Begun
  BY <1>2, <1>9, <1>10 DEF CallsInv, Begun
<1>12. q # <<>> /\ Head(q) = c
  BY <1>11, TurnIsFirst
<1>13. LockGood(q, l)
  BY <1>8, <1>11, <1>12, KeepLock DEF Begun
<1>14. \A d \in Calls \ {c} : k[d].at \notin Begun
  BY <1>11, <1>12, HeadIsAlone
<1>15. PICK records, rows : records = store' /\ rows = row'
  OBVIOUS
<1>16. CallGood(x, j, records, rows)
  BY <1>2, <1>4, <1>6, <1>8, <1>15 DEF CallGood, Begun
<1>17. /\ LockGood(lock', call')
       /\ CallGood(x, job'[c], store', row')
       /\ job' \in [Calls -> Jobs]
       /\ store' \in SUBSET Events
       /\ DOMAIN row' = DOMAIN row /\ row' \in [DOMAIN row -> Rows]
       /\ \A f \in DOMAIN row : f # e \/ row[f].state = "active" => row'[f] = row[f]
       /\ \A d \in Calls \ {c} : call[d].at \notin Begun
  BY <1>2, <1>4, <1>6, <1>10, <1>13, <1>14, <1>15, <1>16 DEF CallsInv
<1>18. /\ call[c].at # "idle" => call[c].event = e
       /\ x.at # "idle"
       /\ x.at = "queued" => call[c].at = "idle"
       /\ \A d \in Calls \ {c} : job'[d] = job[d]
       /\ job[c].accepted # {} => job'[c] = job[c]
       /\ store \subseteq store'
       /\ ~(e \in DOMAIN row /\ row'[e] # row[e])
  BY <1>1, <1>2, <1>8
<1>19. QED BY <1>6, <1>8, <1>9, <1>17, <1>18, OneCallMoves

\* Publications go on: what a job has accepted stands.
LEMMA JobsMove ==
  ASSUME CallsInv, UNCHANGED postVars, NEW jobs, jobs = job',
         \A c \in Calls :
           \/ jobs[c] = job[c]
           \/ /\ job[c].at = "running" /\ jobs[c].at \in {"running", "done"}
              /\ jobs[c].at = "running" => jobs[c].accepted = job[c].accepted
  PROVE  CallsInv'
<1>1. call' = call /\ store' = store /\ row' = row /\ lock' = lock
  BY DEF postVars
<1>2. ASSUME NEW c \in Calls PROVE CallGood(call[c], jobs[c], store, row)
  <2>1. CallGood(call[c], job[c], store, row)
    BY DEF CallsInv
  <2>2. CASE jobs[c] = job[c]
    BY <2>1, <2>2
  <2>3. CASE jobs[c] # job[c]
    <3>1. call[c].at = "publishing" /\ job[c].accepted = {}
      BY <2>1, <2>3 DEF CallGood
    <3>2. QED BY <2>1, <2>3, <3>1 DEF CallGood
  <2>4. QED BY <2>2, <2>3
<1>3. ASSUME NEW e \in DOMAIN row PROVE RowGood(row[e], e, call, jobs, store)
  <2>1. RowGood(row[e], e, call, job, store)
    BY DEF CallsInv
  <2>2. ASSUME NEW c \in Calls, job[c].accepted # {} PROVE jobs[c] = job[c]
    BY <2>2 DEF CallsInv, CallGood
  <2>3. OnRelay(e, call, job) => OnRelay(e, call, jobs)
    BY <2>2 DEF OnRelay
  <2>4. QED BY <2>1, <2>3 DEF RowGood
<1>4. QED BY <1>1, <1>2, <1>3 DEF CallsInv

\* The process ends: calls under way are lost, jobs that are done stay.
LEMMA CrashCallsKeeps ==
  ASSUME CallsInv, job \in [Calls -> Jobs], Crash
  PROVE  CallsInv'
<1>1. /\ store' = store /\ row' = row /\ lock' = <<>>
      /\ call' = [c \in Calls |-> IF call[c].at \in {"idle", "done"} THEN call[c]
                                  ELSE [call[c] EXCEPT !.at = "done", !.answer = "lost"]]
      /\ job' = [c \in Calls |-> IF job[c].at = "running" THEN NoJob ELSE job[c]]
  BY DEF Crash, Calls
<1>2. PICK calls, jobs : calls = call' /\ jobs = job'
  OBVIOUS
<1>3. ASSUME NEW c \in Calls
      PROVE  /\ calls[c] \in CallStates /\ CallGood(calls[c], jobs[c], store, row)
             /\ calls[c].at \in {"idle", "done"}
             /\ calls[c].event = call[c].event
             /\ calls[c].at = "idle" => call[c].at = "idle"
             /\ Claims(calls[c]) => Claims(call[c])
  <2>1. PICK y \in CallStates : y = call[c]
    BY DEF CallsInv
  <2>2. PICK i, j : i = job[c] /\ j = jobs[c]
    OBVIOUS
  <2>3. CallGood(y, i, store, row) /\ j = IF i.at = "running" THEN NoJob ELSE i
    BY <1>1, <1>2, <2>1, <2>2 DEF CallsInv
  <2>4. CASE y.at \in {"idle", "done"}
    <3>1. calls[c] = y
      BY <1>1, <1>2, <2>1, <2>4
    <3>2. j = i
      BY <2>3, <2>4 DEF CallGood
    <3>3. QED BY <2>1, <2>2, <2>3, <2>4, <3>1, <3>2
  <2>5. CASE y.at \notin {"idle", "done"}
    <3>1. PICK x : x = [y EXCEPT !.at = "done", !.answer = "lost"]
      OBVIOUS
    <3>2. x \in CallStates /\ x.at = "done" /\ x.answer = "lost" /\ x.event = y.event
      BY <3>1 DEF CallStates
    <3>3. calls[c] = x
      BY <1>1, <1>2, <2>1, <2>5, <3>1
    <3>4. j.at # "running" /\ (j.at # "done" => j.accepted = {})
      BY <2>3 DEF CallGood, NoJob
    <3>5. y.event \in Events
      BY <2>3, <2>5 DEF CallGood
    <3>6. CallGood(x, j, store, row)
      BY <3>2, <3>4, <3>5 DEF CallGood, Begun
    <3>7. QED BY <2>1, <2>2, <2>5, <3>2, <3>3, <3>6 DEF Claims
  <2>6. QED BY <2>4, <2>5
<1>4. calls \in [Calls -> CallStates]
  BY <1>1, <1>2, <1>3
<1>5. LockGood(<<>>, calls)
  BY <1>3 DEF LockGood, Begun
<1>6. \A c, d \in Calls : c # d /\ Claims(calls[c]) /\ Claims(calls[d]) => calls[c].event # calls[d].event
  BY <1>3 DEF CallsInv
<1>7. ASSUME NEW e \in DOMAIN row PROVE RowGood(row[e], e, calls, jobs, store)
  <2>1. PICK z : z = row[e] /\ RowGood(z, e, call, job, store)
    BY DEF CallsInv
  <2>2. Signed(z.signer, e, call) => Signed(z.signer, e, calls)
    BY <1>3 DEF Signed
  <2>3. ASSUME NEW c \in Calls, job[c].accepted # {} PROVE jobs[c] = job[c]
    <3>1. job[c].at # "running"
      BY <2>3 DEF CallsInv, CallGood
    <3>2. QED BY <1>1, <1>2, <3>1
  <2>4. OnRelay(e, call, job) => OnRelay(e, calls, jobs)
    BY <1>3, <2>3 DEF OnRelay
  <2>5. QED BY <2>1, <2>2, <2>4 DEF RowGood
<1>8. /\ store' \in SUBSET Events
      /\ DOMAIN row' \subseteq Events /\ row' \in [DOMAIN row' -> Rows]
  BY <1>1 DEF CallsInv
<1>9. PICK lock2 : lock2 = <<>>
  OBVIOUS
<1>10. LockGood(lock2, calls)
  BY <1>5, <1>9
<1>11. LockGood(lock', call')
  BY <1>1, <1>2, <1>9, <1>10
<1>12. call' \in [Calls -> CallStates]
  BY <1>2, <1>4
<1>13. (\A c \in Calls : CallGood(call[c], job[c], store, row))'
  BY <1>1, <1>2, <1>3
<1>14. (\A e \in DOMAIN row : RowGood(row[e], e, call, job, store))'
  BY <1>1, <1>2, <1>7
<1>15. (\A c, d \in Calls : c # d /\ Claims(call[c]) /\ Claims(call[d]) => call[c].event # call[d].event)'
  BY <1>2, <1>6
<1>16. QED BY <1>8, <1>11, <1>12, <1>13, <1>14, <1>15 DEF CallsInv

----------------------------------------------------------------------------
(* Connections *)

\* The number of connections that are not there grows with their set.
LEMMA UnusedGrows ==
  ASSUME NEW S \in Sockets, NEW T \in Sockets, Unused(S) \subseteq Unused(T)
  PROVE  /\ Cardinality(Unused(S)) \in Nat /\ Cardinality(Unused(T)) \in Nat
         /\ Cardinality(Unused(S)) <= Cardinality(Unused(T))
<1>1. IsFiniteSet(Unused(S)) /\ IsFiniteSet(Unused(T))
  BY PublishingAssumption, FS_Subset DEF Unused
<1>2. QED BY <1>1, FS_Subset, FS_CardinalityType

LEMMA OneMoreUnused ==
  ASSUME NEW S \in Sockets, NEW r \in Relays, S[r] # "none",
         NEW T, T = [S EXCEPT ![r] = "none"]
  PROVE  Cardinality(Unused(T)) = Cardinality(Unused(S)) + 1
<1>1. IsFiniteSet(Unused(S)) /\ r \notin Unused(S)
  BY PublishingAssumption, FS_Subset DEF Unused
<1>2. Unused(T) = Unused(S) \cup {r}
  BY DEF Unused, Sockets
<1>3. QED BY <1>1, <1>2, FS_AddElement

\* A relay is connected or settled.
LEMMA RelayBecomes ==
  ASSUME NEW J, NEW S, NEW n, ConnGood(J, S, n), J.at = "running",
         NEW r \in Relays, NEW st \in Pending \cup Settlement, st # "dialing",
         NEW so \in {"none", "dialing", "open"}, so = "open" => st = "open",
         S[r] = "none" => so = "none",
         NEW J2, J2 = [J EXCEPT !.relay = [J.relay EXCEPT ![r] = st]],
         NEW S2, S2 = [S EXCEPT ![r] = so]
  PROVE  ConnGood(J2, S2, n)
<1>1. J \in Jobs /\ S \in Sockets /\ n \in Nat
  BY DEF ConnGood
<1>2. PICK R \in [Relays -> Pending \cup Settlement] : R = J.relay
  BY <1>1 DEF Jobs
<1>3. PICK R2 : R2 = [R EXCEPT ![r] = st]
  OBVIOUS
<1>4. /\ R2 \in [Relays -> Pending \cup Settlement] /\ R2[r] = st
      /\ \A q \in Relays \ {r} : R2[q] = R[q]
  BY <1>3
<1>5. /\ S2 \in Sockets /\ S2[r] = so
      /\ \A q \in Relays \ {r} : S2[q] = S[q]
  BY <1>1 DEF Sockets
<1>6. J2 \in Jobs /\ J2.at = "running" /\ J2.relay = R2
  BY <1>1, <1>2, <1>3, <1>4 DEF Jobs
<1>7. Unused(S) \subseteq Unused(S2)
  BY <1>5 DEF Unused
<1>8. n <= Cardinality(Unused(S2))
  <2>1. /\ Cardinality(Unused(S)) \in Nat /\ Cardinality(Unused(S2)) \in Nat
        /\ Cardinality(Unused(S)) <= Cardinality(Unused(S2))
    BY <1>1, <1>5, <1>7, UnusedGrows
  <2>2. n <= Cardinality(Unused(S))
    BY DEF ConnGood
  <2>3. QED BY <1>1, <2>1, <2>2
<1>9. ASSUME NEW q \in Relays
      PROVE  /\ R2[q] = "dialing" => S2[q] = "dialing"
             /\ S2[q] = "open" => R2[q] = "open"
  <2>1. CASE q = r
    BY <1>4, <1>5, <2>1
  <2>2. CASE q # r
    <3>1. /\ R[q] = "dialing" => S[q] = "dialing"
          /\ S[q] = "open" => R[q] = "open"
      BY <1>2 DEF ConnGood
    <3>2. QED BY <1>4, <1>5, <2>2, <3>1
  <2>3. QED BY <2>1, <2>2
<1>10. QED BY <1>1, <1>5, <1>6, <1>8, <1>9 DEF ConnGood

\* A connection ends that its publication does not wait for any more.
LEMMA ConnectionEnds ==
  ASSUME NEW J, NEW S, NEW n, ConnGood(J, S, n),
         NEW r \in Relays, ~(J.at = "running" /\ J.relay[r] = "dialing"),
         NEW S2, S2 = [S EXCEPT ![r] = "none"],
         NEW m \in Nat, m = n \/ (m = n + 1 /\ S[r] # "none" /\ J.at # "idle")
  PROVE  ConnGood(J, S2, m)
<1>1. J \in Jobs /\ S \in Sockets /\ n \in Nat
  BY DEF ConnGood
<1>2. /\ S2 \in Sockets /\ S2[r] = "none"
      /\ \A q \in Relays \ {r} : S2[q] = S[q]
  BY <1>1 DEF Sockets
<1>3. Unused(S) \subseteq Unused(S2)
  BY <1>2 DEF Unused
<1>4. /\ Cardinality(Unused(S)) \in Nat
      /\ Cardinality(Unused(S2)) \in Nat
      /\ Cardinality(Unused(S)) <= Cardinality(Unused(S2))
  BY <1>1, <1>2, <1>3, UnusedGrows
<1>5. n <= Cardinality(Unused(S))
  BY DEF ConnGood
<1>6. m <= Cardinality(Unused(S2))
  <2>1. CASE m = n
    BY <1>1, <1>4, <1>5, <2>1
  <2>2. CASE m = n + 1 /\ S[r] # "none"
    <3>1. Cardinality(Unused(S2)) = Cardinality(Unused(S)) + 1
      BY <1>1, <2>2, OneMoreUnused
    <3>2. QED BY <1>1, <1>4, <1>5, <2>2, <3>1
  <2>3. QED BY <2>1, <2>2
<1>7. J.at = "idle" => m = 0 /\ S2 = [q \in Relays |-> "none"]
  BY <1>2 DEF ConnGood, Sockets
<1>8. QED BY <1>1, <1>2, <1>6, <1>7 DEF ConnGood

\* No connection and no late one: a new publication, one that ended, none.
LEMMA NoConnectionsGood ==
  ASSUME NEW J \in Jobs, NEW S \in Sockets,
         J.at = "idle" => S = [r \in Relays |-> "none"],
         J.at = "done" => J.outcome \in Outcomes,
         \A r \in Relays : S[r] # "open",
         \A r \in Relays : J.at = "running" /\ J.relay[r] = "dialing" => S[r] = "dialing"
  PROVE  ConnGood(J, S, 0)
<1>1. Cardinality(Unused(S)) \in Nat
  BY UnusedGrows
<1>2. 0 <= Cardinality(Unused(S))
  BY <1>1
<1>3. QED BY <1>2 DEF ConnGood

LEMMA ConnChange ==
  ASSUME ConnInv, NEW p \in Publications, NEW J, NEW S, NEW n, ConnGood(J, S, n),
         job' = [job EXCEPT ![p] = J], socket' = [socket EXCEPT ![p] = S],
         late' = [late EXCEPT ![p] = n]
  PROVE  ConnInv'
<1>1. J \in Jobs /\ S \in Sockets /\ n \in Nat
  BY DEF ConnGood
<1>2. /\ job' \in [Publications -> Jobs] /\ socket' \in [Publications -> Sockets]
      /\ late' \in [Publications -> Nat]
  BY <1>1 DEF ConnInv
<1>3. ASSUME NEW q \in Publications PROVE ConnGood(job'[q], socket'[q], late'[q])
  <2>1. CASE q = p
    <3>1. job'[q] = J /\ socket'[q] = S /\ late'[q] = n
      BY <2>1 DEF ConnInv
    <3>2. QED BY <3>1
  <2>2. CASE q # p
    <3>1. job'[q] = job[q] /\ socket'[q] = socket[q] /\ late'[q] = late[q]
      BY <2>2 DEF ConnInv
    <3>2. ConnGood(job[q], socket[q], late[q])
      BY DEF ConnInv
    <3>3. QED BY <3>1, <3>2
  <2>3. QED BY <2>1, <2>2
<1>4. QED BY <1>2, <1>3 DEF ConnInv

\* The parts of a publication.
LEMMA ConnParts ==
  ASSUME ConnInv, NEW p \in Publications
  PROVE  /\ job[p] \in Jobs /\ socket[p] \in Sockets /\ late[p] \in Nat
         /\ ConnGood(job[p], socket[p], late[p])
BY DEF ConnInv

\* What Become does, when the time limit was not passed before.
LEMMA BecomeKeeps ==
  ASSUME CallsInv, ConnInv, UNCHANGED postVars,
         NEW p \in Publications, NEW r \in Relays, job[p].at = "running",
         NEW st \in Pending \cup Settlement, st # "dialing",
         NEW so \in {"none", "dialing", "open"}, so = "open" => st = "open",
         socket[p][r] = "none" => so = "none",
         Become(p, r, st, so), late' = late
  PROVE  CallsInv' /\ ConnInv'
<1>1. PICK J \in Jobs : J = job[p]
  BY ConnParts
<1>2. PICK S \in Sockets : S = socket[p]
  BY ConnParts
<1>3. PICK n \in Nat : n = late[p]
  BY ConnParts
<1>4. ConnGood(J, S, n)
  BY <1>1, <1>2, <1>3, ConnParts
<1>5. PICK J2 : J2 = [J EXCEPT !.relay = [J.relay EXCEPT ![r] = st]]
  OBVIOUS
<1>6. PICK S2 : S2 = [S EXCEPT ![r] = so]
  OBVIOUS
<1>7. ConnGood(J2, S2, n)
  BY <1>1, <1>2, <1>4, <1>5, <1>6, RelayBecomes
<1>8. job' = [job EXCEPT ![p] = J2] /\ socket' = [socket EXCEPT ![p] = S2]
  BY <1>1, <1>2, <1>5, <1>6 DEF Become, ConnInv
<1>9. late' = [late EXCEPT ![p] = n]
  BY <1>3 DEF ConnInv
<1>10. ConnInv'
  BY <1>7, <1>8, <1>9, ConnChange
<1>11. J2.at = "running" /\ J2.accepted = J.accepted
  BY <1>1, <1>5 DEF Jobs
<1>12. PICK jobs : jobs = job'
  OBVIOUS
<1>13. jobs = [job EXCEPT ![p] = J2] /\ job \in [Publications -> Jobs]
  BY <1>8, <1>12 DEF ConnInv
<1>14. \A c \in Calls :
         \/ jobs[c] = job[c]
         \/ /\ job[c].at = "running" /\ jobs[c].at \in {"running", "done"}
            /\ jobs[c].at = "running" => jobs[c].accepted = job[c].accepted
  BY <1>1, <1>11, <1>13 DEF Calls
<1>15. CallsInv'
  BY <1>12, <1>14, JobsMove
<1>16. QED BY <1>10, <1>15

\* A connection of p that nothing waits for ends; the job stays.
LEMMA EndsKeeps ==
  ASSUME CallsInv, ConnInv, UNCHANGED postVars,
         NEW p \in Publications, NEW r \in Relays,
         ~(job[p].at = "running" /\ job[p].relay[r] = "dialing"),
         NEW m \in Nat,
         m = late[p] \/ (m = late[p] + 1 /\ socket[p][r] # "none" /\ job[p].at # "idle"),
         job' = job, socket' = [socket EXCEPT ![p][r] = "none"], late' = [late EXCEPT ![p] = m]
  PROVE  CallsInv' /\ ConnInv'
<1>1. PICK J \in Jobs : J = job[p]
  BY ConnParts
<1>2. PICK S \in Sockets : S = socket[p]
  BY ConnParts
<1>3. PICK n \in Nat : n = late[p]
  BY ConnParts
<1>4. ConnGood(J, S, n)
  BY <1>1, <1>2, <1>3, ConnParts
<1>5. PICK S2 : S2 = [S EXCEPT ![r] = "none"]
  OBVIOUS
<1>6. /\ ~(J.at = "running" /\ J.relay[r] = "dialing")
      /\ m = n \/ (m = n + 1 /\ S[r] # "none" /\ J.at # "idle")
  BY <1>1, <1>2, <1>3
<1>7. ConnGood(J, S2, m)
  BY <1>4, <1>5, <1>6, ConnectionEnds
<1>8. /\ job' = [job EXCEPT ![p] = J] /\ socket' = [socket EXCEPT ![p] = S2]
      /\ late' = [late EXCEPT ![p] = m]
  BY <1>1, <1>2, <1>5 DEF ConnInv
<1>9. ConnInv'
  BY <1>7, <1>8, ConnChange
<1>10. PICK jobs : jobs = job'
  OBVIOUS
<1>11. \A c \in Calls : jobs[c] = job[c]
  BY <1>10
<1>12. CallsInv'
  BY <1>10, <1>11, JobsMove
<1>13. QED BY <1>9, <1>12

\* Is says how a relay of a running publication stands.
LEMMA IsStands ==
  ASSUME ConnInv, NEW p \in Publications, NEW r \in Relays
  PROVE  /\ Is(p, r, "dialing") => job[p].at = "running" /\ socket[p][r] = "dialing"
         /\ Is(p, r, "open") => job[p].at = "running"
         /\ socket[p][r] = "open" => Is(p, r, "open")
         /\ job[p].at = "idle" => socket[p][r] = "none"
BY DEF ConnInv, ConnGood, Is

LEMMA DialedKeeps ==
  ASSUME CallsInv, ConnInv, UNCHANGED postVars,
         NEW p \in Publications, NEW r \in Relays, Dialed(p, r)
  PROVE  CallsInv' /\ ConnInv'
<1>1. socket[p][r] = "dialing"
  BY DEF Dialed
<1>2. CASE Is(p, r, "dialing")
  <2>1. PICK st \in Pending \cup Settlement : st = "open"
    BY DEF Pending
  <2>2. PICK so \in {"none", "dialing", "open"} : so = "open"
    OBVIOUS
  <2>3. /\ st # "dialing" /\ (so = "open" => st = "open")
        /\ socket[p][r] = "none" => so = "none"
        /\ Become(p, r, st, so) /\ late' = late
        /\ job[p].at = "running"
    BY <1>1, <1>2, <2>1, <2>2, IsStands DEF Dialed
  <2>4. QED BY <2>3, BecomeKeeps
<1>3. CASE ~Is(p, r, "dialing")
  <2>1. /\ ~(job[p].at = "running" /\ job[p].relay[r] = "dialing")
        /\ job' = job /\ socket' = [socket EXCEPT ![p][r] = "none"]
        /\ socket[p][r] # "none" /\ job[p].at # "idle"
    BY <1>1, <1>3, IsStands DEF Dialed, Is
  <2>2. late[p] \in Nat /\ late \in [Publications -> Nat]
    BY DEF ConnInv
  <2>3. CASE late' = late
    <3>1. PICK m \in Nat : m = late[p]
      BY <2>2
    <3>2. late' = [late EXCEPT ![p] = m]
      BY <2>2, <2>3, <3>1
    <3>3. QED BY <2>1, <3>1, <3>2, EndsKeeps
  <2>4. CASE late' = [late EXCEPT ![p] = @ + 1]
    <3>1. PICK m \in Nat : m = late[p] + 1
      BY <2>2
    <3>2. late' = [late EXCEPT ![p] = m]
      BY <2>2, <2>4, <3>1
    <3>3. QED BY <2>1, <3>1, <3>2, EndsKeeps
  <2>5. QED BY <1>3, <2>3, <2>4 DEF Dialed
<1>4. QED BY <1>2, <1>3

LEMMA DialFailsKeeps ==
  ASSUME CallsInv, ConnInv, UNCHANGED postVars,
         NEW p \in Publications, NEW r \in Relays, DialFails(p, r)
  PROVE  CallsInv' /\ ConnInv'
<1>1. late' = late /\ late[p] \in Nat /\ late \in [Publications -> Nat]
  BY DEF DialFails, ConnInv
<1>2. CASE Is(p, r, "dialing")
  <2>1. PICK st \in Pending \cup Settlement : st = "connect-failed"
    BY DEF Settlement
  <2>2. PICK so \in {"none", "dialing", "open"} : so = "none"
    OBVIOUS
  <2>3. job' = [job EXCEPT ![p].relay[r] = st] /\ socket' = [socket EXCEPT ![p][r] = so]
    BY <1>2, <2>1, <2>2 DEF DialFails
  <2>4. /\ st # "dialing" /\ (so = "open" => st = "open")
        /\ socket[p][r] = "none" => so = "none"
    BY <2>1, <2>2
  <2>5. Become(p, r, st, so)
    BY <2>3 DEF Become
  <2>6. job[p].at = "running"
    BY <1>2 DEF Is
  <2>7. late' = late
    BY <1>1
  <2>8. QED BY <2>4, <2>5, <2>6, <2>7, BecomeKeeps
<1>3. CASE ~Is(p, r, "dialing")
  <2>1. /\ ~(job[p].at = "running" /\ job[p].relay[r] = "dialing")
        /\ job' = job /\ socket' = [socket EXCEPT ![p][r] = "none"]
    BY <1>3 DEF DialFails, Is
  <2>2. PICK m \in Nat : m = late[p]
    BY <1>1
  <2>3. late' = [late EXCEPT ![p] = m]
    BY <1>1, <2>2
  <2>4. QED BY <2>1, <2>2, <2>3, EndsKeeps
<1>4. QED BY <1>2, <1>3

LEMMA ConnectTimeoutKeeps ==
  ASSUME CallsInv, ConnInv, UNCHANGED postVars,
         NEW p \in Publications, NEW r \in Relays, ConnectTimeout(p, r)
  PROVE  CallsInv' /\ ConnInv'
<1>1. PICK st \in Pending \cup Settlement : st = "connect-timeout"
  BY DEF Settlement
<1>2. PICK so \in {"none", "dialing", "open"} : so = "dialing"
  OBVIOUS
<1>3. /\ st # "dialing" /\ (so = "open" => st = "open")
      /\ socket[p][r] = "none" => so = "none"
      /\ Become(p, r, st, so) /\ late' = late
      /\ job[p].at = "running"
  BY <1>1, <1>2, IsStands DEF ConnectTimeout
<1>4. QED BY <1>3, BecomeKeeps

LEMMA EndPublishKeeps ==
  ASSUME CallsInv, ConnInv, UNCHANGED postVars,
         NEW p \in Publications, NEW r \in Relays, NEW st \in Settlement, EndPublish(p, r, st)
  PROVE  CallsInv' /\ ConnInv'
<1>1. PICK so \in {"none", "dialing", "open"} : so = "none"
  OBVIOUS
<1>2. st \in Pending \cup Settlement /\ st # "dialing"
  BY DEF Settlement
<1>3. /\ so = "open" => st = "open"
      /\ socket[p][r] = "none" => so = "none"
      /\ Become(p, r, st, so) /\ late' = late
      /\ job[p].at = "running"
  BY <1>1, IsStands DEF EndPublish
<1>4. QED BY <1>2, <1>3, BecomeKeeps

\* The outcome of a publication is one of the outcomes.
LEMMA OutcomeTyped ==
  ASSUME NEW p \in Publications
  PROVE  OutcomeOf(p) \in Outcomes
BY DEF OutcomeOf, WorkflowOutcome, Outcomes

LEMMA FinishKeeps ==
  ASSUME CallsInv, ConnInv, UNCHANGED postVars, NEW p \in Publications, Finish(p)
  PROVE  CallsInv' /\ ConnInv'
<1>1. PICK o \in Outcomes : o = OutcomeOf(p)
  BY OutcomeTyped
<1>2. PICK a \in SUBSET Relays : a = Accepted(p)
  BY DEF Accepted
<1>3. PICK J2 : J2 = [NoJob EXCEPT !.at = "done", !.accepted = a, !.outcome = o]
  OBVIOUS
<1>4. J2 \in Jobs /\ J2.at = "done" /\ J2.outcome \in Outcomes
  BY <1>1, <1>3 DEF NoJob, Jobs, Pending
<1>5. PICK S \in Sockets : S = socket[p]
  BY ConnParts
<1>6. ConnGood(job[p], S, late[p]) /\ \A r \in Relays : job[p].relay[r] \notin Pending
  BY <1>5, ConnParts DEF Finish
<1>7. \A r \in Relays : S[r] # "open"
  BY <1>6 DEF ConnGood, Pending
<1>8. ConnGood(J2, S, 0)
  BY <1>4, <1>7, NoConnectionsGood
<1>9. /\ job' = [job EXCEPT ![p] = J2] /\ socket' = [socket EXCEPT ![p] = S]
      /\ late' = [late EXCEPT ![p] = 0]
  BY <1>1, <1>2, <1>3, <1>5 DEF Finish, ConnInv
<1>10. PICK n : n = 0
  OBVIOUS
<1>11. ConnGood(J2, S, n) /\ late' = [late EXCEPT ![p] = n]
  BY <1>8, <1>9, <1>10
<1>12. ConnInv'
  BY <1>9, <1>11, ConnChange
<1>13. PICK jobs : jobs = job'
  OBVIOUS
<1>14. jobs = [job EXCEPT ![p] = J2] /\ job \in [Publications -> Jobs] /\ job[p].at = "running"
  BY <1>9, <1>13 DEF ConnInv, Finish
<1>15. \A c \in Calls :
         \/ jobs[c] = job[c]
         \/ /\ job[c].at = "running" /\ jobs[c].at \in {"running", "done"}
            /\ jobs[c].at = "running" => jobs[c].accepted = job[c].accepted
  BY <1>4, <1>14 DEF Calls
<1>16. CallsInv'
  BY <1>13, <1>15, JobsMove
<1>17. QED BY <1>12, <1>16

LEMMA PublishingKeeps ==
  ASSUME CallsInv, ConnInv, PublishingNext, UNCHANGED postVars
  PROVE  CallsInv' /\ ConnInv'
<1>1. ASSUME NEW p \in Publications, NEW r \in Relays,
             \/ RelayAccepts(p, r) \/ RelayRejects(p, r)
             \/ PublishTimeout(p, r) \/ ConnectionLost(p, r)
      PROVE  CallsInv' /\ ConnInv'
  <2>1. PICK st \in Settlement : EndPublish(p, r, st)
    BY <1>1 DEF RelayAccepts, RelayRejects, PublishTimeout, ConnectionLost, Settlement
  <2>2. QED BY <2>1, EndPublishKeeps
<1>2. QED
  BY <1>1, DialedKeeps, DialFailsKeeps, ConnectTimeoutKeeps, FinishKeeps DEF PublishingNext

\* A call begins to publish with no connection of its own.
LEMMA StartKeepsConnections ==
  ASSUME CallsInv, ConnInv, NEW c \in Calls, Begin(c)
  PROVE  ConnInv'
<1>1. c \in Publications /\ job[c] = NoJob /\ StartPublish(c)
  BY QueuedHasNoJob DEF Begin, Turn, Calls
<1>2. late[c] = 0
  BY <1>1, ConnParts DEF ConnGood, NoJob
<1>3. PICK J : J = [NoJob EXCEPT !.at = "running"]
  OBVIOUS
<1>4. PICK S : S = [r \in Relays |-> "dialing"]
  OBVIOUS
<1>5. J \in Jobs /\ J.at = "running"
  BY <1>3 DEF NoJob, Jobs, Pending
<1>6. S \in Sockets /\ \A r \in Relays : S[r] = "dialing"
  BY <1>4 DEF Sockets
<1>7. PICK n : n = 0
  OBVIOUS
<1>8. ConnGood(J, S, n)
  BY <1>5, <1>6, <1>7, NoConnectionsGood
<1>9. /\ job' = [job EXCEPT ![c] = J] /\ socket' = [socket EXCEPT ![c] = S]
      /\ late' = [late EXCEPT ![c] = n]
  BY <1>1, <1>2, <1>3, <1>4, <1>7 DEF StartPublish, ConnInv
<1>10. QED BY <1>1, <1>8, <1>9, ConnChange

LEMMA CrashConnectionsKeeps ==
  ASSUME ConnInv, Crash
  PROVE  ConnInv'
<1>1. NoJob \in Jobs /\ NoJob.at = "idle"
  BY DEF NoJob, Jobs, Pending
<1>2. PICK S : S = [r \in Relays |-> "none"]
  OBVIOUS
<1>3. S \in Sockets /\ \A r \in Relays : S[r] = "none"
  BY <1>2 DEF Sockets
<1>4. PICK jobs, sockets, lates : jobs = job' /\ sockets = socket' /\ lates = late'
  OBVIOUS
<1>5. ASSUME NEW p \in Publications
      PROVE  /\ jobs[p] \in Jobs /\ jobs[p].at # "running"
             /\ jobs[p].at = "done" => jobs[p].outcome \in Outcomes
             /\ sockets[p] = S /\ lates[p] = 0
  <2>1. jobs[p] = IF job[p].at = "running" THEN NoJob ELSE job[p]
    BY <1>4 DEF Crash
  <2>2. job[p].at = "done" => job[p].outcome \in Outcomes
    BY ConnParts DEF ConnGood
  <2>3. QED BY <1>1, <1>2, <1>4, <2>1, <2>2, ConnParts DEF Crash
<1>6. ASSUME NEW p \in Publications PROVE ConnGood(jobs[p], sockets[p], lates[p])
  <2>1. PICK J \in Jobs : /\ J = jobs[p] /\ J.at # "running"
                          /\ J.at = "done" => J.outcome \in Outcomes
    BY <1>5
  <2>2. ConnGood(J, S, 0)
    BY <1>2, <1>3, <2>1, NoConnectionsGood
  <2>3. PICK n : n = 0
    OBVIOUS
  <2>4. ConnGood(J, S, n)
    BY <2>2, <2>3
  <2>5. QED BY <1>5, <2>1, <2>3, <2>4
<1>7. /\ jobs \in [Publications -> Jobs] /\ sockets \in [Publications -> Sockets]
      /\ lates \in [Publications -> Nat]
  BY <1>3, <1>4, <1>5 DEF Crash
<1>8. QED BY <1>4, <1>6, <1>7 DEF ConnInv

----------------------------------------------------------------------------
(* Every behaviour *)

PostsInv == CallsInv /\ ConnInv

LEMMA PostsBegin ==
  ASSUME Init
  PROVE  PostsInv
<1>1. PICK calls, jobs : calls = call /\ jobs = job
  OBVIOUS
<1>2. \A c \in Calls : calls[c] = [at |-> "idle", event |-> "none", answer |-> "none"]
  BY <1>1 DEF Init
<1>3. calls \in [Calls -> CallStates]
  BY <1>1 DEF Init, CallStates
<1>4. /\ NoJob \in Jobs /\ NoJob.at = "idle" /\ NoJob.accepted = {}
  BY DEF NoJob, Jobs, Pending
<1>5. jobs \in [Publications -> Jobs] /\ \A p \in Publications : jobs[p] = NoJob
  BY <1>1, <1>4 DEF Init, PublishingInit
<1>6. PICK tagged \in SUBSET Events : row = [e \in tagged |-> NoRow]
  BY DEF Init
<1>7. DOMAIN row = tagged /\ \A e \in tagged : row[e] = NoRow
  BY <1>6
<1>8. NoRow \in Rows /\ NoRow.state = "none"
  BY DEF NoRow, Rows
<1>9. row \in [DOMAIN row -> Rows] /\ DOMAIN row \subseteq Events
  BY <1>6, <1>7, <1>8
<1>10. store = {} /\ lock = <<>>
  BY DEF Init
<1>11. PICK q : q = lock
  OBVIOUS
<1>12. q \in Seq(Calls) /\ DOMAIN q = {}
  BY <1>10, <1>11
<1>13. LockGood(q, calls)
  BY <1>2, <1>12 DEF LockGood, Begun
<1>14. ASSUME NEW c \in Calls PROVE CallGood(calls[c], jobs[c], store, row)
  BY <1>2, <1>4, <1>5 DEF CallGood, Begun, Calls
<1>15. ASSUME NEW c \in Calls PROVE ~Claims(calls[c])
  BY <1>2 DEF Claims
<1>16. ASSUME NEW e \in DOMAIN row PROVE RowGood(row[e], e, calls, jobs, store)
  BY <1>7, <1>8 DEF RowGood
<1>17. CallsInv
  <2>1. store \in SUBSET Events
    BY <1>10
  <2>2. QED BY <1>1, <1>3, <1>9, <1>11, <1>13, <1>14, <1>15, <1>16, <2>1 DEF CallsInv
<1>18. PICK S : S = [r \in Relays |-> "none"]
  OBVIOUS
<1>19. S \in Sockets /\ \A r \in Relays : S[r] = "none"
  BY <1>18 DEF Sockets
<1>20. ASSUME NEW p \in Publications PROVE ConnGood(jobs[p], socket[p], late[p])
  <2>1. PICK J \in Jobs : J = jobs[p] /\ J.at = "idle"
    BY <1>4, <1>5
  <2>2. ConnGood(J, S, 0)
    BY <1>18, <1>19, <2>1, NoConnectionsGood
  <2>3. PICK n : n = 0
    OBVIOUS
  <2>4. ConnGood(J, S, n)
    BY <2>2, <2>3
  <2>5. socket[p] = S /\ late[p] = n
    BY <1>18, <2>3 DEF Init, PublishingInit
  <2>6. QED BY <2>1, <2>4, <2>5
<1>21. socket \in [Publications -> Sockets] /\ late \in [Publications -> Nat]
  BY <1>18, <1>19 DEF Init, PublishingInit
<1>22. ConnInv
  BY <1>1, <1>5, <1>20, <1>21 DEF ConnInv
<1>23. QED BY <1>17, <1>22 DEF PostsInv

\* Nothing of the publisher changes.
LEMMA ConnectionsStay ==
  ASSUME ConnInv, UNCHANGED publishingVars
  PROVE  ConnInv'
BY DEF ConnInv, publishingVars

LEMMA PostsStay ==
  ASSUME PostsInv, UNCHANGED <<postVars, publishingVars>>
  PROVE  PostsInv'
<1>1. UNCHANGED postVars /\ UNCHANGED publishingVars
  OBVIOUS
<1>2. PICK jobs : jobs = job'
  OBVIOUS
<1>3. \A c \in Calls : jobs[c] = job[c]
  BY <1>1, <1>2 DEF publishingVars
<1>4. CallsInv'
  BY <1>1, <1>2, <1>3, JobsMove DEF PostsInv
<1>5. QED BY <1>1, <1>4, ConnectionsStay DEF PostsInv

LEMMA PostsStep ==
  ASSUME PostsInv, [Next]_vars
  PROVE  PostsInv'
<1>1. CallsInv /\ ConnInv /\ job \in [Calls -> Jobs]
  BY DEF PostsInv, ConnInv, Calls
<1>2. ASSUME NEW c \in Calls, Submit(c) PROVE PostsInv'
  BY <1>1, <1>2, SubmitKeeps, ConnectionsStay DEF Submit, PostsInv
<1>3. ASSUME NEW c \in Calls, Refuse(c) PROVE PostsInv'
  BY <1>1, <1>3, RefuseKeeps, ConnectionsStay DEF Refuse, PostsInv
<1>4. ASSUME NEW c \in Calls, Begin(c) PROVE PostsInv'
  BY <1>1, <1>4, BeginKeeps, StartKeepsConnections DEF PostsInv
<1>5. ASSUME NEW c \in Calls, NotPublished(c) PROVE PostsInv'
  BY <1>1, <1>5, NotPublishedKeeps, ConnectionsStay DEF NotPublished, PostsInv
<1>6. ASSUME NEW c \in Calls, WriteStore(c) PROVE PostsInv'
  BY <1>1, <1>6, WriteStoreKeeps, ConnectionsStay DEF WriteStore, PostsInv
<1>7. ASSUME NEW c \in Calls, WriteFails(c) PROVE PostsInv'
  BY <1>1, <1>7, WriteFailsKeeps, ConnectionsStay DEF WriteFails, PostsInv
<1>8. ASSUME NEW c \in Calls, Activate(c) PROVE PostsInv'
  BY <1>1, <1>8, ActivateKeeps, ConnectionsStay DEF Activate, PostsInv
<1>9. CASE PublishingNext /\ UNCHANGED postVars
  BY <1>1, <1>9, PublishingKeeps DEF PostsInv
<1>10. CASE EvidenceNext /\ UNCHANGED <<postVars, publishingVars>>
  BY <1>10, PostsStay
<1>11. CASE Crash
  BY <1>1, <1>11, CrashCallsKeeps, CrashConnectionsKeeps DEF PostsInv
<1>12. CASE UNCHANGED vars
  BY <1>12, PostsStay DEF vars
<1>13. QED
  BY <1>2, <1>3, <1>4, <1>5, <1>6, <1>7, <1>8, <1>9, <1>10, <1>11, <1>12 DEF Next, Continue

\* The queue of the lock, the store, the table and the publisher agree on
\* every call, whatever was posted before and wherever the process ended.
THEOREM PostsInvariant == Spec => []PostsInv
<1>1. Init => PostsInv
  BY PostsBegin
<1>2. PostsInv /\ [Next]_vars => PostsInv'
  BY PostsStep
<1>3. QED BY <1>1, <1>2, PTL DEF Spec

\* A proof buys one post; an active row has its record and its event on a
\* relay; an answer "revenueEnrolled" is true (createWiredAccountPost under the
\* lock of wiredAccountStoreQueue, setEnrollmentState on pending rows only).
THEOREM PostsHonest == Spec => []PostsAreHonest
<1>1. ASSUME PostsInv PROVE PostsAreHonest
  <2>1. CallsInv
    BY <1>1 DEF PostsInv
  <2>2. ProofBuysOnePost
    BY <2>1 DEF CallsInv, Claims, ProofBuysOnePost
  <2>3. ActiveIsPublished
    BY <2>1 DEF CallsInv, RowGood, OnRelay, ActiveIsPublished, RevenueEvents
  <2>4. AnsweredIsEnrolled
    BY <2>1 DEF CallsInv, CallGood, AnsweredIsEnrolled, RevenueEvents
  <2>5. QED BY <2>2, <2>3, <2>4 DEF PostsAreHonest
<1>2. PostsInv => PostsAreHonest
  BY <1>1
<1>3. QED BY <1>2, PostsInvariant, PTL

----------------------------------------------------------------------------
(* Samples *)

Counts == 0..CountLimit
Samplings == [outcome : Outcomes, targets : Counts, opened : Counts, closed : Counts,
              rejected : Counts, terminalClosed : Counts, connectFailed : Counts,
              timedOut : Counts, bucket : {"none", "one", "multiple", "all"}]
SampleGood(e) ==
  LET accepted == e.targets - e.rejected - e.terminalClosed - e.connectFailed - e.timedOut
  IN /\ IsEvidence(e) /\ accepted \in 0..e.targets
     /\ e.opened <= e.targets /\ e.closed = e.opened
     /\ e.bucket = Bucket(accepted, e.targets)
     /\ (e.outcome = "completed") = (accepted = e.targets)
     /\ (e.outcome \in {"failed", "timed-out"}) = (accepted = 0 /\ e.targets # 0)

\* The relays whose settlement is one of a set.
Settled(R, A) == Cardinality({r \in Relays : R[r] \in A})

LEMMA SettledIsNumber == ASSUME NEW R, NEW A PROVE Settled(R, A) \in Nat
<1>1. PICK S \in SUBSET Relays : S = {r \in Relays : R[r] \in A}
  OBVIOUS
<1>2. Cardinality(S) \in Nat
  BY PublishingAssumption, FS_Subset, FS_CardinalityType
<1>3. QED BY <1>1, <1>2 DEF Settled

LEMMA SettledSplits ==
  ASSUME NEW R, NEW A, NEW B, A \cap B = {}
  PROVE  /\ Settled(R, A) \in Nat /\ Settled(R, B) \in Nat
         /\ Settled(R, A \cup B) = Settled(R, A) + Settled(R, B)
<1> DEFINE S == {r \in Relays : R[r] \in A}
           T == {r \in Relays : R[r] \in B}
<1>1. IsFiniteSet(S) /\ IsFiniteSet(T)
  BY PublishingAssumption, FS_Subset
<1>2. S \cap T = {} /\ {r \in Relays : R[r] \in A \cup B} = S \cup T
  OBVIOUS
<1>3. Cardinality(S) \in Nat /\ Cardinality(T) \in Nat
  BY <1>1, FS_CardinalityType
<1>4. Cardinality({}) = 0
  BY FS_EmptySet
<1>5. Cardinality(S \cup T) = Cardinality(S) + Cardinality(T) - Cardinality(S \cap T)
  BY <1>1, FS_Union
<1>6. /\ Settled(R, A) = Cardinality(S) /\ Settled(R, B) = Cardinality(T)
      /\ Settled(R, A \cup B) = Cardinality(S \cup T)
  BY <1>2 DEF Settled
<1>7. Cardinality(S \cup T) = Cardinality(S) + Cardinality(T)
  <2> HIDE DEF S, T
  <2>1. Cardinality(S \cap T) = 0
    BY <1>2, <1>4
  <2>2. QED BY <1>3, <1>5, <2>1
<1> HIDE DEF S, T
<1>8. QED BY <1>3, <1>6, <1>7

\* Every relay settles in one way.
LEMMA EachTargetCountsOnce ==
  ASSUME NEW R, \A r \in Relays : R[r] \in Settlement
  PROVE  /\ Settled(R, {"accepted"}) \in Nat /\ Settled(R, {"rejected"}) \in Nat
         /\ Settled(R, {"terminal"}) \in Nat /\ Settled(R, {"connect-failed"}) \in Nat
         /\ Settled(R, {"publish-timeout"}) \in Nat /\ Settled(R, {"connect-timeout"}) \in Nat
         /\ Settled(R, {"publish-timeout", "connect-timeout"})
              = Settled(R, {"publish-timeout"}) + Settled(R, {"connect-timeout"})
         /\ Settled(R, Opened)
              = Settled(R, {"accepted"}) + Settled(R, {"rejected"})
                + Settled(R, {"terminal"}) + Settled(R, {"publish-timeout"})
         /\ Cardinality(Relays)
              = Settled(R, Opened) + Settled(R, {"connect-failed"})
                + Settled(R, {"connect-timeout"})
<1> DEFINE n(A) == Settled(R, A)
<1>0. \A A : n(A) \in Nat
  BY SettledIsNumber
<1>1. n({"accepted"} \cup {"rejected"}) = n({"accepted"}) + n({"rejected"})
  <2>1. {"accepted"} \cap {"rejected"} = {}
    OBVIOUS
  <2>2. QED BY <2>1, SettledSplits
<1>2. n({"terminal"} \cup {"publish-timeout"}) = n({"terminal"}) + n({"publish-timeout"})
  <2>1. {"terminal"} \cap {"publish-timeout"} = {}
    OBVIOUS
  <2>2. QED BY <2>1, SettledSplits
<1>3. n({"connect-failed"} \cup {"connect-timeout"}) = n({"connect-failed"}) + n({"connect-timeout"})
  <2>1. {"connect-failed"} \cap {"connect-timeout"} = {}
    OBVIOUS
  <2>2. QED BY <2>1, SettledSplits
<1>4. n({"publish-timeout"} \cup {"connect-timeout"}) = n({"publish-timeout"}) + n({"connect-timeout"})
  <2>1. {"publish-timeout"} \cap {"connect-timeout"} = {}
    OBVIOUS
  <2>2. QED BY <2>1, SettledSplits
<1>5. n(({"accepted"} \cup {"rejected"}) \cup ({"terminal"} \cup {"publish-timeout"}))
        = n({"accepted"} \cup {"rejected"}) + n({"terminal"} \cup {"publish-timeout"})
  <2>1. ({"accepted"} \cup {"rejected"}) \cap ({"terminal"} \cup {"publish-timeout"}) = {}
    OBVIOUS
  <2>2. QED BY <2>1, SettledSplits
<1>6. n(Opened \cup ({"connect-failed"} \cup {"connect-timeout"}))
        = n(Opened) + n({"connect-failed"} \cup {"connect-timeout"})
  <2>1. Opened \cap ({"connect-failed"} \cup {"connect-timeout"}) = {}
    BY DEF Opened
  <2>2. QED BY <2>1, SettledSplits
<1>7. /\ ({"accepted"} \cup {"rejected"}) \cup ({"terminal"} \cup {"publish-timeout"}) = Opened
      /\ {"publish-timeout"} \cup {"connect-timeout"} = {"publish-timeout", "connect-timeout"}
  BY DEF Opened
<1>8. Cardinality(Relays) = n(Opened \cup ({"connect-failed"} \cup {"connect-timeout"}))
  <2>1. {r \in Relays : R[r] \in Opened \cup ({"connect-failed"} \cup {"connect-timeout"})} = Relays
    BY DEF Opened, Settlement
  <2>2. QED BY <2>1 DEF Settled
<1> HIDE DEF n
<1>9. n({"publish-timeout", "connect-timeout"})
        = n({"publish-timeout"}) + n({"connect-timeout"})
  BY <1>4, <1>7
<1>10. n(Opened) = n({"accepted"}) + n({"rejected"}) + n({"terminal"}) + n({"publish-timeout"})
  <2>1. n(Opened) = n({"accepted"} \cup {"rejected"}) + n({"terminal"} \cup {"publish-timeout"})
    BY <1>5, <1>7
  <2>2. PICK a \in Nat, j \in Nat, s \in Nat, u \in Nat :
          /\ a = n({"accepted"}) /\ j = n({"rejected"})
          /\ s = n({"terminal"}) /\ u = n({"publish-timeout"})
    BY <1>0
  <2>3. n(Opened) = (a + j) + (s + u)
    BY <1>1, <1>2, <2>1, <2>2
  <2>4. (a + j) + (s + u) = a + j + s + u
    OBVIOUS
  <2>5. QED BY <2>2, <2>3, <2>4
<1>11. Cardinality(Relays) = n(Opened) + n({"connect-failed"}) + n({"connect-timeout"})
  <2>1. PICK o \in Nat, f \in Nat, v \in Nat :
          o = n(Opened) /\ f = n({"connect-failed"}) /\ v = n({"connect-timeout"})
    BY <1>0
  <2>2. Cardinality(Relays) = o + (f + v)
    BY <1>3, <1>6, <1>8, <2>1
  <2>3. o + (f + v) = o + f + v
    OBVIOUS
  <2>4. QED BY <2>1, <2>2, <2>3
<1>12. QED BY <1>0, <1>9, <1>10, <1>11 DEF n

\* The counters of one publication, given how many relays settled in each way.
SampleFacts(a, j, t, f, u, v, N, w, o, e) ==
  /\ N = a + j + t + u + f + v /\ N <= CountLimit
  /\ w = u + v /\ o = a + j + t + u
  /\ e = [outcome |-> WorkflowOutcome(N, a, w, 0), targets |-> N,
          opened |-> o, closed |-> o, rejected |-> j, terminalClosed |-> t,
          connectFailed |-> f, timedOut |-> w, bucket |-> Bucket(a, N)]

LEMMA SampleAddsUp ==
  ASSUME NEW a \in Nat, NEW j \in Nat, NEW t \in Nat, NEW f \in Nat, NEW u \in Nat, NEW v \in Nat,
         NEW N \in Nat, NEW w, NEW o, NEW e, SampleFacts(a, j, t, f, u, v, N, w, o, e)
  PROVE  e \in Samplings /\ SampleGood(e) /\ e.outcome \in Outcomes
<1> CountLimit \in Nat
  BY DEF CountLimit
<1> /\ N = a + j + t + u + f + v /\ N <= CountLimit
    /\ w = u + v /\ o = a + j + t + u
  BY DEF SampleFacts
<1>1. /\ N \in Counts /\ o \in Counts /\ j \in Counts /\ t \in Counts /\ f \in Counts
      /\ w \in Counts /\ o <= N /\ N - j - t - f - w = a /\ a \in 0..N
  BY DEF Counts
<1>2. Bucket(a, N) \in {"none", "one", "multiple", "all"}
  BY DEF Bucket
<1>3. WorkflowOutcome(N, a, w, 0) \in Outcomes
  BY DEF WorkflowOutcome, Outcomes
<1>4. /\ (WorkflowOutcome(N, a, w, 0) = "completed") <=> (a = N)
      /\ (WorkflowOutcome(N, a, w, 0) \in {"failed", "timed-out"}) <=> (a = 0 /\ N # 0)
  BY <1>1 DEF WorkflowOutcome
<1>5. PICK b : b = Bucket(a, N)
  OBVIOUS
<1>6. PICK x : x = WorkflowOutcome(N, a, w, 0)
  OBVIOUS
<1>7. e = [outcome |-> x, targets |-> N, opened |-> o, closed |-> o, rejected |-> j,
           terminalClosed |-> t, connectFailed |-> f, timedOut |-> w, bucket |-> b]
  BY <1>5, <1>6 DEF SampleFacts
<1>8. e \in Samplings
  BY <1>1, <1>2, <1>3, <1>5, <1>6, <1>7 DEF Samplings
<1>9. /\ e.outcome = x /\ e.targets = N /\ e.opened = o /\ e.closed = o /\ e.rejected = j
      /\ e.terminalClosed = t /\ e.connectFailed = f /\ e.timedOut = w /\ e.bucket = b
  BY <1>7
<1>10. IsEvidence(e)
  <2>1. e.outcome \in Outcomes /\ e.bucket \in {"none", "one", "multiple", "all"}
    BY <1>2, <1>3, <1>5, <1>6, <1>9
  <2>2. ASSUME NEW k \in {"targets", "opened", "closed", "rejected", "terminalClosed",
                          "connectFailed", "timedOut"}
        PROVE  e[k] \in 0..CountLimit
    BY <1>1, <1>9 DEF Counts
  <2>3. QED BY <2>1, <2>2 DEF IsEvidence
<1>11. SampleGood(e)
  <2>1. e.targets - e.rejected - e.terminalClosed - e.connectFailed - e.timedOut = a
    BY <1>1, <1>9
  <2>2. /\ a \in 0..e.targets /\ e.opened <= e.targets /\ e.closed = e.opened
        /\ e.bucket = Bucket(a, e.targets)
    BY <1>1, <1>5, <1>9
  <2>3. (e.outcome = "completed") = (a = e.targets)
    BY <1>4, <1>6, <1>9
  <2>4. (e.outcome \in {"failed", "timed-out"}) = (a = 0 /\ e.targets # 0)
    BY <1>4, <1>6, <1>9
  <2>5. QED BY <1>10, <2>1, <2>2, <2>3, <2>4 DEF SampleGood
<1>12. QED BY <1>3, <1>6, <1>8, <1>9, <1>11

\* The tasks of the dispatcher.
Lates == [kind : {"late"}, outcome : Outcomes, evidence : {"none"}]
Sampled == [kind : {"sample"}, outcome : Outcomes, evidence : {e \in Samplings : SampleGood(e)}]
Tasks == Lates \cup Sampled

LEMMA SampleIsTask ==
  ASSUME ConnInv, NEW p \in Publications, \A r \in Relays : job[p].relay[r] \notin Pending
  PROVE  SampleTask(p) \in Tasks
<1>1. PICK R : R = job[p].relay
  OBVIOUS
<1>2. \A r \in Relays : R[r] \in Settlement
  BY <1>1, ConnParts DEF Jobs
<1>3. Cardinality(Relays) \in Nat /\ Cardinality(Relays) <= CountLimit
  BY PublishingAssumption, FS_CardinalityType
<1>4. Cardinality(Accepted(p)) = Settled(R, {"accepted"})
  <2>1. Accepted(p) = {r \in Relays : R[r] \in {"accepted"}}
    BY <1>1 DEF Accepted
  <2>2. QED BY <2>1 DEF Settled
<1>5. /\ TimedOut(p) = Settled(R, {"publish-timeout", "connect-timeout"})
      /\ Of(p, Opened) = Settled(R, Opened) /\ Of(p, {"rejected"}) = Settled(R, {"rejected"})
      /\ Of(p, {"terminal"}) = Settled(R, {"terminal"})
      /\ Of(p, {"connect-failed"}) = Settled(R, {"connect-failed"})
  BY <1>1 DEF TimedOut, Of, Settled
<1>6. PICK e : e = Evidence(p)
  OBVIOUS
<1>7. PICK a \in Nat, j \in Nat, t \in Nat, f \in Nat, u \in Nat, v \in Nat :
        /\ a = Settled(R, {"accepted"}) /\ j = Settled(R, {"rejected"})
        /\ t = Settled(R, {"terminal"}) /\ f = Settled(R, {"connect-failed"})
        /\ u = Settled(R, {"publish-timeout"}) /\ v = Settled(R, {"connect-timeout"})
  BY <1>2, EachTargetCountsOnce
<1>8. PICK N \in Nat : N = Cardinality(Relays)
  BY <1>3
<1>9. PICK w, o : w = TimedOut(p) /\ o = Of(p, Opened)
  OBVIOUS
<1>10. w = u + v /\ o = a + j + t + u /\ N = o + f + v
  <2>1. w = u + v
    BY <1>2, <1>5, <1>7, <1>9, EachTargetCountsOnce
  <2>2. o = a + j + t + u
    BY <1>2, <1>5, <1>7, <1>9, EachTargetCountsOnce
  <2>3. N = o + f + v
    BY <1>2, <1>5, <1>7, <1>8, <1>9, EachTargetCountsOnce
  <2>4. QED BY <2>1, <2>2, <2>3
<1>11. N = a + j + t + u + f + v /\ N <= CountLimit
  BY <1>3, <1>8, <1>10
<1>12. e = [outcome |-> WorkflowOutcome(N, a, w, 0), targets |-> N,
            opened |-> o, closed |-> o, rejected |-> j, terminalClosed |-> t,
            connectFailed |-> f, timedOut |-> w, bucket |-> Bucket(a, N)]
  BY <1>4, <1>5, <1>6, <1>7, <1>8, <1>9 DEF Evidence, OutcomeOf
<1>13. e \in Samplings /\ SampleGood(e)
  <2>1. w = u + v /\ o = a + j + t + u
    BY <1>10
  <2>2. SampleFacts(a, j, t, f, u, v, N, w, o, e)
    BY <1>11, <1>12, <2>1 DEF SampleFacts
  <2>3. QED BY <2>2, SampleAddsUp
<1>14. PICK x \in Outcomes : x = OutcomeOf(p)
  BY OutcomeTyped
<1>15. SampleTask(p) = [kind |-> "sample", outcome |-> x, evidence |-> e]
  BY <1>6, <1>14 DEF SampleTask
<1>16. QED BY <1>13, <1>14, <1>15 DEF Tasks, Sampled

----------------------------------------------------------------------------
(* The bounded queues of the evidence *)

LEMMA MaxWithZero ==
  ASSUME NEW x \in Int
  PROVE  Max({0, x}) = IF x >= 0 THEN x ELSE 0
<1>1. PICK m \in {0, x} : m = IF x >= 0 THEN x ELSE 0
  OBVIOUS
<1>2. \A y \in {0, x} : m >= y
  BY <1>1
<1>3. \A n \in {0, x} : (\A y \in {0, x} : n >= y) => n = m
  BY <1>1
<1>4. Max({0, x}) = CHOOSE y \in {0, x} : \A z \in {0, x} : y >= z
  BY DEF Max
<1>5. Max({0, x}) = m
  BY <1>2, <1>3, <1>4
<1>6. QED BY <1>1, <1>5

\* A queue that drops its oldest entries keeps within its limit.
LEMMA CutSuffices ==
  ASSUME NEW n \in Nat, NEW limit \in Nat
  PROVE  Max({0, n - limit}) \in 0..n /\ n - Max({0, n - limit}) <= limit
<1>1. n - limit \in Int
  OBVIOUS
<1>2. PICK x : x = Max({0, n - limit})
  OBVIOUS
<1>3. x = IF n - limit >= 0 THEN n - limit ELSE 0
  BY <1>1, <1>2, MaxWithZero
<1>4. x \in 0..n /\ n - x <= limit
  BY <1>3
<1>5. QED BY <1>2, <1>4

LEMMA OldestAreCut ==
  ASSUME NEW T, NEW all \in Seq(T), NEW n \in Nat, n = Len(all), NEW cut \in 0..n
  PROVE  SubSeq(all, cut + 1, n) \in Seq(T) /\ Len(SubSeq(all, cut + 1, n)) = n - cut
<1>1. PICK m \in Int : m = cut + 1
  OBVIOUS
<1>2. \A i \in m..n : all[i] \in T
  BY <1>1
<1>3. /\ SubSeq(all, m, n) \in Seq(T)
      /\ Len(SubSeq(all, m, n)) = IF m <= n THEN n - m + 1 ELSE 0
  BY <1>2, SubSeqProperties
<1>4. (IF m <= n THEN n - m + 1 ELSE 0) = n - cut
  BY <1>1
<1>5. QED BY <1>1, <1>3, <1>4

\* Drop counters and the count of envelopes; samples are summed up elsewhere.
Tally(d, h) == \E T : d \in [tasks : Int, envelopes : Int] /\ h \in [samples : T, envelopes : Int]

TasksInv == tasks \in Seq(Tasks) /\ Len(tasks) <= MaxTasks
EnvelopesInv ==
  /\ (\E T : queue \in Seq(T)) /\ Len(queue) <= MaxQueue
  /\ (\E T : flight \in Seq(T)) /\ Len(flight) <= 1
  /\ Tally(dropped, history)
  /\ EnvelopesAreConserved

\* Nothing of the queue and the upload changes.
LEMMA EnvelopesStay ==
  ASSUME EnvelopesInv, queue' = queue, flight' = flight,
         Tally(dropped', history'),
         dropped'.envelopes = dropped.envelopes, history'.envelopes = history.envelopes
  PROVE  EnvelopesInv'
BY DEF EnvelopesInv, EnvelopesAreConserved

LEMMA DeferKeeps ==
  ASSUME TasksInv, EnvelopesInv, NEW new \in Seq(Tasks), Defer(new),
         queue' = queue, flight' = flight
  PROVE  TasksInv' /\ EnvelopesInv'
<1>1. PICK all : all = tasks \o new
  OBVIOUS
<1>2. PICK cut : cut = Max({0, Len(all) - MaxTasks})
  OBVIOUS
<1>3. PICK rest : rest = SubSeq(all, cut + 1, Len(all))
  OBVIOUS
<1>4. all \in Seq(Tasks) /\ MaxTasks \in Nat
  BY <1>1, EvidenceAssumption DEF TasksInv
<1>5. /\ cut \in 0..Len(all)
      /\ rest \in Seq(Tasks) /\ Len(rest) <= MaxTasks
  <2>1. PICK limit \in Nat : limit = MaxTasks
    BY <1>4
  <2>2. PICK n \in Nat : n = Len(all)
    BY <1>4
  <2>3. PICK k \in 0..n : k = cut /\ n - k <= limit
    BY <1>2, <2>1, <2>2, CutSuffices
  <2>4. rest = SubSeq(all, k + 1, n)
    BY <1>3, <2>2, <2>3
  <2>5. rest \in Seq(Tasks) /\ Len(rest) = n - k
    BY <1>4, <2>2, <2>4, OldestAreCut
  <2>6. QED BY <2>1, <2>2, <2>3, <2>5
<1>6. tasks' = rest
  BY <1>1, <1>2, <1>3 DEF Defer
<1>7. TasksInv'
  BY <1>5, <1>6 DEF TasksInv
<1>8. PICK T : dropped \in [tasks : Int, envelopes : Int] /\ history \in [samples : T, envelopes : Int]
  BY DEF EnvelopesInv, Tally
<1>9. PICK s : s = history.samples + Samples(new) - Samples(SubSeq(all, 1, cut))
  OBVIOUS
<1>10. history' = [history EXCEPT !.samples = s]
  BY <1>1, <1>2, <1>9 DEF Defer
<1>11. dropped' = [dropped EXCEPT !.tasks = @ + cut]
  BY <1>1, <1>2 DEF Defer
<1>12. cut \in Int
  BY <1>4, <1>5
<1>13. dropped' \in [tasks : Int, envelopes : Int] /\ dropped'.envelopes = dropped.envelopes
  BY <1>8, <1>11, <1>12
<1>14. history' \in [samples : T \cup {s}, envelopes : Int] /\ history'.envelopes = history.envelopes
  BY <1>8, <1>10
<1>15. PICK d, h : d = dropped' /\ h = history'
  OBVIOUS
<1>16. Tally(d, h)
  BY <1>13, <1>14, <1>15 DEF Tally
<1>17. EnvelopesInv'
  BY <1>13, <1>14, <1>15, <1>16, EnvelopesStay
<1>18. QED BY <1>7, <1>17

\* An oldest envelope that has to go is in the drop counter.
LEMMA EnqueueKeeps ==
  ASSUME EnvelopesInv, NEW T, NEW new \in Seq(T), Enqueue(new), flight' = flight
  PROVE  EnvelopesInv'
<1>1. PICK all : all = queue \o new
  OBVIOUS
<1>2. PICK cut : cut = Max({0, Len(all) - MaxQueue})
  OBVIOUS
<1>3. PICK rest : rest = SubSeq(all, cut + 1, Len(all))
  OBVIOUS
<1>4. PICK U : queue \in Seq(U)
  BY DEF EnvelopesInv
<1>5. PICK W : W = T \cup U
  OBVIOUS
<1>6. queue \in Seq(W) /\ new \in Seq(W)
  BY <1>4, <1>5
<1>7. /\ all \in Seq(W) /\ Len(all) = Len(queue) + Len(new) /\ MaxQueue \in Nat
      /\ Len(queue) \in Nat /\ Len(new) \in Nat
  BY <1>1, <1>6, EvidenceAssumption
<1>8. /\ cut \in 0..Len(all)
      /\ rest \in Seq(W) /\ Len(rest) = Len(all) - cut /\ Len(rest) <= MaxQueue
  <2>1. PICK limit \in Nat : limit = MaxQueue
    BY <1>7
  <2>2. PICK n \in Nat : n = Len(all)
    BY <1>7
  <2>3. PICK k \in 0..n : k = cut /\ n - k <= limit
    BY <1>2, <2>1, <2>2, CutSuffices
  <2>4. rest = SubSeq(all, k + 1, n)
    BY <1>3, <2>2, <2>3
  <2>5. rest \in Seq(W) /\ Len(rest) = n - k
    BY <1>7, <2>2, <2>4, OldestAreCut
  <2>6. QED BY <2>1, <2>2, <2>3, <2>5
<1>9. queue' = rest
  BY <1>1, <1>2, <1>3 DEF Enqueue
<1>10. PICK V : dropped \in [tasks : Int, envelopes : Int] /\ history \in [samples : V, envelopes : Int]
  BY DEF EnvelopesInv, Tally
<1>11. PICK s : s = history.samples - SumSeq(SubSeq(all, 1, cut))
  OBVIOUS
<1>12. cut \in Int /\ Len(new) \in Int
  BY <1>7, <1>8
<1>13. dropped' = [dropped EXCEPT !.envelopes = @ + cut]
  BY <1>1, <1>2 DEF Enqueue
<1>14. history' = [history EXCEPT !.envelopes = @ + Len(new), !.samples = s]
  BY <1>1, <1>2, <1>10, <1>11 DEF Enqueue
<1>15. /\ dropped' \in [tasks : Int, envelopes : Int]
       /\ dropped'.envelopes = dropped.envelopes + cut
  BY <1>10, <1>12, <1>13
<1>16. PICK k \in Int : k = history.envelopes + Len(new)
  BY <1>10, <1>12
<1>17. history' = [[history EXCEPT !.envelopes = k] EXCEPT !.samples = s]
  BY <1>10, <1>14, <1>16
<1>18. /\ history' \in [samples : V \cup {s}, envelopes : Int]
       /\ history'.envelopes = k
  <2>1. PICK g : g = [history EXCEPT !.envelopes = k]
    OBVIOUS
  <2>2. g \in [samples : V, envelopes : Int] /\ g.envelopes = k
    BY <1>10, <2>1
  <2>3. QED BY <1>17, <2>1, <2>2
<1>19. PICK d, h : d = dropped' /\ h = history'
  OBVIOUS
<1>20. Tally(d, h)
  BY <1>15, <1>18, <1>19 DEF Tally
<1>21. EnvelopesAreConserved'
  <2>1. history.envelopes = Len(queue) + Len(flight) + dropped.envelopes
    BY DEF EnvelopesInv, EnvelopesAreConserved
  <2>2. Len(flight) \in Nat
    BY DEF EnvelopesInv
  <2>3. dropped.envelopes \in Int /\ history.envelopes \in Int
    BY <1>10
  <2>4. k = Len(rest) + Len(flight) + dropped'.envelopes
    <3>1. PICK q \in Nat, n \in Nat, x \in Nat :
            q = Len(queue) /\ n = Len(new) /\ x = Len(flight)
      BY <1>7, <2>2
    <3>2. PICK i \in Int, y \in Int : i = cut /\ y = dropped.envelopes
      BY <1>12, <2>3
    <3>3. k = (q + x + y) + n
      BY <1>16, <2>1, <3>1, <3>2
    <3>4. Len(rest) = (q + n) - i /\ dropped'.envelopes = y + i
      BY <1>7, <1>8, <1>15, <3>1, <3>2
    <3>5. (q + x + y) + n = ((q + n) - i) + x + (y + i)
      OBVIOUS
    <3>6. QED BY <3>1, <3>3, <3>4, <3>5
  <2>5. QED BY <1>9, <1>18, <2>4 DEF EnvelopesAreConserved
<1>22. QED BY <1>8, <1>9, <1>19, <1>20, <1>21 DEF EnvelopesInv

----------------------------------------------------------------------------
(* The collector: what the deferred tasks add up to *)

Counters == [samples : 0..CounterLimit, overflowed : 0..CounterLimit, late : 0..CounterLimit]
Aggregates == [Outcomes -> Counters]

LEMMA PlusIsCapped ==
  ASSUME NEW a \in 0..CounterLimit
  PROVE  Plus(a, 1) \in 0..CounterLimit
<1>1. CounterLimit \in Nat
  BY EvidenceAssumption
<1>2. PICK b \in Nat : b = a + 1
  BY <1>1
<1>3. PICK m \in {CounterLimit, b} : m = IF CounterLimit <= b THEN CounterLimit ELSE b
  OBVIOUS
<1>4. /\ \A y \in {CounterLimit, b} : m <= y
      /\ \A n \in {CounterLimit, b} : (\A y \in {CounterLimit, b} : n <= y) => n = m
  BY <1>1, <1>3
<1>5. Plus(a, 1) = CHOOSE x \in {CounterLimit, b} : \A y \in {CounterLimit, b} : x <= y
  BY <1>2 DEF Plus, Min
<1>6. Plus(a, 1) = m
  BY <1>4, <1>5
<1>7. QED BY <1>1, <1>2, <1>3, <1>6

LEMMA RecordedTyped ==
  ASSUME NEW aggs \in Aggregates, NEW t \in Tasks
  PROVE  Recorded(aggs, t) \in Aggregates
<1>1. PICK o \in Outcomes : o = t.outcome
  BY DEF Tasks, Lates, Sampled
<1>2. PICK z \in Counters : z = aggs[o]
  BY DEF Aggregates
<1>3. /\ z.samples \in 0..CounterLimit /\ z.overflowed \in 0..CounterLimit
      /\ z.late \in 0..CounterLimit
  BY DEF Counters
<1>4. PICK a, b, c : /\ a = [aggs EXCEPT ![o].late = Plus(@, 1)]
                     /\ b = [aggs EXCEPT ![o].overflowed = Plus(@, 1)]
                     /\ c = [aggs EXCEPT ![o].samples = Plus(@, 1)]
  OBVIOUS
<1>5. a \in Aggregates
  <2>1. PICK n \in 0..CounterLimit : n = Plus(z.late, 1)
    BY <1>3, PlusIsCapped
  <2>2. PICK y : y = [z EXCEPT !.late = n]
    OBVIOUS
  <2>3. y \in Counters
    BY <2>2 DEF Counters
  <2>4. a = [aggs EXCEPT ![o] = y]
    BY <1>2, <1>4, <2>1, <2>2 DEF Aggregates
  <2>5. QED BY <2>3, <2>4 DEF Aggregates
<1>6. b \in Aggregates
  <2>1. PICK n \in 0..CounterLimit : n = Plus(z.overflowed, 1)
    BY <1>3, PlusIsCapped
  <2>2. PICK y : y = [z EXCEPT !.overflowed = n]
    OBVIOUS
  <2>3. y \in Counters
    BY <2>2 DEF Counters
  <2>4. b = [aggs EXCEPT ![o] = y]
    BY <1>2, <1>4, <2>1, <2>2 DEF Aggregates
  <2>5. QED BY <2>3, <2>4 DEF Aggregates
<1>7. c \in Aggregates
  <2>1. PICK n \in 0..CounterLimit : n = Plus(z.samples, 1)
    BY <1>3, PlusIsCapped
  <2>2. PICK y : y = [z EXCEPT !.samples = n]
    OBVIOUS
  <2>3. y \in Counters
    BY <2>2 DEF Counters
  <2>4. c = [aggs EXCEPT ![o] = y]
    BY <1>2, <1>4, <2>1, <2>2 DEF Aggregates
  <2>5. QED BY <2>3, <2>4 DEF Aggregates
<1>8. Recorded(aggs, t) \in {aggs, a, b, c}
  BY <1>1, <1>4 DEF Recorded
<1>9. QED BY <1>5, <1>6, <1>7, <1>8

\* Induction over the subsets of a finite set: "good" is the set of those for
\* which what is to be shown holds.
LEMMA SubsetInduction ==
  ASSUME NEW S, IsFiniteSet(S), NEW good \in SUBSET SUBSET S,
         \A T \in SUBSET S : (\A U \in SUBSET T : U # T => U \in good) => T \in good
  PROVE  S \in good
<1> DEFINE bad == (SUBSET S) \ good
<1> SUFFICES ASSUME bad # {} PROVE FALSE
  OBVIOUS
<1>1. IsWellFoundedOn(StrictSubsetOrdering(S), SUBSET S)
  <2>1. FiniteSubsetsOf(S) = SUBSET S
    BY FS_FiniteSubsetsOfFinite
  <2>2. IsWellFoundedOn(StrictSubsetOrdering(S), FiniteSubsetsOf(S))
    BY FS_StrictSubsetOrderingWellFounded
  <2>3. QED BY <2>1, <2>2
<1>2. PICK T \in bad : \A U \in bad : <<U, T>> \notin StrictSubsetOrdering(S)
  <2> HIDE DEF bad
  <2>1. bad \subseteq SUBSET S
    BY DEF bad
  <2>2. QED BY <1>1, <2>1, WFMin
<1>3. \A U \in SUBSET T : U # T => U \in good
  BY <1>2 DEF StrictSubsetOrdering
<1>4. QED BY <1>2, <1>3

\* A finite set of numbers has a greatest one.
LEMMA GreatestOf ==
  ASSUME NEW s \in SUBSET Nat, IsFiniteSet(s), s # {}
  PROVE  Max(s) \in s /\ \A y \in s : Max(s) >= y
<1> DEFINE good == {t \in SUBSET s : t = {} \/ \E x \in t : \A y \in t : x >= y}
<1>1. ASSUME NEW t \in SUBSET s, \A u \in SUBSET t : u # t => u \in good
      PROVE  t \in good
  <2>1. CASE t = {}
    BY <2>1
  <2>2. CASE t # {}
    <3>1. PICK z \in t : TRUE
      BY <2>2
    <3>2. PICK u : u = t \ {z}
      OBVIOUS
    <3>3. u \in good
      BY <1>1, <3>1, <3>2
    <3>4. CASE u = {}
      BY <3>1, <3>2, <3>4
    <3>5. CASE u # {}
      <4>1. PICK x \in u : \A y \in u : x >= y
        BY <3>3, <3>5
      <4>2. PICK m \in {x, z} : m >= x /\ m >= z
        BY <3>1, <3>2, <4>1
      <4>3. m \in t /\ \A y \in t : m >= y
        BY <3>1, <3>2, <4>1, <4>2
      <4>4. QED BY <4>3
    <3>6. QED BY <3>4, <3>5
  <2>3. QED BY <2>1, <2>2
<1>2. s \in good
  <2> HIDE DEF good
  <2>1. good \in SUBSET SUBSET s
    BY DEF good
  <2>2. QED BY <1>1, <2>1, SubsetInduction
<1>3. QED BY <1>2 DEF Max

\* Induction up to a number.
LEMMA UpTo ==
  ASSUME NEW N \in Nat, NEW good, 0 \in good,
         \A n \in 0..(N - 1) : n \in good => n + 1 \in good
  PROVE  \A n \in 0..N : n \in good
<1> DEFINE S == 0..N
           fine == {T \in SUBSET S : \A n \in S : 0..n \subseteq T => n \in good}
<1>1. IsFiniteSet(S)
  BY FS_Interval
<1>2. ASSUME NEW T \in SUBSET S, \A U \in SUBSET T : U # T => U \in fine
      PROVE  T \in fine
  <2> SUFFICES ASSUME NEW n \in S, 0..n \subseteq T PROVE n \in good
    OBVIOUS
  <2>1. CASE n = 0
    BY <2>1
  <2>2. CASE n # 0
    <3>1. n - 1 \in S /\ n - 1 \in 0..(N - 1) /\ 0..(n - 1) \subseteq T \ {n} /\ n \in T
      BY <2>2
    <3>2. T \ {n} \in SUBSET T /\ T \ {n} # T
      BY <3>1
    <3>2a. T \ {n} \in fine
      <4> HIDE DEF fine
      <4>1. QED BY <1>2, <3>2
    <3>3. n - 1 \in good
      BY <3>1, <3>2a
    <3>4. (n - 1) + 1 \in good
      BY <3>1, <3>3
    <3>5. QED BY <3>4
  <2>3. QED BY <2>1, <2>2
<1>3. S \in fine
  <2> HIDE DEF S
  <2>1. fine \in SUBSET SUBSET S
    OBVIOUS
  <2> HIDE DEF fine
  <2>2. QED BY <1>1, <1>2, <2>1, SubsetInduction
<1>4. \A n \in S : 0..n \subseteq S
  OBVIOUS
<1>5. QED BY <1>3, <1>4

\* The first numbers are the subsets that a fold over a sequence runs through.
LEMMA FirstOnes ==
  ASSUME NEW n \in Nat, NEW i \in 1..n
  PROVE  /\ 1..i \in SUBSET (1..n) /\ 1..i # {}
         /\ Max(1..i) = i /\ (1..i) \ {Max(1..i)} = 1..(i - 1)
<1>1. IsFiniteSet(1..i) /\ 1..i \in SUBSET Nat /\ 1..i # {} /\ i \in 1..i /\ i \in Nat
  <2>1. i \in Nat /\ 1 <= i
    OBVIOUS
  <2>2. IsFiniteSet(1..i)
    BY <2>1, FS_Interval
  <2>3. QED BY <2>1, <2>2
<1>2. PICK m : m = Max(1..i)
  OBVIOUS
<1>3. m \in 1..i /\ \A y \in 1..i : m >= y
  BY <1>1, <1>2, GreatestOf
<1>4. m = i
  BY <1>1, <1>3
<1>5. QED BY <1>1, <1>2, <1>4

LEMMA GreatestIsIn ==
  ASSUME NEW n \in Nat, NEW s \in SUBSET (1..n), s # {}
  PROVE  Max(s) \in s
<1>1. IsFiniteSet(1..n)
  <2>1. n \in Int /\ 1 \in Int
    OBVIOUS
  <2>2. QED BY <2>1, FS_Interval
<1>2. s \subseteq 1..n /\ s \in SUBSET Nat
  OBVIOUS
<1>3. IsFiniteSet(s)
  BY <1>1, <1>2, FS_Subset
<1>4. QED BY <1>2, <1>3, GreatestOf

\* A fold by a step that stays in a set exists.
FoldStep(a, F, g, s) == IF s = {} THEN a ELSE F[<<Max(s), g[s \ {Max(s)}]>>]
IsFold(a, F, g, S) == \A s \in SUBSET S : g[s] = FoldStep(a, F, g, s)
OneMore(F, g, m, T) == [s \in SUBSET T |-> IF m \in s THEN F[<<m, g[s \ {m}]>>] ELSE g[s]]
Folded(X, a, F, i) == \E g \in [SUBSET (1..i) -> X] : IsFold(a, F, g, 1..i)

LEMMA OneMoreStep ==
  ASSUME NEW X, NEW a \in X, NEW F \in [Nat \X X -> X],
         NEW T \in SUBSET Nat, IsFiniteSet(T), T # {},
         NEW m, m = Max(T), NEW g \in [SUBSET (T \ {m}) -> X], IsFold(a, F, g, T \ {m}),
         NEW h, h = OneMore(F, g, m, T)
  PROVE  h \in [SUBSET T -> X] /\ IsFold(a, F, h, T)
<1> USE DEF OneMore
<1>1. m \in T /\ m \in Nat /\ \A y \in T : m >= y
  BY GreatestOf
<1>2. ASSUME NEW s \in SUBSET T PROVE h[s] \in X
  BY <1>1
<1>3. ASSUME NEW s \in SUBSET T PROVE h[s] = FoldStep(a, F, h, s)
  <2>1. CASE m \in s
    <3>1. s # {} /\ IsFiniteSet(s) /\ s \in SUBSET Nat
      BY <2>1, FS_Subset
    <3>2. Max(s) \in s /\ \A y \in s : Max(s) >= y
      BY <3>1, GreatestOf
    <3>3. Max(s) = m
      <4>1. Max(s) \in Nat
        BY <3>1, <3>2
      <4>2. m >= Max(s) /\ Max(s) >= m
        BY <1>1, <2>1, <3>2
      <4>3. QED BY <1>1, <4>1, <4>2
    <3>4. h[s \ {m}] = g[s \ {m}]
      OBVIOUS
    <3>5. h[s] = F[<<m, g[s \ {m}]>>]
      BY <2>1
    <3>6. QED BY <3>1, <3>3, <3>4, <3>5 DEF FoldStep
  <2>2. CASE m \notin s
    <3>1. s \in SUBSET (T \ {m})
      BY <2>2
    <3>2. h[s] = g[s] /\ g[s] = FoldStep(a, F, g, s)
      BY <2>2, <3>1 DEF IsFold
    <3>3. h[s \ {Max(s)}] = g[s \ {Max(s)}]
      BY <2>2
    <3>4. QED BY <3>2, <3>3 DEF FoldStep
  <2>3. QED BY <2>1, <2>2
<1>4. h \in [SUBSET T -> X]
  BY <1>2
<1>5. QED BY <1>3, <1>4 DEF IsFold

LEMMA FoldExists ==
  ASSUME NEW X, NEW a \in X, NEW F \in [Nat \X X -> X], NEW n \in Nat
  PROVE  Folded(X, a, F, n)
<1> DEFINE good == {i \in 0..n : Folded(X, a, F, i)}
<1>1. 0 \in good
  <2>1. PICK g : g = [s \in SUBSET (1..0) |-> a]
    OBVIOUS
  <2>2. g \in [SUBSET (1..0) -> X]
    BY <2>1
  <2>3. IsFold(a, F, g, 1..0)
    BY <2>1 DEF IsFold, FoldStep
  <2>4. Folded(X, a, F, 0)
    BY <2>2, <2>3 DEF Folded
  <2>5. QED BY <2>4
<1>2. ASSUME NEW i \in 0..(n - 1), i \in good PROVE i + 1 \in good
  <2>1. PICK k \in 1..n : k = i + 1 /\ i = k - 1
    OBVIOUS
  <2>2. PICK T : T = 1..k
    OBVIOUS
  <2>3. PICK m : m = Max(T)
    OBVIOUS
  <2>4. /\ T \in SUBSET Nat /\ T # {} /\ T \ {m} = 1..i
    BY <2>1, <2>2, <2>3, FirstOnes
  <2>5. IsFiniteSet(T)
    <3>1. k \in Int
      BY <2>1
    <3>2. QED BY <2>2, <3>1, FS_Interval
  <2>6. PICK g \in [SUBSET (T \ {m}) -> X] : IsFold(a, F, g, T \ {m})
    BY <1>2, <2>4 DEF Folded
  <2>7. PICK h : h = OneMore(F, g, m, T)
    OBVIOUS
  <2>8. h \in [SUBSET T -> X] /\ IsFold(a, F, h, T)
    <3> HIDE DEF good
    <3>1. QED BY <2>3, <2>4, <2>5, <2>6, <2>7, OneMoreStep
  <2>9. Folded(X, a, F, k)
    BY <2>2, <2>8 DEF Folded
  <2>10. QED BY <2>1, <2>9
<1>3. n \in good
  <2> HIDE DEF good
  <2>1. QED BY <1>1, <1>2, UpTo
<1>4. QED BY <1>3

\* The recursion behind FoldLeft, and a function that follows it.
RunStep(a, ts, g, s) == IF s = {} THEN a ELSE Recorded(g[s \ {Max(s)}], ts[Max(s)])
IsRun(a, ts, g, S) == g = [s \in SUBSET S |-> RunStep(a, ts, g, s)]
RunOf(a, ts, S) == CHOOSE g : IsRun(a, ts, g, S)

LEMMA RunIsChosen ==
  ASSUME NEW a, NEW ts
  PROVE  FoldLeft(Recorded, a, ts) = RunOf(a, ts, DOMAIN ts)[DOMAIN ts]
BY DEF FoldLeft, MapThenFoldSet, RunOf, IsRun, RunStep

\* What the collector holds after each of the n tasks of a flush.
FlushRun(G, a, ts, n) ==
  /\ G \in [0..n -> Aggregates]
  /\ G[0] = a /\ G[n] = FoldLeft(Recorded, a, ts)
  /\ \A i \in 1..n : G[i] = Recorded(G[i - 1], ts[i])

LEMMA FlushRuns ==
  ASSUME NEW a \in Aggregates, NEW ts \in Seq(Tasks), NEW n \in Nat, n = Len(ts)
  PROVE  \E G : FlushRun(G, a, ts, n)
<1>1. ts \in [1..n -> Tasks] /\ DOMAIN ts = 1..n
  BY LenProperties
<1>2. PICK F : F = [x \in Nat \X Aggregates |->
                      IF x[1] \in 1..n THEN Recorded(x[2], ts[x[1]]) ELSE a]
  OBVIOUS
<1>3. ASSUME NEW i \in 1..n, NEW y \in Aggregates
      PROVE  F[<<i, y>>] = Recorded(y, ts[i]) /\ Recorded(y, ts[i]) \in Aggregates
  <2>1. PICK t \in Tasks : t = ts[i]
    BY <1>1
  <2>2. Recorded(y, t) \in Aggregates
    BY RecordedTyped
  <2>3. i \in Nat /\ F[<<i, y>>] = Recorded(y, ts[i])
    BY <1>2
  <2>4. QED BY <2>1, <2>2, <2>3
<1>4. F \in [Nat \X Aggregates -> Aggregates]
  <2>1. ASSUME NEW x \in Nat \X Aggregates PROVE F[x] \in Aggregates
    <3>1. PICK i \in Nat, y \in Aggregates : x = <<i, y>>
      OBVIOUS
    <3>2. CASE i \in 1..n
      BY <1>3, <3>1, <3>2
    <3>3. CASE i \notin 1..n
      BY <1>2, <3>1, <3>3
    <3>4. QED BY <3>2, <3>3
  <2>2. QED BY <1>2, <2>1
<1>5. PICK f \in [SUBSET (1..n) -> Aggregates] : IsFold(a, F, f, 1..n)
  <2>1. Folded(Aggregates, a, F, n)
    BY <1>4, FoldExists
  <2>2. QED BY <2>1 DEF Folded
<1>6. ASSUME NEW s \in SUBSET (1..n) PROVE f[s] = RunStep(a, ts, f, s)
  <2>1. CASE s = {}
    BY <1>5, <2>1 DEF IsFold, FoldStep, RunStep
  <2>2. CASE s # {}
    <3>1. PICK m : m = Max(s)
      OBVIOUS
    <3>2. m \in 1..n
      BY <2>2, <3>1, GreatestIsIn
    <3>3. PICK y \in Aggregates : y = f[s \ {m}]
      BY <3>2
    <3>4. f[s] = F[<<m, y>>]
      BY <1>5, <2>2, <3>1, <3>3 DEF IsFold, FoldStep
    <3>5. f[s] = Recorded(y, ts[m])
      BY <1>3, <3>2, <3>4
    <3>6. QED BY <2>2, <3>1, <3>3, <3>5 DEF RunStep
  <2>3. QED BY <2>1, <2>2
<1>7. IsRun(a, ts, f, 1..n)
  BY <1>5, <1>6 DEF IsRun
<1>8. PICK g : g = RunOf(a, ts, 1..n)
  OBVIOUS
<1>9. \A s \in SUBSET (1..n) : g[s] = RunStep(a, ts, g, s)
  <2>1. IsRun(a, ts, g, 1..n)
    BY <1>7, <1>8 DEF RunOf
  <2>2. QED BY <2>1 DEF IsRun
<1>10. g[1..0] = a
  <2>1. 1..0 = {}
    OBVIOUS
  <2>2. QED BY <1>9, <2>1 DEF RunStep
<1>11. ASSUME NEW k \in 1..n PROVE g[1..k] = Recorded(g[1..(k - 1)], ts[k])
  <2>1. /\ 1..k \in SUBSET (1..n) /\ 1..k # {}
        /\ Max(1..k) = k /\ (1..k) \ {Max(1..k)} = 1..(k - 1)
    BY FirstOnes
  <2>2. PICK s \in SUBSET (1..n) : s = 1..k
    BY <2>1
  <2>3. g[s] = Recorded(g[s \ {Max(s)}], ts[Max(s)])
    BY <1>9, <2>1, <2>2 DEF RunStep
  <2>4. QED BY <2>1, <2>2, <2>3
<1> DEFINE good == {i \in 0..n : g[1..i] \in Aggregates}
<1>12. 0 \in good
  BY <1>10
<1>13. ASSUME NEW i \in 0..(n - 1), i \in good PROVE i + 1 \in good
  <2>1. PICK k \in 1..n : k = i + 1 /\ k - 1 = i
    OBVIOUS
  <2>2. PICK y \in Aggregates : y = g[1..i]
    BY <1>13
  <2>3. Recorded(y, ts[k]) \in Aggregates
    BY <1>3
  <2>4. g[1..k] \in Aggregates
    BY <1>11, <2>1, <2>2, <2>3
  <2>5. QED BY <2>1, <2>4
<1>14. \A i \in 0..n : i \in good
  <2> HIDE DEF good
  <2>1. QED BY <1>12, <1>13, UpTo
<1>15. PICK G : G = [i \in 0..n |-> g[1..i]]
  OBVIOUS
<1>16. G \in [0..n -> Aggregates]
  BY <1>14, <1>15
<1>17. G[0] = a /\ G[n] = g[1..n]
  BY <1>10, <1>15
<1>18. ASSUME NEW i \in 1..n PROVE G[i] = Recorded(G[i - 1], ts[i])
  <2>1. i \in 0..n /\ i - 1 \in 0..n
    OBVIOUS
  <2>2. QED BY <1>11, <1>15, <2>1
<1>19. FoldLeft(Recorded, a, ts) = g[1..n]
  BY <1>1, <1>8, RunIsChosen
<1>20. FlushRun(G, a, ts, n)
  BY <1>16, <1>17, <1>18, <1>19 DEF FlushRun
<1>21. QED BY <1>20

\* However many tasks a flush runs, the counters stay within their limit.
LEMMA FlushIsCapped ==
  ASSUME NEW a \in Aggregates, NEW ts \in Seq(Tasks)
  PROVE  FoldLeft(Recorded, a, ts) \in Aggregates
<1>1. PICK n \in Nat : n = Len(ts)
  BY LenProperties
<1>2. PICK G : FlushRun(G, a, ts, n)
  BY <1>1, FlushRuns
<1>3. n \in 0..n
  OBVIOUS
<1>4. QED BY <1>2, <1>3 DEF FlushRun

----------------------------------------------------------------------------
(* The steps of the evidence *)

AggregatesInv ==
  /\ aggregates \in Aggregates
  /\ timer \/ aggregates = NoAggregates
EvidenceInv == TasksInv /\ AggregatesInv /\ EnvelopesInv

LEMMA NothingCounted == NoAggregates \in Aggregates
<1>1. 0 \in 0..CounterLimit
  BY EvidenceAssumption
<1>2. Zero \in Counters
  BY <1>1 DEF Zero, Counters
<1>3. QED BY <1>2 DEF NoAggregates, Aggregates

LEMMA EnvelopesAreCut ==
  ASSUME aggregates \in Aggregates
  PROVE  \E T : Envelopes \in Seq(T)
<1>1. ASSUME NEW o \in Outcomes PROVE Kept(o) \in Seq(Counters)
  BY DEF Kept, Aggregates
<1>2. PICK a, b, c, d, e : /\ a = Kept("cancelled") /\ b = Kept("completed")
                           /\ c = Kept("failed") /\ d = Kept("partial")
                           /\ e = Kept("timed-out")
  OBVIOUS
<1>3. /\ a \in Seq(Counters) /\ b \in Seq(Counters) /\ c \in Seq(Counters)
      /\ d \in Seq(Counters) /\ e \in Seq(Counters)
  BY <1>1, <1>2 DEF Outcomes
<1>4. Drained = a \o b \o c \o d \o e
  BY <1>2 DEF Drained
<1>5. Drained \in Seq(Counters)
  BY <1>3, <1>4
<1>6. PICK n \in Nat : n = Len(Drained)
  BY <1>5
<1>7. PICK full : full = (n + PerEnvelope - 1) \div PerEnvelope
  OBVIOUS
<1>8. full \in Nat
  <2>1. PICK k \in Nat : k = PerEnvelope /\ k > 0
    BY EvidenceAssumption
  <2>2. PICK x \in Nat : x = n + PerEnvelope - 1
    BY <2>1
  <2>3. full = x \div k
    BY <1>7, <2>1, <2>2
  <2>4. x \div k \in Nat
    BY <2>1
  <2>5. QED BY <2>3, <2>4
<1> DEFINE content(k) ==
      Count(SubSeq(Drained, (k - 1) * PerEnvelope + 1, Min({n, k * PerEnvelope})))
<1>9. Envelopes = [k \in 1..full |-> content(k)]
  BY <1>6, <1>7 DEF Envelopes
<1>10. PICK T : T = {content(k) : k \in 1..full}
  OBVIOUS
<1> HIDE DEF content
<1>11. [k \in 1..full |-> content(k)] \in [1..full -> T]
  BY <1>10
<1>12. Envelopes \in Seq(T)
  BY <1>8, <1>9, <1>11
<1>13. QED BY <1>12

\* The counters of samples may move, those of envelopes stay.
LEMMA TallyStays ==
  ASSUME EnvelopesInv, dropped' = dropped, NEW s, history' = [history EXCEPT !.samples = s],
         queue' = queue, flight' = flight
  PROVE  EnvelopesInv'
<1>1. PICK T : dropped \in [tasks : Int, envelopes : Int] /\ history \in [samples : T, envelopes : Int]
  BY DEF EnvelopesInv, Tally
<1>2. /\ history' \in [samples : T \cup {s}, envelopes : Int]
      /\ history'.envelopes = history.envelopes
  BY <1>1
<1>3. PICK d, h : d = dropped' /\ h = history'
  OBVIOUS
<1>4. d \in [tasks : Int, envelopes : Int] /\ h \in [samples : T \cup {s}, envelopes : Int]
  BY <1>1, <1>2, <1>3
<1>5. Tally(d, h)
  BY <1>4 DEF Tally
<1>6. QED BY <1>2, <1>3, <1>5, EnvelopesStay

LEMMA FlushTasksKeeps ==
  ASSUME EvidenceInv, FlushTasks
  PROVE  EvidenceInv'
<1>1. /\ tasks' = <<>> /\ UNCHANGED <<queue, flight, dropped, history>>
      /\ aggregates' = FoldLeft(Recorded, aggregates, tasks)
      /\ timer' = (timer \/ aggregates' # aggregates)
  BY DEF FlushTasks
<1>2. TasksInv'
  BY <1>1, EvidenceAssumption DEF TasksInv
<1>3. aggregates \in Aggregates /\ tasks \in Seq(Tasks)
  BY DEF EvidenceInv, TasksInv, AggregatesInv
<1>4. PICK x : x = aggregates'
  OBVIOUS
<1>5. x \in Aggregates
  BY <1>1, <1>3, <1>4, FlushIsCapped
<1>6. timer' \/ x = NoAggregates
  <2>1. timer \/ aggregates = NoAggregates
    BY DEF EvidenceInv, AggregatesInv
  <2>2. QED BY <1>1, <1>4, <2>1, Zenon
<1>7. AggregatesInv'
  BY <1>4, <1>5, <1>6 DEF AggregatesInv
<1>8. EnvelopesInv'
  BY <1>1 DEF EvidenceInv, EnvelopesInv, EnvelopesAreConserved
<1>9. QED BY <1>2, <1>7, <1>8 DEF EvidenceInv

LEMMA ExportKeeps ==
  ASSUME EvidenceInv, Export
  PROVE  EvidenceInv'
<1>1. PICK sampled \in BOOLEAN : ExportTimer(sampled)
  BY DEF Export
<1>2. tasks' = tasks /\ flight' = flight /\ aggregates' = NoAggregates
  BY <1>1 DEF ExportTimer, Emptied
<1>3. TasksInv'
  BY <1>2 DEF EvidenceInv, TasksInv
<1>4. AggregatesInv'
  BY <1>2, NothingCounted DEF AggregatesInv
<1>5. CASE sampled
  <2>1. Enqueue(Envelopes)
    BY <1>1, <1>5 DEF ExportTimer
  <2>2. PICK T : Envelopes \in Seq(T)
    BY EnvelopesAreCut DEF EvidenceInv, AggregatesInv
  <2>3. PICK new \in Seq(T) : new = Envelopes
    BY <2>2
  <2>4. Enqueue(new)
    BY <2>1, <2>3 DEF Enqueue
  <2>5. EnvelopesInv'
    BY <1>2, <2>4, EnqueueKeeps DEF EvidenceInv
  <2>6. QED BY <1>3, <1>4, <2>5 DEF EvidenceInv
<1>6. CASE ~sampled
  <2>1. PICK s : s = history.samples - Count(Drained)
    OBVIOUS
  <2>2. /\ history' = [history EXCEPT !.samples = s]
        /\ queue' = queue /\ dropped' = dropped
    BY <1>1, <1>6, <2>1 DEF ExportTimer
  <2>3. EnvelopesInv'
    BY <1>2, <2>2, TallyStays DEF EvidenceInv
  <2>4. QED BY <1>3, <1>4, <2>3 DEF EvidenceInv
<1>7. QED BY <1>5, <1>6

LEMMA StartUploadKeeps ==
  ASSUME EvidenceInv, StartUpload
  PROVE  EvidenceInv'
<1>1. /\ queue # <<>> /\ flight = <<>> /\ flight' = <<Head(queue)>> /\ queue' = Tail(queue)
      /\ UNCHANGED <<tasks, aggregates, timer, dropped, history>>
  BY DEF StartUpload
<1>2. TasksInv' /\ AggregatesInv'
  BY <1>1 DEF EvidenceInv, TasksInv, AggregatesInv
<1>3. PICK T : queue \in Seq(T)
  BY DEF EvidenceInv, EnvelopesInv
<1>4. PICK q, r, f : q = queue /\ r = queue' /\ f = flight'
  OBVIOUS
<1>5. /\ q \in Seq(T) /\ r \in Seq(T) /\ Len(r) = Len(q) - 1 /\ Len(q) \in Nat
      /\ f \in Seq(T) /\ Len(f) = 1
  BY <1>1, <1>3, <1>4
<1>6. PICK k \in Nat : k = Len(q) /\ Len(r) = k - 1
  BY <1>5
<1>7. Len(q) <= MaxQueue /\ MaxQueue \in Nat /\ Tally(dropped, history)
  BY <1>4, EvidenceAssumption DEF EvidenceInv, EnvelopesInv
<1>8. Len(r) <= MaxQueue
  BY <1>6, <1>7
<1>9. EnvelopesAreConserved'
  <2>1. history.envelopes = Len(q) + Len(flight) + dropped.envelopes
    BY <1>4 DEF EvidenceInv, EnvelopesInv, EnvelopesAreConserved
  <2>2. Len(flight) = 0
    BY <1>1
  <2>3. dropped.envelopes \in Int
    BY <1>7 DEF Tally
  <2>4. history.envelopes = Len(r) + Len(f) + dropped.envelopes
    BY <1>5, <1>6, <2>1, <2>2, <2>3
  <2>5. QED BY <1>1, <1>4, <2>4 DEF EnvelopesAreConserved
<1>10. Tally(dropped', history')
  BY <1>1, <1>7
<1>11. EnvelopesInv'
  BY <1>4, <1>5, <1>8, <1>9, <1>10 DEF EnvelopesInv
<1>12. QED BY <1>2, <1>11 DEF EvidenceInv

LEMMA EndUploadKeeps ==
  ASSUME EvidenceInv, NEW accepted \in BOOLEAN, EndUpload(accepted)
  PROVE  EvidenceInv'
<1>1. PICK i \in {0, 1} : i = IF accepted THEN 0 ELSE 1
  OBVIOUS
<1>2. PICK j \in {0, 1} : j = IF accepted THEN 1 ELSE 0
  OBVIOUS
<1>3. i + j = 1
  BY <1>1, <1>2
<1>4. PICK s : s = history.samples - flight[1]
  OBVIOUS
<1>5. PICK T : dropped \in [tasks : Int, envelopes : Int] /\ history \in [samples : T, envelopes : Int]
  BY DEF EvidenceInv, EnvelopesInv, Tally
<1>6. PICK x \in Int : x = dropped.envelopes
  BY <1>5
<1>7. PICK y \in Int : y = history.envelopes
  BY <1>5
<1>8. PICK x2 \in Int : x2 = x + i
  BY <1>1
<1>9. PICK y2 \in Int : y2 = y - j
  BY <1>2
<1>10. flight # <<>> /\ flight' = <<>> /\ UNCHANGED <<tasks, aggregates, timer, queue>>
  BY DEF EndUpload
<1>11. dropped' = [dropped EXCEPT !.envelopes = x2]
  BY <1>1, <1>5, <1>6, <1>8 DEF EndUpload
<1>12. history' = [[history EXCEPT !.envelopes = y2] EXCEPT !.samples = s]
  BY <1>2, <1>4, <1>5, <1>7, <1>9 DEF EndUpload
<1>13. dropped' \in [tasks : Int, envelopes : Int] /\ dropped'.envelopes = x2
  BY <1>5, <1>11
<1>14. history' \in [samples : T \cup {s}, envelopes : Int] /\ history'.envelopes = y2
  <2>1. PICK g : g = [history EXCEPT !.envelopes = y2]
    OBVIOUS
  <2>2. g \in [samples : T, envelopes : Int] /\ g.envelopes = y2
    BY <1>5, <2>1
  <2>3. PICK h2 : h2 = history'
    OBVIOUS
  <2>4. h2 = [g EXCEPT !.samples = s]
    BY <1>12, <2>1, <2>3
  <2>5. h2 \in [samples : T \cup {s}, envelopes : Int] /\ h2.envelopes = y2
    BY <2>2, <2>4
  <2>6. QED BY <2>3, <2>5
<1>15. PICK d, h : d = dropped' /\ h = history'
  OBVIOUS
<1>16. Tally(d, h)
  BY <1>13, <1>14, <1>15 DEF Tally
<1>17. TasksInv' /\ AggregatesInv'
  BY <1>10 DEF EvidenceInv, TasksInv, AggregatesInv
<1>18. Len(flight) = 1
  <2>1. PICK U : flight \in Seq(U)
    BY DEF EvidenceInv, EnvelopesInv
  <2>2. Len(flight) \in Nat /\ Len(flight) # 0 /\ Len(flight) <= 1
    BY <1>10, <2>1 DEF EvidenceInv, EnvelopesInv
  <2>3. PICK k \in Nat : k = Len(flight)
    BY <2>2
  <2>4. k = 1
    BY <2>2, <2>3
  <2>5. QED BY <2>3, <2>4
<1>19. PICK f : f = flight'
  OBVIOUS
<1>20. f \in Seq({}) /\ Len(f) = 0
  BY <1>10, <1>19
<1>21. EnvelopesAreConserved'
  <2>1. y = Len(queue) + Len(flight) + x
    BY <1>6, <1>7 DEF EvidenceInv, EnvelopesInv, EnvelopesAreConserved
  <2>2. Len(queue) \in Nat
    BY DEF EvidenceInv, EnvelopesInv
  <2>3. y2 = Len(queue) + Len(f) + x2
    BY <1>3, <1>8, <1>9, <1>18, <1>20, <2>1, <2>2
  <2>4. QED BY <1>10, <1>13, <1>14, <1>19, <2>3 DEF EnvelopesAreConserved
<1>22. EnvelopesInv'
  <2>1. (\E U : queue' \in Seq(U)) /\ Len(queue') <= MaxQueue
    BY <1>10 DEF EvidenceInv, EnvelopesInv
  <2>2. (\E U : f \in Seq(U)) /\ Len(f) <= 1
    BY <1>20
  <2>3. QED BY <1>15, <1>16, <1>19, <1>21, <2>1, <2>2 DEF EnvelopesInv
<1>23. QED BY <1>17, <1>22 DEF EvidenceInv

LEMMA EvidenceKeeps ==
  ASSUME EvidenceInv, EvidenceNext
  PROVE  EvidenceInv'
<1>1. ASSUME Uploaded \/ UploadFails PROVE EvidenceInv'
  <2>1. PICK accepted \in BOOLEAN : EndUpload(accepted)
    BY <1>1 DEF Uploaded, UploadFails
  <2>2. QED BY <2>1, EndUploadKeeps
<1>2. QED BY <1>1, FlushTasksKeeps, ExportKeeps, StartUploadKeeps DEF EvidenceNext

----------------------------------------------------------------------------
(* The publisher and its evidence *)

\* Steps that leave the tasks, the collector and the exporter alone.
LEMMA EvidenceStays ==
  ASSUME EvidenceInv, UNCHANGED evidenceVars
  PROVE  EvidenceInv'
BY DEF EvidenceInv, TasksInv, AggregatesInv, EnvelopesInv, EnvelopesAreConserved, evidenceVars

LEMMA DeferOnly ==
  ASSUME EvidenceInv, NEW new \in Seq(Tasks), Defer(new),
         UNCHANGED <<aggregates, timer, queue, flight>>
  PROVE  EvidenceInv'
<1>1. TasksInv' /\ EnvelopesInv'
  BY DeferKeeps DEF EvidenceInv
<1>2. AggregatesInv'
  BY DEF EvidenceInv, AggregatesInv
<1>3. QED BY <1>1, <1>2 DEF EvidenceInv

LEMMA LateIsTask == ASSUME NEW o \in Outcomes PROVE LateTask(o) \in Tasks
BY DEF LateTask, Tasks, Lates

LEMMA DialedAccounts ==
  ASSUME ConnInv, EvidenceInv, NEW p \in Publications, NEW r \in Relays, Dialed(p, r)
  PROVE  EvidenceInv'
<1>1. CASE UNCHANGED evidenceVars
  BY <1>1, EvidenceStays
<1>2. CASE /\ job[p].at = "done" /\ Defer(<<LateTask(job[p].outcome)>>)
           /\ UNCHANGED <<late, aggregates, timer, queue, flight>>
  <2>1. PICK o \in Outcomes : o = job[p].outcome
    BY <1>2, ConnParts DEF ConnGood
  <2>2. PICK t \in Tasks : t = LateTask(o)
    BY LateIsTask
  <2>3. PICK new \in Seq(Tasks) : new = <<t>>
    <3>1. <<t>> \in Seq(Tasks)
      OBVIOUS
    <3>2. QED BY <3>1
  <2>4. Defer(new)
    BY <1>2, <2>1, <2>2, <2>3
  <2>5. QED BY <1>2, <2>4, DeferOnly
<1>3. QED BY <1>1, <1>2 DEF Dialed

LEMMA FinishAccounts ==
  ASSUME ConnInv, EvidenceInv, NEW p \in Publications, Finish(p)
  PROVE  EvidenceInv'
<1>1. PICK s \in Tasks : s = SampleTask(p)
  BY SampleIsTask DEF Finish
<1>2. PICK o \in Outcomes : o = OutcomeOf(p)
  BY OutcomeTyped
<1>3. PICK t \in Tasks : t = LateTask(o)
  BY LateIsTask
<1>4. PICK n \in Nat : n = late[p]
  BY ConnParts
<1>5. PICK lates \in Seq(Tasks) : lates = [i \in 1..n |-> t]
  <2>1. [i \in 1..n |-> t] \in [1..n -> Tasks]
    OBVIOUS
  <2>2. [i \in 1..n |-> t] \in Seq(Tasks)
    BY <2>1
  <2>3. QED BY <2>2
<1>6. PICK new \in Seq(Tasks) : new = <<s>> \o lates
  <2>1. <<s>> \o lates \in Seq(Tasks)
    OBVIOUS
  <2>2. QED BY <2>1
<1>7. Defer(new)
  BY <1>1, <1>2, <1>3, <1>4, <1>5, <1>6 DEF Finish
<1>8. UNCHANGED <<aggregates, timer, queue, flight>>
  BY DEF Finish
<1>9. QED BY <1>7, <1>8, DeferOnly

LEMMA PublishingAccounts ==
  ASSUME ConnInv, EvidenceInv, PublishingNext
  PROVE  EvidenceInv'
<1>1. ASSUME NEW p \in Publications, NEW r \in Relays,
             \/ DialFails(p, r) \/ ConnectTimeout(p, r)
             \/ RelayAccepts(p, r) \/ RelayRejects(p, r)
             \/ PublishTimeout(p, r) \/ ConnectionLost(p, r)
      PROVE  EvidenceInv'
  <2>1. UNCHANGED evidenceVars
    BY <1>1 DEF DialFails, ConnectTimeout, RelayAccepts, RelayRejects,
                PublishTimeout, ConnectionLost, EndPublish
  <2>2. QED BY <2>1, EvidenceStays
<1>2. QED BY <1>1, DialedAccounts, FinishAccounts DEF PublishingNext

\* Nothing is deferred, counted or queued.
LEMMA NothingIsGood ==
  /\ <<>> \in Seq(Tasks) /\ Len(<<>>) = 0 /\ 0 <= MaxTasks /\ 0 <= MaxQueue /\ 0 <= 1
  /\ Tally(NoDrops, NoHistory) /\ NoHistory.envelopes = 0 + 0 + NoDrops.envelopes
<1>1. NoDrops \in [tasks : Int, envelopes : Int] /\ NoHistory \in [samples : Int, envelopes : Int]
  BY DEF NoDrops, NoHistory
<1>2. Tally(NoDrops, NoHistory)
  BY <1>1 DEF Tally
<1>3. NoHistory.envelopes = 0 + 0 + NoDrops.envelopes
  BY DEF NoDrops, NoHistory
<1>4. 0 <= MaxTasks /\ 0 <= MaxQueue
  BY EvidenceAssumption
<1>5. QED BY <1>2, <1>3, <1>4

LEMMA NoEvidence ==
  ASSUME EvidenceInit
  PROVE  EvidenceInv
<1>1. /\ tasks = <<>> /\ aggregates = NoAggregates /\ queue = <<>> /\ flight = <<>>
      /\ dropped = NoDrops /\ history = NoHistory
  BY DEF EvidenceInit
<1>2. TasksInv
  BY <1>1, NothingIsGood DEF TasksInv
<1>3. AggregatesInv
  BY <1>1, NothingCounted DEF AggregatesInv
<1>4. EnvelopesInv
  BY <1>1, NothingIsGood DEF EnvelopesInv, EnvelopesAreConserved
<1>5. QED BY <1>2, <1>3, <1>4 DEF EvidenceInv

LEMMA CrashForgets ==
  ASSUME Crash
  PROVE  EvidenceInv'
<1>1. /\ tasks' = <<>> /\ aggregates' = NoAggregates /\ queue' = <<>> /\ flight' = <<>>
      /\ dropped' = NoDrops /\ history' = NoHistory
  BY DEF Crash
<1>2. TasksInv'
  BY <1>1, NothingIsGood DEF TasksInv
<1>3. AggregatesInv'
  BY <1>1, NothingCounted DEF AggregatesInv
<1>4. EnvelopesInv'
  BY <1>1, NothingIsGood DEF EnvelopesInv, EnvelopesAreConserved
<1>5. QED BY <1>2, <1>3, <1>4 DEF EvidenceInv

WiredInv == PostsInv /\ EvidenceInv

LEMMA WiredBegin ==
  ASSUME Init
  PROVE  WiredInv
<1>1. EvidenceInv
  BY NoEvidence DEF Init, EvidenceInit
<1>2. QED BY <1>1, PostsBegin DEF WiredInv

LEMMA WiredStep ==
  ASSUME WiredInv, [Next]_vars
  PROVE  WiredInv'
<1>1. ConnInv /\ EvidenceInv
  BY DEF WiredInv, PostsInv
<1>2. PostsInv'
  BY PostsStep DEF WiredInv
<1>3. ASSUME NEW c \in Calls, Submit(c) \/ Continue(c) PROVE EvidenceInv'
  <2>1. UNCHANGED evidenceVars
    BY <1>3 DEF Submit, Continue, Refuse, Begin, NotPublished, WriteStore, WriteFails, Activate
  <2>2. QED BY <1>1, <2>1, EvidenceStays
<1>4. ASSUME PublishingNext /\ UNCHANGED postVars PROVE EvidenceInv'
  BY <1>1, <1>4, PublishingAccounts
<1>5. ASSUME EvidenceNext /\ UNCHANGED <<postVars, publishingVars>> PROVE EvidenceInv'
  BY <1>1, <1>5, EvidenceKeeps
<1>6. ASSUME Crash PROVE EvidenceInv'
  BY <1>6, CrashForgets
<1>7. ASSUME UNCHANGED vars PROVE EvidenceInv'
  <2>1. UNCHANGED evidenceVars
    BY <1>7 DEF vars
  <2>2. QED BY <1>1, <2>1, EvidenceStays
<1>8. EvidenceInv'
  BY <1>3, <1>4, <1>5, <1>6, <1>7 DEF Next
<1>9. QED BY <1>2, <1>8 DEF WiredInv

\* The posts, their publications and the evidence of them, together.
THEOREM WiredInvariant == Spec => []WiredInv
<1>1. Init => WiredInv
  BY WiredBegin
<1>2. WiredInv /\ [Next]_vars => WiredInv'
  BY WiredStep
<1>3. QED BY <1>1, <1>2, PTL DEF Spec

\* Calls, rows, connections and bounded queues stay within their sets; a late
\* connection is counted once per relay, the counters of the collector stop at
\* their limit, and the export timer is set whenever it has something to drain.
THEOREM PostsTyped == Spec => []PostsTypeOK
<1>1. ASSUME WiredInv PROVE PostsTypeOK
  <2>1. CallsInv /\ ConnInv /\ EvidenceInv
    BY <1>1 DEF WiredInv, PostsInv
  <2>2. PublishingTypeOK
    <3>1. ASSUME NEW p \in Publications
          PROVE  /\ job[p].at \in {"idle", "running", "done"}
                 /\ job[p].relay \in [Relays -> Pending \cup Settlement]
                 /\ socket[p] \in [Relays -> {"none", "dialing", "open"}]
                 /\ job[p].accepted \subseteq Relays
      BY <2>1, ConnParts DEF Jobs, Sockets
    <3>2. ASSUME NEW p \in Publications PROVE late[p] \in 0..Cardinality(Relays)
      <4>1. PICK S \in Sockets, n \in Nat : S = socket[p] /\ n = late[p]
        BY <2>1, ConnParts
      <4>2. n <= Cardinality(Unused(S))
        BY <2>1, <4>1, ConnParts DEF ConnGood
      <4>3. /\ Cardinality(Unused(S)) \in Nat /\ Cardinality(Relays) \in Nat
            /\ Cardinality(Unused(S)) <= Cardinality(Relays)
        <5>1. Unused(S) \subseteq Relays /\ IsFiniteSet(Relays)
          BY PublishingAssumption DEF Unused
        <5>2. QED BY <5>1, FS_Subset, FS_CardinalityType
      <4>4. n \in 0..Cardinality(Relays)
        BY <4>2, <4>3
      <4>5. QED BY <4>1, <4>4
    <3>3. QED BY <3>1, <3>2 DEF PublishingTypeOK
  <2>3. EvidenceTypeOK
    <3>1. ASSUME NEW o \in Outcomes PROVE aggregates[o].samples <= CounterLimit
      BY <2>1, EvidenceAssumption DEF EvidenceInv, AggregatesInv, Aggregates, Counters
    <3>2. Len(tasks) <= MaxTasks /\ Len(queue) <= MaxQueue /\ Len(flight) <= 1
      BY <2>1 DEF EvidenceInv, TasksInv, EnvelopesInv
    <3>3. timer \/ aggregates = NoAggregates
      BY <2>1 DEF EvidenceInv, AggregatesInv
    <3>4. QED BY <3>1, <3>2, <3>3 DEF EvidenceTypeOK
  <2>4. ASSUME NEW c \in Calls
        PROVE  /\ call[c].at \in {"idle", "queued", "publishing", "stored", "done"}
               /\ call[c].at \in {"queued", "publishing", "stored"} <=> c \in Range(lock)
    <3>1. PICK q : q = lock
      OBVIOUS
    <3>2. q \in Seq(Calls) /\ Range(q) = {q[i] : i \in DOMAIN q}
      BY <2>1, <3>1 DEF CallsInv, LockGood, Range
    <3>3. call[c].at \in {"queued"} \cup Begun <=> \E i \in DOMAIN q : q[i] = c
      BY <2>1, <3>1 DEF CallsInv, LockGood
    <3>4. call[c] \in CallStates
      BY <2>1 DEF CallsInv
    <3>5. QED BY <3>1, <3>2, <3>3, <3>4 DEF Begun, CallStates
  <2>5. ASSUME NEW e \in RevenueEvents
        PROVE  row[e].state \in {"none", "pending", "active", "failed"}
    BY <2>1 DEF CallsInv, RevenueEvents, Rows
  <2>6. QED BY <2>2, <2>3, <2>4, <2>5 DEF PostsTypeOK
<1>2. WiredInv => PostsTypeOK
  BY <1>1
<1>3. QED BY <1>2, WiredInvariant, PTL

\* No connection outlives its publication; a sample accounts for every target
\* once, whichever way each relay settled; an envelope that the sink did not
\* accept waits, is under way or is in the drop counter (publishNostrEvent, and
\* enqueue and flush of the exporter).
THEOREM WiredEvidenceAddsUp == Spec => []EvidenceAddsUp
<1>1. ASSUME WiredInv PROVE EvidenceAddsUp
  <2>1. ConnInv /\ EvidenceInv
    BY <1>1 DEF WiredInv, PostsInv
  <2>2. ConnectionsAreClosed
    BY <2>1, IsStands DEF ConnectionsAreClosed
  <2>3. SamplesAddUp
    <3>1. ASSUME NEW i \in DOMAIN tasks, tasks[i].kind = "sample"
          PROVE  SampleGood(tasks[i].evidence)
      <4>1. tasks[i] \in Tasks
        BY <2>1 DEF EvidenceInv, TasksInv
      <4>2. tasks[i] \in Sampled
        BY <3>1, <4>1 DEF Tasks, Lates
      <4>3. QED BY <4>2 DEF Sampled
    <3>2. QED BY <3>1 DEF SamplesAddUp, SampleGood
  <2>4. EnvelopesAreConserved
    BY <2>1 DEF EvidenceInv, EnvelopesInv
  <2>5. QED BY <2>2, <2>3, <2>4 DEF EvidenceAddsUp
<1>2. WiredInv => EvidenceAddsUp
  BY <1>1
<1>3. QED BY <1>2, WiredInvariant, PTL

----------------------------------------------------------------------------
(* Sums of sequences *)

\* The sums of the first numbers of a sequence.
Running(P, W, n) ==
  P \in [0..n -> Nat] /\ P[0] = 0 /\ \A i \in 1..n : P[i] = P[i - 1] + W[i]

LEMMA SumsAreUnique ==
  ASSUME NEW n \in Nat, NEW W, NEW P, NEW Q, Running(P, W, n), Running(Q, W, n)
  PROVE  P[n] = Q[n]
<1> DEFINE good == {i \in 0..n : P[i] = Q[i]}
<1>1. 0 \in good
  BY DEF Running
<1>2. ASSUME NEW i \in 0..(n - 1), i \in good PROVE i + 1 \in good
  <2>1. PICK k \in 1..n : k = i + 1 /\ k - 1 = i
    OBVIOUS
  <2>2. P[k] = P[i] + W[k] /\ Q[k] = Q[i] + W[k]
    BY <2>1 DEF Running
  <2>3. QED BY <1>2, <2>1, <2>2
<1>3. n \in good
  <2> HIDE DEF good
  <2>1. QED BY <1>1, <1>2, UpTo
<1>4. QED BY <1>3

Accumulates(g, W, n) ==
  /\ g[{}] = 0
  /\ \A s \in SUBSET (1..n) : s # {} /\ g[s \ {Max(s)}] \in Nat
       => g[s] = g[s \ {Max(s)}] + W[Max(s)]

LEMMA SumsOfFold ==
  ASSUME NEW n \in Nat, NEW W \in [1..n -> Nat], NEW g, Accumulates(g, W, n)
  PROVE  \E P : Running(P, W, n) /\ P[n] = g[1..n]
<1> DEFINE good == {i \in 0..n : g[1..i] \in Nat}
<1>1. 0 \in good
  <2>1. 1..0 = {}
    OBVIOUS
  <2>2. QED BY <2>1 DEF Accumulates
<1>2. ASSUME NEW k \in 1..n, g[1..(k - 1)] \in Nat
      PROVE  g[1..k] = g[1..(k - 1)] + W[k]
  <2>1. /\ 1..k \in SUBSET (1..n) /\ 1..k # {}
        /\ Max(1..k) = k /\ (1..k) \ {Max(1..k)} = 1..(k - 1)
    BY FirstOnes
  <2>2. PICK s \in SUBSET (1..n) : s = 1..k
    BY <2>1
  <2>3. g[s \ {Max(s)}] \in Nat => g[s] = g[s \ {Max(s)}] + W[Max(s)]
    BY <2>1, <2>2 DEF Accumulates
  <2>4. QED BY <1>2, <2>1, <2>2, <2>3
<1>3. ASSUME NEW i \in 0..(n - 1), i \in good PROVE i + 1 \in good
  <2>1. PICK k \in 1..n : k = i + 1 /\ k - 1 = i
    OBVIOUS
  <2>2. g[1..k] = g[1..i] + W[k]
    BY <1>2, <1>3, <2>1
  <2>3. g[1..k] \in Nat
    BY <1>3, <2>2
  <2>4. QED BY <2>1, <2>3
<1>4. \A i \in 0..n : i \in good
  <2> HIDE DEF good
  <2>1. QED BY <1>1, <1>3, UpTo
<1>5. PICK P : P = [i \in 0..n |-> g[1..i]]
  OBVIOUS
<1>6. P \in [0..n -> Nat]
  BY <1>4, <1>5
<1>7. P[0] = 0
  <2>1. 1..0 = {} /\ 0 \in 0..n
    OBVIOUS
  <2>2. P[0] = g[1..0]
    BY <1>5, <2>1
  <2>3. g[{}] = 0
    BY DEF Accumulates
  <2>4. QED BY <2>1, <2>2, <2>3
<1>8. ASSUME NEW k \in 1..n PROVE P[k] = P[k - 1] + W[k]
  <2>1. k \in 0..n /\ k - 1 \in 0..n
    OBVIOUS
  <2>2. P[k] = g[1..k] /\ P[k - 1] = g[1..(k - 1)]
    BY <1>5, <2>1
  <2>3. g[1..(k - 1)] \in Nat
    BY <1>4, <2>1
  <2>4. QED BY <1>2, <2>2, <2>3
<1>9. P[n] = g[1..n]
  BY <1>5
<1>10. QED BY <1>6, <1>7, <1>8, <1>9 DEF Running

\* SumSeq adds up.
AddUp(W, g, s) == IF s = {} THEN 0 ELSE g[s \ {Max(s)}] + W[Max(s)]
IsSum(W, g, S) == g = [s \in SUBSET S |-> AddUp(W, g, s)]
SumOf(W, S) == CHOOSE g : IsSum(W, g, S)

LEMMA SumIsChosen == ASSUME NEW W PROVE SumSeq(W) = SumOf(W, DOMAIN W)[DOMAIN W]
BY DEF SumSeq, FoldLeft, MapThenFoldSet, SumOf, IsSum, AddUp

LEMMA SumRuns ==
  ASSUME NEW n \in Nat, NEW W \in [1..n -> Nat]
  PROVE  \E P : Running(P, W, n) /\ P[n] = SumSeq(W)
<1>1. PICK F : F = [x \in Nat \X Nat |-> IF x[1] \in 1..n THEN x[2] + W[x[1]] ELSE 0]
  OBVIOUS
<1>2. F \in [Nat \X Nat -> Nat]
  BY <1>1
<1>3. PICK f \in [SUBSET (1..n) -> Nat] : IsFold(0, F, f, 1..n)
  <2>1. 0 \in Nat
    OBVIOUS
  <2>2. Folded(Nat, 0, F, n)
    BY <1>2, <2>1, FoldExists
  <2>3. QED BY <2>2 DEF Folded
<1>4. ASSUME NEW s \in SUBSET (1..n) PROVE f[s] = AddUp(W, f, s)
  <2>1. CASE s = {}
    BY <1>3, <2>1 DEF IsFold, FoldStep, AddUp
  <2>2. CASE s # {}
    <3>1. PICK m : m = Max(s)
      OBVIOUS
    <3>2. m \in s
      BY <2>2, <3>1, GreatestIsIn
    <3>3. m \in 1..n /\ m \in Nat /\ f[s \ {m}] \in Nat
      BY <3>2
    <3>4. f[s] = F[<<m, f[s \ {m}]>>]
      BY <1>3, <2>2, <3>1 DEF IsFold, FoldStep
    <3>5. f[s] = f[s \ {m}] + W[m]
      BY <1>1, <3>3, <3>4
    <3>6. QED BY <2>2, <3>1, <3>5 DEF AddUp
  <2>3. QED BY <2>1, <2>2
<1>5. IsSum(W, f, 1..n)
  BY <1>3, <1>4 DEF IsSum
<1>6. PICK g : g = SumOf(W, 1..n)
  OBVIOUS
<1>7. IsSum(W, g, 1..n)
  BY <1>5, <1>6 DEF SumOf
<1>8. \E P : Running(P, W, n) /\ P[n] = g[1..n]
  <2>1. g[{}] = 0
    BY <1>7 DEF IsSum, AddUp
  <2>2. \A s \in SUBSET (1..n) : s # {} => g[s] = g[s \ {Max(s)}] + W[Max(s)]
    BY <1>7 DEF IsSum, AddUp
  <2>3. Accumulates(g, W, n)
    BY <2>1, <2>2 DEF Accumulates
  <2>4. QED BY <2>3, SumsOfFold
<1>9. DOMAIN W = 1..n
  OBVIOUS
<1>10. SumSeq(W) = g[1..n]
  BY <1>6, <1>9, SumIsChosen
<1>11. QED BY <1>8, <1>10

\* Any running sum ends at the sum.
LEMMA RunningIsSum ==
  ASSUME NEW n \in Nat, NEW W \in [1..n -> Nat], NEW P, Running(P, W, n)
  PROVE  SumSeq(W) = P[n] /\ SumSeq(W) \in Nat
<1>1. PICK Q : Running(Q, W, n) /\ Q[n] = SumSeq(W)
  BY SumRuns
<1>2. P[n] = Q[n]
  BY <1>1, SumsAreUnique
<1>3. P[n] \in Nat
  BY DEF Running
<1>4. QED BY <1>1, <1>2, <1>3

LEMMA SumOfOne == ASSUME NEW x \in Nat PROVE SumSeq(<<x>>) = x
<1>1. PICK W : W = <<x>>
  OBVIOUS
<1>2. W \in [1..1 -> Nat] /\ W[1] = x
  BY <1>1
<1>3. PICK P : P = [i \in 0..1 |-> IF i = 0 THEN 0 ELSE x]
  OBVIOUS
<1>4. Running(P, W, 1)
  BY <1>2, <1>3 DEF Running
<1>5. P[1] = x
  BY <1>3
<1>6. QED BY <1>1, <1>2, <1>4, <1>5, RunningIsSum

LEMMA SumOfNone == SumSeq(<<>>) = 0
<1>1. PICK W : W = <<>>
  OBVIOUS
<1>2. W \in [1..0 -> Nat]
  BY <1>1
<1>3. PICK P : P = [i \in 0..0 |-> 0]
  OBVIOUS
<1>4. Running(P, W, 0)
  BY <1>3 DEF Running
<1>5. P[0] = 0
  BY <1>3
<1>6. QED BY <1>1, <1>2, <1>4, <1>5, RunningIsSum

LEMMA SumOfBoth ==
  ASSUME NEW s \in Seq(Nat), NEW t \in Seq(Nat)
  PROVE  /\ SumSeq(s) \in Nat /\ SumSeq(t) \in Nat
         /\ SumSeq(s \o t) = SumSeq(s) + SumSeq(t)
<1>1. PICK n \in Nat : n = Len(s) /\ s \in [1..n -> Nat]
  BY LenProperties
<1>2. PICK m \in Nat : m = Len(t) /\ t \in [1..m -> Nat]
  BY LenProperties
<1>3. PICK W : W = s \o t
  OBVIOUS
<1>4. /\ W \in [1..(n + m) -> Nat]
      /\ \A i \in 1..(n + m) : W[i] = IF i <= n THEN s[i] ELSE t[i - n]
  <2>1. W \in Seq(Nat) /\ Len(W) = n + m
    BY <1>1, <1>2, <1>3, ConcatProperties
  <2>2. W \in [1..(n + m) -> Nat]
    BY <2>1, LenProperties
  <2>3. QED BY <1>1, <1>2, <1>3, <2>2, ConcatProperties
<1>5. PICK P : Running(P, s, n) /\ P[n] = SumSeq(s)
  BY <1>1, SumRuns
<1>6. PICK Q : Running(Q, t, m) /\ Q[m] = SumSeq(t)
  BY <1>2, SumRuns
<1>7. P \in [0..n -> Nat] /\ P[0] = 0 /\ \A i \in 1..n : P[i] = P[i - 1] + s[i]
  BY <1>5 DEF Running
<1>8. Q \in [0..m -> Nat] /\ Q[0] = 0 /\ \A i \in 1..m : Q[i] = Q[i - 1] + t[i]
  BY <1>6 DEF Running
<1>9. PICK R : R = [i \in 0..(n + m) |-> IF i <= n THEN P[i] ELSE P[n] + Q[i - n]]
  OBVIOUS
<1>10. R \in [0..(n + m) -> Nat]
  <2>1. ASSUME NEW i \in 0..(n + m)
        PROVE  (IF i <= n THEN P[i] ELSE P[n] + Q[i - n]) \in Nat
    <3>1. CASE i <= n
      BY <1>7, <3>1
    <3>2. CASE i > n
      <4>1. i - n \in 0..m
        BY <3>2
      <4>2. P[n] \in Nat /\ Q[i - n] \in Nat
        BY <1>7, <1>8, <4>1
      <4>3. QED BY <3>2, <4>2
    <3>3. QED BY <3>1, <3>2
  <2>2. QED BY <1>9, <2>1
<1>11. ASSUME NEW i \in 1..(n + m) PROVE R[i] = R[i - 1] + W[i]
  <2>0. i \in 0..(n + m) /\ i - 1 \in 0..(n + m)
    OBVIOUS
  <2>1. CASE i <= n
    <3>1. R[i] = P[i] /\ R[i - 1] = P[i - 1] /\ i \in 1..n
      BY <1>9, <2>0, <2>1
    <3>2. QED BY <1>4, <1>7, <2>1, <3>1
  <2>2. CASE i > n
    <3>1. PICK j \in 1..m : j = i - n
      BY <2>2
    <3>2. Q[j] = Q[j - 1] + t[j] /\ Q[j] \in Nat /\ Q[j - 1] \in Nat /\ t[j] \in Nat /\ P[n] \in Nat
      <4>1. j \in 0..m /\ j - 1 \in 0..m /\ n \in 0..n
        BY <3>1
      <4>2. Q[j] \in Nat /\ Q[j - 1] \in Nat /\ t[j] \in Nat /\ P[n] \in Nat
        BY <1>2, <1>7, <1>8, <4>1
      <4>3. QED BY <1>8, <4>2
    <3>3. R[i] = P[n] + Q[j] /\ W[i] = t[j]
      BY <1>4, <1>9, <2>0, <2>2, <3>1
    <3>4. R[i - 1] = P[n] + Q[j - 1]
      <4>1. CASE i - 1 = n
        <5>1. j - 1 = 0
          BY <3>1, <4>1
        <5>2. R[i - 1] = P[n]
          BY <1>9, <2>0, <4>1
        <5>3. QED BY <1>8, <3>2, <5>1, <5>2
      <4>2. CASE i - 1 # n
        <5>1. i - 1 > n /\ j - 1 = (i - 1) - n
          BY <2>2, <3>1, <4>2
        <5>2. R[i - 1] = P[n] + Q[(i - 1) - n]
          BY <1>9, <2>0, <5>1
        <5>3. QED BY <5>1, <5>2
      <4>3. QED BY <4>1, <4>2
    <3>5. PICK x \in Nat, y \in Nat, z \in Nat :
            x = Q[j - 1] /\ y = t[j] /\ z = P[n]
      BY <3>2
    <3>6. Q[j] = x + y
      BY <3>2, <3>5
    <3>7. R[i] = z + (x + y) /\ W[i] = y /\ R[i - 1] = z + x
      BY <3>3, <3>4, <3>5, <3>6
    <3>8. z + (x + y) = (z + x) + y
      OBVIOUS
    <3>9. QED BY <3>7, <3>8
  <2>3. QED BY <2>1, <2>2
<1>12. R[0] = 0
  BY <1>7, <1>9
<1>13. Running(R, W, n + m)
  BY <1>10, <1>11, <1>12 DEF Running
<1>14. R[n + m] = P[n] + Q[m]
  <2>1. n + m \in 0..(n + m)
    OBVIOUS
  <2>2. CASE m = 0
    BY <1>7, <1>8, <1>9, <2>1, <2>2
  <2>3. CASE m # 0
    <3>1. ~(n + m <= n) /\ (n + m) - n = m
      BY <2>3
    <3>2. QED BY <1>9, <2>1, <3>1
  <2>4. QED BY <2>2, <2>3
<1>15. n + m \in Nat
  OBVIOUS
<1>16. SumSeq(W) = R[n + m]
  BY <1>4, <1>13, <1>15, RunningIsSum
<1>17. P[n] \in Nat /\ Q[m] \in Nat
  BY <1>7, <1>8
<1>18. QED BY <1>3, <1>5, <1>6, <1>14, <1>16, <1>17

\* A part of a sequence.
LEMMA PartIs ==
  ASSUME NEW T, NEW s \in Seq(T), NEW a \in Nat, NEW b \in Nat, a <= b, b <= Len(s)
  PROVE  /\ SubSeq(s, a + 1, b) \in Seq(T) /\ Len(SubSeq(s, a + 1, b)) = b - a
         /\ \A i \in 1..(b - a) : SubSeq(s, a + 1, b)[i] = s[a + i]
<1>1. PICK m \in Int : m = a + 1
  OBVIOUS
<1>2. PICK n \in Nat : n = Len(s) /\ s \in [1..n -> T]
  BY LenProperties
<1>3. \A i \in m..b : s[i] \in T
  BY <1>1, <1>2
<1>4. /\ SubSeq(s, m, b) \in Seq(T)
      /\ Len(SubSeq(s, m, b)) = IF m <= b THEN b - m + 1 ELSE 0
      /\ \A i \in 1..(b - m + 1) : SubSeq(s, m, b)[i] = s[m + i - 1]
  BY <1>3, SubSeqProperties
<1>5. (IF m <= b THEN b - m + 1 ELSE 0) = b - a /\ b - m + 1 = b - a
  BY <1>1
<1>6. ASSUME NEW i \in 1..(b - a) PROVE SubSeq(s, m, b)[i] = s[a + i]
  <2>1. m + i - 1 = a + i
    BY <1>1
  <2>2. QED BY <1>4, <1>5, <2>1
<1>7. QED BY <1>1, <1>4, <1>5, <1>6

LEMMA PartsJoin ==
  ASSUME NEW T, NEW s \in Seq(T), NEW a \in Nat, NEW b \in Nat, a <= b, b <= Len(s)
  PROVE  SubSeq(s, 1, a) \o SubSeq(s, a + 1, b) = SubSeq(s, 1, b)
<1>0. Len(s) \in Nat
  BY LenProperties
<1>1. PICK u, v, w : /\ u = SubSeq(s, 1, a) /\ v = SubSeq(s, a + 1, b)
                     /\ w = SubSeq(s, 1, b)
  OBVIOUS
<1>2. u \in Seq(T) /\ Len(u) = a /\ \A i \in 1..a : u[i] = s[i]
  <2>1. 0 \in Nat /\ 0 <= a /\ a <= Len(s) /\ 0 + 1 = 1 /\ a - 0 = a
    BY <1>0
  <2>2. /\ SubSeq(s, 0 + 1, a) \in Seq(T) /\ Len(SubSeq(s, 0 + 1, a)) = a - 0
        /\ \A i \in 1..(a - 0) : SubSeq(s, 0 + 1, a)[i] = s[0 + i]
    BY <2>1, PartIs
  <2>3. \A i \in 1..a : 0 + i = i
    OBVIOUS
  <2>4. QED BY <1>1, <2>1, <2>2, <2>3
<1>3. v \in Seq(T) /\ Len(v) = b - a /\ \A i \in 1..(b - a) : v[i] = s[a + i]
  BY <1>1, PartIs
<1>4. w \in Seq(T) /\ Len(w) = b /\ \A i \in 1..b : w[i] = s[i]
  <2>1. 0 \in Nat /\ 0 <= b /\ 0 + 1 = 1 /\ b - 0 = b
    OBVIOUS
  <2>2. /\ SubSeq(s, 0 + 1, b) \in Seq(T) /\ Len(SubSeq(s, 0 + 1, b)) = b - 0
        /\ \A i \in 1..(b - 0) : SubSeq(s, 0 + 1, b)[i] = s[0 + i]
    BY <2>1, PartIs
  <2>3. \A i \in 1..b : 0 + i = i
    OBVIOUS
  <2>4. QED BY <1>1, <2>1, <2>2, <2>3
<1>5. PICK x : x = u \o v
  OBVIOUS
<1>6. /\ x \in Seq(T) /\ Len(x) = b
      /\ \A i \in 1..b : x[i] = IF i <= a THEN u[i] ELSE v[i - a]
  <2>1. a + (b - a) = b
    OBVIOUS
  <2>2. /\ u \o v \in Seq(T) /\ Len(u \o v) = Len(u) + Len(v)
        /\ \A i \in 1..(Len(u) + Len(v)) :
             (u \o v)[i] = IF i <= Len(u) THEN u[i] ELSE v[i - Len(u)]
    BY <1>2, <1>3, ConcatProperties
  <2>3. QED BY <1>2, <1>3, <1>5, <2>1, <2>2
<1>7. ASSUME NEW i \in 1..b PROVE x[i] = w[i]
  <2>1. CASE i <= a
    <3>1. i \in 1..a
      BY <2>1
    <3>2. QED BY <1>2, <1>4, <1>6, <2>1, <3>1
  <2>2. CASE i > a
    <3>1. PICK j \in 1..(b - a) : j = i - a /\ a + j = i
      BY <2>2
    <3>2. v[j] = s[i]
      BY <1>3, <3>1
    <3>3. QED BY <1>4, <1>6, <2>2, <3>1, <3>2
  <2>3. QED BY <2>1, <2>2
<1>8. x \in [1..b -> T] /\ w \in [1..b -> T]
  BY <1>4, <1>6, LenProperties
<1>9. x = w
  BY <1>7, <1>8
<1>10. QED BY <1>1, <1>5, <1>9

LEMMA SumOfFirst ==
  ASSUME NEW s \in Seq(Nat), NEW n \in Nat, n = Len(s), NEW P, Running(P, s, n),
         NEW b \in 0..n
  PROVE  SumSeq(SubSeq(s, 1, b)) = P[b] /\ SubSeq(s, 1, b) \in Seq(Nat)
<1>1. PICK u : u = SubSeq(s, 1, b)
  OBVIOUS
<1>2. u \in Seq(Nat) /\ Len(u) = b /\ \A i \in 1..b : u[i] = s[i]
  <2>1. 0 \in Nat /\ b \in Nat /\ 0 <= b /\ b <= Len(s) /\ 0 + 1 = 1 /\ b - 0 = b
    OBVIOUS
  <2>2. /\ SubSeq(s, 0 + 1, b) \in Seq(Nat) /\ Len(SubSeq(s, 0 + 1, b)) = b - 0
        /\ \A i \in 1..(b - 0) : SubSeq(s, 0 + 1, b)[i] = s[0 + i]
    BY <2>1, PartIs
  <2>3. \A i \in 1..b : 0 + i = i
    OBVIOUS
  <2>4. QED BY <1>1, <2>1, <2>2, <2>3
<1>3. u \in [1..b -> Nat]
  BY <1>2, LenProperties
<1>4. PICK Q : Q = [i \in 0..b |-> P[i]]
  OBVIOUS
<1>5. P \in [0..n -> Nat] /\ P[0] = 0 /\ \A i \in 1..n : P[i] = P[i - 1] + s[i]
  BY DEF Running
<1>6. Running(Q, u, b)
  <2>1. Q \in [0..b -> Nat] /\ Q[0] = 0
    <3>1. 0 \in 0..b /\ \A i \in 0..b : i \in 0..n
      OBVIOUS
    <3>2. \A i \in 0..b : P[i] \in Nat
      BY <1>5, <3>1
    <3>3. QED BY <1>4, <1>5, <3>1, <3>2
  <2>2. ASSUME NEW i \in 1..b PROVE Q[i] = Q[i - 1] + u[i]
    <3>1. i \in 1..n /\ i \in 0..b /\ i - 1 \in 0..b
      OBVIOUS
    <3>2. Q[i] = P[i] /\ Q[i - 1] = P[i - 1] /\ u[i] = s[i]
      BY <1>2, <1>4, <3>1
    <3>3. P[i] = P[i - 1] + s[i]
      BY <1>5, <3>1
    <3>4. QED BY <3>2, <3>3
  <2>3. QED BY <2>1, <2>2 DEF Running
<1>7. b \in Nat /\ Q[b] = P[b]
  BY <1>4
<1>8. QED BY <1>1, <1>2, <1>3, <1>6, <1>7, RunningIsSum

LEMMA SumOfPart ==
  ASSUME NEW s \in Seq(Nat), NEW n \in Nat, n = Len(s), NEW P, Running(P, s, n),
         NEW a \in 0..n, NEW b \in 0..n, a <= b
  PROVE  /\ SubSeq(s, a + 1, b) \in Seq(Nat) /\ SumSeq(SubSeq(s, a + 1, b)) \in Nat
         /\ P[b] = P[a] + SumSeq(SubSeq(s, a + 1, b))
<1>1. PICK u, v, w : /\ u = SubSeq(s, 1, a) /\ v = SubSeq(s, a + 1, b)
                     /\ w = SubSeq(s, 1, b)
  OBVIOUS
<1>2. u \in Seq(Nat) /\ SumSeq(u) = P[a] /\ SumSeq(w) = P[b]
  BY <1>1, SumOfFirst
<1>3. a \in Nat /\ b \in Nat /\ b <= Len(s)
  OBVIOUS
<1>4. v \in Seq(Nat) /\ u \o v = w
  BY <1>1, <1>3, PartIs, PartsJoin
<1>5. SumSeq(v) \in Nat /\ SumSeq(u \o v) = SumSeq(u) + SumSeq(v)
  BY <1>2, <1>4, SumOfBoth
<1>6. QED BY <1>1, <1>2, <1>4, <1>5

\* What is cut off and what is left add up to the whole.
LEMMA SumOfCut ==
  ASSUME NEW s \in Seq(Nat), NEW n, n = Len(s), NEW c \in 0..n
  PROVE  /\ SubSeq(s, 1, c) \in Seq(Nat) /\ SubSeq(s, c + 1, n) \in Seq(Nat)
         /\ SumSeq(s) = SumSeq(SubSeq(s, 1, c)) + SumSeq(SubSeq(s, c + 1, n))
<1>1. n \in Nat /\ s \in [1..n -> Nat]
  BY LenProperties
<1>2. PICK P : Running(P, s, n) /\ P[n] = SumSeq(s)
  BY <1>1, SumRuns
<1>3. n \in 0..n /\ c <= n
  BY <1>1
<1>4. SubSeq(s, 1, c) \in Seq(Nat) /\ SumSeq(SubSeq(s, 1, c)) = P[c]
  BY <1>1, <1>2, SumOfFirst
<1>5. SubSeq(s, c + 1, n) \in Seq(Nat) /\ P[n] = P[c] + SumSeq(SubSeq(s, c + 1, n))
  BY <1>1, <1>2, <1>3, SumOfPart
<1>6. QED BY <1>2, <1>4, <1>5

----------------------------------------------------------------------------
(* The number of samples, as sums *)

Numbers(T) == [T -> Nat]
Measures(f, s) == [i \in 1..Len(s) |-> f[s[i]]]

Measured(c, f, s) ==
  /\ c \in Seq(Nat) /\ Len(c) = Len(s)
  /\ \A i \in 1..Len(s) : c[i] = f[s[i]]

LEMMA MeasuresAre ==
  ASSUME NEW T, NEW f \in Numbers(T), NEW s \in Seq(T)
  PROVE  Measured(Measures(f, s), f, s)
<1>1. PICK n \in Nat : n = Len(s) /\ s \in [1..n -> T]
  BY LenProperties
<1>2. Measures(f, s) \in [1..n -> Nat]
  BY <1>1 DEF Measures, Numbers
<1>3. Measures(f, s) \in Seq(Nat) /\ Len(Measures(f, s)) = n
  BY <1>1, <1>2
<1>4. QED BY <1>1, <1>3 DEF Measures, Measured

LEMMA MeasuresJoin ==
  ASSUME NEW T, NEW f \in Numbers(T), NEW s \in Seq(T), NEW t \in Seq(T)
  PROVE  SumSeq(Measures(f, s \o t)) = SumSeq(Measures(f, s)) + SumSeq(Measures(f, t))
<1>1. PICK x : x = s \o t
  OBVIOUS
<1>2. PICK n \in Nat, m \in Nat : n = Len(s) /\ m = Len(t)
  BY LenProperties
<1>3. /\ x \in Seq(T) /\ Len(x) = n + m
      /\ \A i \in 1..(n + m) : x[i] = IF i <= n THEN s[i] ELSE t[i - n]
  BY <1>1, <1>2, ConcatProperties
<1>4. PICK a, b, c : a = Measures(f, s) /\ b = Measures(f, t) /\ c = Measures(f, x)
  OBVIOUS
<1>5. /\ a \in Seq(Nat) /\ Len(a) = n /\ \A i \in 1..n : a[i] = f[s[i]]
      /\ b \in Seq(Nat) /\ Len(b) = m /\ \A i \in 1..m : b[i] = f[t[i]]
      /\ c \in Seq(Nat) /\ Len(c) = n + m /\ \A i \in 1..(n + m) : c[i] = f[x[i]]
  <2>1. PICK y \in Seq(T) : y = x
    BY <1>3
  <2>2. Measured(a, f, s) /\ Measured(b, f, t) /\ Measured(c, f, y)
    BY <1>4, <2>1, MeasuresAre
  <2>3. QED BY <1>2, <1>3, <2>1, <2>2 DEF Measured
<1>6. PICK d : d = a \o b
  OBVIOUS
<1>7. /\ d \in Seq(Nat) /\ Len(d) = n + m
      /\ \A i \in 1..(n + m) : d[i] = IF i <= n THEN a[i] ELSE b[i - n]
  BY <1>5, <1>6, ConcatProperties
<1>8. ASSUME NEW i \in 1..(n + m) PROVE c[i] = d[i]
  <2>0. c[i] = f[x[i]]
    BY <1>5
  <2>1. CASE i <= n
    <3>1. i \in 1..n /\ x[i] = s[i]
      BY <1>3, <2>1
    <3>2. a[i] = f[s[i]] /\ d[i] = a[i]
      BY <1>5, <1>7, <2>1, <3>1
    <3>3. QED BY <2>0, <3>1, <3>2
  <2>2. CASE i > n
    <3>1. PICK j \in 1..m : j = i - n
      BY <2>2
    <3>2. x[i] = t[j]
      BY <1>3, <2>2, <3>1
    <3>3. b[j] = f[t[j]] /\ d[i] = b[j]
      BY <1>5, <1>7, <2>2, <3>1
    <3>4. QED BY <2>0, <3>2, <3>3
  <2>3. QED BY <2>1, <2>2
<1>9. c \in [1..(n + m) -> Nat] /\ d \in [1..(n + m) -> Nat]
  BY <1>5, <1>7, LenProperties
<1>10. c = d
  BY <1>8, <1>9
<1>11. QED BY <1>1, <1>4, <1>5, <1>6, <1>10, SumOfBoth

LEMMA MeasuresOfPart ==
  ASSUME NEW T, NEW f \in Numbers(T), NEW s \in Seq(T),
         NEW a \in Nat, NEW b \in Nat, a <= b, b <= Len(s)
  PROVE  Measures(f, SubSeq(s, a + 1, b)) = SubSeq(Measures(f, s), a + 1, b)
<1>1. PICK v : v = SubSeq(s, a + 1, b)
  OBVIOUS
<1>2. PICK m \in Nat : m = b - a
  OBVIOUS
<1>3. v \in Seq(T) /\ Len(v) = m /\ \A i \in 1..m : v[i] = s[a + i]
  BY <1>1, <1>2, PartIs
<1>4. PICK x, y : x = Measures(f, v) /\ y = Measures(f, s)
  OBVIOUS
<1>5. x \in Seq(Nat) /\ Len(x) = m /\ \A i \in 1..m : x[i] = f[v[i]]
  <2>1. PICK w \in Seq(T) : w = v
    BY <1>3
  <2>2. Measured(x, f, w)
    BY <1>4, <2>1, MeasuresAre
  <2>3. QED BY <1>3, <2>1, <2>2 DEF Measured
<1>6. y \in Seq(Nat) /\ Len(y) = Len(s) /\ \A i \in 1..Len(s) : y[i] = f[s[i]]
  BY <1>4, MeasuresAre DEF Measured
<1>7. PICK z : z = SubSeq(y, a + 1, b)
  OBVIOUS
<1>8. z \in Seq(Nat) /\ Len(z) = m /\ \A i \in 1..m : z[i] = y[a + i]
  BY <1>2, <1>6, <1>7, PartIs
<1>9. ASSUME NEW i \in 1..m PROVE x[i] = z[i]
  <2>1. PICK j \in 1..Len(s) : j = a + i
    <3>1. Len(s) \in Nat
      BY LenProperties
    <3>2. a + i \in 1..Len(s)
      BY <1>2, <3>1
    <3>3. QED BY <3>2
  <2>2. x[i] = f[s[j]]
    BY <1>3, <1>5, <2>1
  <2>3. z[i] = f[s[j]]
    BY <1>6, <1>8, <2>1
  <2>4. QED BY <2>2, <2>3
<1>10. x \in [1..m -> Nat] /\ z \in [1..m -> Nat]
  BY <1>5, <1>8, LenProperties
<1>11. x = z
  BY <1>9, <1>10
<1>12. QED BY <1>1, <1>4, <1>7, <1>11

\* A task counts as one when it is a sample.
Mark(T) == [t \in T |-> IF t.kind = "sample" THEN 1 ELSE 0]

LEMMA SamplesAreMarks ==
  ASSUME NEW T, NEW ts \in Seq(T)
  PROVE  Samples(ts) = SumSeq(Measures(Mark(T), ts)) /\ Samples(ts) \in Nat
<1>1. PICK n \in Nat : n = Len(ts) /\ DOMAIN ts = 1..n /\ ts \in [1..n -> T]
  BY LenProperties
<1>2. PICK W : W = Measures(Mark(T), ts)
  OBVIOUS
<1>3. W \in [1..n -> Nat] /\ \A i \in 1..n : W[i] = IF ts[i].kind = "sample" THEN 1 ELSE 0
  <2>0. Mark(T) \in Numbers(T)
    BY DEF Mark, Numbers
  <2>1. W \in Seq(Nat) /\ Len(W) = n /\ \A i \in 1..n : W[i] = Mark(T)[ts[i]]
    BY <1>1, <1>2, <2>0, MeasuresAre DEF Measured
  <2>2. W \in [1..n -> Nat]
    BY <2>1, LenProperties
  <2>3. ASSUME NEW i \in 1..n PROVE W[i] = IF ts[i].kind = "sample" THEN 1 ELSE 0
    BY <1>1, <2>1 DEF Mark
  <2>4. QED BY <2>2, <2>3
<1> DEFINE S(i) == {j \in 1..i : ts[j].kind = "sample"}
<1>4. ASSUME NEW i \in 0..n PROVE IsFiniteSet(S(i)) /\ Cardinality(S(i)) \in Nat
  <2>1. IsFiniteSet(1..i) /\ S(i) \subseteq 1..i
    <3>1. i \in Int /\ 1 \in Int
      OBVIOUS
    <3>2. IsFiniteSet(1..i)
      BY <3>1, FS_Interval
    <3>3. QED BY <3>2
  <2> HIDE DEF S
  <2>2. IsFiniteSet(S(i))
    BY <2>1, FS_Subset
  <2>3. QED BY <2>2, FS_CardinalityType
<1>5. Cardinality(S(0)) = 0
  <2>1. S(0) = {}
    OBVIOUS
  <2>2. QED BY <2>1, FS_EmptySet
<1>6. ASSUME NEW i \in 1..n
      PROVE  Cardinality(S(i)) = Cardinality(S(i - 1)) + W[i]
  <2>1. i - 1 \in 0..n
    OBVIOUS
  <2>2. IsFiniteSet(S(i - 1)) /\ Cardinality(S(i - 1)) \in Nat
    BY <1>4, <2>1
  <2>3. CASE ts[i].kind = "sample"
    <3>1. W[i] = 1
      BY <1>3, <2>3
    <3>2. S(i) = S(i - 1) \cup {i} /\ i \notin S(i - 1)
      BY <2>3
    <3>3. Cardinality(S(i)) = Cardinality(S(i - 1)) + 1
      <4> HIDE DEF S
      <4>1. QED BY <2>2, <3>2, FS_AddElement
    <3>4. QED BY <3>1, <3>3
  <2>4. CASE ts[i].kind # "sample"
    <3>1. W[i] = 0
      BY <1>3, <2>4
    <3>2. S(i) = S(i - 1)
      BY <2>4
    <3>3. PICK k \in Nat : k = Cardinality(S(i - 1))
      BY <2>2
    <3>4. Cardinality(S(i)) = k
      <4> HIDE DEF S
      <4>1. QED BY <3>2, <3>3
    <3>5. QED BY <3>1, <3>3, <3>4
  <2>5. QED BY <2>3, <2>4
<1>7. Samples(ts) = Cardinality(S(n))
  BY <1>1 DEF Samples
<1> HIDE DEF S
<1>8. PICK P : P = [i \in 0..n |-> Cardinality(S(i))]
  OBVIOUS
<1>9. Running(P, W, n)
  <2>1. P \in [0..n -> Nat]
    BY <1>4, <1>8
  <2>2. P[0] = 0
    BY <1>5, <1>8
  <2>3. ASSUME NEW i \in 1..n PROVE P[i] = P[i - 1] + W[i]
    <3>1. i \in 0..n /\ i - 1 \in 0..n
      OBVIOUS
    <3>2. QED BY <1>6, <1>8, <3>1
  <2>4. QED BY <2>1, <2>2, <2>3 DEF Running
<1>10. P[n] = Samples(ts)
  BY <1>7, <1>8
<1>11. QED BY <1>2, <1>3, <1>9, <1>10, RunningIsSum

LEMMA SamplesJoin ==
  ASSUME NEW T, NEW s \in Seq(T), NEW t \in Seq(T)
  PROVE  Samples(s \o t) = Samples(s) + Samples(t)
<1>1. PICK f : f = Mark(T)
  OBVIOUS
<1>2. f \in Numbers(T)
  BY <1>1 DEF Mark, Numbers
<1>3. PICK x \in Seq(T) : x = s \o t
  BY ConcatProperties
<1>4. SumSeq(Measures(f, x)) = SumSeq(Measures(f, s)) + SumSeq(Measures(f, t))
  BY <1>2, <1>3, MeasuresJoin
<1>5. /\ Samples(x) = SumSeq(Measures(f, x)) /\ Samples(s) = SumSeq(Measures(f, s))
      /\ Samples(t) = SumSeq(Measures(f, t))
  BY <1>1, SamplesAreMarks
<1>6. QED BY <1>3, <1>4, <1>5

LEMMA SamplesCut ==
  ASSUME NEW T, NEW s \in Seq(T), NEW n, n = Len(s), NEW c \in 0..n
  PROVE  /\ Samples(SubSeq(s, 1, c)) \in Nat /\ Samples(SubSeq(s, c + 1, n)) \in Nat
         /\ Samples(s) = Samples(SubSeq(s, 1, c)) + Samples(SubSeq(s, c + 1, n))
<1>1. PICK u, v : u = SubSeq(s, 1, c) /\ v = SubSeq(s, c + 1, n)
  OBVIOUS
<1>2. n \in Nat /\ c \in Nat /\ n <= Len(s) /\ c <= Len(s) /\ c <= n
  BY LenProperties
<1>3. v \in Seq(T) /\ u \o v = SubSeq(s, 1, n)
  BY <1>1, <1>2, PartIs, PartsJoin
<1>4. u \in Seq(T)
  <2>1. SubSeq(s, 0 + 1, c) \in Seq(T) /\ 0 + 1 = 1
    BY <1>2, PartIs
  <2>2. QED BY <1>1, <2>1
<1>5. SubSeq(s, 1, n) = s
  <2>1. PICK w : w = SubSeq(s, 1, n)
    OBVIOUS
  <2>2. w \in Seq(T) /\ Len(w) = n /\ \A i \in 1..n : w[i] = s[i]
    <3>1. 0 \in Nat /\ 0 <= n /\ 0 + 1 = 1 /\ n - 0 = n /\ \A i \in 1..n : 0 + i = i
      BY <1>2
    <3>2. /\ SubSeq(s, 0 + 1, n) \in Seq(T) /\ Len(SubSeq(s, 0 + 1, n)) = n - 0
          /\ \A i \in 1..(n - 0) : SubSeq(s, 0 + 1, n)[i] = s[0 + i]
      BY <1>2, <3>1, PartIs
    <3>3. QED BY <2>1, <3>1, <3>2
  <2>3. w \in [1..n -> T] /\ s \in [1..n -> T]
    BY <2>2, LenProperties
  <2>4. w = s
    BY <2>2, <2>3
  <2>5. QED BY <2>1, <2>4
<1>6. Samples(u \o v) = Samples(u) + Samples(v)
  BY <1>3, <1>4, SamplesJoin
<1>7. Samples(u) \in Nat /\ Samples(v) \in Nat
  BY <1>3, <1>4, SamplesAreMarks
<1>8. QED BY <1>1, <1>3, <1>5, <1>6, <1>7

\* Counters count for what they hold; Count is the sum of that.
Weight == [z \in Counters |-> z.samples + z.overflowed]

LEMMA WeightTyped ==
  /\ Weight \in Numbers(Counters)
  /\ \A z \in Counters : /\ z.samples \in 0..CounterLimit /\ z.overflowed \in 0..CounterLimit
                         /\ Weight[z] = z.samples + z.overflowed
<1>1. CounterLimit \in Nat
  BY EvidenceAssumption
<1>2. ASSUME NEW z \in Counters
      PROVE  /\ z.samples \in 0..CounterLimit /\ z.overflowed \in 0..CounterLimit
             /\ z.samples + z.overflowed \in Nat
  BY <1>1 DEF Counters
<1>3. QED BY <1>2 DEF Weight, Numbers

CountUp(zs, g, s) ==
  IF s = {} THEN 0 ELSE g[s \ {Max(s)}] + zs[Max(s)].samples + zs[Max(s)].overflowed
IsCount(zs, g, S) == g = [s \in SUBSET S |-> CountUp(zs, g, s)]
CountOf(zs, S) == CHOOSE g : IsCount(zs, g, S)

LEMMA CountIsChosen == ASSUME NEW zs PROVE Count(zs) = CountOf(zs, DOMAIN zs)[DOMAIN zs]
BY DEF Count, FoldLeft, MapThenFoldSet, CountOf, IsCount, CountUp

LEMMA CountIsSum ==
  ASSUME NEW zs \in Seq(Counters)
  PROVE  Count(zs) = SumSeq(Measures(Weight, zs)) /\ Count(zs) \in Nat
<1>1. PICK n \in Nat : n = Len(zs) /\ DOMAIN zs = 1..n /\ zs \in [1..n -> Counters]
  BY LenProperties
<1>2. PICK W : W = Measures(Weight, zs)
  OBVIOUS
<1>3. /\ W \in [1..n -> Nat]
      /\ \A i \in 1..n : /\ zs[i].samples \in Nat /\ zs[i].overflowed \in Nat
                         /\ W[i] = zs[i].samples + zs[i].overflowed
  <2>1. W \in Seq(Nat) /\ Len(W) = n /\ \A i \in 1..n : W[i] = Weight[zs[i]]
    BY <1>1, <1>2, WeightTyped, MeasuresAre DEF Measured
  <2>2. W \in [1..n -> Nat]
    BY <2>1, LenProperties
  <2>3. ASSUME NEW i \in 1..n
        PROVE  /\ zs[i].samples \in Nat /\ zs[i].overflowed \in Nat
               /\ W[i] = zs[i].samples + zs[i].overflowed
    <3>1. PICK z \in Counters : z = zs[i]
      BY <1>1
    <3>2. z.samples \in Nat /\ z.overflowed \in Nat /\ Weight[z] = z.samples + z.overflowed
      BY WeightTyped
    <3>3. QED BY <2>1, <3>1, <3>2
  <2>4. QED BY <2>2, <2>3
<1>4. PICK F : F = [x \in Nat \X Nat |-> IF x[1] \in 1..n THEN x[2] + W[x[1]] ELSE 0]
  OBVIOUS
<1>5. F \in [Nat \X Nat -> Nat]
  BY <1>3, <1>4
<1>6. PICK f \in [SUBSET (1..n) -> Nat] : IsFold(0, F, f, 1..n)
  <2>1. 0 \in Nat
    OBVIOUS
  <2>2. Folded(Nat, 0, F, n)
    BY <1>5, <2>1, FoldExists
  <2>3. QED BY <2>2 DEF Folded
<1>7. ASSUME NEW s \in SUBSET (1..n) PROVE f[s] = CountUp(zs, f, s)
  <2>1. CASE s = {}
    BY <1>6, <2>1 DEF IsFold, FoldStep, CountUp
  <2>2. CASE s # {}
    <3>1. PICK m : m = Max(s)
      OBVIOUS
    <3>2. m \in 1..n
      BY <2>2, <3>1, GreatestIsIn
    <3>3. PICK k \in Nat : k = f[s \ {m}]
      BY <3>2
    <3>4. f[s] = F[<<m, k>>]
      BY <1>6, <2>2, <3>1, <3>3 DEF IsFold, FoldStep
    <3>5. f[s] = k + W[m]
      BY <1>4, <3>2, <3>4
    <3>6. W[m] = zs[m].samples + zs[m].overflowed
      BY <1>3, <3>2
    <3>7. PICK a \in Nat, b \in Nat : a = zs[m].samples /\ b = zs[m].overflowed
      BY <1>3, <3>2
    <3>8. f[s] = k + a + b
      BY <3>5, <3>6, <3>7
    <3>9. QED BY <2>2, <3>1, <3>3, <3>7, <3>8 DEF CountUp
  <2>3. QED BY <2>1, <2>2
<1>8. IsCount(zs, f, 1..n)
  BY <1>6, <1>7 DEF IsCount
<1>9. PICK g : g = CountOf(zs, 1..n)
  OBVIOUS
<1>10. IsCount(zs, g, 1..n)
  BY <1>8, <1>9 DEF CountOf
<1>11. \E P : Running(P, W, n) /\ P[n] = g[1..n]
  <2>1. g[{}] = 0
    BY <1>10 DEF IsCount, CountUp
  <2>2. ASSUME NEW s \in SUBSET (1..n), s # {}, g[s \ {Max(s)}] \in Nat
        PROVE  g[s] = g[s \ {Max(s)}] + W[Max(s)]
    <3>1. PICK m : m = Max(s)
      OBVIOUS
    <3>2. m \in 1..n
      BY <2>2, <3>1, GreatestIsIn
    <3>3. PICK k \in Nat : k = g[s \ {m}]
      BY <2>2, <3>1
    <3>4. PICK a \in Nat, b \in Nat : a = zs[m].samples /\ b = zs[m].overflowed
      BY <1>3, <3>2
    <3>5. g[s] = CountUp(zs, g, s)
      BY <1>10 DEF IsCount
    <3>6. g[s] = k + a + b
      BY <2>2, <3>1, <3>3, <3>4, <3>5 DEF CountUp
    <3>7. W[m] = a + b
      BY <1>3, <3>2, <3>4
    <3>8. g[s] = k + W[m]
      BY <3>6, <3>7
    <3>9. QED BY <3>1, <3>3, <3>8
  <2>3. Accumulates(g, W, n)
    BY <2>1, <2>2 DEF Accumulates
  <2>4. QED BY <1>3, <2>3, SumsOfFold
<1>12. Count(zs) = g[1..n]
  BY <1>1, <1>9, CountIsChosen
<1>13. QED BY <1>2, <1>3, <1>11, <1>12, RunningIsSum

LEMMA CountsJoin ==
  ASSUME NEW s \in Seq(Counters), NEW t \in Seq(Counters)
  PROVE  s \o t \in Seq(Counters) /\ Count(s \o t) = Count(s) + Count(t)
<1>1. PICK x \in Seq(Counters) : x = s \o t
  BY ConcatProperties
<1>2. SumSeq(Measures(Weight, x)) = SumSeq(Measures(Weight, s)) + SumSeq(Measures(Weight, t))
  BY <1>1, WeightTyped, MeasuresJoin
<1>3. /\ Count(x) = SumSeq(Measures(Weight, x)) /\ Count(s) = SumSeq(Measures(Weight, s))
      /\ Count(t) = SumSeq(Measures(Weight, t))
  BY CountIsSum
<1>4. QED BY <1>1, <1>2, <1>3

----------------------------------------------------------------------------
(* What is drained, and the envelopes it is cut into *)

\* The samples in the collector.
Held(a) ==
  Weight[a["cancelled"]] + Weight[a["completed"]] + Weight[a["failed"]]
  + Weight[a["partial"]] + Weight[a["timed-out"]]

LEMMA KeptCounts ==
  ASSUME aggregates \in Aggregates, NEW o \in Outcomes
  PROVE  Kept(o) \in Seq(Counters) /\ Count(Kept(o)) = Weight[aggregates[o]]
<1>1. PICK z \in Counters : z = aggregates[o]
  BY DEF Aggregates
<1>2. CASE z = Zero
  <2>1. Kept(o) = <<>>
    BY <1>1, <1>2 DEF Kept
  <2>2. Weight[z] = 0
    <3>1. z.samples = 0 /\ z.overflowed = 0
      BY <1>2 DEF Zero
    <3>2. QED BY <3>1, WeightTyped
  <2>3. PICK e \in Seq(Counters) : e = <<>>
    <3>1. <<>> \in Seq(Counters)
      OBVIOUS
    <3>2. QED BY <3>1
  <2>4. Measures(Weight, e) = <<>>
    BY <2>3 DEF Measures
  <2>5. Count(e) = 0
    BY <2>4, CountIsSum, SumOfNone
  <2>6. QED BY <1>1, <2>1, <2>2, <2>3, <2>5
<1>3. CASE z # Zero
  <2>1. PICK e \in Seq(Counters) : e = <<z>>
    <3>1. <<z>> \in Seq(Counters)
      OBVIOUS
    <3>2. QED BY <3>1
  <2>2. Kept(o) = e
    BY <1>1, <1>3, <2>1 DEF Kept
  <2>3. PICK w \in Nat : w = Weight[z]
    BY WeightTyped
  <2>4. Measures(Weight, e) = <<w>>
    BY <2>1, <2>3 DEF Measures
  <2>5. Count(e) = w
    BY <2>4, CountIsSum, SumOfOne
  <2>6. QED BY <1>1, <2>2, <2>3, <2>5
<1>4. QED BY <1>2, <1>3

LEMMA DrainedCounts ==
  ASSUME aggregates \in Aggregates
  PROVE  Drained \in Seq(Counters) /\ Count(Drained) = Held(aggregates)
<1>1. PICK a, b, c, d, e : /\ a = Kept("cancelled") /\ b = Kept("completed")
                           /\ c = Kept("failed") /\ d = Kept("partial")
                           /\ e = Kept("timed-out")
  OBVIOUS
<1>2. /\ a \in Seq(Counters) /\ Count(a) = Weight[aggregates["cancelled"]]
      /\ b \in Seq(Counters) /\ Count(b) = Weight[aggregates["completed"]]
      /\ c \in Seq(Counters) /\ Count(c) = Weight[aggregates["failed"]]
      /\ d \in Seq(Counters) /\ Count(d) = Weight[aggregates["partial"]]
      /\ e \in Seq(Counters) /\ Count(e) = Weight[aggregates["timed-out"]]
  BY <1>1, KeptCounts DEF Outcomes
<1>3. PICK ab \in Seq(Counters) : ab = a \o b /\ Count(ab) = Count(a) + Count(b)
  BY <1>2, CountsJoin
<1>4. PICK ac \in Seq(Counters) : ac = ab \o c /\ Count(ac) = Count(ab) + Count(c)
  BY <1>2, CountsJoin
<1>5. PICK ad \in Seq(Counters) : ad = ac \o d /\ Count(ad) = Count(ac) + Count(d)
  BY <1>2, CountsJoin
<1>6. PICK ae \in Seq(Counters) : ae = ad \o e /\ Count(ae) = Count(ad) + Count(e)
  BY <1>2, CountsJoin
<1>7. Drained = ae
  BY <1>1, <1>3, <1>4, <1>5, <1>6 DEF Drained
<1>8. QED BY <1>2, <1>3, <1>4, <1>5, <1>6, <1>7 DEF Held

LEMMA LeastOf ==
  ASSUME NEW x \in Nat, NEW y \in Nat
  PROVE  Min({x, y}) = IF x <= y THEN x ELSE y
<1>1. PICK m \in {x, y} : m = IF x <= y THEN x ELSE y
  OBVIOUS
<1>2. /\ \A z \in {x, y} : m <= z
      /\ \A n \in {x, y} : (\A z \in {x, y} : n <= z) => n = m
  BY <1>1
<1>3. Min({x, y}) = CHOOSE n \in {x, y} : \A z \in {x, y} : n <= z
  BY DEF Min
<1>4. QED BY <1>1, <1>2, <1>3

\* n things in portions of K take f of them: the last one is not empty.
LEMMA Portions ==
  ASSUME NEW n \in Nat, NEW K \in Nat \ {0}, NEW f, f = (n + K - 1) \div K
  PROVE  /\ f \in Nat /\ n <= f * K
         /\ \A k \in 1..f : (k - 1) * K \in Nat /\ k * K \in Nat /\ (k - 1) * K <= n
                            /\ (k - 1) * K + K = k * K
<1>1. PICK x \in Nat : x = n + K - 1
  OBVIOUS
<1>2. f \in Nat /\ f * K <= x /\ x < f * K + K
  <2>1. f = x \div K
    BY <1>1
  <2>2. x \div K \in Nat
    OBVIOUS
  <2>3. x = K * (x \div K) + (x % K) /\ x % K \in 0..(K - 1)
    OBVIOUS
  <2>4. f * K = K * f
    BY <2>1, <2>2
  <2>5. x = f * K + (x % K)
    BY <2>1, <2>2, <2>3, <2>4
  <2>6. QED BY <2>1, <2>2, <2>3, <2>5
<1>3. PICK y \in Nat : y = f * K
  BY <1>2
<1>4. n <= y
  BY <1>1, <1>2, <1>3
<1>5. ASSUME NEW k \in 1..f
      PROVE  (k - 1) * K \in Nat /\ k * K \in Nat /\ (k - 1) * K <= n /\ (k - 1) * K + K = k * K
  <2>1. PICK d \in Nat : f = k + d
    <3>1. f - k \in Nat
      BY <1>2
    <3>2. QED BY <1>2, <3>1
  <2>2. k * K \in Nat /\ d * K \in Nat /\ f * K = k * K + d * K
    BY <2>1
  <2>3. (k - 1) * K = k * K - K
    OBVIOUS
  <2>4. PICK a \in Nat, b \in Nat : a = k * K /\ b = d * K
    BY <2>2
  <2>5. a + b <= n + K - 1
    BY <1>1, <1>2, <2>2, <2>4
  <2>6. a - K <= n
    BY <2>5
  <2>7. (k - 1) * K \in Nat
    <3>1. k - 1 \in Nat
      OBVIOUS
    <3>2. QED BY <3>1
  <2>8. QED BY <2>2, <2>3, <2>4, <2>6, <2>7
<1>6. QED BY <1>2, <1>3, <1>4, <1>5

LEMMA OneMoreFits ==
  ASSUME NEW a \in Nat, a < CounterLimit
  PROVE  Plus(a, 1) = a + 1
<1>1. CounterLimit \in Nat /\ a + 1 \in Nat /\ a + 1 <= CounterLimit
  BY EvidenceAssumption
<1>2. Min({CounterLimit, a + 1}) = IF CounterLimit <= a + 1 THEN CounterLimit ELSE a + 1
  BY <1>1, LeastOf
<1>3. QED BY <1>1, <1>2 DEF Plus

LEMMA EnvelopesCount ==
  ASSUME aggregates \in Aggregates
  PROVE  Envelopes \in Seq(Nat) /\ SumSeq(Envelopes) = Count(Drained)
<1>1. PICK D \in Seq(Counters) : D = Drained
  BY DrainedCounts
<1>2. PICK n \in Nat : n = Len(D)
  BY LenProperties
<1>3. PICK K \in Nat \ {0} : K = PerEnvelope
  BY EvidenceAssumption
<1>4. PICK f : f = (n + K - 1) \div K
  OBVIOUS
<1>5. /\ f \in Nat /\ n <= f * K
      /\ \A k \in 1..f : (k - 1) * K \in Nat /\ k * K \in Nat /\ (k - 1) * K <= n
                         /\ (k - 1) * K + K = k * K
  BY <1>4, Portions
<1>6. PICK W \in Seq(Nat) : W = Measures(Weight, D) /\ Len(W) = n
  BY <1>2, WeightTyped, MeasuresAre DEF Measured
<1>7. W \in [1..n -> Nat]
  BY <1>6, LenProperties
<1>8. PICK P : Running(P, W, n) /\ P[n] = SumSeq(W)
  BY <1>7, SumRuns
<1>9. P \in [0..n -> Nat] /\ P[0] = 0
  BY <1>8 DEF Running
<1> DEFINE content(k) == Count(SubSeq(D, (k - 1) * K + 1, Min({n, k * K})))
           upTo(k) == IF k = 0 THEN 0 ELSE Min({n, k * K})
<1>10. Envelopes = [k \in 1..f |-> content(k)]
  BY <1>1, <1>2, <1>3, <1>4 DEF Envelopes
<1>11. ASSUME NEW k \in 1..f
       PROVE  /\ upTo(k) \in 0..n /\ upTo(k - 1) \in 0..n
              /\ content(k) \in Nat
              /\ P[upTo(k)] = P[upTo(k - 1)] + content(k)
  <2>1. PICK a \in Nat : a = (k - 1) * K
    BY <1>5
  <2>2. PICK c \in Nat : c = k * K /\ a <= n /\ c = a + K
    BY <1>5, <2>1
  <2>3. PICK b : b = Min({n, c})
    OBVIOUS
  <2>4. b = IF n <= c THEN n ELSE c
    BY <2>3, LeastOf
  <2>5. b \in 0..n /\ a \in 0..n /\ a <= b /\ a \in Nat /\ b \in Nat /\ b <= Len(D)
    BY <1>2, <2>2, <2>4
  <2>6. upTo(k) = b
    <3>1. k # 0
      OBVIOUS
    <3>2. QED BY <2>2, <2>3, <3>1
  <2>7. upTo(k - 1) = a
    <3>1. CASE k = 1
      BY <2>1, <3>1
    <3>2. CASE k # 1
      <4>1. k - 1 # 0
        BY <3>2
      <4>2. Min({n, a}) = a
        BY <2>2, LeastOf
      <4>3. QED BY <2>1, <4>1, <4>2
    <3>3. QED BY <3>1, <3>2
  <2>8. PICK s \in Seq(Counters) : s = SubSeq(D, a + 1, b)
    BY <2>5, PartIs
  <2>9. Measures(Weight, s) = SubSeq(W, a + 1, b)
    <3>1. a <= b /\ b <= Len(D) /\ a \in Nat /\ b \in Nat
      BY <2>5
    <3>2. Measures(Weight, SubSeq(D, a + 1, b)) = SubSeq(Measures(Weight, D), a + 1, b)
      BY <3>1, WeightTyped, MeasuresOfPart
    <3>3. QED BY <1>6, <2>8, <3>2
  <2>10. /\ SumSeq(SubSeq(W, a + 1, b)) \in Nat
         /\ P[b] = P[a] + SumSeq(SubSeq(W, a + 1, b))
    BY <1>6, <1>8, <2>5, SumOfPart
  <2>11. Count(s) = SumSeq(SubSeq(W, a + 1, b))
    BY <2>9, CountIsSum
  <2>12. content(k) = Count(s)
    BY <2>1, <2>2, <2>3, <2>8
  <2> HIDE DEF content, upTo
  <2>13. QED BY <2>5, <2>6, <2>7, <2>10, <2>11, <2>12
<1>12. upTo(0) = 0
  OBVIOUS
<1>13. upTo(f) = n
  <2>1. CASE f = 0
    <3>1. f * K = 0
      BY <2>1
    <3>2. n = 0
      BY <1>5, <3>1
    <3>3. QED BY <2>1, <3>2
  <2>2. CASE f # 0
    <3>1. f \in 1..f
      BY <1>5, <2>2
    <3>2. PICK c \in Nat : c = f * K /\ n <= c
      BY <1>5, <3>1
    <3>3. Min({n, c}) = n
      BY <3>2, LeastOf
    <3>4. QED BY <2>2, <3>2, <3>3
  <2>3. QED BY <2>1, <2>2
<1> HIDE DEF content, upTo
<1>14. PICK E : E = Envelopes
  OBVIOUS
<1>15. E \in [1..f -> Nat] /\ E \in Seq(Nat)
  <2>1. E \in [1..f -> Nat]
    BY <1>10, <1>11, <1>14
  <2>2. QED BY <1>5, <2>1
<1>16. PICK Q : Q = [k \in 0..f |-> P[upTo(k)]]
  OBVIOUS
<1>17. Running(Q, E, f)
  <2>1. ASSUME NEW k \in 0..f PROVE upTo(k) \in 0..n
    <3>1. CASE k = 0
      BY <1>12, <3>1
    <3>2. CASE k # 0
      <4>1. k \in 1..f
        BY <3>2
      <4>2. QED BY <1>11, <4>1
    <3>3. QED BY <3>1, <3>2
  <2>2. Q \in [0..f -> Nat]
    BY <1>9, <1>16, <2>1
  <2>3. Q[0] = 0
    <3>1. 0 \in 0..f
      BY <1>5
    <3>2. QED BY <1>9, <1>12, <1>16, <3>1
  <2>4. ASSUME NEW k \in 1..f PROVE Q[k] = Q[k - 1] + E[k]
    <3>1. k \in 0..f /\ k - 1 \in 0..f
      BY <1>5
    <3>2. E[k] = content(k)
      BY <1>10, <1>14
    <3>3. QED BY <1>11, <1>16, <3>1, <3>2
  <2>5. QED BY <2>2, <2>3, <2>4 DEF Running
<1>18. SumSeq(E) = Q[f]
  BY <1>5, <1>15, <1>17, RunningIsSum
<1>19. Q[f] = P[n]
  BY <1>5, <1>13, <1>16
<1>20. Count(D) = SumSeq(W)
  BY <1>6, CountIsSum
<1>21. QED BY <1>1, <1>8, <1>14, <1>15, <1>18, <1>19, <1>20

----------------------------------------------------------------------------
(* What a flush adds *)

\* A sample is counted unless both counters of its outcome are full, which
\* takes twice the limit of samples.
LEMMA RecordedCounts ==
  ASSUME NEW a \in Aggregates, NEW t \in Tasks,
         t.kind = "sample" => Held(a) < 2 * CounterLimit
  PROVE  /\ Held(a) \in Nat
         /\ Held(Recorded(a, t)) = Held(a) + (IF t.kind = "sample" THEN 1 ELSE 0)
<1>1. CounterLimit \in Nat
  BY EvidenceAssumption
<1>2. PICK o \in Outcomes : o = t.outcome
  BY DEF Tasks, Lates, Sampled
<1>3. PICK b \in Aggregates : b = Recorded(a, t)
  BY RecordedTyped
<1>4. \A q \in Outcomes : Weight[a[q]] \in Nat /\ Weight[b[q]] \in Nat
  BY WeightTyped DEF Aggregates
<1>5. PICK z \in Counters : z = a[o]
  BY DEF Aggregates
<1>6. /\ z.samples \in 0..CounterLimit /\ z.overflowed \in 0..CounterLimit
      /\ Weight[z] = z.samples + z.overflowed
  BY WeightTyped
<1>7. Weight[z] <= Held(a) /\ Held(a) \in Nat
  BY <1>4, <1>5 DEF Held, Outcomes
<1>8. \A q \in Outcomes : q # o => b[q] = a[q]
  BY <1>2, <1>3 DEF Recorded, Aggregates
<1>9. Weight[b[o]] = Weight[z] + (IF t.kind = "sample" THEN 1 ELSE 0)
  <2>1. CASE t.kind = "late"
    <3>1. PICK k : k = Plus(z.late, 1)
      OBVIOUS
    <3>2. b[o] = [z EXCEPT !.late = k]
      BY <1>2, <1>3, <1>5, <2>1, <3>1 DEF Recorded, Aggregates
    <3>3. b[o] \in Counters /\ b[o].samples = z.samples /\ b[o].overflowed = z.overflowed
      BY <1>3, <3>2 DEF Aggregates, Counters
    <3>4. Weight[b[o]] = z.samples + z.overflowed
      BY <3>3, WeightTyped
    <3>5. QED BY <1>6, <2>1, <3>4
  <2>2. CASE t.kind = "sample"
    <3>1. IsEvidence(t.evidence) /\ t.kind # "late"
      BY <2>2 DEF Tasks, Lates, Sampled, SampleGood
    <3>2. CASE z.samples >= CounterLimit
      <4>1. z.overflowed < CounterLimit
        BY <1>1, <1>6, <1>7, <2>2, <3>2
      <4>2. Plus(z.overflowed, 1) = z.overflowed + 1
        BY <1>1, <1>6, <4>1, OneMoreFits
      <4>3. PICK k : k = z.overflowed + 1
        OBVIOUS
      <4>4. b[o] = [z EXCEPT !.overflowed = k]
        BY <1>2, <1>3, <1>5, <3>1, <3>2, <4>2, <4>3 DEF Recorded, Aggregates
      <4>5. b[o] \in Counters /\ b[o].samples = z.samples /\ b[o].overflowed = k
        BY <1>3, <4>4 DEF Aggregates, Counters
      <4>6. Weight[b[o]] = z.samples + k
        BY <4>5, WeightTyped
      <4>7. QED BY <1>6, <2>2, <4>3, <4>6
    <3>3. CASE ~(z.samples >= CounterLimit)
      <4>1. z.samples < CounterLimit
        BY <1>1, <1>6, <3>3
      <4>2. Plus(z.samples, 1) = z.samples + 1
        BY <1>1, <1>6, <4>1, OneMoreFits
      <4>3. PICK k : k = z.samples + 1
        OBVIOUS
      <4>4. b[o] = [z EXCEPT !.samples = k]
        BY <1>2, <1>3, <1>5, <3>1, <3>3, <4>2, <4>3 DEF Recorded, Aggregates
      <4>5. b[o] \in Counters /\ b[o].samples = k /\ b[o].overflowed = z.overflowed
        BY <1>3, <4>4 DEF Aggregates, Counters
      <4>6. Weight[b[o]] = k + z.overflowed
        BY <4>5, WeightTyped
      <4>7. QED BY <1>6, <2>2, <4>3, <4>6
    <3>4. QED BY <3>2, <3>3
  <2>3. t.kind \in {"late", "sample"}
    BY DEF Tasks, Lates, Sampled
  <2>4. QED BY <2>1, <2>2, <2>3
<1>10. PICK m \in {0, 1} : m = IF t.kind = "sample" THEN 1 ELSE 0
  OBVIOUS
<1>11. Held(b) = Held(a) + m
  <2>1. Weight[b[o]] = Weight[a[o]] + m
    BY <1>5, <1>9, <1>10
  <2>2. \A q \in Outcomes : q # o => Weight[b[q]] = Weight[a[q]]
    BY <1>8
  <2>3. QED BY <1>4, <1>10, <2>1, <2>2 DEF Held, Outcomes
<1>12. QED BY <1>3, <1>7, <1>10, <1>11

LEMMA HeldTyped == ASSUME NEW a \in Aggregates PROVE Held(a) \in Nat
<1>1. ASSUME NEW o \in Outcomes PROVE Weight[a[o]] \in Nat
  <2>1. PICK z \in Counters : z = a[o]
    BY DEF Aggregates
  <2>2. Weight[z] \in Nat
    BY WeightTyped DEF Numbers
  <2>3. QED BY <2>1, <2>2
<1>2. QED BY <1>1 DEF Held, Outcomes

LEMMA FlushCounts ==
  ASSUME NEW a \in Aggregates, NEW ts \in Seq(Tasks),
         Held(a) + Samples(ts) <= 2 * CounterLimit
  PROVE  /\ Held(a) \in Nat
         /\ Held(FoldLeft(Recorded, a, ts)) = Held(a) + Samples(ts)
<1>1. PICK n \in Nat : n = Len(ts)
  BY LenProperties
<1>1a. PICK G : FlushRun(G, a, ts, n)
  BY <1>1, FlushRuns
<1>2. /\ G \in [0..n -> Aggregates]
      /\ G[0] = a /\ G[n] = FoldLeft(Recorded, a, ts)
      /\ \A i \in 1..n : G[i] = Recorded(G[i - 1], ts[i])
  BY <1>1a DEF FlushRun
<1>3. PICK L \in Nat : L = CounterLimit
  BY EvidenceAssumption
<1>4. PICK W : W = Measures(Mark(Tasks), ts)
  OBVIOUS
<1>5. /\ W \in Seq(Nat) /\ Len(W) = n /\ W \in [1..n -> Nat]
      /\ \A i \in 1..n : W[i] = IF ts[i].kind = "sample" THEN 1 ELSE 0
  <2>1. Mark(Tasks) \in Numbers(Tasks)
    BY DEF Mark, Numbers
  <2>2. W \in Seq(Nat) /\ Len(W) = n /\ \A i \in 1..n : W[i] = Mark(Tasks)[ts[i]]
    BY <1>1, <1>4, <2>1, MeasuresAre DEF Measured
  <2>3. W \in [1..n -> Nat]
    BY <2>2, LenProperties
  <2>4. ASSUME NEW i \in 1..n PROVE W[i] = IF ts[i].kind = "sample" THEN 1 ELSE 0
    <3>1. PICK t \in Tasks : t = ts[i]
      BY <1>1, ElementOfSeq
    <3>2. W[i] = Mark(Tasks)[t]
      BY <2>2, <3>1
    <3>3. QED BY <3>1, <3>2 DEF Mark
  <2>5. QED BY <2>2, <2>3, <2>4
<1>6. PICK P : Running(P, W, n) /\ P[n] = SumSeq(W)
  BY <1>5, SumRuns
<1>7. P[n] = Samples(ts)
  BY <1>4, <1>6, SamplesAreMarks
<1>8. /\ P \in [0..n -> Nat] /\ P[0] = 0 /\ \A i \in 1..n : P[i] = P[i - 1] + W[i]
  BY <1>6 DEF Running
<1>9. ASSUME NEW i \in 0..n PROVE P[i] <= P[n] /\ P[i] \in Nat /\ P[n] \in Nat
  <2>1. n \in 0..n /\ i <= n
    OBVIOUS
  <2>2. PICK x \in Nat : P[n] = P[i] + x
    <3>1. /\ SumSeq(SubSeq(W, i + 1, n)) \in Nat
          /\ P[n] = P[i] + SumSeq(SubSeq(W, i + 1, n))
      <4>1. PICK V \in Seq(Nat) : V = W /\ n = Len(V) /\ Running(P, V, n)
        BY <1>5, <1>6
      <4>2. /\ SumSeq(SubSeq(V, i + 1, n)) \in Nat
            /\ P[n] = P[i] + SumSeq(SubSeq(V, i + 1, n))
        BY <2>1, <4>1, SumOfPart
      <4>3. QED BY <4>1, <4>2
    <3>2. QED BY <3>1
  <2>3. P[i] \in Nat /\ P[n] \in Nat
    BY <1>8, <2>1
  <2>4. QED BY <2>2, <2>3
<1>10. \A y \in Aggregates : Held(y) \in Nat
  BY HeldTyped
<1>11. PICK h \in Nat : h = Held(a) /\ h + P[n] <= 2 * L
  BY <1>3, <1>7, <1>10
<1> DEFINE good == {i \in 0..n : Held(G[i]) = h + P[i]}
<1>12. 0 \in good
  BY <1>2, <1>8, <1>11
<1>13. ASSUME NEW i \in 0..(n - 1), i \in good PROVE i + 1 \in good
  <2>1. PICK k \in 1..n : k = i + 1 /\ k - 1 = i /\ k \in 0..n
    OBVIOUS
  <2>2. PICK y \in Aggregates : y = G[i]
    BY <1>2
  <2>3. PICK t \in Tasks : t = ts[k]
    BY <1>1
  <2>4. P[k] = P[i] + W[k] /\ P[k] <= P[n] /\ P[k] \in Nat /\ P[i] \in Nat /\ P[n] \in Nat
    BY <1>8, <1>9, <2>1
  <2>5. W[k] = IF t.kind = "sample" THEN 1 ELSE 0
    BY <1>5, <2>3
  <2>6. Held(y) = h + P[i]
    BY <1>13, <2>2
  <2>7. ASSUME t.kind = "sample" PROVE Held(y) < 2 * CounterLimit
    <3>1. P[k] = P[i] + 1
      BY <2>4, <2>5, <2>7
    <3>2. h + P[i] < 2 * L
      BY <1>11, <2>4, <3>1
    <3>3. QED BY <1>3, <2>6, <3>2
  <2>8. Held(Recorded(y, t)) = Held(y) + (IF t.kind = "sample" THEN 1 ELSE 0)
    BY <2>7, RecordedCounts
  <2>9. G[k] = Recorded(y, t)
    BY <1>2, <2>1, <2>2, <2>3
  <2>10. Held(G[k]) = h + P[k]
    <3>1. PICK w \in {0, 1} : w = IF t.kind = "sample" THEN 1 ELSE 0
      OBVIOUS
    <3>2. Held(G[k]) = (h + P[i]) + w /\ P[k] = P[i] + w
      BY <2>4, <2>5, <2>6, <2>8, <2>9, <3>1
    <3>3. QED BY <2>4, <3>2
  <2>11. QED BY <2>1, <2>10
<1>14. \A i \in 0..n : i \in good
  <2> HIDE DEF good
  <2>1. QED BY <1>12, <1>13, UpTo
<1>15. Held(G[n]) = h + P[n]
  <2>1. n \in 0..n
    OBVIOUS
  <2>2. QED BY <1>14, <2>1
<1>16. QED BY <1>2, <1>7, <1>11, <1>15

LEMMA NoSamples == Samples(<<>>) = 0 /\ Held(NoAggregates) = 0
<1>1. Samples(<<>>) = 0
  <2>1. DOMAIN <<>> = {}
    OBVIOUS
  <2>2. {i \in DOMAIN <<>> : <<>>[i].kind = "sample"} = {}
    BY <2>1
  <2>3. QED BY <2>2, FS_EmptySet DEF Samples
<1>2. ASSUME NEW o \in Outcomes PROVE Weight[NoAggregates[o]] = 0
  <2>1. PICK z \in Counters : z = NoAggregates[o] /\ z = Zero
    BY NothingCounted DEF NoAggregates, Aggregates
  <2>2. z.samples = 0 /\ z.overflowed = 0
    BY <2>1 DEF Zero
  <2>3. QED BY <2>1, <2>2, WeightTyped
<1>3. QED BY <1>1, <1>2 DEF Held, Outcomes

----------------------------------------------------------------------------
(* No sample is lost unnoticed *)

Done == {p \in Publications : job[p].at = "done"}
SamplesInv ==
  /\ queue \in Seq(Nat) /\ flight \in Seq(Nat)
  /\ history.samples = Samples(tasks) + Held(aggregates) + SumSeq(queue) + SumSeq(flight)
  /\ Samples(tasks) + Held(aggregates) <= Cardinality(Done)

LEMMA DoneIsNumber ==
  /\ Cardinality(Done) \in Nat /\ Cardinality(Done) <= Cardinality(Publications)
  /\ Cardinality(Publications) \in Nat
<1>1. Done \subseteq Publications /\ IsFiniteSet(Publications)
  BY PublishingAssumption DEF Done
<1>2. QED BY <1>1, FS_Subset, FS_CardinalityType

LEMMA DoneGrows ==
  ASSUME Done \subseteq Done'
  PROVE  Cardinality(Done) <= Cardinality(Done') /\ Cardinality(Done') \in Nat
<1>1. PICK S : S = Done'
  OBVIOUS
<1>2. S \subseteq Publications /\ IsFiniteSet(Publications)
  BY <1>1, PublishingAssumption DEF Done
<1>3. IsFiniteSet(S) /\ Done \subseteq S
  BY <1>1, <1>2, FS_Subset
<1>4. Cardinality(Done) <= Cardinality(S) /\ Cardinality(S) \in Nat
  BY <1>3, FS_Subset, FS_CardinalityType
<1>5. QED BY <1>1, <1>4

\* The numbers of samples in the parts of the evidence.
LEMMA SampleNumbers ==
  ASSUME EvidenceInv, SamplesInv
  PROVE  /\ Samples(tasks) \in Nat /\ Held(aggregates) \in Nat
         /\ SumSeq(queue) \in Nat /\ SumSeq(flight) \in Nat
<1>1. tasks \in Seq(Tasks) /\ aggregates \in Aggregates
  BY DEF EvidenceInv, TasksInv, AggregatesInv
<1>2. queue \in Seq(Nat) /\ flight \in Seq(Nat)
  BY DEF SamplesInv
<1>3. QED BY <1>1, <1>2, SamplesAreMarks, HeldTyped, SumOfBoth

LEMMA SamplesStay ==
  ASSUME EvidenceInv, SamplesInv, UNCHANGED evidenceVars, Done \subseteq Done'
  PROVE  SamplesInv'
<1>1. PICK a \in Nat, b \in Nat : a = Samples(tasks) + Held(aggregates) /\ b = Cardinality(Done)
  BY SampleNumbers, DoneIsNumber
<1>2. PICK c \in Nat : c = Cardinality(Done') /\ b <= c
  BY <1>1, DoneGrows
<1>3. a <= b
  BY <1>1 DEF SamplesInv
<1>4. a <= c
  BY <1>2, <1>3
<1>5. /\ tasks' = tasks /\ aggregates' = aggregates /\ queue' = queue
      /\ flight' = flight /\ history' = history
  BY DEF evidenceVars
<1>6. QED BY <1>1, <1>2, <1>4, <1>5 DEF SamplesInv

LEMMA DeferConserves ==
  ASSUME EvidenceInv, SamplesInv, NEW new \in Seq(Tasks), Defer(new),
         UNCHANGED <<aggregates, queue, flight>>,
         Done \subseteq Done', Samples(new) + Cardinality(Done) <= Cardinality(Done')
  PROVE  SamplesInv'
<1>1. PICK all \in Seq(Tasks) : all = tasks \o new /\ Samples(all) = Samples(tasks) + Samples(new)
  <2>1. tasks \in Seq(Tasks)
    BY DEF EvidenceInv, TasksInv
  <2>2. tasks \o new \in Seq(Tasks)
    BY <2>1, ConcatProperties
  <2>3. QED BY <2>1, <2>2, SamplesJoin
<1>2. PICK n \in Nat : n = Len(all)
  BY LenProperties
<1>3. PICK cut \in 0..n : cut = Max({0, n - MaxTasks})
  <2>1. MaxTasks \in Nat
    BY EvidenceAssumption
  <2>2. QED BY <2>1, CutSuffices
<1>4. PICK gone, rest : gone = SubSeq(all, 1, cut) /\ rest = SubSeq(all, cut + 1, n)
  OBVIOUS
<1>5. /\ Samples(gone) \in Nat /\ Samples(rest) \in Nat
      /\ Samples(all) = Samples(gone) + Samples(rest)
  BY <1>2, <1>4, SamplesCut
<1>6. tasks' = rest
  BY <1>1, <1>2, <1>3, <1>4 DEF Defer
<1>7. history' = [history EXCEPT !.samples = @ + Samples(new) - Samples(gone)]
  BY <1>1, <1>2, <1>3, <1>4 DEF Defer
<1>8. history'.samples = history.samples + Samples(new) - Samples(gone)
  <2>1. PICK T : history \in [samples : T, envelopes : Int]
    BY DEF EvidenceInv, EnvelopesInv, Tally
  <2>2. QED BY <1>7, <2>1
<1>9. PICK h \in Nat, q \in Nat, f \in Nat, a \in Nat :
        /\ h = Held(aggregates) /\ q = SumSeq(queue) /\ f = SumSeq(flight)
        /\ a = Samples(tasks)
  BY SampleNumbers
<1>10. PICK b \in Nat : b = Samples(new)
  BY SamplesAreMarks
<1>11. PICK x \in Nat, y \in Nat : x = Samples(gone) /\ y = Samples(rest) /\ a + b = x + y
  BY <1>1, <1>5, <1>9, <1>10
<1>12. history'.samples = y + h + q + f
  <2>1. history.samples = a + h + q + f
    BY <1>9 DEF SamplesInv
  <2>2. history'.samples = (a + h + q + f) + b - x
    BY <1>8, <1>10, <1>11, <2>1
  <2>3. (a + h + q + f) + b - x = y + h + q + f
    <3>1. a + b = x + y
      BY <1>11
    <3>2. (a + h + q + f) + b - x = (a + b) + h + q + f - x
      OBVIOUS
    <3>3. (x + y) + h + q + f - x = y + h + q + f
      OBVIOUS
    <3>4. QED BY <3>1, <3>2, <3>3
  <2>4. QED BY <2>2, <2>3
<1>13. y + h <= Cardinality(Done')
  <2>1. PICK d \in Nat, e \in Nat : d = Cardinality(Done) /\ e = Cardinality(Done')
    BY DoneIsNumber, DoneGrows
  <2>2. a + h <= d
    BY <1>9, <2>1 DEF SamplesInv
  <2>3. b + d <= e
    BY <1>10, <2>1
  <2>4. y <= a + b
    BY <1>11
  <2>5. y + h <= e
    BY <2>2, <2>3, <2>4
  <2>6. QED BY <2>1, <2>5
<1>14. PICK t2 : t2 = tasks' /\ Samples(t2) = y
  BY <1>6, <1>11
<1>15. history'.samples = Samples(t2) + h + q + f /\ Samples(t2) + h <= Cardinality(Done')
  BY <1>12, <1>13, <1>14
<1>16. QED BY <1>9, <1>14, <1>15 DEF SamplesInv

LEMMA FlushConserves ==
  ASSUME EvidenceInv, SamplesInv, FlushTasks, Done' = Done,
         Cardinality(Publications) <= 2 * CounterLimit
  PROVE  SamplesInv'
<1>1. tasks \in Seq(Tasks) /\ aggregates \in Aggregates
  BY DEF EvidenceInv, TasksInv, AggregatesInv
<1>2. PICK a \in Nat, h \in Nat, q \in Nat, f \in Nat :
        /\ a = Samples(tasks) /\ h = Held(aggregates)
        /\ q = SumSeq(queue) /\ f = SumSeq(flight)
  BY SampleNumbers
<1>3. PICK d \in Nat : d = Cardinality(Done) /\ d <= 2 * CounterLimit /\ a + h <= d
  <2>1. PICK d \in Nat, e \in Nat, L \in Nat :
          d = Cardinality(Done) /\ e = Cardinality(Publications) /\ L = CounterLimit
    BY DoneIsNumber, EvidenceAssumption
  <2>2. d <= e /\ e <= 2 * L
    BY <2>1, DoneIsNumber
  <2>3. a + h <= d
    BY <1>2, <2>1 DEF SamplesInv
  <2>4. QED BY <2>1, <2>2, <2>3
<1>4. PICK b : b = FoldLeft(Recorded, aggregates, tasks)
  OBVIOUS
<1>5. Held(b) = h + a
  <2>1. Held(aggregates) + Samples(tasks) <= 2 * CounterLimit
    <3>1. CounterLimit \in Nat
      BY EvidenceAssumption
    <3>2. QED BY <1>2, <1>3, <3>1
  <2>2. QED BY <1>1, <1>2, <1>4, <2>1, FlushCounts
<1>6. aggregates' = b /\ tasks' = <<>> /\ UNCHANGED <<queue, flight, history>>
  BY <1>4 DEF FlushTasks
<1>7. Samples(<<>>) = 0
  BY NoSamples
<1>8. history.samples = a + h + q + f
  BY <1>2 DEF SamplesInv
<1>9. history.samples = 0 + Held(b) + q + f /\ 0 + Held(b) <= Cardinality(Done)
  BY <1>3, <1>5, <1>8
<1>10. QED BY <1>2, <1>6, <1>7, <1>9 DEF SamplesInv

LEMMA ExportConserves ==
  ASSUME EvidenceInv, SamplesInv, Export, Done' = Done
  PROVE  SamplesInv'
<1>1. PICK sampled \in BOOLEAN : ExportTimer(sampled)
  BY DEF Export
<1>2. tasks' = tasks /\ flight' = flight /\ aggregates' = NoAggregates
  BY <1>1 DEF ExportTimer, Emptied
<1>3. PICK a \in Nat, h \in Nat, q \in Nat, f \in Nat :
        /\ a = Samples(tasks) /\ h = Held(aggregates)
        /\ q = SumSeq(queue) /\ f = SumSeq(flight)
  BY SampleNumbers
<1>4. history.samples = a + h + q + f /\ queue \in Seq(Nat) /\ flight \in Seq(Nat)
  BY <1>3 DEF SamplesInv
<1>5. Count(Drained) = h /\ Envelopes \in Seq(Nat) /\ SumSeq(Envelopes) = h
  BY <1>3, DrainedCounts, EnvelopesCount DEF EvidenceInv, AggregatesInv
<1>6. a + 0 <= Cardinality(Done)
  <2>1. PICK d \in Nat : d = Cardinality(Done)
    BY DoneIsNumber
  <2>2. a + h <= d
    BY <1>3, <2>1 DEF SamplesInv
  <2>3. QED BY <2>1, <2>2
<1>7. PICK T : history \in [samples : T, envelopes : Int]
  BY DEF EvidenceInv, EnvelopesInv, Tally
<1>8. ASSUME queue' \in Seq(Nat), NEW r \in Nat, r = SumSeq(queue)', history'.samples = a + r + f
      PROVE  SamplesInv'
  <2>1. a + r + f = a + 0 + r + f
    OBVIOUS
  <2>2. history'.samples = a + 0 + r + f
    BY <1>8, <2>1
  <2>3. Held(NoAggregates) = 0
    BY NoSamples
  <2>4. QED BY <1>2, <1>3, <1>4, <1>6, <1>8, <2>2, <2>3 DEF SamplesInv
<1>9. CASE sampled
  <2>1. PICK E \in Seq(Nat) : E = Envelopes /\ SumSeq(E) = h
    BY <1>5
  <2>2. PICK all \in Seq(Nat) : all = queue \o E /\ SumSeq(all) = q + h
    <3>1. queue \o E \in Seq(Nat)
      BY <1>4, ConcatProperties
    <3>2. SumSeq(queue \o E) = q + h
      BY <1>3, <1>4, <2>1, SumOfBoth
    <3>3. QED BY <3>1, <3>2
  <2>3. PICK n \in Nat : n = Len(all)
    BY LenProperties
  <2>4. PICK cut \in 0..n : cut = Max({0, n - MaxQueue})
    <3>1. MaxQueue \in Nat
      BY EvidenceAssumption
    <3>2. QED BY <3>1, CutSuffices
  <2>5. PICK gone \in Seq(Nat), rest \in Seq(Nat) :
          /\ gone = SubSeq(all, 1, cut) /\ rest = SubSeq(all, cut + 1, n)
          /\ SumSeq(all) = SumSeq(gone) + SumSeq(rest)
    BY <2>3, SumOfCut
  <2>6. PICK x \in Nat, r \in Nat : x = SumSeq(gone) /\ r = SumSeq(rest)
    BY SumOfBoth
  <2>7. /\ queue' = rest
        /\ history' = [history EXCEPT !.envelopes = @ + Len(E), !.samples = @ - x]
    BY <1>1, <1>9, <2>1, <2>2, <2>3, <2>4, <2>5, <2>6 DEF ExportTimer, Enqueue
  <2>8. history'.samples = history.samples - x
    BY <1>7, <2>7
  <2>9. x + r = q + h
    BY <2>2, <2>5, <2>6
  <2>10. (a + h + q + f) - x = a + r + f
    BY <2>9
  <2>11. history'.samples = a + r + f
    BY <1>4, <2>8, <2>10
  <2>12. QED BY <1>8, <2>6, <2>7, <2>11
<1>10. CASE ~sampled
  <2>1. history' = [history EXCEPT !.samples = @ - h] /\ queue' = queue
    BY <1>1, <1>5, <1>10 DEF ExportTimer
  <2>2. history'.samples = history.samples - h
    BY <1>7, <2>1
  <2>3. (a + h + q + f) - h = a + q + f
    OBVIOUS
  <2>4. history'.samples = a + q + f
    BY <1>4, <2>2, <2>3
  <2>5. QED BY <1>3, <1>4, <1>8, <2>1, <2>4
<1>11. QED BY <1>9, <1>10

LEMMA StartUploadConserves ==
  ASSUME EvidenceInv, SamplesInv, StartUpload, Done' = Done
  PROVE  SamplesInv'
<1>1. /\ queue # <<>> /\ flight = <<>> /\ flight' = <<Head(queue)>> /\ queue' = Tail(queue)
      /\ tasks' = tasks /\ aggregates' = aggregates /\ history' = history
  BY DEF StartUpload
<1>2. queue \in Seq(Nat)
  BY DEF SamplesInv
<1>3. PICK x \in Nat : x = Head(queue)
  BY <1>1, <1>2, HeadTailProperties
<1>4. PICK rest \in Seq(Nat) : rest = Tail(queue)
  BY <1>1, <1>2, HeadTailProperties
<1>5. PICK one \in Seq(Nat) : one = <<x>>
  <2>1. <<x>> \in Seq(Nat)
    OBVIOUS
  <2>2. QED BY <2>1
<1>6. queue = one \o rest
  BY <1>1, <1>2, <1>3, <1>4, <1>5
<1>7. PICK r \in Nat : r = SumSeq(rest) /\ SumSeq(queue) = x + r
  <2>1. SumSeq(one) = x
    BY <1>5, SumOfOne
  <2>2. SumSeq(rest) \in Nat /\ SumSeq(one \o rest) = SumSeq(one) + SumSeq(rest)
    BY SumOfBoth
  <2>3. QED BY <1>6, <2>1, <2>2
<1>8. SumSeq(flight) = 0 /\ SumSeq(flight') = x
  BY <1>1, <1>3, SumOfNone, SumOfOne
<1>9. PICK a \in Nat, h \in Nat : a = Samples(tasks) /\ h = Held(aggregates)
  BY SampleNumbers
<1>10. history.samples = a + h + (x + r) + 0
  BY <1>7, <1>8, <1>9 DEF SamplesInv
<1>11. a + h + (x + r) + 0 = a + h + r + x
  OBVIOUS
<1>12. history'.samples = a + h + r + x /\ a + h <= Cardinality(Done)
  BY <1>1, <1>9, <1>10, <1>11 DEF SamplesInv
<1>13. queue' \in Seq(Nat) /\ flight' \in Seq(Nat)
  BY <1>1, <1>3, <1>4, <1>5
<1>14. PICK q2, f2 : q2 = queue' /\ f2 = flight' /\ SumSeq(q2) = r /\ SumSeq(f2) = x
  BY <1>1, <1>4, <1>7, <1>8
<1>15. QED BY <1>1, <1>9, <1>12, <1>13, <1>14 DEF SamplesInv

LEMMA EndUploadConserves ==
  ASSUME EvidenceInv, SamplesInv, NEW accepted \in BOOLEAN, EndUpload(accepted), Done' = Done
  PROVE  SamplesInv'
<1>1. /\ flight # <<>> /\ flight' = <<>>
      /\ tasks' = tasks /\ aggregates' = aggregates /\ queue' = queue
  BY DEF EndUpload
<1>2. flight \in Seq(Nat) /\ queue \in Seq(Nat) /\ Len(flight) <= 1
  BY DEF SamplesInv, EvidenceInv, EnvelopesInv
<1>3. Len(flight) = 1
  <2>1. PICK n \in Nat : n = Len(flight)
    BY <1>2, LenProperties
  <2>2. n # 0
    BY <1>1, <1>2, <2>1
  <2>3. QED BY <1>2, <2>1, <2>2
<1>4. PICK x \in Nat : x = flight[1]
  <2>1. flight \in [1..1 -> Nat]
    BY <1>2, <1>3, LenProperties
  <2>2. flight[1] \in Nat
    BY <2>1
  <2>3. QED BY <2>2
<1>5. flight = <<x>>
  BY <1>2, <1>3, <1>4
<1>6. SumSeq(flight) = x
  BY <1>5, SumOfOne
<1>7. PICK y \in Int : y = history.envelopes - IF accepted THEN 1 ELSE 0
  <2>1. history.envelopes \in Int
    BY DEF EvidenceInv, EnvelopesInv, Tally
  <2>2. QED BY <2>1
<1>8. PICK T : history \in [samples : T, envelopes : Int]
  BY DEF EvidenceInv, EnvelopesInv, Tally
<1>9. history' = [history EXCEPT !.envelopes = y, !.samples = @ - x]
  BY <1>4, <1>7, <1>8 DEF EndUpload
<1>10. history'.samples = history.samples - x
  BY <1>8, <1>9
<1>11. PICK a \in Nat, h \in Nat, q \in Nat :
         a = Samples(tasks) /\ h = Held(aggregates) /\ q = SumSeq(queue)
  BY SampleNumbers
<1>12. history.samples = a + h + q + x
  BY <1>6, <1>11 DEF SamplesInv
<1>13. (a + h + q + x) - x = a + h + q + 0
  OBVIOUS
<1>14. history'.samples = a + h + q + 0 /\ a + h <= Cardinality(Done)
  BY <1>10, <1>11, <1>12, <1>13 DEF SamplesInv
<1>15. PICK f2 \in Seq(Nat) : f2 = flight' /\ SumSeq(f2) = 0
  <2>1. <<>> \in Seq(Nat)
    OBVIOUS
  <2>2. QED BY <1>1, <2>1, SumOfNone
<1>16. QED BY <1>1, <1>2, <1>11, <1>14, <1>15 DEF SamplesInv

LEMMA OneSample == ASSUME NEW s, s.kind = "sample" PROVE Samples(<<s>>) = 1
<1>1. PICK t : t = <<s>>
  OBVIOUS
<1>2. {i \in DOMAIN t : t[i].kind = "sample"} = {1}
  BY <1>1
<1>3. Cardinality({1}) = 1
  BY FS_Singleton
<1>4. QED BY <1>1, <1>2, <1>3 DEF Samples

LEMMA NoSampleIn ==
  ASSUME NEW ts, \A i \in DOMAIN ts : ts[i].kind # "sample"
  PROVE  Samples(ts) = 0
<1>1. {i \in DOMAIN ts : ts[i].kind = "sample"} = {}
  OBVIOUS
<1>2. QED BY <1>1, FS_EmptySet DEF Samples

\* Steps of one connection leave the publication where it is.
LEMMA RelayKeepsDone ==
  ASSUME ConnInv, NEW p \in Publications, NEW r \in Relays, NEW x,
         job' \in {job, [job EXCEPT ![p].relay[r] = x]}
  PROVE  Done' = Done
<1>1. job \in [Publications -> Jobs]
  BY DEF ConnInv
<1>2. ASSUME NEW q \in Publications PROVE job'[q].at = job[q].at
  <2>1. CASE job' = job
    BY <2>1
  <2>2. CASE job' = [job EXCEPT ![p].relay[r] = x]
    <3>1. PICK y : y = [job[p].relay EXCEPT ![r] = x]
      OBVIOUS
    <3>2. job' = [job EXCEPT ![p] = [job[p] EXCEPT !.relay = y]]
      BY <1>1, <2>2, <3>1 DEF Jobs
    <3>3. CASE q = p
      <4>1. PICK j \in Jobs : j = job[p]
        BY <1>1
      <4>2. job'[q] = [j EXCEPT !.relay = y]
        BY <1>1, <3>2, <3>3, <4>1
      <4>3. [j EXCEPT !.relay = y].at = j.at
        BY DEF Jobs
      <4>4. QED BY <3>3, <4>1, <4>2, <4>3
    <3>4. CASE q # p
      BY <1>1, <3>2, <3>4
    <3>5. QED BY <3>3, <3>4
  <2>3. QED BY <2>1, <2>2
<1>3. QED BY <1>2 DEF Done

LEMMA DialedConserves ==
  ASSUME ConnInv, EvidenceInv, SamplesInv, NEW p \in Publications, NEW r \in Relays, Dialed(p, r)
  PROVE  SamplesInv'
<1>1. Done' = Done
  <2>1. job' \in {job, [job EXCEPT ![p].relay[r] = "open"]}
    BY DEF Dialed, Become
  <2>2. QED BY <2>1, RelayKeepsDone
<1>2. CASE UNCHANGED evidenceVars
  BY <1>1, <1>2, SamplesStay
<1>3. CASE /\ job[p].at = "done" /\ Defer(<<LateTask(job[p].outcome)>>)
           /\ UNCHANGED <<late, aggregates, timer, queue, flight>>
  <2>1. PICK o \in Outcomes : o = job[p].outcome
    BY <1>3, ConnParts DEF ConnGood
  <2>2. PICK t \in Tasks : t = LateTask(o)
    BY LateIsTask
  <2>3. PICK new \in Seq(Tasks) : new = <<t>>
    <3>1. <<t>> \in Seq(Tasks)
      OBVIOUS
    <3>2. QED BY <3>1
  <2>4. Defer(new) /\ UNCHANGED <<aggregates, queue, flight>>
    BY <1>3, <2>1, <2>2, <2>3
  <2>5. Samples(new) = 0
    <3>1. t.kind # "sample"
      BY <2>2 DEF LateTask
    <3>2. \A i \in DOMAIN new : new[i].kind # "sample"
      BY <2>3, <3>1
    <3>3. QED BY <3>2, NoSampleIn
  <2>6. Samples(new) + Cardinality(Done) <= Cardinality(Done') /\ Done \subseteq Done'
    BY <1>1, <2>5, DoneIsNumber
  <2>7. QED BY <2>4, <2>6, DeferConserves
<1>4. QED BY <1>2, <1>3 DEF Dialed

LEMMA FinishConserves ==
  ASSUME ConnInv, EvidenceInv, SamplesInv, NEW p \in Publications, Finish(p)
  PROVE  SamplesInv'
<1>1. PICK s \in Tasks : s = SampleTask(p)
  BY SampleIsTask DEF Finish
<1>2. PICK o \in Outcomes : o = OutcomeOf(p)
  BY OutcomeTyped
<1>3. PICK t \in Tasks : t = LateTask(o)
  BY LateIsTask
<1>4. PICK n \in Nat : n = late[p]
  BY ConnParts
<1>5. PICK lates \in Seq(Tasks) : lates = [i \in 1..n |-> t]
  <2>1. [i \in 1..n |-> t] \in [1..n -> Tasks]
    OBVIOUS
  <2>2. [i \in 1..n |-> t] \in Seq(Tasks)
    BY <2>1
  <2>3. QED BY <2>2
<1>6. PICK one \in Seq(Tasks) : one = <<s>>
  <2>1. <<s>> \in Seq(Tasks)
    OBVIOUS
  <2>2. QED BY <2>1
<1>7. PICK new \in Seq(Tasks) : new = one \o lates
  <2>1. one \o lates \in Seq(Tasks)
    BY ConcatProperties
  <2>2. QED BY <2>1
<1>8. Defer(new)
  BY <1>1, <1>2, <1>3, <1>4, <1>5, <1>6, <1>7 DEF Finish
<1>9. Samples(new) = 1
  <2>1. Samples(one) = 1
    <3>1. s.kind = "sample"
      BY <1>1 DEF SampleTask
    <3>2. QED BY <1>6, <3>1, OneSample
  <2>2. Samples(lates) = 0
    <3>1. t.kind # "sample"
      BY <1>3 DEF LateTask
    <3>2. \A i \in DOMAIN lates : lates[i].kind # "sample"
      BY <1>5, <3>1
    <3>3. QED BY <3>2, NoSampleIn
  <2>3. Samples(new) = Samples(one) + Samples(lates)
    BY <1>7, SamplesJoin
  <2>4. QED BY <2>1, <2>2, <2>3
<1>10. PICK S : S = Done'
  OBVIOUS
<1>11. S = Done \cup {p} /\ p \notin Done
  <2>1. job \in [Publications -> Jobs] /\ job[p].at = "running"
    BY DEF ConnInv, Finish
  <2>2. PICK j : j = [NoJob EXCEPT !.at = "done", !.accepted = Accepted(p), !.outcome = OutcomeOf(p)]
    OBVIOUS
  <2>3. job' = [job EXCEPT ![p] = j]
    BY <2>2 DEF Finish
  <2>4. j.at = "done"
    BY <2>2 DEF NoJob
  <2>5. \A q \in Publications : job'[q] = IF q = p THEN j ELSE job[q]
    BY <2>1, <2>3
  <2>6. QED BY <1>10, <2>1, <2>4, <2>5 DEF Done
<1>12. Cardinality(S) = 1 + Cardinality(Done)
  <2>1. IsFiniteSet(Done)
    <3>1. Done \subseteq Publications
      BY DEF Done
    <3>2. QED BY <3>1, PublishingAssumption, FS_Subset
  <2>2. Cardinality(S) = Cardinality(Done) + 1
    BY <1>11, <2>1, FS_AddElement
  <2>3. QED BY <2>2, DoneIsNumber
<1>13. Done \subseteq Done' /\ Samples(new) + Cardinality(Done) <= Cardinality(Done')
  <2>1. PICK c \in Nat : c = Cardinality(Done)
    BY DoneIsNumber
  <2>2. Cardinality(S) = 1 + c /\ 1 + c <= 1 + c
    BY <1>12, <2>1
  <2>3. QED BY <1>9, <1>10, <1>11, <2>1, <2>2
<1>14. UNCHANGED <<aggregates, queue, flight>>
  BY DEF Finish
<1>15. QED BY <1>8, <1>13, <1>14, DeferConserves

LEMMA PublishingConserves ==
  ASSUME ConnInv, EvidenceInv, SamplesInv, PublishingNext
  PROVE  SamplesInv'
<1>1. ASSUME NEW p \in Publications, NEW r \in Relays,
             \/ DialFails(p, r) \/ ConnectTimeout(p, r)
             \/ RelayAccepts(p, r) \/ RelayRejects(p, r)
             \/ PublishTimeout(p, r) \/ ConnectionLost(p, r)
      PROVE  SamplesInv'
  <2>1. UNCHANGED evidenceVars
    BY <1>1 DEF DialFails, ConnectTimeout, RelayAccepts, RelayRejects,
                PublishTimeout, ConnectionLost, EndPublish
  <2>2. \E x : job' \in {job, [job EXCEPT ![p].relay[r] = x]}
    BY <1>1 DEF DialFails, ConnectTimeout, RelayAccepts, RelayRejects,
                PublishTimeout, ConnectionLost, EndPublish, Become
  <2>3. Done' = Done
    BY <2>2, RelayKeepsDone
  <2>4. QED BY <2>1, <2>3, SamplesStay
<1>2. QED BY <1>1, DialedConserves, FinishConserves DEF PublishingNext

LEMMA EvidenceConserves ==
  ASSUME EvidenceInv, SamplesInv, EvidenceNext, Done' = Done,
         Cardinality(Publications) <= 2 * CounterLimit
  PROVE  SamplesInv'
<1>1. ASSUME Uploaded \/ UploadFails PROVE SamplesInv'
  <2>1. PICK accepted \in BOOLEAN : EndUpload(accepted)
    BY <1>1 DEF Uploaded, UploadFails
  <2>2. QED BY <2>1, EndUploadConserves
<1>2. QED BY <1>1, FlushConserves, ExportConserves, StartUploadConserves DEF EvidenceNext

LEMMA CallsConserve ==
  ASSUME CallsInv, ConnInv, EvidenceInv, SamplesInv, NEW c \in Calls, Submit(c) \/ Continue(c)
  PROVE  SamplesInv'
<1>1. UNCHANGED evidenceVars
  BY DEF Submit, Continue, Refuse, Begin, NotPublished, WriteStore, WriteFails, Activate
<1>2. CASE UNCHANGED publishingVars
  <2>1. job' = job
    BY <1>2 DEF publishingVars
  <2>2. Done \subseteq Done'
    BY <2>1 DEF Done
  <2>3. QED BY <1>1, <2>2, SamplesStay
<1>3. CASE Begin(c)
  <2>1. job' = [job EXCEPT ![c].at = "running"] /\ call[c].at = "queued"
    BY <1>3 DEF Begin, StartPublish, Turn
  <2>2. job[c].at # "done"
    <3>1. job[c] = NoJob
      BY <2>1 DEF CallsInv, CallGood
    <3>2. QED BY <3>1 DEF NoJob
  <2>3. \A q \in Publications : q # c => job'[q] = job[q]
    BY <2>1 DEF ConnInv
  <2>4. Done \subseteq Done'
    BY <2>2, <2>3 DEF Done
  <2>5. QED BY <1>1, <2>4, SamplesStay
<1>4. QED BY <1>2, <1>3 DEF Submit, Continue, Refuse, NotPublished, WriteStore, WriteFails, Activate

LEMMA NothingConserved ==
  /\ <<>> \in Seq(Nat) /\ SumSeq(<<>>) = 0 /\ NoHistory.samples = 0 + 0 + 0 + 0
  /\ Samples(<<>>) = 0 /\ Held(NoAggregates) = 0 /\ Cardinality(Done) \in Nat
BY SumOfNone, NoSamples, DoneIsNumber DEF NoHistory

LEMMA CrashConserves ==
  ASSUME Crash
  PROVE  SamplesInv'
<1>1. /\ tasks' = <<>> /\ aggregates' = NoAggregates /\ queue' = <<>> /\ flight' = <<>>
      /\ history' = NoHistory
  BY DEF Crash
<1>2. PICK d \in Nat : d = Cardinality(Done')
  <2>1. PICK S : S = Done'
    OBVIOUS
  <2>2. S \subseteq Publications /\ IsFiniteSet(Publications)
    BY <2>1, PublishingAssumption DEF Done
  <2>3. Cardinality(S) \in Nat
    BY <2>2, FS_Subset, FS_CardinalityType
  <2>4. QED BY <2>1, <2>3
<1>3. 0 + 0 <= d
  OBVIOUS
<1>4. QED BY <1>1, <1>2, <1>3, NothingConserved DEF SamplesInv

LEMMA SamplesBegin ==
  ASSUME Init
  PROVE  SamplesInv
<1>1. /\ tasks = <<>> /\ aggregates = NoAggregates /\ queue = <<>> /\ flight = <<>>
      /\ history = NoHistory
  BY DEF Init, EvidenceInit
<1>2. 0 + 0 <= Cardinality(Done)
  BY DoneIsNumber
<1>3. QED BY <1>1, <1>2, NothingConserved DEF SamplesInv

LEMMA SamplesStep ==
  ASSUME WiredInv, SamplesInv, [Next]_vars, Cardinality(Publications) <= 2 * CounterLimit
  PROVE  SamplesInv'
<1>1. CallsInv /\ ConnInv /\ EvidenceInv
  BY DEF WiredInv, PostsInv
<1>2. ASSUME NEW c \in Calls, Submit(c) \/ Continue(c) PROVE SamplesInv'
  BY <1>1, <1>2, CallsConserve
<1>3. ASSUME PublishingNext PROVE SamplesInv'
  BY <1>1, <1>3, PublishingConserves
<1>4. ASSUME EvidenceNext, UNCHANGED publishingVars PROVE SamplesInv'
  <2>1. Done' = Done
    BY <1>4 DEF publishingVars, Done
  <2>2. QED BY <1>1, <1>4, <2>1, EvidenceConserves
<1>5. ASSUME Crash PROVE SamplesInv'
  BY <1>5, CrashConserves
<1>6. ASSUME UNCHANGED vars PROVE SamplesInv'
  <2>1. UNCHANGED evidenceVars /\ Done \subseteq Done'
    BY <1>6 DEF vars, publishingVars, Done
  <2>2. QED BY <1>1, <2>1, SamplesStay
<1>7. QED BY <1>2, <1>3, <1>4, <1>5, <1>6 DEF Next

\* Unless both counters of an outcome are full, which takes more publications
\* than twice their limit, every sample that was deferred is accounted for: it
\* waits, is counted, is in an envelope, or has left by the export, by sampling
\* or by a drop (defer, record, drain, and enqueue and flush of the exporter).
THEOREM SamplesAlwaysConserved ==
  ASSUME Cardinality(Publications) <= 2 * CounterLimit
  PROVE  Spec => []SamplesAreConserved
<1>1. Init => WiredInv /\ SamplesInv
  BY WiredBegin, SamplesBegin
<1>2. (WiredInv /\ SamplesInv) /\ [Next]_vars => (WiredInv /\ SamplesInv)'
  BY WiredStep, SamplesStep
<1>3. ASSUME WiredInv, SamplesInv PROVE SamplesAreConserved
  <2>1. aggregates \in Aggregates
    BY <1>3 DEF WiredInv, EvidenceInv, AggregatesInv
  <2>2. Count(Drained) = Held(aggregates)
    BY <2>1, DrainedCounts
  <2>3. QED BY <1>3, <2>2 DEF SamplesInv, SamplesAreConserved
<1>4. WiredInv /\ SamplesInv => SamplesAreConserved
  BY <1>3
<1>5. QED BY <1>1, <1>2, <1>4, PTL DEF Spec

=============================================================================

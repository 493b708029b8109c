----------------------- MODULE MediaModerationProofs -----------------------
(***************************************************************************)
(* Proofs about MediaModeration, for any number of URLs, places and        *)
(* requests: types, that the queue is sound, and that a job leaves the     *)
(* file only with its verdict.                                             *)
(*                                                                         *)
(* The argument has three parts.  The file, the writes under way and the   *)
(* store in memory form a chain in which no job is dropped without a       *)
(* verdict.  Whoever awaits a write does nothing else until it is done,    *)
(* and awaits only one.  A marked URL is in one place at a time: queued,   *)
(* being scanned, or about to be queued by the request that marked it.     *)
(***************************************************************************)
EXTENDS MediaModeration, SequenceTheorems, FiniteSetTheorems, TLAPS

Verdicts == {"none", "scanned", "unavailable"}
FiniteStores == [verdict : [Urls -> Verdicts], jobs : {j \in SUBSET Urls : IsFiniteSet(j)}]
Waiters == Callers \cup Slots
Writes == [store : FiniteStores, by : Waiters]
SlotState == {Free} \cup [at : {"analyzing", "saving", "excusing"}, url : Urls]
CallerState == {Idle} \cup [at : {"storing", "rescanning"}, url : Urls]

\* No job is dropped from one store to the next without a verdict.
Promise(before, after) ==
  \A u \in before.jobs : u \in after.jobs \/ after.verdict[u] # "none"

Chain(file, under, store) ==
  /\ under = <<>> => file = store
  /\ under # <<>> => Promise(file, under[1].store) /\ under[Len(under)].store = store
  /\ \A n \in 1..Len(under) : n + 1 \in 1..Len(under) =>
       Promise(under[n].store, under[n + 1].store)

NotServed(store, late) == \A u \in store.jobs : store.verdict[u] = "none" \/ u \in late

\* The waiters of some writes are among those of others.
Among(some, others) ==
  \A n \in 1..Len(some) : \E m \in 1..Len(others) : some[n].by = others[m].by

AmongOr(some, others, x) ==
  \A n \in 1..Len(some) :
    some[n].by = x \/ \E m \in 1..Len(others) : some[n].by = others[m].by

NoneOf(some, x) == \A n \in 1..Len(some) : some[n].by # x

Awaits(x) ==
  /\ x \in Slots => slot[x].at \in {"saving", "excusing"}
  /\ x \in Callers => caller[x].at \in {"storing", "rescanning"}

OneWriteEach(under) ==
  \A m, n \in 1..Len(under) : under[m].by = under[n].by => m = n

Has(q, u) == \E n \in 1..Len(q) : q[n] = u
Distinct(q) == \A m, n \in 1..Len(q) : q[m] = q[n] => m = n
InQueue(u) == Has(queue, u)
Scanned(s, u) == slot[s].at # "free" /\ slot[s].url = u
Storing(c, u) == caller[c].at = "storing" /\ caller[c].url = u

\* Wherever a URL is, it is marked, and it is nowhere else.
Once(u) ==
  /\ InQueue(u) => u \in ids
  /\ \A s \in Slots : Scanned(s, u) => u \in ids /\ ~InQueue(u)
  /\ \A s, t \in Slots : Scanned(s, u) /\ Scanned(t, u) => s = t
  /\ \A c \in Callers : Storing(c, u) =>
       u \in ids /\ ~InQueue(u) /\ \A s \in Slots : ~Scanned(s, u)
  /\ \A c, d \in Callers : Storing(c, u) /\ Storing(d, u) => c = d

OnItsWay(u) ==
  \/ broken \/ closed
  \/ InQueue(u)
  \/ \E s \in Slots : Scanned(s, u)
  \/ \E c \in Callers : Storing(c, u)

StoreInv ==
  /\ data \in FiniteStores /\ disk \in FiniteStores
  /\ writes \in Seq(Writes)
  /\ NotServed(data, expired)
  /\ ~broken => Chain(disk, writes, data)

PlacesTyped ==
  /\ queue \in Seq(Urls) /\ ids \in SUBSET Urls
  /\ slot \in [Slots -> SlotState]
  /\ caller \in [Callers -> CallerState]

WritersInv ==
  /\ \A n \in 1..Len(writes) : Awaits(writes[n].by)
  /\ OneWriteEach(writes)

PlacesInv ==
  /\ Distinct(queue)
  /\ \A u \in Urls : Once(u)
  /\ \A u \in ids : OnItsWay(u)

MediaInv ==
  /\ StoreInv
  /\ PlacesTyped
  /\ WritersInv
  /\ PlacesInv
  /\ restarts \in 0..MaxRestarts

----------------------------------------------------------------------------
(* The store and its writes *)

LEMMA StoreFields ==
  ASSUME NEW d \in FiniteStores
  PROVE  /\ d.verdict \in [Urls -> Verdicts]
         /\ d.jobs \in SUBSET Urls /\ IsFiniteSet(d.jobs)
BY DEF FiniteStores

LEMMA AddingKeeps ==
  ASSUME NEW d \in FiniteStores, NEW u \in Urls, NEW late, NotServed(d, late),
         d.verdict[u] = "none" \/ u \in late,
         NEW t, t = [d EXCEPT !.jobs = @ \cup {u}]
  PROVE  t \in FiniteStores /\ Promise(d, t) /\ NotServed(t, late)
<1>1. IsFiniteSet(d.jobs \cup {u}) /\ d.jobs \cup {u} \in SUBSET Urls
  BY StoreFields, FS_AddElement
<1>2. t \in FiniteStores
  BY <1>1 DEF FiniteStores
<1>3. t.jobs = d.jobs \cup {u} /\ t.verdict = d.verdict
  BY DEF FiniteStores
<1>4. QED BY <1>2, <1>3 DEF Promise, NotServed

LEMMA RescanningKeeps ==
  ASSUME NEW d \in FiniteStores, NEW u \in Urls, NEW late, NotServed(d, late),
         NEW t, t = [d EXCEPT !.jobs = @ \cup {u}, !.verdict[u] = "none"]
  PROVE  t \in FiniteStores /\ Promise(d, t) /\ NotServed(t, late \ {u})
<1>1. IsFiniteSet(d.jobs \cup {u}) /\ d.jobs \cup {u} \in SUBSET Urls
  BY StoreFields, FS_AddElement
<1>2. [d.verdict EXCEPT ![u] = "none"] \in [Urls -> Verdicts]
  BY StoreFields DEF Verdicts
<1>3. t.jobs = d.jobs \cup {u} /\ t.verdict = [d.verdict EXCEPT ![u] = "none"]
  BY DEF FiniteStores
<1>4. t \in FiniteStores
  BY <1>1, <1>2 DEF FiniteStores
<1>5. \A v \in Urls : t.verdict[v] = IF v = u THEN "none" ELSE d.verdict[v]
  BY <1>3, StoreFields
<1>6. QED BY <1>1, <1>3, <1>4, <1>5, StoreFields DEF Promise, NotServed

LEMMA CompletingKeeps ==
  ASSUME NEW d \in FiniteStores, NEW u \in Urls, NEW late, NotServed(d, late),
         NEW verdict \in {"scanned", "unavailable"},
         NEW t, t = [d EXCEPT !.jobs = @ \ {u}, !.verdict[u] = verdict]
  PROVE  t \in FiniteStores /\ Promise(d, t) /\ NotServed(t, late \ {u})
<1>1. IsFiniteSet(d.jobs \ {u}) /\ d.jobs \ {u} \in SUBSET Urls
  BY StoreFields, FS_RemoveElement
<1>2. [d.verdict EXCEPT ![u] = verdict] \in [Urls -> Verdicts]
  BY StoreFields DEF Verdicts
<1>3. t.jobs = d.jobs \ {u} /\ t.verdict = [d.verdict EXCEPT ![u] = verdict]
  BY DEF FiniteStores
<1>4. t \in FiniteStores
  BY <1>1, <1>2 DEF FiniteStores
<1>5. \A v \in Urls : t.verdict[v] = IF v = u THEN verdict ELSE d.verdict[v]
  BY <1>3, StoreFields
<1>6. QED BY <1>1, <1>3, <1>4, <1>5, StoreFields DEF Promise, NotServed

LEMMA WriteFields ==
  ASSUME NEW w \in Seq(Writes), NEW n \in 1..Len(w)
  PROVE  w[n] \in Writes /\ w[n].store \in FiniteStores /\ w[n].by \in Waiters
<1>1. w[n] \in Writes
  BY ElementOfSeq
<1>2. QED BY <1>1 DEF Writes

\* One more write of the store as it is now.
LEMMA ChainGrows ==
  ASSUME NEW w \in Seq(Writes), NEW e \in Writes, NEW k, NEW d,
         Chain(k, w, d), Promise(d, e.store),
         NEW more, more = Append(w, e)
  PROVE  Chain(k, more, e.store)
<1>1. /\ more \in Seq(Writes) /\ more # <<>>
      /\ Len(more) = Len(w) + 1 /\ Len(w) \in Nat
      /\ \A i \in 1..Len(w) : more[i] = w[i]
      /\ more[Len(w) + 1] = e
  BY AppendProperties, LenProperties
<1>2. w = <<>> => Len(w) = 0
  BY EmptySeq
<1>3. w # <<>> => Len(w) > 0
  BY EmptySeq
<1>4. Promise(k, more[1].store)
  <2>1. CASE w = <<>>
    BY <2>1, <1>1, <1>2 DEF Chain
  <2>2. CASE w # <<>>
    BY <2>2, <1>1, <1>3 DEF Chain
  <2>3. QED BY <2>1, <2>2
<1>5. more[Len(more)].store = e.store
  BY <1>1
<1>6. ASSUME NEW n \in 1..Len(more), n + 1 \in 1..Len(more)
      PROVE  Promise(more[n].store, more[n + 1].store)
  <2>1. n \in 1..Len(w) /\ w # <<>> /\ more[n] = w[n]
    BY <1>1, <1>2, <1>6
  <2>2. CASE n + 1 \in 1..Len(w)
    BY <2>1, <2>2, <1>1 DEF Chain
  <2>3. CASE n + 1 \notin 1..Len(w)
    <3>1. n = Len(w)
      BY <2>3, <2>1, <1>1
    <3>2. QED BY <3>1, <2>1, <1>1 DEF Chain
  <2>4. QED BY <2>2, <2>3
<1>7. QED BY <1>1, <1>4, <1>5, <1>6 DEF Chain

\* The first write reaches the file.
LEMMA ChainShrinks ==
  ASSUME NEW w \in Seq(Writes), w # <<>>, NEW k, NEW d, Chain(k, w, d),
         NEW rest, rest = Tail(w), NEW h, h = Head(w)
  PROVE  Chain(h.store, rest, d)
<1>1. /\ rest \in Seq(Writes) /\ Len(rest) = Len(w) - 1
      /\ \A i \in 1..Len(rest) : rest[i] = w[i + 1]
  BY HeadTailProperties
<1>2. Len(w) \in Nat /\ Len(w) > 0 /\ h = w[1]
  BY EmptySeq
<1>3. rest = <<>> => Len(rest) = 0
  BY <1>1, EmptySeq
<1>4. rest = <<>> => h.store = d
  BY <1>1, <1>2, <1>3 DEF Chain
<1>5. ASSUME rest # <<>>
      PROVE  Promise(h.store, rest[1].store) /\ rest[Len(rest)].store = d
  <2>1. Len(rest) > 0
    BY <1>1, <1>5, EmptySeq
  <2>2. rest[1] = w[2] /\ rest[Len(rest)] = w[Len(w)] /\ 2 \in 1..Len(w)
    BY <2>1, <1>1, <1>2
  <2>3. Promise(w[1].store, w[2].store) /\ w[Len(w)].store = d
    BY <2>2, <1>2 DEF Chain
  <2>4. QED BY <2>2, <2>3, <1>2
<1>6. ASSUME NEW n \in 1..Len(rest), n + 1 \in 1..Len(rest)
      PROVE  Promise(rest[n].store, rest[n + 1].store)
  <2>1. n + 1 \in 1..Len(w) /\ (n + 1) + 1 \in 1..Len(w)
    BY <1>1, <1>2, <1>6
  <2>2. rest[n] = w[n + 1] /\ rest[n + 1] = w[(n + 1) + 1]
    BY <1>1, <1>6
  <2>3. QED BY <2>1, <2>2 DEF Chain
<1>7. QED BY <1>4, <1>5, <1>6 DEF Chain

\* Whose writes they are, once there is one more, or one less.
LEMMA WaitersGrow ==
  ASSUME NEW w \in Seq(Writes), NEW e \in Writes, OneWriteEach(w),
         NoneOf(w, e.by),
         NEW more, more = Append(w, e)
  PROVE  /\ more \in Seq(Writes) /\ OneWriteEach(more)
         /\ AmongOr(more, w, e.by)
<1>1. /\ more \in Seq(Writes)
      /\ Len(more) = Len(w) + 1 /\ Len(w) \in Nat
      /\ \A i \in 1..Len(w) : more[i] = w[i]
      /\ more[Len(w) + 1] = e
  BY AppendProperties, LenProperties
<1>2. \A n \in 1..Len(more) : n \in 1..Len(w) \/ n = Len(w) + 1
  BY <1>1
<1>3. OneWriteEach(more)
  BY <1>1, <1>2 DEF OneWriteEach, NoneOf
<1>4. QED BY <1>1, <1>2, <1>3 DEF AmongOr

LEMMA WaitersShrink ==
  ASSUME NEW w \in Seq(Writes), w # <<>>, OneWriteEach(w),
         NEW rest, rest = Tail(w), NEW h, h = Head(w)
  PROVE  /\ rest \in Seq(Writes) /\ OneWriteEach(rest)
         /\ h \in Writes /\ h = w[1] /\ 1 \in 1..Len(w)
         /\ NoneOf(rest, h.by) /\ Among(rest, w)
<1>1. /\ rest \in Seq(Writes) /\ Len(rest) = Len(w) - 1 /\ h \in Writes
      /\ \A i \in 1..Len(rest) : rest[i] = w[i + 1]
  BY HeadTailProperties
<1>2. Len(w) \in Nat /\ Len(w) > 0 /\ h = w[1]
  BY EmptySeq
<1>3. \A n \in 1..Len(rest) : n + 1 \in 1..Len(w) /\ n + 1 # 1
  BY <1>1, <1>2
<1>4. \A m, n \in 1..Len(rest) : m + 1 = n + 1 => m = n
  BY <1>1, <1>2
<1>5. OneWriteEach(rest)
  BY <1>1, <1>3, <1>4 DEF OneWriteEach
<1>6. \A n \in 1..Len(rest) : rest[n].by # h.by
  BY <1>1, <1>2, <1>3 DEF OneWriteEach
<1>7. QED BY <1>1, <1>2, <1>3, <1>5, <1>6 DEF NoneOf, Among

----------------------------------------------------------------------------
(* The queue and the places *)

LEMMA QueueLoses ==
  ASSUME NEW q \in Seq(Urls), Distinct(q), NEW n \in 1..Len(q),
         NEW r, r = RemoveAt(q, n)
  PROVE  /\ r \in Seq(Urls) /\ Distinct(r)
         /\ \A v : Has(r, v) <=> Has(q, v) /\ v # q[n]
<1>1. Len(q) \in Nat /\ \A i \in 1..Len(q) : q[i] \in Urls
  BY LenProperties, ElementOfSeq
<1> DEFINE a == SubSeq(q, 1, n - 1)
           b == SubSeq(q, n + 1, Len(q))
<1>2. a \in Seq(Urls) /\ Len(a) = n - 1 /\ \A i \in 1..(n - 1) : a[i] = q[i]
  <2>1. \A i \in 1..(n - 1) : q[i] \in Urls
    BY <1>1
  <2>2. 1 \in Int /\ n - 1 \in Int
    BY <1>1
  <2>3. /\ a \in Seq(Urls)
        /\ Len(a) = IF 1 <= n - 1 THEN n - 1 - 1 + 1 ELSE 0
        /\ \A i \in 1..(n - 1 - 1 + 1) : a[i] = q[1 + i - 1]
    BY <2>1, <2>2, SubSeqProperties
  <2> HIDE DEF a
  <2>4. QED BY <2>3, <1>1
<1>3. /\ b \in Seq(Urls) /\ Len(b) = Len(q) - n
      /\ \A i \in 1..(Len(q) - n) : b[i] = q[n + i]
  <2>1. \A i \in (n + 1)..Len(q) : q[i] \in Urls
    BY <1>1
  <2>2. n + 1 \in Int /\ Len(q) \in Int
    BY <1>1
  <2>3. /\ b \in Seq(Urls)
        /\ Len(b) = IF n + 1 <= Len(q) THEN Len(q) - (n + 1) + 1 ELSE 0
        /\ \A i \in 1..(Len(q) - (n + 1) + 1) : b[i] = q[(n + 1) + i - 1]
    BY <2>1, <2>2, SubSeqProperties
  <2> HIDE DEF b
  <2>4. QED BY <2>3, <1>1
<1>4. r = a \o b
  BY DEF RemoveAt
<1> HIDE DEF a, b
<1>5. /\ r \in Seq(Urls) /\ Len(r) = Len(a) + Len(b)
      /\ \A i \in 1..(Len(a) + Len(b)) : r[i] = IF i <= Len(a) THEN a[i] ELSE b[i - Len(a)]
  <2>1. a \in Seq(Urls) /\ b \in Seq(Urls)
    BY <1>2, <1>3
  <2>2. /\ a \o b \in Seq(Urls) /\ Len(a \o b) = Len(a) + Len(b)
        /\ \A i \in 1..(Len(a) + Len(b)) :
             (a \o b)[i] = IF i <= Len(a) THEN a[i] ELSE b[i - Len(a)]
    BY <2>1, ConcatProperties, Zenon
  <2>3. QED BY <1>4, <2>2
<1>6. Len(r) = Len(q) - 1
  BY <1>1, <1>2, <1>3, <1>5
<1>7. ASSUME NEW i \in 1..Len(r)
      PROVE  r[i] = IF i < n THEN q[i] ELSE q[i + 1]
  <2>1. CASE i < n
    <3>1. i \in 1..(n - 1) /\ i <= Len(a) /\ i \in 1..(Len(a) + Len(b))
      BY <2>1, <1>1, <1>2, <1>3, <1>6
    <3>2. QED BY <2>1, <3>1, <1>2, <1>5
  <2>2. CASE ~(i < n)
    <3>1. /\ i - Len(a) \in 1..(Len(q) - n) /\ ~(i <= Len(a)) /\ i \in 1..(Len(a) + Len(b))
          /\ n + (i - Len(a)) = i + 1
      BY <2>2, <1>1, <1>2, <1>3, <1>6
    <3>2. r[i] = b[i - Len(a)]
      BY <3>1, <1>5
    <3>3. b[i - Len(a)] = q[n + (i - Len(a))]
      BY <3>1, <1>3
    <3>4. QED BY <2>2, <3>1, <3>2, <3>3
  <2>3. QED BY <2>1, <2>2
<1>8. Distinct(r)
  BY <1>1, <1>6, <1>7 DEF Distinct
<1>9. ASSUME NEW v, Has(r, v) PROVE Has(q, v) /\ v # q[n]
  <2>1. PICK i \in 1..Len(r) : r[i] = v
    BY <1>9 DEF Has
  <2>2. CASE i < n
    <3>1. i \in 1..Len(q) /\ q[i] = v /\ i # n
      BY <2>1, <2>2, <1>1, <1>6, <1>7
    <3>2. QED BY <3>1 DEF Has, Distinct
  <2>3. CASE ~(i < n)
    <3>1. i + 1 \in 1..Len(q) /\ q[i + 1] = v /\ i + 1 # n
      BY <2>1, <2>3, <1>1, <1>6, <1>7
    <3>2. QED BY <3>1 DEF Has, Distinct
  <2>4. QED BY <2>2, <2>3
<1>10. ASSUME NEW v, Has(q, v), v # q[n] PROVE Has(r, v)
  <2>1. PICK i \in 1..Len(q) : q[i] = v
    BY <1>10 DEF Has
  <2>2. CASE i < n
    <3>1. i \in 1..Len(r) /\ r[i] = v
      BY <2>1, <2>2, <1>1, <1>6, <1>7
    <3>2. QED BY <3>1 DEF Has
  <2>3. CASE ~(i < n)
    <3>1. i # n
      BY <2>1, <1>10
    <3>2. i - 1 \in 1..Len(r) /\ ~(i - 1 < n) /\ (i - 1) + 1 = i
      BY <3>1, <2>3, <1>1, <1>6
    <3>3. r[i - 1] = v
      BY <3>2, <2>1, <1>7
    <3>4. QED BY <3>2, <3>3 DEF Has
  <2>4. QED BY <2>2, <2>3
<1>11. QED BY <1>5, <1>8, <1>9, <1>10

LEMMA QueueGains ==
  ASSUME NEW q \in Seq(Urls), Distinct(q), NEW u \in Urls, ~Has(q, u),
         NEW r, r = Append(q, u)
  PROVE  /\ r \in Seq(Urls) /\ Distinct(r)
         /\ \A v : Has(r, v) <=> Has(q, v) \/ v = u
<1>1. /\ r \in Seq(Urls)
      /\ Len(r) = Len(q) + 1 /\ Len(q) \in Nat
      /\ \A i \in 1..Len(q) : r[i] = q[i]
      /\ r[Len(q) + 1] = u
  BY AppendProperties, LenProperties
<1>2. \A n \in 1..Len(r) : n \in 1..Len(q) \/ n = Len(q) + 1
  BY <1>1
<1>3. /\ \A n \in 1..Len(q) : n \in 1..Len(r)
      /\ Len(q) + 1 \in 1..Len(r)
  BY <1>1
<1>4. Distinct(r)
  BY <1>1, <1>2 DEF Distinct, Has
<1>5. QED BY <1>1, <1>2, <1>3, <1>4 DEF Has

LEMMA SlotFields ==
  ASSUME NEW p \in SlotState
  PROVE  /\ p.at \in {"free", "analyzing", "saving", "excusing"}
         /\ p = Free <=> p.at = "free"
         /\ p.at # "free" => p.url \in Urls
BY DEF SlotState, Free

LEMMA CallerFields ==
  ASSUME NEW p \in CallerState
  PROVE  /\ p.at \in {"idle", "storing", "rescanning"}
         /\ p = Idle <=> p.at = "idle"
         /\ p.at # "idle" => p.url \in Urls
BY DEF CallerState, Idle

LEMMA FreeIsFree == Free \in SlotState /\ Free.at = "free"
<1>1. Free \in SlotState
  BY DEF SlotState
<1>2. QED BY <1>1 DEF Free

LEMMA IdleIsIdle == Idle \in CallerState /\ Idle.at = "idle"
<1>1. Idle \in CallerState
  BY DEF CallerState
<1>2. QED BY <1>1 DEF Idle

LEMMA QueueElements ==
  ASSUME queue \in Seq(Urls)
  PROVE  /\ DOMAIN queue = 1..Len(queue)
         /\ ToSet(queue) = {u \in Urls : InQueue(u)}
         /\ Distinct(queue) <=> IsInjective(queue)
<1>1. DOMAIN queue = 1..Len(queue) /\ \A n \in 1..Len(queue) : queue[n] \in Urls
  BY LenProperties, ElementOfSeq
<1>2. QED BY <1>1 DEF ToSet, InQueue, Has, Distinct, IsInjective

----------------------------------------------------------------------------
(* Common to the actions *)

LEMMA PersistKeeps ==
  ASSUME MediaInv, NEW changed \in FiniteStores, NEW x \in Waiters,
         Promise(data, changed), NotServed(changed, expired'),
         Persist(changed, x), UNCHANGED <<disk, broken>>
  PROVE  StoreInv'
<1> DEFINE e == [store |-> changed, by |-> x]
<1>1. /\ data' = changed /\ writes' = Append(writes, e)
      /\ disk' = disk /\ broken' = broken
  BY DEF Persist, Snapshot
<1>2. e \in Writes /\ e.store = changed
  BY DEF Writes
<1> HIDE DEF e
<1>3. PICK w \in Seq(Writes), d \in FiniteStores, k \in FiniteStores :
        w = writes /\ d = data /\ k = disk
  BY DEF MediaInv, StoreInv
<1>4. PICK more : more = Append(w, e)
  OBVIOUS
<1>5. writes' = more /\ more \in Seq(Writes)
  BY <1>1, <1>2, <1>3, <1>4, AppendProperties
<1>6. Chain(k, w, d) => Chain(k, more, changed)
  BY <1>2, <1>3, <1>4, ChainGrows
<1>7. ~broken => Chain(k, w, d)
  BY <1>3 DEF MediaInv, StoreInv
<1>8. QED BY <1>1, <1>3, <1>5, <1>6, <1>7 DEF StoreInv

\* One more write, of somebody who had none.
LEMMA PersistWriters ==
  ASSUME MediaInv, NEW changed \in FiniteStores, NEW x \in Waiters,
         Persist(changed, x), ~Awaits(x)
  PROVE  /\ OneWriteEach(writes')
         /\ AmongOr(writes', writes, x) /\ NoneOf(writes, x)
<1> DEFINE e == [store |-> changed, by |-> x]
<1>1. writes' = Append(writes, e)
  BY DEF Persist, Snapshot
<1>2. e \in Writes /\ e.by = x
  BY DEF Writes
<1> HIDE DEF e
<1>3. PICK w \in Seq(Writes) : w = writes
  BY DEF MediaInv, StoreInv
<1>4. PICK more : more = Append(w, e)
  OBVIOUS
<1>5. OneWriteEach(w) /\ \A n \in 1..Len(w) : Awaits(w[n].by)
  BY <1>3 DEF MediaInv, WritersInv
<1>6. NoneOf(w, e.by)
  BY <1>2, <1>5 DEF NoneOf
<1>7. /\ OneWriteEach(more)
      /\ AmongOr(more, w, e.by)
  <2>1. e \in Writes /\ w \in Seq(Writes) /\ OneWriteEach(w)
    BY <1>2, <1>3, <1>5
  <2>2. QED BY <2>1, <1>4, <1>6, WaitersGrow
<1>8. writes' = more
  BY <1>1, <1>3, <1>4
<1>9. QED BY <1>2, <1>3, <1>6, <1>7, <1>8

\* A write is over, and its waiter goes on.
LEMMA HeadOfWrites ==
  ASSUME MediaInv, writes # <<>>
  PROVE  /\ Head(writes) \in Writes /\ Awaits(Head(writes).by)
         /\ Tail(writes) \in Seq(Writes) /\ OneWriteEach(Tail(writes))
         /\ NoneOf(Tail(writes), Head(writes).by) /\ Among(Tail(writes), writes)
<1>1. PICK w \in Seq(Writes) : w = writes
  BY DEF MediaInv, StoreInv
<1>2. OneWriteEach(w) /\ \A n \in 1..Len(w) : Awaits(w[n].by)
  BY <1>1 DEF MediaInv, WritersInv
<1>3. PICK rest : rest = Tail(w)
  OBVIOUS
<1>4. PICK h : h = Head(w)
  OBVIOUS
<1>5. /\ rest \in Seq(Writes) /\ OneWriteEach(rest)
      /\ h \in Writes /\ h = w[1] /\ 1 \in 1..Len(w)
      /\ NoneOf(rest, h.by) /\ Among(rest, w)
  <2>1. w \in Seq(Writes) /\ w # <<>> /\ OneWriteEach(w)
    BY <1>1, <1>2
  <2>2. QED BY <2>1, <1>3, <1>4, WaitersShrink
<1>6. QED BY <1>1, <1>2, <1>3, <1>4, <1>5

\* Those whose turn it is not are as they were.
LEMMA AwaitsKept ==
  ASSUME NEW x \in Waiters, Awaits(x),
         x \in Slots => slot'[x] = slot[x],
         x \in Callers => caller'[x] = caller[x]
  PROVE  Awaits(x)'
BY DEF Awaits

LEMMA Apart == Callers \cap Slots = {}
BY MediaAssumption

\* Who awaits a write after a step: those who did, but perhaps one.
LEMMA OneMoreWaits ==
  ASSUME MediaInv, NEW x, Awaits(x)', OneWriteEach(writes'), AmongOr(writes', writes, x),
         \A y \in Waiters : Awaits(y) /\ y # x => Awaits(y)'
  PROVE  WritersInv'
<1>1. ASSUME NEW n \in 1..Len(writes) PROVE writes[n].by \in Waiters /\ Awaits(writes[n].by)
  BY WriteFields DEF MediaInv, WritersInv, StoreInv
<1>2. ASSUME NEW n \in 1..Len(writes'), NEW y, y = writes'[n].by PROVE Awaits(y)'
  <2>1. CASE y = x
    BY <2>1
  <2>2. CASE y # x
    <3>1. PICK m \in 1..Len(writes) : y = writes[m].by
      BY <1>2, <2>2 DEF AmongOr
    <3>2. y \in Waiters /\ Awaits(y)
      BY <3>1, <1>1
    <3>3. QED BY <2>2, <3>2
  <2>3. QED BY <2>1, <2>2
<1>3. \A n \in 1..Len(writes') : Awaits(writes[n].by)'
  BY <1>2 DEF Awaits
<1>4. QED BY <1>3 DEF WritersInv

LEMMA OneLessWaits ==
  ASSUME MediaInv, NEW x, OneWriteEach(writes'), Among(writes', writes), NoneOf(writes', x),
         \A y \in Waiters : Awaits(y) /\ y # x => Awaits(y)'
  PROVE  WritersInv'
<1>1. ASSUME NEW n \in 1..Len(writes) PROVE writes[n].by \in Waiters /\ Awaits(writes[n].by)
  BY WriteFields DEF MediaInv, WritersInv, StoreInv
<1>2. ASSUME NEW n \in 1..Len(writes'), NEW y, y = writes'[n].by PROVE Awaits(y)'
  <2>1. y # x
    BY <1>2 DEF NoneOf
  <2>2. PICK m \in 1..Len(writes) : y = writes[m].by
    BY <1>2 DEF Among
  <2>3. y \in Waiters /\ Awaits(y)
    BY <2>2, <1>1
  <2>4. QED BY <2>1, <2>3
<1>3. \A n \in 1..Len(writes') : Awaits(writes[n].by)'
  BY <1>2 DEF Awaits
<1>4. QED BY <1>3 DEF WritersInv

\* What a place change does to one URL and what to the others.
LEMMA SlotChange ==
  ASSUME PlacesTyped, NEW s \in Slots, NEW p \in SlotState, slot' = [slot EXCEPT ![s] = p]
  PROVE  /\ slot' \in [Slots -> SlotState] /\ slot'[s] = p
         /\ \A t \in Slots : t # s => slot'[t] = slot[t]
         /\ \A u : Scanned(s, u)' <=> p.at # "free" /\ p.url = u
         /\ \A t \in Slots : \A u : t # s => (Scanned(t, u)' <=> Scanned(t, u))
BY DEF PlacesTyped, Scanned

LEMMA CallerChange ==
  ASSUME PlacesTyped, NEW c \in Callers, NEW p \in CallerState,
         caller' = [caller EXCEPT ![c] = p]
  PROVE  /\ caller' \in [Callers -> CallerState] /\ caller'[c] = p
         /\ \A d \in Callers : d # c => caller'[d] = caller[d]
         /\ \A u : Storing(c, u)' <=> p.at = "storing" /\ p.url = u
         /\ \A d \in Callers : \A u : d # c => (Storing(d, u)' <=> Storing(d, u))
BY DEF PlacesTyped, Storing

LEMMA SlotsSame ==
  ASSUME slot' = slot
  PROVE  \A t \in Slots : \A u : Scanned(t, u)' <=> Scanned(t, u)
BY DEF Scanned

LEMMA CallersSame ==
  ASSUME caller' = caller
  PROVE  \A d \in Callers : \A u : Storing(d, u)' <=> Storing(d, u)
BY DEF Storing

LEMMA QueueSame ==
  ASSUME queue' = queue
  PROVE  /\ \A u : InQueue(u)' <=> InQueue(u)
         /\ Distinct(queue) => Distinct(queue')
BY DEF InQueue

----------------------------------------------------------------------------
(* Each action *)

LEMMA PumpKeeps ==
  ASSUME MediaInv, Pump
  PROVE  MediaInv'
<1>1. PICK n \in Startable, s \in Slots :
        /\ s \in FreeSlots(queue[n])
        /\ slot' = [slot EXCEPT ![s] = [at |-> "analyzing", url |-> queue[n]]]
        /\ queue' = RemoveAt(queue, n)
        /\ UNCHANGED <<storeVars, ids, caller, closed, restarts>>
  BY DEF Pump, FreeSlots, SlotsFor, Slots
<1>2. PICK q \in Seq(Urls) : q = queue
  BY DEF MediaInv, PlacesTyped
<1>3. n \in 1..Len(q) /\ slot[s] = Free
  <2>1. n \in DOMAIN q
    BY <1>2 DEF Startable
  <2>2. QED BY <2>1, <1>1, <1>2, LenProperties DEF FreeSlots
<1>4. PICK u \in Urls : u = q[n]
  BY <1>3, ElementOfSeq
<1>5. PICK p : p = [at |-> "analyzing", url |-> u]
  OBVIOUS
<1>6. p \in SlotState /\ p.at = "analyzing" /\ p.url = u
  BY <1>5 DEF SlotState
<1>7. slot' = [slot EXCEPT ![s] = p]
  BY <1>1, <1>2, <1>4, <1>5
<1>8. PICK r : r = RemoveAt(q, n)
  OBVIOUS
<1>9. queue' = r
  BY <1>1, <1>2, <1>8
<1>10. /\ r \in Seq(Urls) /\ Distinct(r)
       /\ \A v : Has(r, v) <=> Has(q, v) /\ v # u
  <2>1. Distinct(q)
    BY <1>2 DEF MediaInv, PlacesInv
  <2>2. QED BY <2>1, <1>3, <1>4, <1>8, QueueLoses
<1>11. PlacesTyped
  BY DEF MediaInv
<1>12. /\ slot' \in [Slots -> SlotState]
       /\ \A t \in Slots : t # s => slot'[t] = slot[t]
       /\ \A v : Scanned(s, v)' <=> v = u
       /\ \A t \in Slots : \A v : t # s => (Scanned(t, v)' <=> Scanned(t, v))
  BY <1>6, <1>7, <1>11, SlotChange
<1>13. \A v : InQueue(v)' <=> InQueue(v) /\ v # u
  BY <1>2, <1>9, <1>10 DEF InQueue
<1>14. InQueue(u)
  BY <1>2, <1>3, <1>4 DEF InQueue, Has
<1>15. \A d \in Callers : \A v : Storing(d, v)' <=> Storing(d, v)
  BY <1>1 DEF Storing
<1>16. \A v : ~Scanned(s, v)
  BY <1>3 DEF Scanned, Free
<1>17. ids' = ids /\ closed' = closed /\ broken' = broken /\ caller' = caller
       /\ UNCHANGED <<data, disk, writes, expired, restarts>>
  BY <1>1 DEF storeVars
<1>18. Once(u) /\ u \in ids
  BY <1>14 DEF MediaInv, PlacesInv, Once
<1>19. ASSUME NEW v \in Urls PROVE Once(v)'
  <2>1. Once(v)
    BY DEF MediaInv, PlacesInv
  <2>2. QED BY <2>1, <1>12, <1>13, <1>14, <1>15, <1>16, <1>17, <1>18 DEF Once
<1>20. ASSUME NEW v \in ids' PROVE OnItsWay(v)'
  <2>1. OnItsWay(v)
    BY <1>17 DEF MediaInv, PlacesInv
  <2>2. QED BY <2>1, <1>12, <1>13, <1>15, <1>16, <1>17 DEF OnItsWay
<1>21. PlacesInv'
  BY <1>9, <1>10, <1>19, <1>20 DEF PlacesInv
<1>22. PlacesTyped'
  BY <1>9, <1>10, <1>12, <1>17 DEF PlacesTyped, MediaInv
<1>23. StoreInv'
  BY <1>17 DEF MediaInv, StoreInv
<1>24. WritersInv'
  <2>1. ASSUME NEW m \in 1..Len(writes) PROVE Awaits(writes[m].by)'
    <3>1. Awaits(writes[m].by) /\ writes[m].by \in Waiters
      BY WriteFields DEF MediaInv, WritersInv, StoreInv
    <3>2. writes[m].by # s
      BY <3>1, <1>3 DEF Awaits, Free
    <3>3. QED BY <3>1, <3>2, <1>12, <1>17 DEF Awaits
  <2>2. QED BY <2>1, <1>17 DEF MediaInv, WritersInv
<1>25. QED BY <1>17, <1>21, <1>22, <1>23, <1>24 DEF MediaInv

LEMMA VerdictForKeeps ==
  ASSUME MediaInv, NEW c \in Callers, NEW u \in Urls, VerdictFor(c, u)
  PROVE  MediaInv'
<1>1. /\ caller[c] = Idle /\ u \notin ids
      /\ data.verdict[u] = "none" \/ u \in expired
      /\ ids' = ids \cup {u}
      /\ Persist(WithJob(u), c)
      /\ caller' = [caller EXCEPT ![c] = [at |-> "storing", url |-> u]]
      /\ UNCHANGED <<disk, broken, expired, queue, slot, closed, restarts>>
  BY DEF VerdictFor, Queued
<1>2. PICK p : p = [at |-> "storing", url |-> u]
  OBVIOUS
<1>3. p \in CallerState /\ p.at = "storing" /\ p.url = u
  BY <1>2 DEF CallerState
<1>4. /\ caller' \in [Callers -> CallerState]
      /\ \A d \in Callers : d # c => caller'[d] = caller[d]
      /\ \A v : Storing(c, v)' <=> v = u
      /\ \A d \in Callers : \A v : d # c => (Storing(d, v)' <=> Storing(d, v))
      /\ caller'[c] = p
  <2>1. PlacesTyped /\ caller' = [caller EXCEPT ![c] = p]
    BY <1>1, <1>2 DEF MediaInv
  <2>2. QED BY <2>1, <1>3, CallerChange
<1>5. PICK d \in FiniteStores : d = data
  BY DEF MediaInv, StoreInv
<1>6. PICK t : t = [d EXCEPT !.jobs = @ \cup {u}]
  OBVIOUS
<1>7. t \in FiniteStores /\ Promise(d, t) /\ NotServed(t, expired)
  <2>1. NotServed(d, expired) /\ (d.verdict[u] = "none" \/ u \in expired)
    BY <1>1, <1>5 DEF MediaInv, StoreInv
  <2>2. QED BY <2>1, <1>6, AddingKeeps
<1>8. Persist(t, c) /\ Promise(data, t) /\ NotServed(t, expired')
  BY <1>1, <1>5, <1>6, <1>7 DEF WithJob
<1>9. c \in Waiters /\ c \notin Slots /\ ~Awaits(c)
  BY <1>1, Apart DEF Waiters, Awaits, Idle
<1>10. StoreInv'
  BY <1>1, <1>7, <1>8, <1>9, PersistKeeps
<1>11. OneWriteEach(writes') /\ AmongOr(writes', writes, c) /\ NoneOf(writes, c)
  BY <1>7, <1>8, <1>9, PersistWriters
<1>12. WritersInv'
  <2>1. Awaits(c)'
    BY <1>3, <1>4, <1>9 DEF Awaits
  <2>2. ASSUME NEW x \in Waiters, Awaits(x), x # c PROVE Awaits(x)'
    BY <2>2, <1>1, <1>4 DEF Awaits
  <2>3. QED BY <2>1, <2>2, <1>11, OneMoreWaits
<1>13. \A s \in Slots : \A v : Scanned(s, v)' <=> Scanned(s, v)
  BY <1>1 DEF Scanned
<1>14. \A v : InQueue(v)' <=> InQueue(v)
  BY <1>1 DEF InQueue
<1>15. \A v : ~Storing(c, v)
  BY <1>1 DEF Storing, Idle
<1>16. ASSUME NEW v \in Urls PROVE Once(v)'
  <2>1. Once(v) /\ Once(u)
    BY DEF MediaInv, PlacesInv
  <2>2. QED BY <2>1, <1>1, <1>4, <1>13, <1>14, <1>15 DEF Once
<1>17. ASSUME NEW v \in ids' PROVE OnItsWay(v)'
  <2>1. CASE v = u
    BY <2>1, <1>4 DEF OnItsWay
  <2>2. CASE v # u
    <3>1. OnItsWay(v)
      BY <2>2, <1>1 DEF MediaInv, PlacesInv
    <3>2. QED BY <3>1, <1>1, <1>4, <1>13, <1>14, <1>15 DEF OnItsWay
  <2>3. QED BY <2>1, <2>2
<1>18. PlacesInv'
  BY <1>1, <1>16, <1>17 DEF PlacesInv, MediaInv
<1>19. PlacesTyped'
  BY <1>1, <1>4 DEF PlacesTyped, MediaInv
<1>20. QED BY <1>1, <1>10, <1>12, <1>18, <1>19 DEF MediaInv

LEMMA RescanKeeps ==
  ASSUME MediaInv, NEW c \in Callers, NEW u \in Urls, Rescan(c, u)
  PROVE  MediaInv'
<1>1. /\ caller[c] = Idle
      /\ Persist(Rescanned(u), c)
      /\ expired' = expired \ {u}
      /\ caller' = [caller EXCEPT ![c] = [at |-> "rescanning", url |-> u]]
      /\ UNCHANGED <<disk, broken, jobVars, closed, restarts>>
  BY DEF Rescan
<1>2. queue' = queue /\ ids' = ids /\ slot' = slot
  BY <1>1 DEF jobVars
<1>3. PICK p : p = [at |-> "rescanning", url |-> u]
  OBVIOUS
<1>4. p \in CallerState /\ p.at = "rescanning" /\ p.url = u
  BY <1>3 DEF CallerState
<1>5. /\ caller' \in [Callers -> CallerState]
      /\ \A d \in Callers : d # c => caller'[d] = caller[d]
      /\ \A v : ~Storing(c, v)'
      /\ \A d \in Callers : \A v : d # c => (Storing(d, v)' <=> Storing(d, v))
      /\ caller'[c] = p
  <2>1. PlacesTyped /\ caller' = [caller EXCEPT ![c] = p]
    BY <1>1, <1>3 DEF MediaInv
  <2>2. QED BY <2>1, <1>4, CallerChange
<1>6. PICK d \in FiniteStores : d = data
  BY DEF MediaInv, StoreInv
<1>7. PICK t : t = [d EXCEPT !.jobs = @ \cup {u}, !.verdict[u] = "none"]
  OBVIOUS
<1>8. t \in FiniteStores /\ Promise(d, t) /\ NotServed(t, expired \ {u})
  <2>1. NotServed(d, expired)
    BY <1>6 DEF MediaInv, StoreInv
  <2>2. QED BY <2>1, <1>7, RescanningKeeps
<1>9. Persist(t, c) /\ Promise(data, t) /\ NotServed(t, expired')
  BY <1>1, <1>6, <1>7, <1>8 DEF Rescanned
<1>10. c \in Waiters /\ c \notin Slots /\ ~Awaits(c)
  BY <1>1, Apart DEF Waiters, Awaits, Idle
<1>11. StoreInv'
  BY <1>1, <1>8, <1>9, <1>10, PersistKeeps
<1>12. OneWriteEach(writes') /\ AmongOr(writes', writes, c) /\ NoneOf(writes, c)
  BY <1>8, <1>9, <1>10, PersistWriters
<1>13. WritersInv'
  <2>1. Awaits(c)'
    BY <1>4, <1>5, <1>10 DEF Awaits
  <2>2. ASSUME NEW x \in Waiters, Awaits(x), x # c PROVE Awaits(x)'
    BY <2>2, <1>2, <1>5 DEF Awaits
  <2>3. QED BY <2>1, <2>2, <1>12, OneMoreWaits
<1>14. \A s \in Slots : \A v : Scanned(s, v)' <=> Scanned(s, v)
  BY <1>2 DEF Scanned
<1>15. \A v : InQueue(v)' <=> InQueue(v)
  BY <1>2 DEF InQueue
<1>16. \A v : ~Storing(c, v)
  BY <1>1 DEF Storing, Idle
<1>17. ASSUME NEW v \in Urls PROVE Once(v)'
  <2>1. Once(v)
    BY DEF MediaInv, PlacesInv
  <2>2. QED BY <2>1, <1>2, <1>5, <1>14, <1>15, <1>16 DEF Once
<1>18. ASSUME NEW v \in ids' PROVE OnItsWay(v)'
  <2>1. OnItsWay(v)
    BY <1>2 DEF MediaInv, PlacesInv
  <2>2. QED BY <2>1, <1>1, <1>5, <1>14, <1>15, <1>16 DEF OnItsWay
<1>19. PlacesInv'
  BY <1>2, <1>17, <1>18 DEF PlacesInv, MediaInv
<1>20. PlacesTyped'
  BY <1>2, <1>5 DEF PlacesTyped, MediaInv
<1>21. QED BY <1>1, <1>11, <1>13, <1>19, <1>20 DEF MediaInv

\* Neither queue nor places nor callers change.
LEMMA PlacesStay ==
  ASSUME MediaInv, UNCHANGED <<jobVars, caller, closed>>, broken => broken'
  PROVE  PlacesTyped' /\ PlacesInv'
<1>1. queue' = queue /\ ids' = ids /\ slot' = slot /\ caller' = caller /\ closed' = closed
  BY DEF jobVars
<1>2. \A s \in Slots : \A v : Scanned(s, v)' <=> Scanned(s, v)
  BY <1>1 DEF Scanned
<1>3. \A v : InQueue(v)' <=> InQueue(v)
  BY <1>1 DEF InQueue
<1>4. \A d \in Callers : \A v : Storing(d, v)' <=> Storing(d, v)
  BY <1>1 DEF Storing
<1>5. ASSUME NEW v \in Urls PROVE Once(v)'
  <2>1. Once(v)
    BY DEF MediaInv, PlacesInv
  <2>2. QED BY <2>1, <1>1, <1>2, <1>3, <1>4 DEF Once
<1>6. ASSUME NEW v \in ids' PROVE OnItsWay(v)'
  <2>1. OnItsWay(v)
    BY <1>1 DEF MediaInv, PlacesInv
  <2>2. QED BY <2>1, <1>1, <1>2, <1>3, <1>4 DEF OnItsWay
<1>7. QED BY <1>1, <1>5, <1>6 DEF PlacesTyped, PlacesInv, MediaInv

LEMMA WritersStay ==
  ASSUME MediaInv, UNCHANGED <<writes, slot, caller>>
  PROVE  WritersInv'
BY DEF MediaInv, WritersInv, Awaits

LEMMA ExpireKeeps ==
  ASSUME MediaInv, NEW u \in Urls, Expire(u)
  PROVE  MediaInv'
<1>1. /\ expired' = expired \cup {u}
      /\ UNCHANGED <<data, disk, writes, broken, jobVars, caller, closed, restarts>>
  BY DEF Expire
<1>2. StoreInv'
  BY <1>1 DEF MediaInv, StoreInv, NotServed
<1>3. WritersInv'
  BY <1>1, WritersStay DEF jobVars
<1>4. QED BY <1>1, <1>2, <1>3, PlacesStay DEF MediaInv

LEMMA AnalyzedKeeps ==
  ASSUME MediaInv, NEW s \in Slots, Analyzed(s)
  PROVE  MediaInv'
<1>1. PICK verdict \in {"scanned", "unavailable"}, at \in {"saving", "excusing"} :
        /\ slot[s].at = "analyzing"
        /\ Persist(Completed(slot[s].url, verdict), s)
        /\ slot' = [slot EXCEPT ![s].at = at]
        /\ expired' = expired \ {slot[s].url}
        /\ UNCHANGED <<disk, broken, queue, ids, caller, closed, restarts>>
  BY DEF Analyzed
<1>2. PICK p0 \in SlotState : p0 = slot[s]
  BY DEF MediaInv, PlacesTyped
<1>3. PICK u \in Urls : u = p0.url
  BY <1>1, <1>2, SlotFields
<1>4. PICK p : p = [at |-> at, url |-> u]
  OBVIOUS
<1>5. p \in SlotState /\ p.at = at /\ p.url = u /\ p.at # "free"
  BY <1>4 DEF SlotState
<1>6. slot' = [slot EXCEPT ![s] = p]
  <2>1. [p0 EXCEPT !.at = at] = p
    BY <1>1, <1>2, <1>3, <1>4 DEF SlotState, Free
  <2>2. QED BY <2>1, <1>1, <1>2
<1>7. /\ slot' \in [Slots -> SlotState] /\ slot'[s] = p
      /\ \A t \in Slots : t # s => slot'[t] = slot[t]
      /\ \A v : Scanned(s, v)' <=> v = u
      /\ \A t \in Slots : \A v : t # s => (Scanned(t, v)' <=> Scanned(t, v))
  <2>1. PlacesTyped
    BY DEF MediaInv
  <2>2. QED BY <2>1, <1>5, <1>6, SlotChange
<1>8. PICK d \in FiniteStores : d = data
  BY DEF MediaInv, StoreInv
<1>9. PICK t : t = [d EXCEPT !.jobs = @ \ {u}, !.verdict[u] = verdict]
  OBVIOUS
<1>10. t \in FiniteStores /\ Promise(d, t) /\ NotServed(t, expired \ {u})
  <2>1. NotServed(d, expired)
    BY <1>8 DEF MediaInv, StoreInv
  <2>2. QED BY <2>1, <1>9, CompletingKeeps
<1>11. Persist(t, s) /\ Promise(data, t) /\ NotServed(t, expired')
  BY <1>1, <1>2, <1>3, <1>8, <1>9, <1>10 DEF Completed
<1>12. s \in Waiters /\ s \notin Callers /\ ~Awaits(s)
  BY <1>1, Apart DEF Waiters, Awaits
<1>13. StoreInv'
  BY <1>1, <1>10, <1>11, <1>12, PersistKeeps
<1>14. OneWriteEach(writes') /\ AmongOr(writes', writes, s) /\ NoneOf(writes, s)
  BY <1>10, <1>11, <1>12, PersistWriters
<1>15. WritersInv'
  <2>1. Awaits(s)'
    BY <1>1, <1>5, <1>7, <1>12 DEF Awaits
  <2>2. ASSUME NEW x \in Waiters, Awaits(x), x # s PROVE Awaits(x)'
    BY <2>2, <1>1, <1>7 DEF Awaits
  <2>3. QED BY <2>1, <2>2, <1>14, OneMoreWaits
<1>16. \A v : Scanned(s, v) <=> v = u
  BY <1>1, <1>2, <1>3 DEF Scanned
<1>17. \A r \in Slots : \A v : Scanned(r, v)' <=> Scanned(r, v)
  BY <1>7, <1>16
<1>18. \A v : InQueue(v)' <=> InQueue(v)
  BY <1>1 DEF InQueue
<1>19. \A c \in Callers : \A v : Storing(c, v)' <=> Storing(c, v)
  BY <1>1 DEF Storing
<1>20. ASSUME NEW v \in Urls PROVE Once(v)'
  <2>1. Once(v)
    BY DEF MediaInv, PlacesInv
  <2>2. QED BY <2>1, <1>1, <1>17, <1>18, <1>19 DEF Once
<1>21. ASSUME NEW v \in ids' PROVE OnItsWay(v)'
  <2>1. OnItsWay(v)
    BY <1>1 DEF MediaInv, PlacesInv
  <2>2. QED BY <2>1, <1>1, <1>17, <1>18, <1>19 DEF OnItsWay
<1>22. PlacesInv'
  BY <1>1, <1>20, <1>21 DEF PlacesInv, MediaInv
<1>23. PlacesTyped'
  BY <1>1, <1>7 DEF PlacesTyped, MediaInv
<1>24. QED BY <1>1, <1>13, <1>15, <1>22, <1>23 DEF MediaInv

----------------------------------------------------------------------------
(* What follows a write *)

LEMMA FinishedKeeps ==
  ASSUME MediaInv, NEW s \in Slots, Awaits(s), Finished(s),
         UNCHANGED <<caller, closed>>, broken => broken'
  PROVE  /\ PlacesTyped' /\ PlacesInv'
         /\ \A x \in Waiters : Awaits(x) /\ x # s => Awaits(x)'
<1>1. /\ slot' = [slot EXCEPT ![s] = Free]
      /\ ids' = ids \ {slot[s].url} /\ queue' = queue
      /\ caller' = caller /\ closed' = closed
  BY DEF Finished
<1>2. PICK p \in SlotState : p = slot[s]
  BY DEF MediaInv, PlacesTyped
<1>3. p.at # "free"
  BY <1>2 DEF Awaits
<1>4. PICK u \in Urls : u = p.url
  BY <1>2, <1>3, SlotFields
<1>5. PICK free \in SlotState : free = Free /\ free.at = "free"
  BY FreeIsFree
<1>6. /\ slot' \in [Slots -> SlotState]
      /\ \A t \in Slots : t # s => slot'[t] = slot[t]
      /\ \A v : ~Scanned(s, v)'
      /\ \A t \in Slots : \A v : t # s => (Scanned(t, v)' <=> Scanned(t, v))
  <2>1. PlacesTyped /\ slot' = [slot EXCEPT ![s] = free]
    BY <1>1, <1>5 DEF MediaInv
  <2>2. QED BY <2>1, <1>5, SlotChange
<1>7. \A v : Scanned(s, v) <=> v = u
  BY <1>2, <1>3, <1>4 DEF Scanned
<1>8. \A v : InQueue(v)' <=> InQueue(v)
  BY <1>1 DEF InQueue
<1>9. \A c \in Callers : \A v : Storing(c, v)' <=> Storing(c, v)
  BY <1>1 DEF Storing
<1>10. ids' = ids \ {u}
  BY <1>1, <1>2, <1>4
<1>11. ASSUME NEW v \in Urls PROVE Once(v)'
  <2>1. Once(v)
    BY DEF MediaInv, PlacesInv
  <2>2. QED BY <2>1, <1>6, <1>7, <1>8, <1>9, <1>10 DEF Once
<1>12. ASSUME NEW v \in ids' PROVE OnItsWay(v)'
  <2>1. OnItsWay(v) /\ v # u
    BY <1>10 DEF MediaInv, PlacesInv
  <2>2. QED BY <2>1, <1>1, <1>6, <1>7, <1>8, <1>9 DEF OnItsWay
<1>13. PlacesInv'
  BY <1>1, <1>11, <1>12 DEF PlacesInv, MediaInv
<1>14. PlacesTyped'
  BY <1>1, <1>6, <1>10 DEF PlacesTyped, MediaInv
<1>15. \A x \in Waiters : Awaits(x) /\ x # s => Awaits(x)'
  BY <1>1, <1>6 DEF Awaits
<1>16. QED BY <1>13, <1>14, <1>15

LEMMA ReturnsChange ==
  ASSUME MediaInv, NEW c \in Callers, Returns(c)
  PROVE  /\ caller' \in [Callers -> CallerState]
         /\ \A d \in Callers : d # c => caller'[d] = caller[d]
         /\ \A v : ~Storing(c, v)'
         /\ \A d \in Callers : \A v : d # c => (Storing(d, v)' <=> Storing(d, v))
         /\ slot' = slot => \A x \in Waiters : Awaits(x) /\ x # c => Awaits(x)'
<1>1. PICK idle \in CallerState : idle = Idle /\ idle.at = "idle"
  BY IdleIsIdle
<1>2. PlacesTyped /\ caller' = [caller EXCEPT ![c] = idle]
  BY <1>1 DEF MediaInv, Returns
<1>3. /\ caller' \in [Callers -> CallerState]
      /\ \A d \in Callers : d # c => caller'[d] = caller[d]
      /\ \A v : ~Storing(c, v)'
      /\ \A d \in Callers : \A v : d # c => (Storing(d, v)' <=> Storing(d, v))
  BY <1>1, <1>2, CallerChange
<1>4. slot' = slot => \A x \in Waiters : Awaits(x) /\ x # c => Awaits(x)'
  BY <1>3 DEF Awaits
<1>5. QED BY <1>3, <1>4

\* A call that stored no job of its own, or could not store it.
LEMMA ReturnsKeeps ==
  ASSUME MediaInv, NEW c \in Callers, Returns(c), UNCHANGED <<jobVars, closed>>,
         caller[c].at = "rescanning" \/ broken', broken => broken'
  PROVE  PlacesTyped' /\ PlacesInv'
<1>1. queue' = queue /\ ids' = ids /\ slot' = slot /\ closed' = closed
  BY DEF jobVars
<1>2. /\ caller' \in [Callers -> CallerState]
      /\ \A v : ~Storing(c, v)'
      /\ \A d \in Callers : \A v : d # c => (Storing(d, v)' <=> Storing(d, v))
  BY ReturnsChange
<1>3. \A s \in Slots : \A v : Scanned(s, v)' <=> Scanned(s, v)
  BY <1>1 DEF Scanned
<1>4. \A v : InQueue(v)' <=> InQueue(v)
  BY <1>1 DEF InQueue
<1>5. ASSUME NEW v \in Urls PROVE Once(v)'
  <2>1. Once(v)
    BY DEF MediaInv, PlacesInv
  <2>2. QED BY <2>1, <1>1, <1>2, <1>3, <1>4 DEF Once
<1>6. ASSUME NEW v \in ids' PROVE OnItsWay(v)'
  <2>1. OnItsWay(v)
    BY <1>1 DEF MediaInv, PlacesInv
  <2>2. CASE broken'
    BY <2>2 DEF OnItsWay
  <2>3. CASE caller[c].at = "rescanning"
    <3>1. ~Storing(c, v)
      BY <2>3 DEF Storing
    <3>2. QED BY <2>1, <3>1, <1>1, <1>2, <1>3, <1>4 DEF OnItsWay
  <2>4. QED BY <2>2, <2>3
<1>7. QED BY <1>1, <1>2, <1>5, <1>6 DEF PlacesTyped, PlacesInv, MediaInv

\* The job is stored and joins the queue.
LEMMA EnqueueKeeps ==
  ASSUME MediaInv, NEW c \in Callers, Awaits(c),
         caller[c].at = "storing" \/ caller[c].url \notin ids,
         ids' = ids \cup {caller[c].url}, queue' = Append(queue, caller[c].url),
         Returns(c), UNCHANGED <<slot, closed>>, broken => broken'
  PROVE  PlacesTyped' /\ PlacesInv'
<1>1. PICK p \in CallerState : p = caller[c]
  BY DEF MediaInv, PlacesTyped
<1>2. PICK u \in Urls : u = p.url
  BY <1>1, CallerFields DEF Awaits
<1>3. p.at = "storing" \/ u \notin ids
  BY <1>1, <1>2
<1>4. p.at = "storing" => Storing(c, u)
  BY <1>1, <1>2 DEF Storing
<1>5. Once(u)
  BY DEF MediaInv, PlacesInv
<1>6. /\ ~InQueue(u) /\ \A s \in Slots : ~Scanned(s, u)
      /\ \A d \in Callers : Storing(d, u) => d = c
  BY <1>3, <1>4, <1>5 DEF Once
<1>7. PICK q \in Seq(Urls) : q = queue
  BY DEF MediaInv, PlacesTyped
<1>8. PICK r : r = Append(q, u)
  OBVIOUS
<1>9. queue' = r /\ ids' = ids \cup {u} /\ slot' = slot /\ closed' = closed
  BY <1>1, <1>2, <1>7, <1>8
<1>10. /\ r \in Seq(Urls) /\ Distinct(r)
       /\ \A v : Has(r, v) <=> Has(q, v) \/ v = u
  <2>1. Distinct(q) /\ ~Has(q, u)
    BY <1>6, <1>7 DEF MediaInv, PlacesInv, InQueue
  <2>2. QED BY <2>1, <1>8, QueueGains
<1>11. \A v : InQueue(v)' <=> InQueue(v) \/ v = u
  BY <1>7, <1>9, <1>10 DEF InQueue
<1>12. /\ caller' \in [Callers -> CallerState]
       /\ \A v : ~Storing(c, v)'
       /\ \A d \in Callers : \A v : d # c => (Storing(d, v)' <=> Storing(d, v))
  BY ReturnsChange
<1>13. \A s \in Slots : \A v : Scanned(s, v)' <=> Scanned(s, v)
  BY <1>9 DEF Scanned
<1>14. \A v : Storing(c, v) => v = u
  BY <1>1, <1>2 DEF Storing
<1>15. ASSUME NEW v \in Urls PROVE Once(v)'
  <2>1. Once(v)
    BY DEF MediaInv, PlacesInv
  <2>2. QED BY <2>1, <1>6, <1>9, <1>11, <1>12, <1>13 DEF Once
<1>16. ASSUME NEW v \in ids' PROVE OnItsWay(v)'
  <2>1. CASE v = u
    BY <2>1, <1>11 DEF OnItsWay
  <2>2. CASE v # u
    <3>1. OnItsWay(v)
      BY <2>2, <1>9 DEF MediaInv, PlacesInv
    <3>2. QED BY <2>2, <3>1, <1>9, <1>11, <1>12, <1>13, <1>14 DEF OnItsWay
  <2>3. QED BY <2>1, <2>2
<1>17. PlacesInv'
  BY <1>9, <1>10, <1>15, <1>16 DEF PlacesInv
<1>18. PlacesTyped'
  BY <1>9, <1>10, <1>12 DEF PlacesTyped, MediaInv
<1>19. QED BY <1>17, <1>18

LEMMA WriteSucceedsKeeps ==
  ASSUME MediaInv, WriteSucceeds
  PROVE  MediaInv'
<1>1. /\ writes # <<>> /\ ~broken
      /\ disk' = Head(writes).store /\ writes' = Tail(writes)
      /\ data' = data /\ broken' = broken /\ expired' = expired
      /\ closed' = closed /\ restarts' = restarts
  BY DEF WriteSucceeds
<1>2. PICK by \in Waiters : by = Head(writes).by
  BY <1>1, HeadOfWrites DEF Writes
<1>3. Awaits(by) /\ OneWriteEach(writes') /\ Among(writes', writes) /\ NoneOf(writes', by)
  BY <1>1, <1>2, HeadOfWrites
<1>4. \/ by \in Slots /\ Finished(by) /\ UNCHANGED caller
      \/ /\ by \in Callers
         /\ caller[by].at = "storing" \/ caller[by].url \notin ids
         /\ ids' = ids \cup {caller[by].url}
         /\ queue' = Append(queue, caller[by].url)
         /\ Returns(by)
         /\ UNCHANGED slot
      \/ /\ by \in Callers
         /\ caller[by].at = "rescanning"
         /\ Returns(by)
         /\ UNCHANGED jobVars
  BY <1>2 DEF WriteSucceeds
<1>5. StoreInv'
  <2>1. PICK w \in Seq(Writes), d \in FiniteStores, k \in FiniteStores :
          w = writes /\ d = data /\ k = disk
    BY DEF MediaInv, StoreInv
  <2>2. PICK rest : rest = Tail(w)
    OBVIOUS
  <2>3. PICK h : h = Head(w)
    OBVIOUS
  <2>4. Chain(k, w, d) /\ w # <<>>
    BY <1>1, <2>1 DEF MediaInv, StoreInv
  <2>5. Chain(h.store, rest, d)
    BY <2>1, <2>2, <2>3, <2>4, ChainShrinks
  <2>6. disk' = h.store /\ writes' = rest /\ data' = d
    BY <1>1, <2>1, <2>2, <2>3
  <2>7. rest \in Seq(Writes) /\ h \in Writes
    BY <1>1, <2>1, <2>2, <2>3, HeadOfWrites
  <2>8. h.store \in FiniteStores
    BY <2>7 DEF Writes
  <2>9. NotServed(d, expired')
    BY <1>1, <2>1 DEF MediaInv, StoreInv
  <2>10. QED BY <1>1, <2>1, <2>5, <2>6, <2>7, <2>8, <2>9 DEF StoreInv
<1>6. PlacesTyped' /\ PlacesInv' /\ \A x \in Waiters : Awaits(x) /\ x # by => Awaits(x)'
  <2>1. CASE by \in Slots /\ Finished(by) /\ UNCHANGED caller
    BY <2>1, <1>1, <1>3, FinishedKeeps
  <2>2. CASE /\ by \in Callers
             /\ caller[by].at = "storing" \/ caller[by].url \notin ids
             /\ ids' = ids \cup {caller[by].url}
             /\ queue' = Append(queue, caller[by].url)
             /\ Returns(by)
             /\ UNCHANGED slot
    <3>1. PlacesTyped' /\ PlacesInv'
      BY <2>2, <1>1, <1>3, EnqueueKeeps
    <3>2. QED BY <3>1, <2>2, ReturnsChange
  <2>3. CASE /\ by \in Callers
             /\ caller[by].at = "rescanning"
             /\ Returns(by)
             /\ UNCHANGED jobVars
    <3>1. PlacesTyped' /\ PlacesInv'
      BY <2>3, <1>1, ReturnsKeeps
    <3>2. slot' = slot
      BY <2>3 DEF jobVars
    <3>3. QED BY <3>1, <3>2, <2>3, ReturnsChange
  <2>4. QED BY <1>4, <2>1, <2>2, <2>3
<1>7. WritersInv'
  BY <1>3, <1>6, OneLessWaits
<1>8. QED BY <1>1, <1>5, <1>6, <1>7 DEF MediaInv

LEMMA WriteFailsKeeps ==
  ASSUME MediaInv, WriteFails
  PROVE  MediaInv'
<1>1. /\ writes # <<>> /\ broken'
      /\ disk' = disk /\ closed' = closed /\ restarts' = restarts
  BY DEF WriteFails
<1>2. PICK by \in Waiters : by = Head(writes).by
  BY <1>1, HeadOfWrites DEF Writes
<1>3. /\ Awaits(by) /\ OneWriteEach(Tail(writes)) /\ Among(Tail(writes), writes)
      /\ NoneOf(Tail(writes), by) /\ Tail(writes) \in Seq(Writes)
  BY <1>1, <1>2, HeadOfWrites
<1>4. CASE /\ by \in Callers
           /\ writes' = Tail(writes)
           /\ Returns(by)
           /\ UNCHANGED <<data, expired, jobVars>>
  <2>1. PlacesTyped' /\ PlacesInv'
    BY <1>1, <1>4, ReturnsKeeps
  <2>2. slot' = slot
    BY <1>4 DEF jobVars
  <2>3. \A x \in Waiters : Awaits(x) /\ x # by => Awaits(x)'
    BY <1>4, <2>2, ReturnsChange
  <2>4. WritersInv'
    BY <1>3, <1>4, <2>3, OneLessWaits
  <2>5. StoreInv'
    BY <1>1, <1>3, <1>4 DEF StoreInv, MediaInv
  <2>6. QED BY <1>1, <2>1, <2>4, <2>5 DEF MediaInv
<1>5. CASE /\ by \in Slots
           /\ writes' = Tail(writes)
           /\ Finished(by)
           /\ UNCHANGED <<data, expired, caller>>
  <2>1. /\ PlacesTyped' /\ PlacesInv'
        /\ \A x \in Waiters : Awaits(x) /\ x # by => Awaits(x)'
    BY <1>1, <1>3, <1>5, FinishedKeeps
  <2>2. WritersInv'
    BY <1>3, <1>5, <2>1, OneLessWaits
  <2>3. StoreInv'
    BY <1>1, <1>3, <1>5 DEF StoreInv, MediaInv
  <2>4. QED BY <1>1, <2>1, <2>2, <2>3 DEF MediaInv
<1>6. CASE /\ by \in Slots /\ slot[by].at = "saving"
           /\ data' = Completed(slot[by].url, "unavailable")
           /\ writes' = Append(Tail(writes), [store |-> Snapshot(data'), by |-> by])
           /\ slot' = [slot EXCEPT ![by].at = "excusing"]
           /\ expired' = expired \ {slot[by].url}
           /\ UNCHANGED <<queue, ids, caller>>
  <2>1. PICK p0 \in SlotState : p0 = slot[by]
    BY <1>6 DEF MediaInv, PlacesTyped
  <2>2. PICK u \in Urls : u = p0.url
    BY <1>6, <2>1, SlotFields
  <2>3. PICK p : p = [at |-> "excusing", url |-> u]
    OBVIOUS
  <2>4. p \in SlotState /\ p.at = "excusing" /\ p.url = u
    BY <2>3 DEF SlotState
  <2>5. slot' = [slot EXCEPT ![by] = p]
    <3>1. [p0 EXCEPT !.at = "excusing"] = p
      BY <1>6, <2>1, <2>2, <2>3 DEF SlotState, Free
    <3>2. QED BY <3>1, <1>6, <2>1
  <2>6. /\ slot' \in [Slots -> SlotState] /\ slot'[by] = p
        /\ \A t \in Slots : t # by => slot'[t] = slot[t]
        /\ \A v : Scanned(by, v)' <=> v = u
        /\ \A t \in Slots : \A v : t # by => (Scanned(t, v)' <=> Scanned(t, v))
    <3>1. PlacesTyped /\ by \in Slots
      BY <1>6 DEF MediaInv
    <3>2. QED BY <3>1, <2>4, <2>5, SlotChange
  <2>7. PICK d \in FiniteStores : d = data
    BY DEF MediaInv, StoreInv
  <2>8. PICK t : t = [d EXCEPT !.jobs = @ \ {u}, !.verdict[u] = "unavailable"]
    OBVIOUS
  <2>9. t \in FiniteStores /\ NotServed(t, expired \ {u})
    <3>1. NotServed(d, expired)
      BY <2>7 DEF MediaInv, StoreInv
    <3>2. PICK verdict \in {"scanned", "unavailable"} : verdict = "unavailable"
      OBVIOUS
    <3>3. t = [d EXCEPT !.jobs = @ \ {u}, !.verdict[u] = verdict]
      BY <2>8, <3>2
    <3>4. QED BY <3>1, <3>3, CompletingKeeps
  <2>10. data' = t /\ expired' = expired \ {u} /\ caller' = caller
    BY <1>6, <2>1, <2>2, <2>7, <2>8 DEF Completed
  <2>11. PICK e : e = [store |-> t, by |-> by]
    OBVIOUS
  <2>12. e \in Writes /\ e.by = by
    BY <2>9, <2>11 DEF Writes
  <2>13. PICK rest \in Seq(Writes) : rest = Tail(writes)
    BY <1>3
  <2>14. PICK more : more = Append(rest, e)
    OBVIOUS
  <2>15. writes' = more
    BY <1>6, <2>10, <2>11, <2>13, <2>14 DEF Snapshot
  <2>16. more \in Seq(Writes) /\ OneWriteEach(more) /\ AmongOr(more, rest, e.by)
    <3>1. OneWriteEach(rest) /\ NoneOf(rest, e.by) /\ e \in Writes
      BY <1>3, <2>12, <2>13
    <3>2. QED BY <3>1, <2>14, WaitersGrow
  <2>17. AmongOr(writes', writes, by)
    <3>1. Among(rest, writes)
      BY <1>3, <2>13
    <3>2. QED BY <3>1, <2>12, <2>15, <2>16 DEF Among, AmongOr
  <2>18. WritersInv'
    <3>1. Awaits(by)'
      BY <1>6, <2>4, <2>6, Apart DEF Awaits
    <3>2. ASSUME NEW x \in Waiters, Awaits(x), x # by PROVE Awaits(x)'
      BY <3>2, <2>6, <2>10 DEF Awaits
    <3>3. QED BY <3>1, <3>2, <2>15, <2>16, <2>17, OneMoreWaits
  <2>19. \A v : Scanned(by, v) <=> v = u
    BY <1>6, <2>1, <2>2 DEF Scanned
  <2>20. \A r \in Slots : \A v : Scanned(r, v)' <=> Scanned(r, v)
    BY <2>6, <2>19
  <2>21. \A v : InQueue(v)' <=> InQueue(v)
    BY <1>6 DEF InQueue
  <2>22. \A c \in Callers : \A v : Storing(c, v)' <=> Storing(c, v)
    BY <1>6 DEF Storing
  <2>23. ASSUME NEW v \in Urls PROVE Once(v)'
    <3>1. Once(v)
      BY DEF MediaInv, PlacesInv
    <3>2. QED BY <3>1, <1>6, <2>20, <2>21, <2>22 DEF Once
  <2>24. ASSUME NEW v \in ids' PROVE OnItsWay(v)'
    BY <1>1 DEF OnItsWay
  <2>25. PlacesInv'
    BY <1>6, <2>23, <2>24 DEF PlacesInv, MediaInv
  <2>26. PlacesTyped'
    BY <1>6, <2>6 DEF PlacesTyped, MediaInv
  <2>27. StoreInv'
    BY <1>1, <2>9, <2>10, <2>15, <2>16 DEF StoreInv, MediaInv
  <2>28. QED BY <1>1, <2>18, <2>25, <2>26, <2>27 DEF MediaInv
<1>7. QED BY <1>2, <1>4, <1>5, <1>6 DEF WriteFails

LEMMA NothingQueued == <<>> \in Seq(Urls) /\ Distinct(<<>>) /\ \A v : ~Has(<<>>, v)
<1>1. PICK none \in Seq(Urls) : none = <<>> /\ Len(none) = 0
  BY EmptySeq
<1>2. 1..Len(none) = {}
  BY <1>1
<1>3. Distinct(none) /\ \A v : ~Has(none, v)
  BY <1>2 DEF Distinct, Has
<1>4. QED BY <1>1, <1>3

LEMMA CloseKeeps ==
  ASSUME MediaInv, Close
  PROVE  MediaInv'
<1>1. /\ closed' /\ queue' = <<>>
      /\ UNCHANGED <<storeVars, ids, slot, caller, restarts>>
  BY DEF Close
<1>2. /\ UNCHANGED <<data, disk, writes, broken, expired>>
      /\ UNCHANGED <<ids, slot, caller, restarts>>
  BY <1>1 DEF storeVars
<1>3. \A s \in Slots : \A v : Scanned(s, v)' <=> Scanned(s, v)
  BY <1>2 DEF Scanned
<1>4. \A d \in Callers : \A v : Storing(d, v)' <=> Storing(d, v)
  BY <1>2 DEF Storing
<1>5. \A v : ~InQueue(v)'
  BY <1>1, NothingQueued DEF InQueue
<1>6. ASSUME NEW v \in Urls PROVE Once(v)'
  <2>1. Once(v)
    BY DEF MediaInv, PlacesInv
  <2>2. QED BY <2>1, <1>2, <1>3, <1>4, <1>5 DEF Once
<1>7. \A v \in ids' : OnItsWay(v)'
  BY <1>1 DEF OnItsWay
<1>8. PlacesInv'
  BY <1>1, <1>6, <1>7, NothingQueued DEF PlacesInv
<1>9. PlacesTyped'
  BY <1>1, <1>2, NothingQueued DEF PlacesTyped, MediaInv
<1>10. StoreInv'
  BY <1>2 DEF MediaInv, StoreInv
<1>11. WritersInv'
  BY <1>2, WritersStay DEF MediaInv
<1>12. QED BY <1>2, <1>8, <1>9, <1>10, <1>11 DEF MediaInv

\* A new process, whose queue has the jobs of the file.
LEMMA FreshPlaces ==
  ASSUME queue' \in Seq(Urls), Distinct(queue'), ids' = {u \in Urls : InQueue(u)'},
         slot' = [s \in Slots |-> Free], caller' = [c \in Callers |-> Idle]
  PROVE  PlacesTyped' /\ PlacesInv'
<1>1. \A s \in Slots : \A v : ~Scanned(s, v)'
  BY DEF Scanned, Free
<1>2. \A c \in Callers : \A v : ~Storing(c, v)'
  BY DEF Storing, Idle
<1>3. \A v \in Urls : Once(v)'
  BY <1>1, <1>2 DEF Once
<1>4. \A v \in ids' : OnItsWay(v)'
  BY DEF OnItsWay
<1>5. PlacesTyped'
  BY FreeIsFree, IdleIsIdle DEF PlacesTyped
<1>6. QED BY <1>3, <1>4, <1>5 DEF PlacesInv

LEMMA NoWrites ==
  /\ <<>> \in Seq(Writes) /\ OneWriteEach(<<>>) /\ \A n \in 1..Len(<<>>) : FALSE
  /\ \A d : Chain(d, <<>>, d)
<1>1. PICK none \in Seq(Writes) : none = <<>> /\ Len(none) = 0
  BY EmptySeq
<1>2. 1..Len(none) = {}
  BY <1>1
<1>3. OneWriteEach(none) /\ \A d : Chain(d, none, d)
  BY <1>1, <1>2 DEF OneWriteEach, Chain
<1>4. QED BY <1>1, <1>2, <1>3

LEMMA RestartKeeps ==
  ASSUME MediaInv, Restart
  PROVE  MediaInv'
<1>1. /\ restarts < MaxRestarts /\ restarts' = restarts + 1
      /\ data' = disk /\ writes' = <<>> /\ disk' = disk
      /\ disk.jobs \cap Dated(disk) \subseteq expired'
      /\ queue' \in Recovered(disk)
      /\ ids' = ToSet(queue')
      /\ slot' = [s \in Slots |-> Free]
      /\ caller' = [c \in Callers |-> Idle]
  BY DEF Restart
<1>2. PICK k \in FiniteStores : k = disk
  BY DEF MediaInv, StoreInv
<1>3. k.jobs \in SUBSET Urls /\ IsFiniteSet(k.jobs)
  BY StoreFields
<1>4. PICK n \in Nat : n = Cardinality(k.jobs)
  BY <1>3, FS_CardinalityType
<1>5. PICK q : q = queue'
  OBVIOUS
<1>6. q \in [1..n -> k.jobs] /\ \A i, j \in 1..n : i # j => q[i] # q[j]
  BY <1>1, <1>2, <1>4, <1>5 DEF Recovered, SetToSeqs
<1>7. q \in [1..n -> Urls]
  BY <1>3, <1>6
<1>8. q \in Seq(Urls) /\ Len(q) = n
  BY <1>7
<1>9. Distinct(q) /\ ToSet(q) = {u \in Urls : Has(q, u)}
  BY <1>6, <1>7, <1>8 DEF Distinct, Has, ToSet
<1>10. ids' = {u \in Urls : InQueue(u)'}
  BY <1>1, <1>5, <1>9 DEF InQueue
<1>11. PlacesTyped' /\ PlacesInv'
  BY <1>1, <1>5, <1>8, <1>9, <1>10, FreshPlaces
<1>12. WritersInv'
  BY <1>1, NoWrites DEF WritersInv
<1>13. StoreInv'
  <2>1. NotServed(k, expired')
    BY <1>1, <1>2, <1>3 DEF NotServed, Dated
  <2>2. QED BY <2>1, <1>1, <1>2, NoWrites DEF StoreInv
<1>14. restarts' \in 0..MaxRestarts
  BY <1>1, MediaAssumption DEF MediaInv
<1>15. QED BY <1>11, <1>12, <1>13, <1>14 DEF MediaInv

LEMMA MediaInit == Init => MediaInv
<1> SUFFICES ASSUME Init PROVE MediaInv
  OBVIOUS
<1>1. Empty \in FiniteStores /\ NotServed(Empty, expired)
  <2>1. [u \in Urls |-> "none"] \in [Urls -> Verdicts]
    BY DEF Verdicts
  <2>2. {} \in {j \in SUBSET Urls : IsFiniteSet(j)}
    BY FS_EmptySet
  <2>3. QED BY <2>1, <2>2 DEF Empty, FiniteStores, NotServed
<1>2. StoreInv
  BY <1>1, NoWrites DEF Init, StoreInv
<1>3. WritersInv
  BY NoWrites DEF Init, WritersInv
<1>4. \A s \in Slots : \A v : ~Scanned(s, v)
  BY DEF Scanned, Free, Init
<1>5. \A c \in Callers : \A v : ~Storing(c, v)
  BY DEF Storing, Idle, Init
<1>6. \A v : ~InQueue(v)
  BY NothingQueued DEF InQueue, Init
<1>7. PlacesInv
  BY <1>4, <1>5, <1>6, NothingQueued DEF PlacesInv, Once, Init
<1>8. PlacesTyped
  BY FreeIsFree, IdleIsIdle, NothingQueued DEF PlacesTyped, Init
<1>9. QED BY <1>2, <1>3, <1>7, <1>8, MediaAssumption DEF MediaInv, Init

LEMMA MediaStep == MediaInv /\ [Next]_vars => MediaInv'
<1> SUFFICES ASSUME MediaInv, [Next]_vars PROVE MediaInv'
  OBVIOUS
<1>1. CASE Pump
  BY <1>1, PumpKeeps
<1>2. CASE Step
  <2>1. CASE \E c \in Callers, u \in Urls : VerdictFor(c, u) \/ Rescan(c, u)
    BY <2>1, VerdictForKeeps, RescanKeeps
  <2>2. CASE \E u \in Urls : Expire(u)
    BY <2>2, ExpireKeeps
  <2>3. CASE \E s \in Slots : Analyzed(s)
    BY <2>3, AnalyzedKeeps
  <2>4. CASE WriteSucceeds
    BY <2>4, WriteSucceedsKeeps
  <2>5. CASE WriteFails
    BY <2>5, WriteFailsKeeps
  <2>6. CASE Close
    BY <2>6, CloseKeeps
  <2>7. CASE Restart
    BY <2>7, RestartKeeps
  <2>8. QED BY <1>2, <2>1, <2>2, <2>3, <2>4, <2>5, <2>6, <2>7 DEF Step
<1>3. CASE UNCHANGED vars
  <2>1. UNCHANGED <<data, disk, writes, broken, expired>> /\ UNCHANGED <<jobVars, slot, caller, closed, restarts>>
    BY <1>3 DEF vars, storeVars, jobVars
  <2>2. StoreInv'
    BY <2>1 DEF MediaInv, StoreInv
  <2>3. QED BY <2>1, <2>2, PlacesStay, WritersStay DEF MediaInv
<1>4. QED BY <1>1, <1>2, <1>3 DEF Next

----------------------------------------------------------------------------

THEOREM MediaInvariant == Spec => []MediaInv
BY MediaInit, MediaStep, PTL DEF Spec

\* The store keeps its shape in memory and in the file, which agree whenever
\* nothing is being written, and no stored job has a verdict served instead.
THEOREM MediaTypeOK == Spec => []TypeOK
<1>1. MediaInv => TypeOK
  <2> SUFFICES ASSUME MediaInv PROVE TypeOK
    OBVIOUS
  <2>1. data \in Stores /\ disk \in Stores
    BY DEF MediaInv, StoreInv, FiniteStores, Stores, Verdicts
  <2>2. FileHoldsStore
    BY DEF MediaInv, StoreInv, FileHoldsStore, Chain
  <2>3. \A n \in DOMAIN writes : writes[n].by \in Callers \cup Slots
    <3>1. PICK w \in Seq(Writes) : w = writes
      BY DEF MediaInv, StoreInv
    <3>2. \A n \in DOMAIN w : w[n].by \in Waiters
      BY LenProperties, WriteFields
    <3>3. QED BY <3>1, <3>2 DEF Waiters
  <2>4. QED BY <2>1, <2>2, <2>3 DEF MediaInv, StoreInv, NotServed, PlacesTyped, TypeOK
<1>2. QED BY MediaInvariant, <1>1, PTL

\* However requests, rescans, failing writes and restarts overlap, no URL waits
\* twice or is scanned twice at a time, and none stays "pending" without being on
\* its way, while writes succeed and the service is open.
THEOREM MediaQueueIsSound == Spec => []QueueIsSound
<1>1. MediaInv => QueueIsSound
  <2> SUFFICES ASSUME MediaInv PROVE QueueIsSound
    OBVIOUS
  <2>1. /\ ToSet(queue) = {u \in Urls : InQueue(u)}
        /\ IsInjective(queue)
    BY QueueElements DEF MediaInv, PlacesTyped, PlacesInv
  <2>2. ASSUME NEW s \in Running
        PROVE  s \in Slots /\ slot[s].url \in Urls /\ Scanned(s, slot[s].url)
    <3>1. PICK p \in SlotState : p = slot[s] /\ p # Free
      BY DEF MediaInv, PlacesTyped, Running
    <3>2. QED BY <3>1, SlotFields DEF Scanned, Running
  <2>3. ASSUME NEW s \in Slots, NEW u, Scanned(s, u) PROVE s \in Running /\ slot[s].url = u
    BY <2>3 DEF Scanned, Running, Free
  <2>4. \A u \in Urls : Once(u)
    BY DEF MediaInv, PlacesInv
  <2>5. \A s \in Running : slot[s].url \notin ToSet(queue)
    BY <2>1, <2>2, <2>4 DEF Once
  <2>6. ASSUME NEW s \in Running, NEW t \in Running, slot[s].url = slot[t].url PROVE s = t
    <3>1. PICK u \in Urls : u = slot[s].url
      BY <2>2
    <3>2. Scanned(s, u) /\ Scanned(t, u) /\ s \in Slots /\ t \in Slots
      BY <3>1, <2>2, <2>6
    <3>3. Once(u)
      BY <2>4
    <3>4. QED BY <3>2, <3>3 DEF Once
  <2>7. OneScanPerUrl
    BY <2>1, <2>5, <2>6 DEF OneScanPerUrl
  <2>8. ASSUME NEW u \in ids
        PROVE  \/ broken \/ closed
               \/ u \in ToSet(queue)
               \/ \E s \in Running : slot[s].url = u
               \/ \E c \in Callers : caller[c].at = "storing" /\ caller[c].url = u
    <3>1. u \in Urls /\ OnItsWay(u)
      BY DEF MediaInv, PlacesInv, PlacesTyped
    <3>2. QED BY <3>1, <2>1, <2>3 DEF OnItsWay, Storing
  <2>9. QueuedIsOnItsWay
    BY <2>8 DEF QueuedIsOnItsWay
  <2>10. QED BY <2>7, <2>9 DEF QueueIsSound
<1>2. QED BY MediaInvariant, <1>1, PTL

\* A job leaves the file in the very write that brings its verdict, so that no
\* crash can lose it.
THEOREM MediaJobsLeaveWithVerdict == Spec => JobsLeaveWithVerdict
<1>1. ASSUME MediaInv, [Next]_vars, disk' # disk, NEW u \in disk.jobs \ disk'.jobs
      PROVE  disk'.verdict[u] # "none"
  <2>1. WriteSucceeds
    BY <1>1 DEF Next, Step, Pump, VerdictFor, Rescan, Expire, Analyzed, WriteFails, Close,
                Restart, vars, storeVars
  <2>2. writes # <<>> /\ ~broken /\ disk' = Head(writes).store
    BY <2>1 DEF WriteSucceeds
  <2>3. PICK w \in Seq(Writes) : w = writes
    BY <1>1 DEF MediaInv, StoreInv
  <2>4. Head(w) = w[1]
    BY <2>2, <2>3
  <2>5. Promise(disk, w[1].store)
    BY <1>1, <2>2, <2>3 DEF MediaInv, StoreInv, Chain
  <2>6. QED BY <1>1, <2>2, <2>3, <2>4, <2>5 DEF Promise
<1>2. MediaInv /\ [Next]_vars => [\A u \in disk.jobs \ disk'.jobs : disk'.verdict[u] # "none"]_disk
  BY <1>1
<1>3. QED BY MediaInvariant, <1>2, PTL DEF Spec, JobsLeaveWithVerdict

=============================================================================

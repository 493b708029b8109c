---------------------------- MODULE Confessions ----------------------------
(***************************************************************************)
(* Confessions and their mirror on X (web/server.ts): createConfession,    *)
(* and the timer and interval runs that post a recorded confession to X.   *)
(* They share the confess store, a JSON file that every change reads and   *)
(* writes whole inside withConfessLedgerLock.                              *)
(*                                                                         *)
(* A step ends at an await.  The admission proof of a confession determines*)
(* its event, so one identity stands for both.  All confessions are of one *)
(* day, and a retry's nextAttemptAt may have passed whenever a run starts. *)
(***************************************************************************)
EXTENDS Integers, FiniteSets

CONSTANTS
  Confessions,   \* admission proofs clients submit
  TextOf,        \* confession -> its mirror text
  Creators,      \* concurrent createConfession calls
  Runners,       \* concurrent timers and processPendingConfessXMirrors runs
  DailyLimit,    \* confessDailyLimit
  MaxAttempts,   \* confessXMaxAttempts
  Lossy,         \* requests that X may carry out without our hearing of it
  MaxTweets,     \* tweets of one confession past which we do not count
  MaxCrashes

ASSUME ConfessAssumption ==
  /\ DailyLimit \in Nat
  /\ MaxAttempts \in Nat \ {0}
  /\ MaxTweets \in Nat \ {0}
  /\ MaxCrashes \in Nat
  /\ Lossy \subseteq {"tweet", "reply"}
  /\ DOMAIN TextOf = Confessions
  /\ Creators \cap Runners = {}
  /\ "free" \notin Creators \cup Runners

VARIABLES
  posts,      \* the store file: confession -> xMirror of its row
  lock,       \* call that runs inside withConfessLedgerLock, or "free"
  creator,    \* createConfession call -> where it is, with the store it read
  runner,     \* mirror run -> where it is, with the mirrors it read
  timers,     \* scheduleConfessXMirror: mirrors about to be processed
  inFlight,   \* confessXMirrorInFlight
  onRelays,   \* confessions some relay has
  tweets,     \* X: confession -> number of original posts
  replies,    \* X: <<confession, post>> that carry a thread reply
  crashes

xVars == <<tweets, replies>>
vars == <<posts, lock, creator, runner, timers, inFlight, onRelays, xVars, crashes>>

\* A row's mirror; media and tweet are the identities X gave, 0 for none.
NoRow == [status |-> "none", retryable |-> FALSE, attempts |-> 0, media |-> 0, tweet |-> 0]
Pending == [NoRow EXCEPT !.status = "pending", !.retryable = TRUE]
Blocked == [NoRow EXCEPT !.status = "blocked"]
Recorded(store) == {e \in Confessions : store[e].status # "none"}

\* Operators named Faulty... are plausible mistakes in the definition that
\* follows them; no other definition uses them.
FaultyRetriedForEver(mirror, retryable) ==
  [mirror EXCEPT !.status = "failed", !.attempts = @ + 1, !.retryable = retryable]
FaultyAttemptForgotten(mirror, retryable) ==
  [mirror EXCEPT !.status = "failed",
                 !.retryable = retryable /\ mirror.attempts + 1 < MaxAttempts]
Failed(mirror, retryable) ==
  [mirror EXCEPT !.status = "failed", !.attempts = @ + 1,
                 !.retryable = retryable /\ mirror.attempts + 1 < MaxAttempts]

Idle == [at |-> "idle"]

Init ==
  /\ posts = [e \in Confessions |-> NoRow]
  /\ lock = "free"
  /\ creator = [c \in Creators |-> Idle]
  /\ runner = [r \in Runners |-> Idle]
  /\ timers = {}
  /\ inFlight = {}
  /\ onRelays = {}
  /\ tweets = [e \in Confessions |-> 0]
  /\ replies = {}
  /\ crashes = 0

FaultyTakeHeld(call) == lock' = call
Take(call) == lock = "free" /\ lock' = call
Release == lock' = "free"

----------------------------------------------------------------------------
(* createConfession *)

Creating(c, state) == creator' = [creator EXCEPT ![c] = state]

FaultyAdmitsOneMore(store, e) ==
  Cardinality(Recorded(store)) <= DailyLimit /\ e \notin Recorded(store)

\* The cap and the proof are checked in the store as it is under the lock.
Admits(store, e) == Cardinality(Recorded(store)) < DailyLimit /\ e \notin Recorded(store)

Admit(c, e) ==
  /\ creator[c] = Idle
  /\ Take(c)
  /\ Creating(c, [at |-> "reading", confession |-> e])
  /\ UNCHANGED <<posts, runner, timers, inFlight, onRelays, xVars, crashes>>

Check(c) ==
  /\ creator[c].at = "reading"
  /\ LET e == creator[c].confession
     IN  \/ /\ Admits(posts, e)
            /\ Creating(c, [at |-> "publishing", confession |-> e, store |-> posts])
            /\ UNCHANGED lock
         \/ ~Admits(posts, e) /\ Creating(c, Idle) /\ Release
  /\ UNCHANGED <<posts, runner, timers, inFlight, onRelays, xVars, crashes>>

\* Publishing throws when no relay is heard to accept, though one may have it.
Publish(c) ==
  /\ creator[c].at = "publishing"
  /\ \/ /\ onRelays' = onRelays \cup {creator[c].confession}
        /\ Creating(c, [creator[c] EXCEPT !.at = "recording"])
        /\ UNCHANGED lock
     \/ /\ onRelays' \in {onRelays, onRelays \cup {creator[c].confession}}
        /\ Creating(c, Idle)
        /\ Release
  /\ UNCHANGED <<posts, runner, timers, inFlight, xVars, crashes>>

FaultyDuplicateAllowed(store, e) == {Pending, Blocked}

\* validateConfessXSafety: a text that another row mirrors is a duplicate, and
\* any text may fail the filters.
InitialMirror(store, e) ==
  IF \E f \in Recorded(store) \ {e} : TextOf[f] = TextOf[e] /\ store[f].status # "blocked"
  THEN {Blocked} ELSE {Pending, Blocked}

Record(c) ==
  /\ creator[c].at = "recording"
  /\ LET e == creator[c].confession
     IN  \E mirror \in InitialMirror(creator[c].store, e) :
           /\ posts' = [creator[c].store EXCEPT ![e] = mirror]
           /\ timers' = timers \cup
                (IF mirror.status = "pending" THEN {[confession |-> e, mirror |-> mirror]} ELSE {})
  /\ Release
  /\ Creating(c, Idle)
  /\ UNCHANGED <<runner, inFlight, onRelays, xVars, crashes>>

----------------------------------------------------------------------------
(* The mirror *)

Goto(r, state) == runner' = [runner EXCEPT ![r] = state]
Continue(r) == Goto(r, [at |-> "next", todo |-> runner[r].todo])

FirstRequest(mirror) ==
  IF mirror.media = 0 THEN "upload" ELSE IF mirror.tweet = 0 THEN "tweet" ELSE "reply"

FaultyBusy(e) == FALSE
Busy(e) == e \in inFlight

\* processConfessXMirror takes up the mirror as its caller has it.
Begin(r, item, rest) ==
  /\ ~Busy(item.confession)
  /\ inFlight' = inFlight \cup {item.confession}
  /\ Goto(r, [at |-> FirstRequest(item.mirror), confession |-> item.confession,
              mirror |-> item.mirror, media |-> item.mirror.media,
              tweet |-> item.mirror.tweet, todo |-> rest])

\* It leaves a confession that some run has in flight to that run.
Skip(item) == Busy(item.confession) /\ UNCHANGED inFlight

FireTimer(item) ==
  /\ timers' = timers \ {item}
  /\ \/ Skip(item) /\ UNCHANGED runner
     \/ \E r \in Runners : runner[r] = Idle /\ Begin(r, item, {})
  /\ UNCHANGED <<posts, lock, creator, onRelays, xVars, crashes>>

FaultyDue == {[confession |-> e, mirror |-> posts[e]] :
                e \in {f \in Confessions : posts[f].status \in {"pending", "failed"}}}

\* The store is read once, without the lock, and no await stands between its
\* contents and the first mirror; the others are taken up later, as they were.
Due == {[confession |-> e, mirror |-> posts[e]] :
          e \in {f \in Confessions : posts[f].status \in {"pending", "failed"}
                                       /\ posts[f].retryable}}

\* The run takes item up, or leaves it, and goes on with the rest of its list.
Process(r, item, rest) ==
  \/ Begin(r, item, rest)
  \/ Skip(item) /\ Goto(r, [at |-> "next", todo |-> rest])

StartPending(r, due) ==
  /\ runner[r] = Idle
  /\ due \subseteq Due
  /\ \E item \in due : Process(r, item, due \ {item})
  /\ UNCHANGED <<posts, lock, creator, timers, onRelays, xVars, crashes>>

Visit(r, item) ==
  /\ runner[r].at = "next"
  /\ item \in runner[r].todo
  /\ Process(r, item, runner[r].todo \ {item})
  /\ UNCHANGED <<posts, lock, creator, timers, onRelays, xVars, crashes>>

Finish(r) ==
  /\ runner[r].at = "next" /\ runner[r].todo = {}
  /\ Goto(r, Idle)
  /\ UNCHANGED <<posts, lock, creator, timers, inFlight, onRelays, xVars, crashes>>

\* The result of postConfessXText, to be stored over whatever the row holds.
Result(r, mirror) == Goto(r, [runner[r] EXCEPT !.at = "locking", !.mirror = mirror])

\* A request that throws, on its time limit say, is handled with the row as it
\* is found under the lock: "thrown" keeps no identity this run obtained.
Thrown(r) == Goto(r, [runner[r] EXCEPT !.at = "locking", !.mirror = NoRow])

\* What is spread into a failed mirror besides what it held: imagePatch, tweetId.
Kept(r, tweet) == [runner[r].mirror EXCEPT !.media = runner[r].media, !.tweet = tweet]

AfterUpload(r) == IF runner[r].tweet = 0 THEN "tweet" ELSE "reply"

\* An upload that throws is caught and retried like one that X refuses.
Upload(r) ==
  /\ runner[r].at = "upload"
  /\ \/ Goto(r, [runner[r] EXCEPT !.at = AfterUpload(r), !.media = 1])
     \/ \E retryable \in BOOLEAN : Result(r, Failed(runner[r].mirror, retryable))
  /\ UNCHANGED xVars

NewTweet(e) ==
  tweets' = [tweets EXCEPT ![e] = IF @ < MaxTweets THEN @ + 1 ELSE @]

Tweet(r) ==
  /\ runner[r].at = "tweet"
  /\ LET e == runner[r].confession
     IN  \/ NewTweet(e) /\ Goto(r, [runner[r] EXCEPT !.at = "reply", !.tweet = tweets'[e]])
         \/ \E retryable \in BOOLEAN :
              Result(r, Failed(Kept(r, runner[r].mirror.tweet), retryable)) /\ UNCHANGED tweets
         \/ Thrown(r) /\ (UNCHANGED tweets \/ ("tweet" \in Lossy /\ NewTweet(e)))
  /\ UNCHANGED replies

Reply(r) ==
  /\ runner[r].at = "reply"
  /\ LET replied == replies \cup {<<runner[r].confession, runner[r].tweet>>}
         mirror == Kept(r, runner[r].tweet)
     IN  \/ /\ Result(r, [mirror EXCEPT !.status = "posted", !.retryable = FALSE,
                                        !.attempts = @ + 1])
            /\ replies' = replied
         \/ \E retryable \in BOOLEAN : Result(r, Failed(mirror, retryable)) /\ UNCHANGED replies
         \/ Thrown(r) /\ (UNCHANGED replies \/ ("reply" \in Lossy /\ replies' = replied))
  /\ UNCHANGED tweets

\* A timer of 0 ms that a run has overtaken fires before an answer of X comes.
TimerDue == \E item \in timers : Busy(item.confession)

Request(r) ==
  /\ ~TimerDue
  /\ Upload(r) \/ Tweet(r) \/ Reply(r)
  /\ UNCHANGED <<posts, lock, creator, timers, inFlight, onRelays, crashes>>

\* updateConfessXMirror: lock, read, change, write, unlock.
Lock(r) ==
  /\ runner[r].at = "locking"
  /\ Take(r)
  /\ Goto(r, [runner[r] EXCEPT !.at = "loading"])
  /\ UNCHANGED <<posts, creator, timers, inFlight, onRelays, xVars, crashes>>

Updated(store, e, mirror) ==
  [store EXCEPT ![e] = IF mirror = NoRow THEN Failed(@, TRUE) ELSE mirror]

Load(r) ==
  /\ runner[r].at = "loading"
  /\ Goto(r, [at |-> "saving", confession |-> runner[r].confession, todo |-> runner[r].todo,
              store |-> Updated(posts, runner[r].confession, runner[r].mirror)])
  /\ UNCHANGED <<posts, lock, creator, timers, inFlight, onRelays, xVars, crashes>>

Save(r) ==
  /\ runner[r].at = "saving"
  /\ posts' = runner[r].store
  /\ Release
  /\ inFlight' = inFlight \ {runner[r].confession}
  /\ Continue(r)
  /\ UNCHANGED <<creator, timers, onRelays, xVars, crashes>>

----------------------------------------------------------------------------

\* The file is replaced by rename: a crash leaves one store or the next.
Crash ==
  /\ crashes < MaxCrashes
  /\ crashes' = crashes + 1
  /\ lock' = "free"
  /\ creator' = [c \in Creators |-> Idle]
  /\ runner' = [r \in Runners |-> Idle]
  /\ timers' = {}
  /\ inFlight' = {}
  /\ UNCHANGED <<posts, onRelays, xVars>>

Create(c) == Check(c) \/ Publish(c) \/ Record(c)
Mirror(r) ==
  \/ runner[r].at = "next" /\ \E item \in runner[r].todo : Visit(r, item)
  \/ Finish(r) \/ Request(r) \/ Lock(r) \/ Load(r) \/ Save(r)

Next ==
  \/ \E c \in Creators, e \in Confessions : Admit(c, e)
  \/ \E c \in Creators : Create(c)
  \/ \E item \in timers : FireTimer(item)
  \/ \E r \in Runners, due \in SUBSET Due : StartPending(r, due)
  \/ \E r \in Runners : Mirror(r)
  \/ Crash

Spec == Init /\ [][Next]_vars

\* Requests to X end on their time limit, timers fire, the lock queue is first
\* come first served, and the interval comes round to every mirror that can be
\* retried.
Fairness ==
  /\ \A c \in Creators : WF_vars(Create(c))
  /\ \A e \in Confessions :
       WF_vars(\E item \in timers : item.confession = e /\ FireTimer(item))
  /\ \A r \in Runners : WF_vars(Mirror(r)) /\ SF_vars(Lock(r))
  /\ \A e \in Confessions :
       SF_vars(\E r \in Runners, due \in SUBSET Due :
                 StartPending(r, due) /\ \E item \in due : item.confession = e)

FairSpec == Spec /\ Fairness

----------------------------------------------------------------------------

MirrorRow ==
  [status : {"none", "pending", "blocked", "failed", "posted"}, retryable : BOOLEAN,
   attempts : Nat, media : 0..1, tweet : 0..MaxTweets]

\* Stored mirrors have the fields of ConfessXMirror; the attempts of a row that
\* can be retried never run past the configured maximum, however runs overlap.
TypeOK ==
  /\ posts \in [Confessions -> MirrorRow]
  /\ \A e \in Confessions : posts[e].retryable => posts[e].attempts < MaxAttempts
  /\ lock \in Creators \cup Runners \cup {"free"}
  /\ inFlight \subseteq Confessions
  /\ onRelays \subseteq Confessions
  /\ tweets \in [Confessions -> 0..MaxTweets]

\* The daily cap holds for calls that overlap, and a recorded confession is one
\* the relays have.
CapHolds ==
  /\ Cardinality(Recorded(posts)) <= DailyLimit
  /\ Recorded(posts) \subseteq onRelays

\* No store write loses a confession another call recorded in the meantime.
NothingLost == [][Recorded(posts) \subseteq Recorded(posts')]_posts

\* The same words go to X for one confession only, however many are published
\* at the same time.
TextMirroredOnce ==
  \A e, f \in Confessions :
    e # f /\ TextOf[e] = TextOf[f] => tweets[e] = 0 \/ tweets[f] = 0

\* Two runs never talk to X about one confession at the same time.
OnePoster ==
  \A r, s \in Runners :
    r # s /\ runner[r].at \in {"upload", "tweet", "reply"}
          /\ runner[s].at \in {"upload", "tweet", "reply"}
      => runner[r].confession # runner[s].confession

\* A mirror that says "posted" names an X post that exists and was replied to.
PostedIsOnX ==
  \A e \in Confessions : posts[e].status = "posted" =>
    posts[e].tweet \in 1..tweets[e] /\ <<e, posts[e].tweet>> \in replies

\* X shows the same words for one confession only, no two runs talk to X about
\* one confession at a time, and what a row says of X is true.  A confession may
\* still be posted a second time, by a run after another one: SettledIsLeftAlone
\* says by which runs not, StoredPostIsReused that it happens.
MirrorsAreHonest == TextMirroredOnce /\ OnePoster /\ PostedIsOnX

\* Somebody has a copy of the mirror of a confession: a timer, or a run that
\* has it on its list or works on it.
CopyIn(state, e) ==
  \/ state.at # "idle" /\ \E item \in state.todo : item.confession = e
  \/ state.at \notin {"idle", "next"} /\ state.confession = e
Copied(e) ==
  \/ \E item \in timers : item.confession = e
  \/ \E r \in Runners : CopyIn(runner[r], e)

Settled(e) == e \in Recorded(posts) /\ ~posts[e].retryable /\ ~Copied(e)
OnX(e) == <<tweets[e], {n \in 1..MaxTweets : <<e, n>> \in replies}>>

\* Once a confession is posted, blocked or given up, and no copy of its mirror
\* from before is left, it is settled for good: no run takes it up again, its
\* row stays as it is whatever else is written to the file, and X gets neither
\* a post nor a reply of it.  Only a run that read its list before can.
SettledIsLeftAlone ==
  [][\A e \in Confessions : Settled(e) =>
       Settled(e)' /\ posts'[e] = posts[e] /\ OnX(e)' = OnX(e)]_vars

\* In the end every mirror is posted, blocked or given up, for good: retries do
\* not go on for ever, even when overlapping runs write back the attempts they
\* read long ago.
MirrorSettles == <>[](\A e \in Confessions : ~posts[e].retryable)

\* Said of the mirror: if the reply fails after the original X post succeeded,
\* retries reuse the stored identity of that post and only retry the reply.  So
\* a confession whose row has failed with that identity is not posted again.
StoredPostIsReused ==
  [][\A e \in Confessions :
       posts[e].status = "failed" /\ posts[e].tweet # 0 => tweets'[e] = tweets[e]]_vars
=============================================================================

------------------------- MODULE ConfessionsProofs -------------------------
(***************************************************************************)
(* Proofs about Confessions, for any number of confessions, of concurrent  *)
(* createConfession calls and of mirror runs: types, the daily cap, that   *)
(* no store write loses a confession, what X shows, and that what is       *)
(* settled is left alone.                                                  *)
(*                                                                         *)
(* Two facts carry the invariant.  Whoever holds a copy of the store that  *)
(* it will write back holds the lock, so the copy is still the store; and  *)
(* whoever talks to X about a confession has it in confessXMirrorInFlight, *)
(* so nobody else does.                                                    *)
(***************************************************************************)
EXTENDS Confessions, FiniteSetTheorems, TLAPS

Item == [confession : Confessions, mirror : MirrorRow]
Store == [Confessions -> MirrorRow]
AtX == {"upload", "tweet", "reply"}
Storing == {"locking", "loading"}

ReadingState == [at : {"reading"}, confession : Confessions]
AdmittedState == [at : {"publishing", "recording"}, confession : Confessions, store : Store]
CreatorState == {Idle} \cup ReadingState \cup AdmittedState

NextState == [at : {"next"}, todo : SUBSET Item]
WorkState == [at : AtX \cup Storing, confession : Confessions, mirror : MirrorRow,
              media : 0..1, tweet : 0..MaxTweets, todo : SUBSET Item]
SavingState == [at : {"saving"}, confession : Confessions, todo : SUBSET Item, store : Store]
RunnerState == {Idle} \cup NextState \cup WorkState \cup SavingState

StatesTyped ==
  /\ posts \in Store
  /\ lock \in Creators \cup Runners \cup {"free"}
  /\ creator \in [Creators -> CreatorState]
  /\ runner \in [Runners -> RunnerState]
  /\ timers \in SUBSET Item
  /\ inFlight \subseteq Confessions
  /\ onRelays \subseteq Confessions
  /\ tweets \in [Confessions -> 0..MaxTweets]

\* A copy of the store that will be written back is held under the lock.
LockIsHeld ==
  /\ \A c \in Creators : creator[c].at \in {"reading", "publishing", "recording"} => lock = c
  /\ \A r \in Runners : runner[r].at \in {"loading", "saving"} => lock = r

\* A confession whose text X may show.
Mirrorable(e) == posts[e].status \notin {"none", "blocked"}

\* What a mirror says of X is true of X, and its attempts are below the maximum
\* while it can be retried.
GoodMirror(e, mirror) ==
  /\ mirror \in MirrorRow
  /\ mirror.retryable => mirror.attempts < MaxAttempts
  /\ mirror.tweet <= tweets[e]
  /\ mirror.status = "posted" => mirror.tweet >= 1 /\ <<e, mirror.tweet>> \in replies
GoodItem(item) == Mirrorable(item.confession) /\ GoodMirror(item.confession, item.mirror)

RowsAreGood == \A e \in Confessions : GoodMirror(e, posts[e])
TimersAreGood == \A item \in timers : GoodItem(item)

\* What a createConfession call admitted is still to be admitted when it writes.
CreatorGood(c) ==
  creator[c].at \in {"publishing", "recording"} =>
    /\ creator[c].store = posts
    /\ Admits(posts, creator[c].confession)
    /\ creator[c].at = "recording" => creator[c].confession \in onRelays

\* A run that is busy with a confession between two requests to X.
Working(r) == runner[r].at \in AtX \cup Storing
RunnerGood(r) ==
  /\ runner[r].at # "idle" => \A item \in runner[r].todo : GoodItem(item)
  /\ Working(r) \/ runner[r].at = "saving" =>
       runner[r].confession \in inFlight /\ Mirrorable(runner[r].confession)
  /\ Working(r) =>
       /\ GoodMirror(runner[r].confession, runner[r].mirror)
       /\ runner[r].tweet <= tweets[runner[r].confession]
  /\ runner[r].at = "reply" => runner[r].tweet >= 1
  /\ runner[r].at \in Storing =>
       runner[r].mirror = NoRow \/ runner[r].mirror.status \in {"failed", "posted"}
  /\ runner[r].at = "saving" =>
       /\ \A e \in Confessions \ {runner[r].confession} : runner[r].store[e] = posts[e]
       /\ runner[r].store[runner[r].confession].status \in {"failed", "posted"}
       /\ GoodMirror(runner[r].confession, runner[r].store[runner[r].confession])

\* No two runs are busy with the same confession.
Busies(r) == Working(r) \/ runner[r].at = "saving"
OneRunEach ==
  \A r, s \in Runners : Busies(r) /\ Busies(s) /\ runner[r].confession = runner[s].confession
                          => r = s

TextsMirrorableOnce ==
  \A e, f \in Confessions :
    e # f /\ TextOf[e] = TextOf[f] => ~Mirrorable(e) \/ ~Mirrorable(f)
TweetsAreMirrorable == \A e \in Confessions : tweets[e] > 0 => Mirrorable(e)

ConfessInv ==
  /\ StatesTyped
  /\ LockIsHeld
  /\ RowsAreGood /\ TimersAreGood
  /\ \A c \in Creators : CreatorGood(c)
  /\ \A r \in Runners : RunnerGood(r)
  /\ OneRunEach
  /\ TextsMirrorableOnce /\ TweetsAreMirrorable
  /\ IsFiniteSet(Recorded(posts)) /\ CapHolds

----------------------------------------------------------------------------
(* Values *)

LEMMA RunnerFields ==
  ASSUME NEW s \in RunnerState
  PROVE  /\ s.at = "idle" => s = Idle
         /\ s.at = "next" => s \in NextState
         /\ s.at \in AtX \cup Storing => s \in WorkState
         /\ s.at = "saving" => s \in SavingState
         /\ s.at \in {"idle", "next", "saving"} \cup AtX \cup Storing
BY DEF RunnerState, Idle, NextState, WorkState, SavingState, AtX, Storing

LEMMA CreatorFields ==
  ASSUME NEW s \in CreatorState
  PROVE  /\ s.at \in {"idle", "reading", "publishing", "recording"}
         /\ s.at = "reading" => s \in ReadingState
         /\ s.at \in {"publishing", "recording"} => s \in AdmittedState
BY DEF CreatorState, Idle, ReadingState, AdmittedState

LEMMA WorkFields ==
  ASSUME NEW s \in WorkState
  PROVE  /\ s.confession \in Confessions /\ s.mirror \in MirrorRow /\ s.media \in 0..1
         /\ s.tweet \in 0..MaxTweets /\ s.todo \in SUBSET Item
         /\ s.at \in AtX \cup Storing
BY DEF WorkState

\* What a run changes of its local variables after an answer of X.
LEMMA WorkChanges ==
  ASSUME NEW s \in WorkState, NEW a \in AtX \cup Storing
  PROVE  /\ LET t == [s EXCEPT !.at = a]
            IN  /\ t \in WorkState /\ t.at = a /\ t.confession = s.confession
                /\ t.mirror = s.mirror /\ t.tweet = s.tweet /\ t.todo = s.todo
         /\ \A m \in MirrorRow :
              LET t == [s EXCEPT !.at = a, !.mirror = m]
              IN  /\ t \in WorkState /\ t.at = a /\ t.confession = s.confession
                  /\ t.mirror = m /\ t.tweet = s.tweet /\ t.todo = s.todo
         /\ \A n \in 0..1 :
              LET t == [s EXCEPT !.at = a, !.media = n]
              IN  /\ t \in WorkState /\ t.at = a /\ t.confession = s.confession
                  /\ t.mirror = s.mirror /\ t.tweet = s.tweet /\ t.todo = s.todo
         /\ \A n \in 0..MaxTweets :
              LET t == [s EXCEPT !.at = a, !.tweet = n]
              IN  /\ t \in WorkState /\ t.at = a /\ t.confession = s.confession
                  /\ t.mirror = s.mirror /\ t.tweet = n /\ t.todo = s.todo
BY DEF WorkState

LEMMA MirrorValues ==
  /\ NoRow \in MirrorRow /\ Pending \in MirrorRow /\ Blocked \in MirrorRow
  /\ NoRow.status = "none" /\ Pending.status = "pending" /\ Blocked.status = "blocked"
  /\ ~NoRow.retryable /\ ~Blocked.retryable /\ Pending.attempts = 0
  /\ NoRow.tweet = 0 /\ Pending.tweet = 0 /\ Blocked.tweet = 0
<1>1. MaxTweets \in Nat /\ 0 \in 0..MaxTweets
  BY ConfessAssumption
<1>2. NoRow \in MirrorRow /\ NoRow.status = "none" /\ ~NoRow.retryable /\ NoRow.tweet = 0
      /\ NoRow.attempts = 0
  BY <1>1 DEF NoRow, MirrorRow
<1> HIDE DEF NoRow
<1>3. Pending \in MirrorRow
  BY <1>2 DEF Pending, MirrorRow
<1>4. Pending.status = "pending" /\ Pending.attempts = 0 /\ Pending.tweet = 0
  BY <1>2 DEF Pending, MirrorRow
<1>5. Blocked \in MirrorRow
  BY <1>2 DEF Blocked, MirrorRow
<1>6. Blocked.status = "blocked" /\ Blocked.tweet = 0 /\ ~Blocked.retryable
  BY <1>2 DEF Blocked, MirrorRow
<1>7. QED BY <1>2, <1>3, <1>4, <1>5, <1>6

LEMMA MirrorFields ==
  ASSUME NEW m \in MirrorRow
  PROVE  /\ m.status \in {"none", "pending", "blocked", "failed", "posted"}
         /\ m.attempts \in Nat /\ m.media \in 0..1 /\ m.tweet \in 0..MaxTweets
         /\ m.retryable \in BOOLEAN
BY DEF MirrorRow

LEMMA FailedRow ==
  ASSUME NEW m \in MirrorRow, NEW b \in BOOLEAN
  PROVE  /\ Failed(m, b) \in MirrorRow
         /\ Failed(m, b).status = "failed" /\ Failed(m, b).tweet = m.tweet
         /\ Failed(m, b).retryable => Failed(m, b).attempts < MaxAttempts
<1> DEFINE again == b /\ m.attempts + 1 < MaxAttempts
           tried == m.attempts + 1
<1>1. Failed(m, b) = [m EXCEPT !.status = "failed", !.attempts = tried, !.retryable = again]
  BY DEF Failed
<1>2. tried \in Nat /\ again \in BOOLEAN /\ (again => tried < MaxAttempts)
  BY MirrorFields
<1> HIDE DEF again, tried
<1> DEFINE row == [m EXCEPT !.status = "failed", !.attempts = tried, !.retryable = again]
<1>3. row \in MirrorRow
  BY <1>2 DEF MirrorRow
<1>4. row.status = "failed" /\ row.tweet = m.tweet /\ row.attempts = tried
  BY DEF MirrorRow
<1>5. row.retryable = again
  BY DEF MirrorRow
<1> HIDE DEF row
<1>6. Failed(m, b) = row
  BY <1>1 DEF row
<1>7. QED BY <1>2, <1>3, <1>4, <1>5, <1>6

\* What is kept of a run's answers keeps its kind.
LEMMA KeptRow ==
  ASSUME NEW m \in MirrorRow, NEW md \in 0..1, NEW t \in 0..MaxTweets
  PROVE  LET k == [m EXCEPT !.media = md, !.tweet = t]
         IN  /\ k \in MirrorRow /\ k.status = m.status /\ k.tweet = t
             /\ k.retryable = m.retryable /\ k.attempts = m.attempts
BY DEF MirrorRow

LEMMA PostedRow ==
  ASSUME NEW m \in MirrorRow
  PROVE  LET k == [m EXCEPT !.status = "posted", !.retryable = FALSE, !.attempts = @ + 1]
         IN  /\ k \in MirrorRow /\ k.status = "posted" /\ k.tweet = m.tweet /\ ~k.retryable
<1> DEFINE tried == m.attempts + 1
           k == [m EXCEPT !.status = "posted", !.retryable = FALSE, !.attempts = tried]
<1>1. tried \in Nat
  BY MirrorFields
<1> HIDE DEF tried
<1>2. k \in MirrorRow
  BY <1>1 DEF MirrorRow
<1>3. k.status = "posted" /\ k.tweet = m.tweet
  BY DEF MirrorRow
<1>4. ~k.retryable
  BY DEF MirrorRow
<1>5. QED BY <1>2, <1>3, <1>4 DEF tried

----------------------------------------------------------------------------
(* What stays good while X and the store move on *)

\* X forgets nothing, and a text that may be shown is not blocked later.
Grows ==
  /\ tweets' \in [Confessions -> 0..MaxTweets]
  /\ \A e \in Confessions : tweets[e] <= tweets'[e]
  /\ replies \subseteq replies'
  /\ \A e \in Confessions : Mirrorable(e) => Mirrorable(e)'

LEMMA MirrorStays ==
  ASSUME StatesTyped, Grows, NEW e \in Confessions, NEW m, GoodMirror(e, m)
  PROVE  GoodMirror(e, m)'
<1>1. m.tweet \in Int /\ tweets[e] \in Int /\ tweets'[e] \in Int
  BY MirrorFields DEF GoodMirror, StatesTyped, Grows
<1>2. tweets[e] <= tweets'[e] /\ replies \subseteq replies'
  BY DEF Grows
<1>3. QED BY <1>1, <1>2 DEF GoodMirror

LEMMA ItemStays ==
  ASSUME StatesTyped, Grows, NEW item \in Item, GoodItem(item)
  PROVE  GoodItem(item)'
<1>1. item.confession \in Confessions
  BY DEF Item
<1>2. QED BY <1>1, MirrorStays DEF GoodItem, Grows

LEMMA RunnerStays ==
  ASSUME ConfessInv, Grows, NEW s \in Runners, runner'[s] = runner[s],
         Busies(s) => runner[s].confession \in inFlight',
         runner[s].at = "saving" => posts' = posts
  PROVE  RunnerGood(s)'
<1>0. StatesTyped /\ RunnerGood(s) /\ runner[s] \in RunnerState
  BY DEF ConfessInv, StatesTyped
<1>1. runner[s].at # "idle" => \A item \in runner[s].todo : GoodItem(item)'
  <2> SUFFICES ASSUME runner[s].at # "idle", NEW item \in runner[s].todo
               PROVE  GoodItem(item)'
    OBVIOUS
  <2>1. item \in Item /\ GoodItem(item)
    BY <1>0, RunnerFields DEF RunnerGood, NextState, WorkState, SavingState
  <2>2. QED BY <1>0, <2>1, ItemStays
<1>2. Busies(s) => runner[s].confession \in Confessions
  BY <1>0, RunnerFields DEF Busies, Working, WorkState, SavingState
<1>3. Busies(s) => Mirrorable(runner[s].confession)'
  <2>1. Busies(s) => Mirrorable(runner[s].confession)
    BY <1>0 DEF RunnerGood, Busies
  <2> DEFINE e == runner[s].confession
  <2>2. e' = e
    OBVIOUS
  <2> HIDE DEF e
  <2>3. e \in Confessions /\ Mirrorable(e) => Mirrorable(e)'
    BY <2>2 DEF Grows, Mirrorable
  <2>4. QED BY <1>2, <2>1, <2>3 DEF e
<1>4. Working(s) =>
        /\ GoodMirror(runner[s].confession, runner[s].mirror)'
        /\ runner[s].tweet <= tweets'[runner[s].confession]
  <2> SUFFICES ASSUME Working(s)
               PROVE  /\ GoodMirror(runner[s].confession, runner[s].mirror)'
                      /\ runner[s].tweet <= tweets'[runner[s].confession]
    OBVIOUS
  <2> DEFINE e == runner[s].confession
             m == runner[s].mirror
             n == runner[s].tweet
  <2>1. e' = e /\ m' = m
    OBVIOUS
  <2>2. e \in Confessions /\ GoodMirror(e, m) /\ n <= tweets[e]
    BY <1>0, <1>2 DEF RunnerGood, Busies
  <2>3. n \in Int
    BY <1>0, RunnerFields, ConfessAssumption DEF Working, WorkState
  <2> HIDE DEF e, m, n
  <2>4. GoodMirror(e, m)'
    BY <1>0, <2>1, <2>2, MirrorStays
  <2>5. n <= tweets'[e]
    <3>1. tweets[e] \in Int /\ tweets'[e] \in Int /\ tweets[e] <= tweets'[e]
      BY <1>0, <2>2, ConfessAssumption DEF StatesTyped, Grows
    <3>2. QED BY <2>2, <2>3, <3>1
  <2>6. QED BY <2>4, <2>5 DEF e, m, n
<1>5. runner[s].at = "saving" =>
        /\ \A e \in Confessions \ {runner[s].confession} : runner[s].store[e] = posts'[e]
        /\ runner[s].store[runner[s].confession].status \in {"failed", "posted"}
        /\ GoodMirror(runner[s].confession, runner[s].store[runner[s].confession])'
  <2> SUFFICES ASSUME runner[s].at = "saving"
               PROVE  /\ \A e \in Confessions \ {runner[s].confession} :
                            runner[s].store[e] = posts'[e]
                      /\ runner[s].store[runner[s].confession].status \in {"failed", "posted"}
                      /\ GoodMirror(runner[s].confession,
                                    runner[s].store[runner[s].confession])'
    OBVIOUS
  <2> DEFINE e == runner[s].confession
             m == runner[s].store[e]
  <2>1. e' = e /\ m' = m
    OBVIOUS
  <2>2. e \in Confessions /\ GoodMirror(e, m)
    BY <1>0, <1>2 DEF RunnerGood, Busies
  <2>3. /\ \A f \in Confessions \ {e} : runner[s].store[f] = posts'[f]
        /\ m.status \in {"failed", "posted"}
    BY <1>0 DEF RunnerGood
  <2> HIDE DEF e, m
  <2>4. GoodMirror(e, m)'
    BY <1>0, <2>1, <2>2, MirrorStays
  <2>5. QED BY <2>3, <2>4 DEF e, m
<1>6. /\ Working(s)' <=> Working(s)
      /\ Busies(s)' <=> Busies(s)
  BY DEF Working, Busies
<1>7. /\ runner[s].at = "reply" => runner[s].tweet >= 1
      /\ runner[s].at \in Storing =>
           runner[s].mirror = NoRow \/ runner[s].mirror.status \in {"failed", "posted"}
  BY <1>0 DEF RunnerGood
<1>8. QED
  BY <1>1, <1>3, <1>4, <1>5, <1>6, <1>7 DEF RunnerGood, Busies

LEMMA QuietX ==
  ASSUME StatesTyped, posts' = posts, UNCHANGED xVars
  PROVE  Grows
<1>1. \A e \in Confessions : tweets[e] \in Int
  BY ConfessAssumption DEF StatesTyped
<1>2. tweets' = tweets /\ replies' = replies
  BY DEF xVars
<1>3. \A e \in Confessions : tweets[e] <= tweets'[e]
  BY <1>1, <1>2
<1>4. QED BY <1>2, <1>3 DEF Grows, StatesTyped, Mirrorable

LEMMA StoreStays ==
  ASSUME ConfessInv, Grows, posts' = posts, onRelays \subseteq onRelays'
  PROVE  /\ RowsAreGood' /\ TextsMirrorableOnce'
         /\ IsFiniteSet(Recorded(posts))' /\ CapHolds'
         /\ \A c \in Creators : creator'[c] = creator[c] => CreatorGood(c)'
<1>1. RowsAreGood'
  <2> SUFFICES ASSUME NEW e \in Confessions PROVE GoodMirror(e, posts[e])'
    BY DEF RowsAreGood
  <2> DEFINE m == posts[e]
  <2>1. GoodMirror(e, m) /\ m' = m
    BY DEF ConfessInv, RowsAreGood
  <2> HIDE DEF m
  <2>2. GoodMirror(e, m)'
    BY <2>1, MirrorStays DEF ConfessInv
  <2>3. QED BY <2>2 DEF m
<1>2. TextsMirrorableOnce'
  BY DEF ConfessInv, TextsMirrorableOnce, Mirrorable
<1>3. Recorded(posts)' = Recorded(posts)
  BY DEF Recorded
<1>4. IsFiniteSet(Recorded(posts))' /\ CapHolds'
  BY <1>3 DEF ConfessInv, CapHolds
<1>5. ASSUME NEW c \in Creators, creator'[c] = creator[c] PROVE CreatorGood(c)'
  <2>1. CreatorGood(c)
    BY DEF ConfessInv
  <2>2. QED BY <1>5, <2>1 DEF CreatorGood, Admits, Recorded
<1>6. QED BY <1>1, <1>2, <1>4, <1>5

LEMMA TimersStay ==
  ASSUME ConfessInv, Grows, timers' \subseteq timers
  PROVE  TimersAreGood' /\ timers' \in SUBSET Item
<1>1. ASSUME NEW item \in timers' PROVE GoodItem(item)'
  <2>1. item \in Item /\ GoodItem(item)
    BY DEF ConfessInv, StatesTyped, TimersAreGood
  <2>2. QED BY <2>1, ItemStays DEF ConfessInv
<1>2. QED BY <1>1 DEF TimersAreGood, ConfessInv, StatesTyped

\* A mirror run moves on and the store stays as it is.
LEMMA RunnerMoves ==
  ASSUME ConfessInv, Grows, NEW r \in Runners, NEW t \in RunnerState, Goto(r, t),
         posts' = posts, creator' = creator, onRelays' = onRelays, timers' \subseteq timers,
         inFlight \subseteq inFlight', inFlight' \subseteq Confessions,
         LockIsHeld', lock' \in Creators \cup Runners \cup {"free"},
         RunnerGood(r)', TweetsAreMirrorable',
         t.at \in AtX \cup Storing \cup {"saving"} =>
           \/ Busies(r) /\ t.confession = runner[r].confession
           \/ t.confession \notin inFlight
  PROVE  ConfessInv'
<1>0. StatesTyped /\ OneRunEach /\ \A s \in Runners : RunnerGood(s)
  BY DEF ConfessInv
<1>1. /\ runner' \in [Runners -> RunnerState] /\ runner'[r] = t
      /\ \A s \in Runners \ {r} : runner'[s] = runner[s]
  BY <1>0 DEF StatesTyped, Goto
<1>2. StatesTyped'
  BY <1>0, <1>1, TimersStay DEF StatesTyped, Grows
<1>3. \A s \in Runners : Busies(s) => runner[s].confession \in inFlight
  BY <1>0 DEF RunnerGood, Busies
<1>4. ASSUME NEW s \in Runners PROVE RunnerGood(s)'
  <2>1. CASE s = r
    BY <2>1
  <2>2. CASE s # r
    BY <1>1, <1>3, <2>2, RunnerStays
  <2>3. QED BY <2>1, <2>2
<1>5. OneRunEach'
  <2> SUFFICES ASSUME NEW s \in Runners, Busies(s)', Busies(r)', s # r
               PROVE  runner'[s].confession # runner'[r].confession
    BY <1>0, <1>1 DEF OneRunEach, Busies, Working
  <2>1. Busies(s) /\ runner'[s] = runner[s]
    BY <1>1 DEF Busies, Working
  <2>2. t.at \in AtX \cup Storing \cup {"saving"}
    BY <1>1 DEF Busies, Working
  <2>3. QED BY <1>0, <1>1, <1>3, <2>1, <2>2 DEF OneRunEach
<1>6. \A c \in Creators : creator'[c] = creator[c]
  OBVIOUS
<1>7. QED BY <1>2, <1>4, <1>5, <1>6, StoreStays, TimersStay DEF ConfessInv

\* A createConfession call moves on and the store stays as it is.
LEMMA CreatorMoves ==
  ASSUME ConfessInv, NEW c \in Creators, NEW t \in CreatorState, Creating(c, t),
         UNCHANGED <<posts, runner, timers, inFlight, xVars>>,
         onRelays \subseteq onRelays', onRelays' \subseteq Confessions,
         LockIsHeld', lock' \in Creators \cup Runners \cup {"free"},
         CreatorGood(c)'
  PROVE  ConfessInv'
<1>0. StatesTyped /\ OneRunEach
  BY DEF ConfessInv
<1>1. Grows
  BY <1>0, QuietX
<1>2. /\ creator' \in [Creators -> CreatorState]
      /\ \A b \in Creators \ {c} : creator'[b] = creator[b]
  BY <1>0 DEF StatesTyped, Creating
<1>3. StatesTyped'
  BY <1>0, <1>2 DEF StatesTyped, xVars
<1>4. \A s \in Runners : RunnerGood(s)'
  <2>1. \A s \in Runners : Busies(s) => runner[s].confession \in inFlight
    BY DEF ConfessInv, RunnerGood, Busies
  <2>2. QED BY <1>1, <2>1, RunnerStays
<1>5. OneRunEach'
  BY <1>0 DEF OneRunEach, Busies, Working
<1>6. TweetsAreMirrorable'
  BY DEF ConfessInv, TweetsAreMirrorable, Mirrorable, xVars
<1>7. \A b \in Creators : CreatorGood(b)'
  BY <1>1, <1>2, StoreStays
<1>8. QED BY <1>1, <1>3, <1>4, <1>5, <1>6, <1>7, StoreStays, TimersStay DEF ConfessInv

----------------------------------------------------------------------------
(* createConfession *)

Creates(c) == creator[c].at \in {"reading", "publishing", "recording"}
Writes(r) == runner[r].at \in {"loading", "saving"}

\* While one call holds the lock, or takes it, no other one does.
LEMMA NobodyElse ==
  ASSUME ConfessInv
  PROVE  /\ lock = "free" => /\ \A c \in Creators : ~Creates(c)
                             /\ \A r \in Runners : ~Writes(r)
         /\ \A c \in Creators : lock = c => /\ \A b \in Creators \ {c} : ~Creates(b)
                                            /\ \A r \in Runners : ~Writes(r)
         /\ \A r \in Runners : lock = r => /\ \A s \in Runners \ {r} : ~Writes(s)
                                           /\ \A c \in Creators : ~Creates(c)
BY ConfessAssumption DEF ConfessInv, LockIsHeld, Creates, Writes

LEMMA AdmitKeeps ==
  ASSUME ConfessInv, NEW c \in Creators, NEW e \in Confessions, Admit(c, e)
  PROVE  ConfessInv'
<1> DEFINE t == [at |-> "reading", confession |-> e]
<1>0. creator \in [Creators -> CreatorState] /\ onRelays \subseteq Confessions
  BY DEF ConfessInv, StatesTyped
<1>1. t \in CreatorState
  BY DEF CreatorState, ReadingState
<1>2. creator'[c] = t /\ Creating(c, t)
  BY <1>0 DEF Admit, Creating
<1>3. lock = "free" /\ lock' = c
  BY DEF Admit, Take
<1>4. LockIsHeld'
  BY <1>0, <1>2, <1>3, NobodyElse DEF LockIsHeld, Creates, Writes, Admit, Creating
<1>5. CreatorGood(c)'
  BY <1>2 DEF CreatorGood
<1>6. QED
  BY <1>0, <1>1, <1>2, <1>3, <1>4, <1>5, CreatorMoves DEF Admit

LEMMA CheckKeeps ==
  ASSUME ConfessInv, NEW c \in Creators, Check(c)
  PROVE  ConfessInv'
<1> DEFINE e == creator[c].confession
           t == [at |-> "publishing", confession |-> e, store |-> posts]
<1>0. creator \in [Creators -> CreatorState] /\ onRelays \subseteq Confessions /\ posts \in Store
  BY DEF ConfessInv, StatesTyped
<1>1. creator[c].at = "reading" /\ e \in Confessions /\ lock = c
  BY <1>0, CreatorFields DEF Check, ReadingState, ConfessInv, LockIsHeld
<1>2. ASSUME Admits(posts, e), Creating(c, t), lock' = lock PROVE ConfessInv'
  <2>1. t \in CreatorState
    BY <1>0, <1>1 DEF CreatorState, AdmittedState
  <2>2. creator'[c] = t
    BY <1>0, <1>2 DEF Creating
  <2>3. LockIsHeld'
    BY <1>0, <1>1, <1>2, NobodyElse DEF LockIsHeld, Creates, Writes, Check, Creating
  <2>4. t.at = "publishing" /\ t.confession = e /\ t.store = posts
    OBVIOUS
  <2>5. creator'[c].at = "publishing" /\ creator'[c].confession = e /\ creator'[c].store = posts
    BY <2>2, <2>4
  <2>6. posts' = posts
    BY DEF Check
  <2> HIDE DEF t, e
  <2>7. CreatorGood(c)'
    BY <1>2, <2>5, <2>6 DEF CreatorGood, Admits, Recorded
  <2>8. lock' \in Creators \cup Runners \cup {"free"}
    BY <1>1, <1>2
  <2>9. QED BY <1>0, <1>2, <2>1, <2>3, <2>7, <2>8, CreatorMoves DEF Check
<1>3. ASSUME Creating(c, Idle), Release PROVE ConfessInv'
  <2>1. creator'[c] = Idle /\ Idle.at = "idle" /\ Idle \in CreatorState
    BY <1>0, <1>3 DEF Creating, Idle, CreatorState
  <2>2. LockIsHeld'
    BY <1>0, <1>1, <1>3, <2>1, NobodyElse
       DEF LockIsHeld, Creates, Writes, Check, Creating, Release
  <2>3. CreatorGood(c)'
    BY <2>1 DEF CreatorGood
  <2>4. lock' \in Creators \cup Runners \cup {"free"}
    BY <1>3 DEF Release
  <2>5. QED BY <1>0, <1>3, <2>1, <2>2, <2>3, <2>4, CreatorMoves DEF Check
<1>4. QED BY <1>2, <1>3 DEF Check

LEMMA PublishKeeps ==
  ASSUME ConfessInv, NEW c \in Creators, Publish(c)
  PROVE  ConfessInv'
<1> DEFINE s == creator[c]
           t == [s EXCEPT !.at = "recording"]
<1>0. creator \in [Creators -> CreatorState] /\ onRelays \subseteq Confessions
      /\ CreatorGood(c)
  BY DEF ConfessInv, StatesTyped
<1>1. s.at = "publishing" /\ s \in AdmittedState /\ s.confession \in Confessions /\ lock = c
      /\ s.store = posts /\ Admits(posts, s.confession)
  BY <1>0, CreatorFields DEF Publish, AdmittedState, ConfessInv, LockIsHeld, CreatorGood
<1>2. ASSUME onRelays' = onRelays \cup {s.confession}, Creating(c, t), lock' = lock
      PROVE  ConfessInv'
  <2>1. t \in CreatorState
    BY <1>1 DEF CreatorState, AdmittedState
  <2>2. creator'[c] = t
    BY <1>0, <1>2 DEF Creating
  <2>3. LockIsHeld'
    BY <1>0, <1>1, <1>2, NobodyElse DEF LockIsHeld, Creates, Writes, Publish, Creating
  <2>4. t.at = "recording" /\ t.confession = s.confession /\ t.store = s.store
    BY <1>1 DEF AdmittedState
  <2>5. creator'[c].confession = s.confession /\ creator'[c].store = posts
    BY <1>1, <2>2, <2>4
  <2>6. posts' = posts
    BY DEF Publish
  <2> HIDE DEF t, s
  <2>7. CreatorGood(c)'
    BY <1>1, <1>2, <2>5, <2>6 DEF CreatorGood, Admits, Recorded
  <2>8. lock' \in Creators \cup Runners \cup {"free"}
    BY <1>1, <1>2
  <2>9. onRelays \subseteq onRelays' /\ onRelays' \subseteq Confessions
    BY <1>0, <1>1, <1>2
  <2>10. QED BY <1>2, <2>1, <2>3, <2>7, <2>8, <2>9, CreatorMoves DEF Publish
<1>3. ASSUME onRelays' \in {onRelays, onRelays \cup {s.confession}}, Creating(c, Idle), Release
      PROVE  ConfessInv'
  <2>1. creator'[c] = Idle /\ Idle.at = "idle" /\ Idle \in CreatorState
    BY <1>0, <1>3 DEF Creating, Idle, CreatorState
  <2>2. LockIsHeld'
    BY <1>0, <1>1, <1>3, <2>1, NobodyElse
       DEF LockIsHeld, Creates, Writes, Publish, Creating, Release
  <2>3. CreatorGood(c)'
    BY <2>1 DEF CreatorGood
  <2>4. lock' \in Creators \cup Runners \cup {"free"}
    BY <1>3 DEF Release
  <2>5. onRelays \subseteq onRelays' /\ onRelays' \subseteq Confessions
    BY <1>0, <1>1, <1>3
  <2>6. QED BY <1>3, <2>1, <2>2, <2>3, <2>4, <2>5, CreatorMoves DEF Publish
<1>4. QED BY <1>2, <1>3 DEF Publish

\* A recorded confession is new, and shares no text with one that X may show.
LEMMA RecordKeeps ==
  ASSUME ConfessInv, NEW c \in Creators, Record(c)
  PROVE  ConfessInv' /\ Recorded(posts) \subseteq Recorded(posts')
<1>0. StatesTyped /\ CreatorGood(c) /\ OneRunEach /\ CapHolds /\ IsFiniteSet(Recorded(posts))
      /\ TextsMirrorableOnce /\ TweetsAreMirrorable /\ RowsAreGood /\ TimersAreGood
  BY DEF ConfessInv
<1>1. PICK e \in Confessions, m \in {Pending, Blocked} :
        /\ m \in InitialMirror(posts, e)
        /\ posts' = [posts EXCEPT ![e] = m]
        /\ timers' = timers \cup
             (IF m.status = "pending" THEN {[confession |-> e, mirror |-> m]} ELSE {})
        /\ Admits(posts, e) /\ e \in onRelays
  <2>1. creator[c].at = "recording" /\ creator[c] \in AdmittedState
    BY <1>0, CreatorFields DEF StatesTyped, Record
  <2>2. creator[c].confession \in Confessions /\ creator[c].store = posts
        /\ Admits(posts, creator[c].confession) /\ creator[c].confession \in onRelays
    BY <1>0, <2>1 DEF CreatorGood, AdmittedState
  <2>3. InitialMirror(posts, creator[c].confession) \subseteq {Pending, Blocked}
    BY DEF InitialMirror
  <2>4. QED BY <2>2, <2>3 DEF Record
<1>2. m \in {Pending, Blocked} /\ m \in MirrorRow /\ m.tweet = 0
      /\ m.status \in {"pending", "blocked"}
      /\ (m.status = "pending" => m = Pending)
  BY MirrorValues DEF InitialMirror
<1>3. lock = c /\ lock' = "free" /\ creator' = [creator EXCEPT ![c] = Idle]
      /\ UNCHANGED <<runner, inFlight, onRelays, xVars>>
  BY DEF Record, ConfessInv, LockIsHeld, Release, Creating
<1>4. /\ e \notin Recorded(posts) /\ posts[e].status = "none" /\ ~Mirrorable(e)
      /\ Cardinality(Recorded(posts)) < DailyLimit
  BY <1>1 DEF Admits, Recorded, Mirrorable
<1>5. posts' \in Store /\ posts'[e] = m /\ \A f \in Confessions \ {e} : posts'[f] = posts[f]
  BY <1>0, <1>1, <1>2 DEF StatesTyped, Store
<1>6. Grows
  <2>1. \A f \in Confessions : tweets[f] \in Int
    BY <1>0, ConfessAssumption DEF StatesTyped
  <2>2. tweets' = tweets /\ replies' = replies
    BY <1>3 DEF xVars
  <2>3. \A f \in Confessions : Mirrorable(f) => Mirrorable(f)'
    BY <1>4, <1>5 DEF Mirrorable
  <2>4. QED BY <1>0, <2>1, <2>2, <2>3 DEF Grows, StatesTyped
<1>7. GoodMirror(e, m)'
  <2>1. m.retryable => m.attempts < MaxAttempts
    BY <1>2, MirrorValues, ConfessAssumption
  <2>2. 0 <= tweets'[e]
    BY <1>6, ConfessAssumption DEF Grows
  <2>3. QED BY <1>2, <2>1, <2>2 DEF GoodMirror
<1>8. StatesTyped'
  <2>1. creator' \in [Creators -> CreatorState]
    BY <1>0, <1>3 DEF StatesTyped, CreatorState
  <2>2. timers' \in SUBSET Item
    BY <1>0, <1>1, <1>2 DEF StatesTyped, Item
  <2>3. QED BY <1>0, <1>3, <1>5, <2>1, <2>2 DEF StatesTyped, xVars
<1>9. LockIsHeld' /\ \A b \in Creators : CreatorGood(b)'
  <2>1. \A b \in Creators : ~Creates(b)'
    BY <1>0, <1>3, NobodyElse DEF Creates, StatesTyped, Idle
  <2>2. \A r \in Runners : ~Writes(r)'
    BY <1>3, NobodyElse DEF Writes
  <2>3. QED BY <2>1, <2>2 DEF LockIsHeld, CreatorGood, Creates, Writes
<1>10. RowsAreGood'
  <2> SUFFICES ASSUME NEW f \in Confessions PROVE GoodMirror(f, posts[f])'
    BY DEF RowsAreGood
  <2>1. CASE f = e
    <3>1. posts'[f] = m
      BY <1>5, <2>1
    <3>2. QED BY <1>7, <2>1, <3>1 DEF GoodMirror
  <2>2. CASE f # e
    <3> DEFINE n == posts[f]
    <3>1. GoodMirror(f, n) /\ n' = n
      BY <1>0, <1>5, <2>2 DEF RowsAreGood
    <3> HIDE DEF n
    <3>2. GoodMirror(f, n)'
      BY <1>0, <1>6, <3>1, MirrorStays
    <3>3. QED BY <3>2 DEF n
  <2>3. QED BY <2>1, <2>2
<1>11. TimersAreGood'
  <2> SUFFICES ASSUME NEW item \in timers' PROVE GoodItem(item)'
    BY DEF TimersAreGood
  <2>1. CASE item \in timers
    <3>1. item \in Item /\ GoodItem(item)
      BY <1>0, <2>1 DEF StatesTyped, TimersAreGood
    <3>2. QED BY <1>0, <1>6, <3>1, ItemStays
  <2>2. CASE item \notin timers
    <3>1. item.confession = e /\ item.mirror = m /\ m.status = "pending"
      BY <1>1, <2>2
    <3>2. Mirrorable(e)'
      BY <1>5, <3>1 DEF Mirrorable
    <3>3. QED BY <1>7, <3>1, <3>2 DEF GoodItem, GoodMirror, Mirrorable
  <2>3. QED BY <2>1, <2>2
<1>12. \A r \in Runners : RunnerGood(r)'
  <2>1. \A r \in Runners : runner[r].at # "saving"
    BY <1>3, NobodyElse DEF Writes
  <2>2. \A r \in Runners : Busies(r) => runner[r].confession \in inFlight
    BY DEF ConfessInv, RunnerGood, Busies
  <2>3. QED BY <1>3, <1>6, <2>1, <2>2, RunnerStays
<1>13. OneRunEach'
  BY <1>0, <1>3 DEF OneRunEach, Busies, Working
<1>14. TextsMirrorableOnce'
  <2>1. \A f \in Confessions \ {e} : Mirrorable(f)' <=> Mirrorable(f)
    BY <1>5 DEF Mirrorable
  <2>2. Mirrorable(e)' => m # Blocked
    BY <1>2, <1>5, MirrorValues DEF Mirrorable
  <2>3. Mirrorable(e)' =>
          \A f \in Confessions \ {e} : TextOf[f] = TextOf[e] => ~Mirrorable(f)
    <3> SUFFICES ASSUME m # Blocked, NEW f \in Confessions \ {e}, TextOf[f] = TextOf[e],
                        Mirrorable(f)
                 PROVE  FALSE
      BY <2>2
    <3>1. f \in Recorded(posts) \ {e} /\ posts[f].status # "blocked"
      BY DEF Mirrorable, Recorded
    <3>2. InitialMirror(posts, e) = {Blocked}
      BY <3>1 DEF InitialMirror
    <3>3. QED BY <1>1, <3>2
  <2>4. QED BY <1>0, <2>1, <2>3 DEF TextsMirrorableOnce
<1>15. TweetsAreMirrorable'
  BY <1>0, <1>3, <1>6 DEF TweetsAreMirrorable, Grows, xVars
<1>16. Recorded(posts') = Recorded(posts) \cup {e}
  BY <1>2, <1>5 DEF Recorded
<1>17. IsFiniteSet(Recorded(posts')) /\ Cardinality(Recorded(posts')) <= DailyLimit
  <2>1. Cardinality(Recorded(posts')) = Cardinality(Recorded(posts)) + 1
    BY <1>0, <1>4, <1>16, FS_AddElement
  <2>2. Cardinality(Recorded(posts)) \in Nat
    BY <1>0, FS_CardinalityType
  <2>3. QED BY <1>0, <1>4, <1>16, <2>1, <2>2, FS_AddElement, ConfessAssumption
<1>18. CapHolds'
  BY <1>0, <1>1, <1>3, <1>16, <1>17 DEF CapHolds
<1>19. IsFiniteSet(Recorded(posts))'
  BY <1>17 DEF Recorded
<1>20. QED
  BY <1>8, <1>9, <1>10, <1>11, <1>12, <1>13, <1>14, <1>15, <1>16, <1>18, <1>19
     DEF ConfessInv

----------------------------------------------------------------------------
(* The mirror *)

\* A run that takes up mirrors which were good when they were read.
LEMMA TakesUp ==
  ASSUME ConfessInv, NEW r \in Runners, NEW todo \in SUBSET Item,
         \A item \in todo : GoodItem(item),
         runner[r].at \in {"idle", "next"}, Goto(r, [at |-> "next", todo |-> todo]),
         timers' \subseteq timers,
         UNCHANGED <<posts, lock, creator, inFlight, onRelays, xVars>>
  PROVE  ConfessInv'
<1> DEFINE t == [at |-> "next", todo |-> todo]
<1>0. StatesTyped /\ LockIsHeld /\ TweetsAreMirrorable
  BY DEF ConfessInv
<1>1. Grows
  BY <1>0, QuietX
<1>2. t \in RunnerState /\ t.at = "next" /\ t.todo = todo
  BY DEF RunnerState, NextState
<1> HIDE DEF t
<1>3. runner'[r] = t /\ \A s \in Runners \ {r} : runner'[s] = runner[s]
  BY <1>0 DEF StatesTyped, Goto, t
<1>4. LockIsHeld'
  BY <1>0, <1>2, <1>3 DEF LockIsHeld
<1>5. RunnerGood(r)'
  <2>1. \A item \in todo : GoodItem(item)'
    BY <1>0, <1>1, ItemStays
  <2>2. QED BY <1>2, <1>3, <2>1 DEF RunnerGood, Working, AtX, Storing
<1>6. TweetsAreMirrorable'
  BY <1>0 DEF TweetsAreMirrorable, Mirrorable, xVars
<1>7. t.at \notin AtX \cup Storing \cup {"saving"}
  BY <1>2 DEF AtX, Storing
<1>8. Goto(r, t)
  BY DEF t
<1>9. inFlight \subseteq inFlight' /\ inFlight' \subseteq Confessions
      /\ lock' \in Creators \cup Runners \cup {"free"}
  BY <1>0 DEF StatesTyped
<1>10. QED BY <1>1, <1>2, <1>4, <1>5, <1>6, <1>7, <1>8, <1>9, RunnerMoves

\* A run that is busy with a confession moves to its next request, or to storing.
LEMMA WorkMoves ==
  ASSUME ConfessInv, Grows, NEW r \in Runners, NEW t \in WorkState,
         NEW e \in Confessions, NEW m \in MirrorRow, Goto(r, t),
         t.confession = e, t.mirror = m,
         UNCHANGED <<posts, creator, onRelays>>, timers' \subseteq timers,
         inFlight \subseteq inFlight', inFlight' \subseteq Confessions, e \in inFlight',
         \/ Busies(r) /\ e = runner[r].confession
         \/ e \notin inFlight,
         \A item \in t.todo : GoodItem(item),
         Mirrorable(e), GoodMirror(e, m)', t.tweet <= tweets'[e],
         t.at = "reply" => t.tweet >= 1,
         t.at \in Storing => m = NoRow \/ m.status \in {"failed", "posted"},
         TweetsAreMirrorable',
         \/ lock' = lock /\ ~Writes(r) /\ t.at # "loading"
         \/ lock = "free" /\ lock' = r
  PROVE  ConfessInv'
<1>0. StatesTyped /\ LockIsHeld
  BY DEF ConfessInv
<1>1. runner'[r] = t /\ \A s \in Runners \ {r} : runner'[s] = runner[s]
  BY <1>0 DEF StatesTyped, Goto
<1>2. t \in RunnerState /\ t.at \in AtX \cup Storing /\ t.todo \in SUBSET Item
  BY WorkFields DEF RunnerState
<1>3. LockIsHeld'
  <2>1. CASE lock' = lock /\ ~Writes(r) /\ t.at # "loading"
    BY <1>0, <1>1, <1>2, <2>1 DEF LockIsHeld, Writes, AtX, Storing
  <2>2. CASE lock = "free" /\ lock' = r
    BY <1>0, <1>1, <2>2, NobodyElse DEF LockIsHeld, Creates, Writes
  <2>3. QED BY <2>1, <2>2
<1>4. lock' \in Creators \cup Runners \cup {"free"}
  BY <1>0 DEF StatesTyped
<1>5. RunnerGood(r)'
  <2>1. \A item \in t.todo : GoodItem(item)'
    BY <1>0, <1>2, ItemStays
  <2>2. Mirrorable(e)'
    BY DEF Grows
  <2>3. GoodMirror(runner[r].confession, runner[r].mirror)'
    BY <1>1 DEF GoodMirror
  <2>4. Mirrorable(runner[r].confession)'
    BY <1>1, <2>2 DEF Mirrorable
  <2>5. t.at # "saving" /\ t.at # "idle"
    BY <1>2 DEF AtX, Storing
  <2>6. runner'[r].confession \in inFlight' /\ runner'[r].tweet <= tweets'[runner'[r].confession]
    BY <1>1
  <2>7. \A item \in runner'[r].todo : GoodItem(item)'
    BY <1>1, <2>1
  <2>8. runner'[r].at = t.at /\ runner'[r].tweet = t.tweet /\ runner'[r].mirror = m
    BY <1>1
  <2>9. /\ t.at = "reply" => t.tweet >= 1
        /\ t.at \in Storing => m = NoRow \/ m.status \in {"failed", "posted"}
    OBVIOUS
  <2>10. QED BY <2>3, <2>4, <2>5, <2>6, <2>7, <2>8, <2>9 DEF RunnerGood
<1>6. /\ posts' = posts /\ creator' = creator /\ onRelays' = onRelays
      /\ timers' \subseteq timers
  OBVIOUS
<1>7. t.at \in AtX \cup Storing \cup {"saving"} =>
        \/ Busies(r) /\ t.confession = runner[r].confession
        \/ t.confession \notin inFlight
  OBVIOUS
<1>8. QED BY <1>2, <1>3, <1>4, <1>5, <1>6, <1>7, RunnerMoves

\* A run takes up a mirror that was good when it was read and that no run is
\* busy with.
LEMMA BeginKeeps ==
  ASSUME ConfessInv, NEW r \in Runners, NEW item \in Item, GoodItem(item),
         NEW rest \in SUBSET Item, \A i \in rest : GoodItem(i),
         runner[r].at \in {"idle", "next"}, Begin(r, item, rest),
         timers' \subseteq timers,
         UNCHANGED <<posts, lock, creator, onRelays, xVars>>
  PROVE  ConfessInv'
<1>0. StatesTyped /\ TweetsAreMirrorable
  BY DEF ConfessInv
<1> DEFINE e == item.confession
           m == item.mirror
           t == [at |-> FirstRequest(m), confession |-> e, mirror |-> m, media |-> m.media,
                 tweet |-> m.tweet, todo |-> rest]
<1>1. e \in Confessions /\ m \in MirrorRow /\ GoodMirror(e, m) /\ Mirrorable(e)
  BY DEF Item, GoodItem
<1>2. /\ FirstRequest(m) \in AtX /\ (FirstRequest(m) = "reply" => m.tweet # 0)
      /\ FirstRequest(m) \notin Storing
  BY DEF FirstRequest, AtX, Storing
<1>3. m.media \in 0..1 /\ m.tweet \in 0..MaxTweets
  BY <1>1, MirrorFields
<1>4. e \notin inFlight /\ inFlight' = inFlight \cup {e} /\ Goto(r, t)
  BY DEF Begin, Busy
<1>5. e' = e /\ m' = m
  OBVIOUS
<1> HIDE DEF m, e
<1>6. /\ t \in WorkState /\ t.at = FirstRequest(m) /\ t.confession = e /\ t.mirror = m
      /\ t.tweet = m.tweet /\ t.todo = rest
  BY <1>1, <1>2, <1>3 DEF WorkState
<1>7. Grows
  BY <1>0, QuietX
<1>8. GoodMirror(e, m)'
  BY <1>0, <1>1, <1>5, <1>7, MirrorStays
<1>9. m.tweet <= tweets'[e]
  BY <1>8 DEF GoodMirror
<1>10. m.tweet # 0 => m.tweet >= 1
  BY <1>3
<1>11. TweetsAreMirrorable'
  BY <1>0 DEF TweetsAreMirrorable, Mirrorable, xVars
<1>12. inFlight \subseteq inFlight' /\ inFlight' \subseteq Confessions /\ e \in inFlight'
  BY <1>0, <1>1, <1>4 DEF StatesTyped
<1>13. lock' = lock /\ ~Writes(r) /\ UNCHANGED <<posts, creator, onRelays>>
  BY DEF Writes
<1>14. Goto(r, t)
  BY <1>4
<1> HIDE DEF t
<1>15. \A i \in t.todo : GoodItem(i)
  BY <1>6
<1>16. /\ t.tweet <= tweets'[e]
       /\ t.at = "reply" => t.tweet >= 1
       /\ t.at \notin Storing /\ t.at # "loading"
  BY <1>2, <1>6, <1>9, <1>10 DEF Storing
<1>17. QED
  BY <1>1, <1>4, <1>6, <1>7, <1>8, <1>11, <1>12, <1>13, <1>14, <1>15, <1>16, WorkMoves

\* A confession that is in flight is left to the run that has it.
LEMMA ProcessKeeps ==
  ASSUME ConfessInv, NEW r \in Runners, NEW item \in Item, GoodItem(item),
         NEW rest \in SUBSET Item, \A i \in rest : GoodItem(i),
         runner[r].at \in {"idle", "next"}, Process(r, item, rest),
         UNCHANGED <<posts, lock, creator, timers, onRelays, xVars>>
  PROVE  ConfessInv'
<1>1. CASE Begin(r, item, rest)
  BY <1>1, BeginKeeps
<1>2. CASE Skip(item) /\ Goto(r, [at |-> "next", todo |-> rest])
  BY <1>2, TakesUp DEF Skip
<1>3. QED BY <1>1, <1>2 DEF Process

\* Nothing happens but that a timer is gone.
LEMMA NothingMoves ==
  ASSUME ConfessInv, timers' \subseteq timers,
         UNCHANGED <<posts, lock, creator, runner, inFlight, onRelays, tweets, replies>>
  PROVE  ConfessInv'
<1>1. StatesTyped /\ Grows
  BY QuietX DEF ConfessInv, xVars
<1>2. StatesTyped' /\ LockIsHeld' /\ TweetsAreMirrorable'
  BY <1>1, TimersStay DEF ConfessInv, StatesTyped, LockIsHeld, TweetsAreMirrorable, Mirrorable
<1>3. OneRunEach'
  BY DEF ConfessInv, OneRunEach, Busies, Working
<1>4. /\ RowsAreGood' /\ TextsMirrorableOnce' /\ IsFiniteSet(Recorded(posts))' /\ CapHolds'
      /\ \A c \in Creators : CreatorGood(c)'
  BY <1>1, StoreStays
<1>5. TimersAreGood'
  BY <1>1, TimersStay
<1>6. ASSUME NEW r \in Runners PROVE RunnerGood(r)'
  <2>1. Busies(r) => runner[r].confession \in inFlight
    BY DEF ConfessInv, RunnerGood, Busies
  <2>2. QED BY <1>1, <2>1, RunnerStays
<1>7. QED BY <1>2, <1>3, <1>4, <1>5, <1>6 DEF ConfessInv

LEMMA FireTimerKeeps ==
  ASSUME ConfessInv, NEW item \in timers, FireTimer(item)
  PROVE  ConfessInv'
<1>1. item \in Item /\ GoodItem(item) /\ timers' \subseteq timers
  BY DEF ConfessInv, StatesTyped, TimersAreGood, FireTimer
<1>2. CASE Skip(item) /\ UNCHANGED runner
  BY <1>1, <1>2, NothingMoves DEF FireTimer, Skip, xVars
<1>3. ASSUME NEW r \in Runners, runner[r] = Idle, Begin(r, item, {})
      PROVE  ConfessInv'
  <2>1. runner[r].at \in {"idle", "next"}
    BY <1>3 DEF Idle
  <2>2. PICK none \in SUBSET Item : none = {}
    OBVIOUS
  <2>3. Begin(r, item, none) /\ \A i \in none : GoodItem(i)
    BY <1>3, <2>2
  <2>4. QED BY <1>1, <2>1, <2>3, BeginKeeps DEF FireTimer
<1>4. QED BY <1>2, <1>3 DEF FireTimer

LEMMA StartPendingKeeps ==
  ASSUME ConfessInv, NEW r \in Runners, NEW due \in SUBSET Due, StartPending(r, due)
  PROVE  ConfessInv'
<1>1. \A i \in due : i \in Item /\ GoodItem(i)
  <2> SUFFICES ASSUME NEW i \in due PROVE i \in Item /\ GoodItem(i)
    OBVIOUS
  <2>1. PICK e \in Confessions : /\ posts[e].status \in {"pending", "failed"}
                                 /\ i = [confession |-> e, mirror |-> posts[e]]
    BY DEF Due
  <2>2. posts[e] \in MirrorRow /\ GoodMirror(e, posts[e])
    BY DEF ConfessInv, StatesTyped, Store, RowsAreGood
  <2>3. i.confession = e /\ i.mirror = posts[e] /\ i \in Item
    BY <2>1, <2>2 DEF Item
  <2>4. QED BY <2>1, <2>2, <2>3 DEF GoodItem, Mirrorable
<1>2. runner[r].at \in {"idle", "next"}
  BY DEF StartPending, Idle
<1>3. PICK item \in due : Process(r, item, due \ {item})
  BY DEF StartPending
<1>4. PICK rest \in SUBSET Item : rest = due \ {item}
  BY <1>1
<1>5. Process(r, item, rest) /\ \A i \in rest : GoodItem(i)
  BY <1>1, <1>3, <1>4
<1>6. item \in Item /\ GoodItem(item)
  BY <1>1
<1>7. QED BY <1>2, <1>5, <1>6, ProcessKeeps DEF StartPending

LEMMA FinishKeeps ==
  ASSUME ConfessInv, NEW r \in Runners, Finish(r)
  PROVE  ConfessInv'
<1>0. StatesTyped /\ LockIsHeld /\ TweetsAreMirrorable
  BY DEF ConfessInv
<1>1. Grows
  BY <1>0, QuietX DEF Finish
<1>2. Idle \in RunnerState /\ Idle.at = "idle"
  BY DEF RunnerState, Idle
<1>3. runner'[r] = Idle /\ \A s \in Runners \ {r} : runner'[s] = runner[s]
  BY <1>0 DEF StatesTyped, Goto, Finish
<1>4. LockIsHeld'
  BY <1>0, <1>2, <1>3 DEF LockIsHeld, Finish
<1>5. RunnerGood(r)'
  BY <1>2, <1>3 DEF RunnerGood, Working, AtX, Storing
<1>6. TweetsAreMirrorable'
  BY <1>0 DEF TweetsAreMirrorable, Mirrorable, xVars, Finish
<1>7. Idle.at \notin AtX \cup Storing \cup {"saving"}
  BY <1>2 DEF AtX, Storing
<1>9. inFlight \subseteq inFlight' /\ inFlight' \subseteq Confessions
      /\ lock' \in Creators \cup Runners \cup {"free"}
  BY <1>0 DEF StatesTyped, Finish
<1>10. QED
  BY <1>1, <1>2, <1>4, <1>5, <1>6, <1>7, <1>9, RunnerMoves DEF Finish

LEMMA VisitKeeps ==
  ASSUME ConfessInv, NEW r \in Runners, NEW item \in runner[r].todo, Visit(r, item)
  PROVE  ConfessInv'
<1>1. RunnerGood(r) /\ runner[r].at = "next" /\ runner[r] \in NextState
  BY RunnerFields DEF ConfessInv, StatesTyped, Visit
<1>2. PICK rest \in SUBSET Item : rest = runner[r].todo \ {item}
  BY <1>1 DEF NextState
<1>3. item \in Item /\ GoodItem(item) /\ \A i \in rest : GoodItem(i)
  BY <1>1, <1>2 DEF RunnerGood, NextState
<1>4. Process(r, item, rest)
  BY <1>2 DEF Visit
<1>5. QED BY <1>1, <1>3, <1>4, ProcessKeeps DEF Visit

\* X answers a run, or fails it.
LEMMA Answered ==
  ASSUME ConfessInv, Grows, NEW r \in Runners, NEW s \in WorkState, s = runner[r],
         NEW e \in Confessions, e = s.confession, s.at \in AtX,
         NEW t \in WorkState, NEW m \in MirrorRow, Goto(r, t),
         t.confession = e, t.mirror = m, t.todo = s.todo,
         UNCHANGED <<posts, lock, creator, timers, inFlight, onRelays>>,
         \A f \in Confessions \ {e} : tweets'[f] = tweets[f],
         GoodMirror(e, m)', t.tweet <= tweets'[e],
         t.at = "reply" => t.tweet >= 1,
         t.at \in Storing => m = NoRow \/ m.status \in {"failed", "posted"},
         t.at # "loading"
  PROVE  ConfessInv'
<1>0. StatesTyped /\ RunnerGood(r) /\ TweetsAreMirrorable
  BY DEF ConfessInv
<1>1. Working(r) /\ Busies(r) /\ ~Writes(r)
  BY DEF Working, Busies, Writes, AtX, Storing
<1>2. e \in inFlight /\ Mirrorable(e) /\ \A item \in t.todo : GoodItem(item)
  BY <1>0, <1>1 DEF RunnerGood, AtX
<1>3. TweetsAreMirrorable'
  <2> SUFFICES ASSUME NEW f \in Confessions, tweets'[f] > 0 PROVE Mirrorable(f)'
    BY DEF TweetsAreMirrorable
  <2>1. CASE f = e
    BY <1>2, <2>1 DEF Grows
  <2>2. CASE f # e
    BY <1>0, <2>2 DEF TweetsAreMirrorable, Grows
  <2>3. QED BY <2>1, <2>2
<1>4. inFlight \subseteq inFlight' /\ inFlight' \subseteq Confessions /\ e \in inFlight'
  BY <1>0, <1>2 DEF StatesTyped
<1>5. QED BY <1>1, <1>2, <1>3, <1>4, WorkMoves

\* The run's own record between two requests.
LEMMA AtRequest ==
  ASSUME ConfessInv, NEW r \in Runners, runner[r].at \in AtX
  PROVE  /\ StatesTyped /\ runner[r] \in WorkState
         /\ GoodMirror(runner[r].confession, runner[r].mirror)
         /\ runner[r].tweet <= tweets[runner[r].confession]
         /\ runner[r].at = "reply" => runner[r].tweet >= 1
<1>1. StatesTyped /\ RunnerGood(r) /\ runner[r] \in RunnerState /\ Working(r)
  BY DEF ConfessInv, StatesTyped, Working
<1>2. runner[r] \in WorkState
  BY <1>1, RunnerFields DEF Working
<1>3. QED BY <1>1, <1>2 DEF RunnerGood

\* X had a post before, it has it still.
LEMMA TweetStays ==
  ASSUME StatesTyped, Grows, NEW e \in Confessions, NEW n \in 0..MaxTweets, n <= tweets[e]
  PROVE  n <= tweets'[e]
<1>1. tweets[e] \in Int /\ tweets'[e] \in Int /\ tweets[e] <= tweets'[e]
  BY ConfessAssumption DEF StatesTyped, Grows
<1>2. QED BY <1>1, ConfessAssumption

\* A run takes a mirror to the store.
LEMMA ResultKeeps ==
  ASSUME ConfessInv, Grows, NEW r \in Runners, NEW s \in WorkState, s = runner[r],
         NEW e \in Confessions, e = s.confession, s.at \in AtX,
         NEW m \in MirrorRow, Goto(r, [s EXCEPT !.at = "locking", !.mirror = m]),
         UNCHANGED <<posts, lock, creator, timers, inFlight, onRelays>>,
         \A f \in Confessions \ {e} : tweets'[f] = tweets[f],
         GoodMirror(e, m)', m = NoRow \/ m.status \in {"failed", "posted"}
  PROVE  ConfessInv'
<1> DEFINE t == [s EXCEPT !.at = "locking", !.mirror = m]
<1>1. StatesTyped /\ s.tweet <= tweets[e] /\ s.tweet \in 0..MaxTweets
  BY AtRequest, WorkFields
<1>2. "locking" \in AtX \cup Storing
  BY DEF Storing
<1>3. s.tweet <= tweets'[e]
  <2>1. PICK n \in 0..MaxTweets : n = s.tweet
    BY <1>1
  <2>2. n <= tweets'[e]
    BY <1>1, <2>1, TweetStays
  <2>3. QED BY <2>1, <2>2
<1>4. /\ t \in WorkState /\ t.at = "locking" /\ t.confession = e
      /\ t.mirror = m /\ t.tweet = s.tweet /\ t.todo = s.todo
  BY <1>2 DEF WorkState
<1>5. Goto(r, t)
  OBVIOUS
<1> HIDE DEF t
<1>6. QED BY <1>3, <1>4, <1>5, Answered

LEMMA UploadKeeps ==
  ASSUME ConfessInv, NEW r \in Runners, Upload(r),
         UNCHANGED <<posts, lock, creator, timers, inFlight, onRelays>>
  PROVE  ConfessInv'
<1>0. runner[r].at \in AtX /\ runner[r].at = "upload"
  BY DEF Upload, AtX
<1>1. PICK s \in WorkState : s = runner[r]
  BY <1>0, AtRequest
<1>2. PICK e \in Confessions : e = s.confession
  BY WorkFields
<1>3. PICK m \in MirrorRow : m = s.mirror
  BY WorkFields
<1>4. StatesTyped /\ GoodMirror(e, m) /\ s.tweet <= tweets[e] /\ s.tweet \in 0..MaxTweets
  BY <1>0, <1>1, <1>2, <1>3, AtRequest, WorkFields
<1>5. Grows /\ tweets' = tweets
  BY <1>4, QuietX DEF Upload, xVars
<1>6. s.tweet = 0 \/ s.tweet >= 1
  BY <1>4, ConfessAssumption
<1>7. ASSUME Goto(r, [s EXCEPT !.at = AfterUpload(r), !.media = 1])
      PROVE  ConfessInv'
  <2>1. PICK a \in {"tweet", "reply"} : /\ a = AfterUpload(r)
                                        /\ a = "reply" => s.tweet # 0
    BY <1>1 DEF AfterUpload
  <2> DEFINE t == [s EXCEPT !.at = a, !.media = 1]
  <2>2. Goto(r, t)
    BY <1>7, <2>1
  <2>3. /\ t \in WorkState /\ t.at = a /\ t.confession = e
        /\ t.mirror = m /\ t.tweet = s.tweet /\ t.todo = s.todo
    <3>1. a \in AtX \cup Storing /\ 1 \in 0..1
      BY DEF AtX
    <3>2. QED BY <1>2, <1>3, <3>1 DEF WorkState
  <2> HIDE DEF t
  <2>4. GoodMirror(e, m)'
    BY <1>4, <1>5, MirrorStays
  <2>5. a # "loading" /\ a \notin Storing /\ (a = "reply" => s.tweet >= 1)
    BY <1>6, <2>1 DEF Storing
  <2>6. QED
    BY <1>0, <1>1, <1>2, <1>4, <1>5, <2>2, <2>3, <2>4, <2>5, Answered
<1>8. ASSUME NEW b \in BOOLEAN, Goto(r, [s EXCEPT !.at = "locking", !.mirror = Failed(m, b)])
      PROVE  ConfessInv'
  <2> DEFINE n == Failed(m, b)
  <2>1. /\ n \in MirrorRow /\ n.status = "failed" /\ n.tweet = m.tweet
        /\ n.retryable => n.attempts < MaxAttempts
    BY FailedRow
  <2>2. Goto(r, [s EXCEPT !.at = "locking", !.mirror = n])
    BY <1>8
  <2> HIDE DEF n
  <2>3. PICK k \in MirrorRow : k = n
    BY <2>1
  <2>4. GoodMirror(e, m)'
    BY <1>4, <1>5, MirrorStays
  <2>5. GoodMirror(e, k)'
    BY <2>1, <2>3, <2>4 DEF GoodMirror
  <2>6. Goto(r, [s EXCEPT !.at = "locking", !.mirror = k])
    BY <2>2, <2>3
  <2>7. k.status \in {"failed", "posted"}
    BY <2>1, <2>3
  <2>8. QED
    BY <1>0, <1>1, <1>2, <1>5, <2>5, <2>6, <2>7, ResultKeeps
<1>9. QED BY <1>1, <1>3, <1>7, <1>8 DEF Upload, Result

\* NewTweet counts one more post, up to MaxTweets.
LEMMA OneMoreTweet ==
  ASSUME StatesTyped, UNCHANGED posts, NEW e \in Confessions, NewTweet(e), UNCHANGED replies
  PROVE  /\ Grows /\ tweets'[e] \in 0..MaxTweets /\ tweets'[e] >= 1
         /\ \A f \in Confessions \ {e} : tweets'[f] = tweets[f]
<1> DEFINE n == IF tweets[e] < MaxTweets THEN tweets[e] + 1 ELSE tweets[e]
<1>1. tweets \in [Confessions -> 0..MaxTweets] /\ tweets' = [tweets EXCEPT ![e] = n]
  BY DEF StatesTyped, NewTweet
<1>2. n \in 0..MaxTweets /\ n >= 1 /\ tweets[e] <= n
  BY <1>1, ConfessAssumption
<1> HIDE DEF n
<1>3. tweets' \in [Confessions -> 0..MaxTweets] /\ tweets'[e] = n
      /\ \A f \in Confessions \ {e} : tweets'[f] = tweets[f]
  BY <1>1, <1>2
<1>4. \A f \in Confessions : tweets[f] <= tweets'[f]
  <2> SUFFICES ASSUME NEW f \in Confessions PROVE tweets[f] <= tweets'[f]
    OBVIOUS
  <2>1. tweets[f] \in Int
    BY <1>1, ConfessAssumption
  <2>2. QED BY <1>2, <1>3, <2>1
<1>5. QED BY <1>2, <1>3, <1>4 DEF Grows, Mirrorable

\* A request that throws leaves "thrown" to be handled with the row.
LEMMA ThrownKeeps ==
  ASSUME ConfessInv, Grows, NEW r \in Runners, NEW s \in WorkState, s = runner[r],
         NEW e \in Confessions, e = s.confession, s.at \in AtX, Thrown(r),
         UNCHANGED <<posts, lock, creator, timers, inFlight, onRelays>>,
         \A f \in Confessions \ {e} : tweets'[f] = tweets[f]
  PROVE  ConfessInv'
<1>1. NoRow \in MirrorRow /\ ~NoRow.retryable /\ NoRow.tweet = 0 /\ NoRow.status = "none"
  BY MirrorValues
<1>2. Goto(r, [s EXCEPT !.at = "locking", !.mirror = NoRow])
  BY DEF Thrown
<1>3. 0 <= tweets'[e]
  BY ConfessAssumption DEF Grows
<1>4. GoodMirror(e, NoRow)'
  BY <1>1, <1>3 DEF GoodMirror, NoRow
<1> HIDE DEF NoRow
<1>5. QED BY <1>1, <1>2, <1>4, ResultKeeps

LEMMA TweetKeeps ==
  ASSUME ConfessInv, NEW r \in Runners, Tweet(r),
         UNCHANGED <<posts, lock, creator, timers, inFlight, onRelays>>
  PROVE  ConfessInv'
<1>0. runner[r].at \in AtX /\ runner[r].at = "tweet"
  BY DEF Tweet, AtX
<1>1. PICK s \in WorkState : s = runner[r]
  BY <1>0, AtRequest
<1>2. PICK e \in Confessions : e = s.confession
  BY WorkFields
<1>3. PICK m \in MirrorRow : m = s.mirror
  BY WorkFields
<1>4. StatesTyped /\ GoodMirror(e, m)
  BY <1>0, <1>1, <1>2, <1>3, AtRequest
<1>5. replies' = replies
  BY DEF Tweet
<1>6. ASSUME tweets' = tweets
      PROVE  Grows /\ \A f \in Confessions \ {e} : tweets'[f] = tweets[f]
  BY <1>4, <1>5, <1>6, QuietX DEF xVars
<1>7. ASSUME NewTweet(e), Goto(r, [s EXCEPT !.at = "reply", !.tweet = tweets'[e]])
      PROVE  ConfessInv'
  <2>1. /\ Grows /\ tweets'[e] \in 0..MaxTweets /\ tweets'[e] >= 1
        /\ \A f \in Confessions \ {e} : tweets'[f] = tweets[f]
    BY <1>4, <1>5, <1>7, OneMoreTweet
  <2>2. PICK n \in 0..MaxTweets : n = tweets'[e]
    BY <2>1
  <2> DEFINE t == [s EXCEPT !.at = "reply", !.tweet = n]
  <2>3. Goto(r, t)
    BY <1>7, <2>2
  <2>4. /\ t \in WorkState /\ t.at = "reply" /\ t.confession = e
        /\ t.mirror = m /\ t.tweet = n /\ t.todo = s.todo
    <3>1. "reply" \in AtX \cup Storing
      BY DEF AtX
    <3>2. QED BY <1>2, <1>3, <3>1 DEF WorkState
  <2> HIDE DEF t
  <2>5. GoodMirror(e, m)'
    BY <1>4, <2>1, MirrorStays
  <2>6. n <= tweets'[e] /\ n >= 1
    <3>1. n \in Int
      BY ConfessAssumption
    <3>2. QED BY <2>1, <2>2, <3>1
  <2>7. "reply" \notin Storing
    BY DEF Storing
  <2>8. QED
    BY <1>0, <1>1, <1>2, <2>1, <2>3, <2>4, <2>5, <2>6, <2>7, Answered
<1>8. ASSUME NEW b \in BOOLEAN, Result(r, Failed(Kept(r, runner[r].mirror.tweet), b)),
             tweets' = tweets
      PROVE  ConfessInv'
  <2>1. PICK md \in 0..1 : md = s.media
    BY WorkFields
  <2>2. PICK tw \in 0..MaxTweets : tw = m.tweet
    BY MirrorFields
  <2> DEFINE kept == [m EXCEPT !.media = md, !.tweet = tw]
  <2>3. Kept(r, runner[r].mirror.tweet) = kept
    BY <1>1, <1>3, <2>1, <2>2 DEF Kept
  <2>4. kept \in MirrorRow /\ kept.tweet = tw
    BY KeptRow
  <2> HIDE DEF kept
  <2>5. PICK k \in MirrorRow : k = Failed(kept, b)
    BY <2>4, FailedRow
  <2>6. k.status = "failed" /\ k.tweet = tw /\ (k.retryable => k.attempts < MaxAttempts)
    BY <2>4, <2>5, FailedRow
  <2>7. Goto(r, [s EXCEPT !.at = "locking", !.mirror = k])
    BY <1>1, <1>8, <2>3, <2>5 DEF Result
  <2>8. GoodMirror(e, m)'
    BY <1>4, <1>6, <1>8, MirrorStays
  <2>9. GoodMirror(e, k)'
    BY <2>2, <2>6, <2>8 DEF GoodMirror
  <2>10. QED
    BY <1>0, <1>1, <1>2, <1>6, <1>8, <2>6, <2>7, <2>9, ResultKeeps
<1>9. ASSUME Thrown(r), tweets' = tweets \/ NewTweet(e)
      PROVE  ConfessInv'
  <2>1. Grows /\ \A f \in Confessions \ {e} : tweets'[f] = tweets[f]
    BY <1>4, <1>5, <1>6, <1>9, OneMoreTweet
  <2>2. QED BY <1>0, <1>1, <1>2, <1>9, <2>1, ThrownKeeps
<1>10. runner[r].confession = e
  BY <1>1, <1>2
<1>11. QED BY <1>1, <1>7, <1>8, <1>9, <1>10 DEF Tweet

LEMMA ReplyKeeps ==
  ASSUME ConfessInv, NEW r \in Runners, Reply(r),
         UNCHANGED <<posts, lock, creator, timers, inFlight, onRelays>>
  PROVE  ConfessInv'
<1>0. runner[r].at \in AtX /\ runner[r].at = "reply"
  BY DEF Reply, AtX
<1>1. PICK s \in WorkState : s = runner[r]
  BY <1>0, AtRequest
<1>2. PICK e \in Confessions : e = s.confession
  BY WorkFields
<1>3. PICK m \in MirrorRow : m = s.mirror
  BY WorkFields
<1>4. PICK tw \in 0..MaxTweets : tw = s.tweet
  BY WorkFields
<1>5. PICK md \in 0..1 : md = s.media
  BY WorkFields
<1>6. /\ StatesTyped /\ GoodMirror(e, m) /\ tw <= tweets[e] /\ tw >= 1
  BY <1>0, <1>1, <1>2, <1>3, <1>4, AtRequest
<1> DEFINE replied == replies \cup {<<e, tw>>}
<1>7. /\ Grows /\ \A f \in Confessions \ {e} : tweets'[f] = tweets[f]
      /\ replies' = replies \/ replies' = replied
  <2>1. tweets' = tweets /\ (replies' = replies \/ replies' = replied)
    BY <1>1, <1>2, <1>4 DEF Reply
  <2>2. \A f \in Confessions : tweets[f] <= tweets'[f]
    <3> SUFFICES ASSUME NEW f \in Confessions PROVE tweets[f] <= tweets[f]
      BY <2>1
    <3>1. tweets[f] \in Int
      BY <1>6, ConfessAssumption DEF StatesTyped
    <3>2. QED BY <3>1
  <2>3. QED BY <1>6, <2>1, <2>2 DEF Grows, StatesTyped, Mirrorable
<1>8. tw <= tweets'[e]
  BY <1>6, <1>7, TweetStays
<1> DEFINE kept == [m EXCEPT !.media = md, !.tweet = tw]
<1>9. Kept(r, runner[r].tweet) = kept /\ Kept(r, s.tweet) = kept
  BY <1>1, <1>3, <1>4, <1>5 DEF Kept
<1>10. kept \in MirrorRow /\ kept.tweet = tw
  BY KeptRow
<1> HIDE DEF kept
<1>11. PICK k \in MirrorRow : k = kept
  BY <1>10
<1>12. ASSUME NEW p, p = [k EXCEPT !.status = "posted", !.retryable = FALSE, !.attempts = @ + 1],
              Result(r, p), replies' = replied
       PROVE  ConfessInv'
  <2>1. p \in MirrorRow /\ p.status = "posted" /\ p.tweet = tw /\ ~p.retryable
    BY <1>10, <1>11, <1>12, PostedRow
  <2>2. Goto(r, [s EXCEPT !.at = "locking", !.mirror = p])
    BY <1>1, <1>12 DEF Result
  <2>3. <<e, tw>> \in replies'
    BY <1>12
  <2>4. GoodMirror(e, p)'
    BY <1>6, <1>8, <2>1, <2>3 DEF GoodMirror
  <2>5. QED
    BY <1>0, <1>1, <1>2, <1>7, <2>1, <2>2, <2>4, ResultKeeps
<1>13. ASSUME NEW b \in BOOLEAN, Result(r, Failed(k, b))
       PROVE  ConfessInv'
  <2>1. PICK f \in MirrorRow : f = Failed(k, b)
    BY FailedRow
  <2>2. f.status = "failed" /\ f.tweet = tw /\ (f.retryable => f.attempts < MaxAttempts)
    BY <1>10, <1>11, <2>1, FailedRow
  <2>3. Goto(r, [s EXCEPT !.at = "locking", !.mirror = f])
    BY <1>1, <1>13, <2>1 DEF Result
  <2>4. GoodMirror(e, f)'
    BY <1>8, <2>2 DEF GoodMirror
  <2>5. QED
    BY <1>0, <1>1, <1>2, <1>7, <2>2, <2>3, <2>4, ResultKeeps
<1>14. ASSUME Thrown(r) PROVE ConfessInv'
  BY <1>0, <1>1, <1>2, <1>7, <1>14, ThrownKeeps
<1>15. QED
  BY <1>1, <1>2, <1>4, <1>9, <1>11, <1>12, <1>13, <1>14 DEF Reply

LEMMA LockKeeps ==
  ASSUME ConfessInv, NEW r \in Runners, Lock(r)
  PROVE  ConfessInv'
<1>0. /\ StatesTyped /\ RunnerGood(r) /\ runner[r] \in RunnerState /\ Working(r) /\ Busies(r)
      /\ TweetsAreMirrorable
  BY DEF ConfessInv, StatesTyped, Working, Busies, Lock, Storing
<1>1. runner[r].at = "locking" /\ lock = "free" /\ lock' = r
  BY DEF Lock, Take
<1>2. PICK s \in WorkState : s = runner[r]
  BY <1>0, RunnerFields DEF Working
<1>3. PICK e \in Confessions : e = s.confession
  BY WorkFields
<1>4. PICK m \in MirrorRow : m = s.mirror
  BY WorkFields
<1>5. /\ e \in inFlight /\ Mirrorable(e) /\ GoodMirror(e, m) /\ s.tweet <= tweets[e]
      /\ m = NoRow \/ m.status \in {"failed", "posted"}
      /\ \A item \in s.todo : GoodItem(item)
  BY <1>0, <1>1, <1>2, <1>3, <1>4 DEF RunnerGood, Busies, Storing
<1>6. Grows /\ tweets' = tweets
  BY <1>0, QuietX DEF Lock, xVars
<1> DEFINE t == [s EXCEPT !.at = "loading"]
<1>7. Goto(r, t)
  BY <1>2 DEF Lock
<1>8. /\ t \in WorkState /\ t.at = "loading" /\ t.confession = e
      /\ t.mirror = m /\ t.tweet = s.tweet /\ t.todo = s.todo
  <2>1. "loading" \in AtX \cup Storing
    BY DEF Storing
  <2>2. QED BY <1>3, <1>4, <2>1 DEF WorkState
<1> HIDE DEF t
<1>9. GoodMirror(e, m)'
  BY <1>0, <1>5, <1>6, MirrorStays
<1>10. t.tweet <= tweets'[e] /\ t.at # "reply" /\ \A item \in t.todo : GoodItem(item)
  BY <1>5, <1>6, <1>8
<1>11. TweetsAreMirrorable'
  BY <1>0, <1>6 DEF TweetsAreMirrorable, Grows
<1>12. inFlight \subseteq inFlight' /\ inFlight' \subseteq Confessions /\ e \in inFlight'
  BY <1>0, <1>5 DEF StatesTyped, Lock
<1>13. e = runner[r].confession /\ UNCHANGED <<posts, creator, timers, onRelays>>
  BY <1>2, <1>3 DEF Lock
<1>14. QED
  BY <1>0, <1>1, <1>5, <1>6, <1>7, <1>8, <1>9, <1>10, <1>11, <1>12, <1>13, WorkMoves

\* What updateConfessXMirror will write: the row of its confession, changed,
\* in the store as it is under the lock.
LEMMA LoadKeeps ==
  ASSUME ConfessInv, NEW r \in Runners, Load(r)
  PROVE  ConfessInv'
<1>0. /\ StatesTyped /\ LockIsHeld /\ RunnerGood(r) /\ runner[r] \in RunnerState
      /\ Working(r) /\ Busies(r) /\ TweetsAreMirrorable /\ RowsAreGood
  BY DEF ConfessInv, StatesTyped, Working, Busies, Load, Storing
<1>1. runner[r].at = "loading" /\ lock = r /\ lock' = lock
  BY <1>0 DEF Load, LockIsHeld
<1>2. PICK s \in WorkState : s = runner[r]
  BY <1>0, RunnerFields DEF Working
<1>3. PICK e \in Confessions : e = s.confession
  BY WorkFields
<1>4. PICK m \in MirrorRow : m = s.mirror
  BY WorkFields
<1>5. PICK todo \in SUBSET Item : todo = s.todo
  BY WorkFields
<1>6. PICK store \in Store : store = posts
  BY <1>0 DEF StatesTyped
<1>7. /\ e \in inFlight /\ Mirrorable(e) /\ GoodMirror(e, m)
      /\ m = NoRow \/ m.status \in {"failed", "posted"}
      /\ \A item \in todo : GoodItem(item)
  BY <1>0, <1>1, <1>2, <1>3, <1>4, <1>5 DEF RunnerGood, Busies, Storing
<1>8. Grows /\ tweets' = tweets
  BY <1>0, QuietX DEF Load, xVars
<1>9. PICK k \in MirrorRow :
        k = (IF m = NoRow THEN Failed(store[e], TRUE) ELSE m)
        /\ k.status \in {"failed", "posted"} /\ GoodMirror(e, k)
  <2>1. CASE m # NoRow
    BY <1>7, <2>1
  <2>2. CASE m = NoRow
    <3>1. PICK row \in MirrorRow : row = store[e]
      BY DEF Store
    <3>2. PICK f \in MirrorRow : f = Failed(row, TRUE)
      BY FailedRow
    <3>3. f.status = "failed" /\ f.tweet = row.tweet /\ (f.retryable => f.attempts < MaxAttempts)
      BY <3>2, FailedRow
    <3>4. GoodMirror(e, row)
      BY <1>0, <1>6, <3>1 DEF RowsAreGood
    <3>5. GoodMirror(e, f)
      BY <3>3, <3>4 DEF GoodMirror
    <3>6. QED BY <2>2, <3>1, <3>2, <3>3, <3>5
  <2>3. QED BY <2>1, <2>2
<1> DEFINE next == [store EXCEPT ![e] = k]
           t == [at |-> "saving", confession |-> e, todo |-> todo, store |-> next]
<1>10. /\ next \in Store /\ next[e] = k /\ \A f \in Confessions \ {e} : next[f] = store[f]
  BY DEF Store
<1>11. Goto(r, t)
  BY <1>2, <1>3, <1>4, <1>5, <1>6, <1>9 DEF Load, Updated
<1> HIDE DEF next
<1>12. t \in RunnerState /\ t.at = "saving" /\ t.confession = e /\ t.todo = todo /\ t.store = next
  BY <1>10 DEF RunnerState, SavingState
<1> HIDE DEF t
<1>13. runner'[r] = t /\ \A q \in Runners \ {r} : runner'[q] = runner[q]
  BY <1>0, <1>11 DEF StatesTyped, Goto
<1>14. LockIsHeld'
  BY <1>0, <1>1, <1>13 DEF LockIsHeld, Load
<1>15. RunnerGood(r)'
  <2>1. \A item \in todo : GoodItem(item)'
    BY <1>0, <1>7, <1>8, ItemStays
  <2>2. GoodMirror(e, k)' /\ Mirrorable(e)'
    BY <1>0, <1>7, <1>8, <1>9, MirrorStays DEF Grows
  <2>3. GoodMirror(runner[r].confession, runner[r].store[runner[r].confession])'
    BY <1>10, <1>12, <1>13, <2>2 DEF GoodMirror
  <2>4. Mirrorable(runner[r].confession)'
    BY <1>12, <1>13, <2>2 DEF Mirrorable
  <2>5. \A f \in Confessions \ {e} : next[f] = posts'[f]
    BY <1>6, <1>10 DEF Load
  <2>6. runner'[r].at = "saving" /\ runner'[r].confession = e /\ runner'[r].todo = todo
        /\ runner'[r].store = next /\ e \in inFlight'
    BY <1>7, <1>12, <1>13 DEF Load
  <2>7. "saving" \notin AtX \cup Storing /\ "saving" # "reply" /\ "saving" \notin Storing
    BY DEF AtX, Storing
  <2>8. ~Working(r)'
    BY <2>6, <2>7 DEF Working
  <2>9. next[e].status \in {"failed", "posted"}
    BY <1>9, <1>10
  <2>10. QED BY <2>1, <2>3, <2>4, <2>5, <2>6, <2>7, <2>8, <2>9 DEF RunnerGood
<1>16. TweetsAreMirrorable'
  BY <1>0, <1>8 DEF TweetsAreMirrorable, Grows
<1>17. inFlight \subseteq inFlight' /\ inFlight' \subseteq Confessions
       /\ lock' \in Creators \cup Runners \cup {"free"}
  BY <1>0 DEF StatesTyped, Load
<1>18. t.at \in AtX \cup Storing \cup {"saving"} =>
         \/ Busies(r) /\ t.confession = runner[r].confession
         \/ t.confession \notin inFlight
  BY <1>0, <1>2, <1>3, <1>12
<1>19. QED
  BY <1>8, <1>11, <1>12, <1>14, <1>15, <1>16, <1>17, <1>18, RunnerMoves DEF Load

LEMMA SaveKeeps ==
  ASSUME ConfessInv, NEW r \in Runners, Save(r)
  PROVE  ConfessInv' /\ Recorded(posts') = Recorded(posts)
<1>0. /\ StatesTyped /\ LockIsHeld /\ RunnerGood(r) /\ runner[r] \in RunnerState /\ Busies(r)
      /\ TweetsAreMirrorable /\ RowsAreGood /\ OneRunEach /\ TextsMirrorableOnce
      /\ IsFiniteSet(Recorded(posts)) /\ CapHolds
  BY DEF ConfessInv, StatesTyped, Busies, Save
<1>1. runner[r].at = "saving" /\ runner[r] \in SavingState /\ lock = r
  BY <1>0, RunnerFields DEF Save, LockIsHeld
<1>2. PICK e \in Confessions : e = runner[r].confession
  BY <1>1 DEF SavingState
<1>3. PICK todo \in SUBSET Item : todo = runner[r].todo
  BY <1>1 DEF SavingState
<1>4. PICK store \in Store : store = runner[r].store
  BY <1>1 DEF SavingState
<1>5. PICK k \in MirrorRow : k = store[e]
  BY DEF Store
<1>6. /\ k.status \in {"failed", "posted"} /\ GoodMirror(e, k) /\ Mirrorable(e)
      /\ \A f \in Confessions \ {e} : store[f] = posts[f]
      /\ \A item \in todo : GoodItem(item)
  BY <1>0, <1>1, <1>2, <1>3, <1>4, <1>5 DEF RunnerGood
<1>7. /\ posts' = store /\ lock' = "free" /\ inFlight' = inFlight \ {e}
      /\ UNCHANGED <<creator, timers, onRelays, tweets, replies>>
      /\ Goto(r, [at |-> "next", todo |-> todo])
  BY <1>2, <1>3, <1>4 DEF Save, Release, Continue, xVars
<1> DEFINE t == [at |-> "next", todo |-> todo]
<1>8. t \in RunnerState /\ t.at = "next" /\ t.todo = todo
  BY DEF RunnerState, NextState
<1>9. Goto(r, t)
  BY <1>7
<1> HIDE DEF t
<1>10. /\ runner' \in [Runners -> RunnerState] /\ runner'[r] = t
       /\ \A q \in Runners \ {r} : runner'[q] = runner[q]
  BY <1>0, <1>8, <1>9 DEF StatesTyped, Goto
<1>11. \A f \in Confessions : Mirrorable(f)' <=> Mirrorable(f)
  BY <1>5, <1>6, <1>7 DEF Mirrorable
<1>12. Recorded(posts') = Recorded(posts)
  <2>1. \A f \in Confessions : posts'[f].status # "none" <=> posts[f].status # "none"
    BY <1>5, <1>6, <1>7 DEF Mirrorable
  <2>2. QED BY <2>1 DEF Recorded
<1>13. Grows
  <2>1. \A f \in Confessions : tweets[f] \in Int
    BY <1>0, ConfessAssumption DEF StatesTyped
  <2>2. QED BY <1>0, <1>7, <1>11, <2>1 DEF Grows, StatesTyped
<1>14. StatesTyped'
  BY <1>0, <1>7, <1>10 DEF StatesTyped
<1>15. LockIsHeld' /\ \A c \in Creators : CreatorGood(c)'
  <2>1. \A c \in Creators : ~Creates(c)'
    BY <1>1, <1>7, NobodyElse DEF Creates
  <2>2. \A q \in Runners : ~Writes(q)'
    BY <1>1, <1>8, <1>10, NobodyElse DEF Writes
  <2>3. QED BY <2>1, <2>2 DEF LockIsHeld, CreatorGood, Creates, Writes
<1>16. RowsAreGood'
  <2> SUFFICES ASSUME NEW f \in Confessions PROVE GoodMirror(f, posts[f])'
    BY DEF RowsAreGood
  <2>1. PICK row \in MirrorRow : row = store[f]
    BY DEF Store
  <2>2. GoodMirror(f, row)
    BY <1>0, <1>5, <1>6, <2>1 DEF RowsAreGood
  <2>3. GoodMirror(f, row)'
    BY <1>0, <1>13, <2>2, MirrorStays
  <2>4. QED BY <1>7, <2>1, <2>3 DEF GoodMirror
<1>17. TimersAreGood'
  BY <1>7, <1>13, TimersStay
<1>18. ASSUME NEW q \in Runners PROVE RunnerGood(q)'
  <2>1. CASE q = r
    <3>1. \A item \in todo : GoodItem(item)'
      BY <1>0, <1>6, <1>13, ItemStays
    <3>2. runner'[r].at = "next" /\ runner'[r].todo = todo
      BY <1>8, <1>10
    <3>3. QED BY <2>1, <3>1, <3>2 DEF RunnerGood, Working, AtX, Storing
  <2>2. CASE q # r
    <3>1. Busies(q) => runner[q].confession \in inFlight'
      <4>1. Busies(q) => runner[q].confession \in inFlight
        BY DEF ConfessInv, RunnerGood, Busies
      <4>2. Busies(q) => runner[q].confession # e
        BY <1>0, <1>2, <2>2 DEF OneRunEach
      <4>3. QED BY <1>7, <4>1, <4>2
    <3>2. runner[q].at # "saving"
      BY <1>1, <2>2, NobodyElse DEF Writes
    <3>3. runner'[q] = runner[q]
      BY <1>10, <2>2
    <3>4. QED BY <1>13, <3>1, <3>2, <3>3, RunnerStays
  <2>3. QED BY <2>1, <2>2
<1>19. OneRunEach'
  <2>1. ~Busies(r)'
    BY <1>8, <1>10 DEF Busies, Working, AtX, Storing
  <2>2. \A q \in Runners : Busies(q)' =>
          q # r /\ Busies(q) /\ runner'[q] = runner[q]
    BY <1>10, <2>1 DEF Busies, Working
  <2>3. QED BY <1>0, <2>2 DEF OneRunEach
<1>20. TextsMirrorableOnce' /\ TweetsAreMirrorable'
  BY <1>0, <1>7, <1>11 DEF TextsMirrorableOnce, TweetsAreMirrorable
<1>21. IsFiniteSet(Recorded(posts))' /\ CapHolds'
  BY <1>0, <1>7, <1>12 DEF CapHolds, Recorded
<1>22. QED
  BY <1>12, <1>14, <1>15, <1>16, <1>17, <1>18, <1>19, <1>20, <1>21 DEF ConfessInv

LEMMA CrashKeeps ==
  ASSUME ConfessInv, Crash
  PROVE  ConfessInv'
<1>0. /\ StatesTyped /\ TweetsAreMirrorable /\ RowsAreGood /\ TextsMirrorableOnce
      /\ IsFiniteSet(Recorded(posts)) /\ CapHolds
  BY DEF ConfessInv
<1>1. Grows
  BY <1>0, QuietX DEF Crash
<1>2. Idle.at = "idle" /\ Idle \in CreatorState /\ Idle \in RunnerState
  BY DEF Idle, CreatorState, RunnerState
<1>3. creator' = [c \in Creators |-> Idle] /\ runner' = [q \in Runners |-> Idle]
      /\ timers' = {} /\ inFlight' = {} /\ lock' = "free"
      /\ UNCHANGED <<posts, onRelays, tweets, replies>>
  BY DEF Crash, xVars
<1>4. StatesTyped'
  BY <1>0, <1>2, <1>3 DEF StatesTyped
<1>5. LockIsHeld' /\ \A c \in Creators : CreatorGood(c)'
  BY <1>2, <1>3 DEF LockIsHeld, CreatorGood
<1>6. (\A r \in Runners : RunnerGood(r)') /\ OneRunEach'
  BY <1>2, <1>3 DEF RunnerGood, OneRunEach, Busies, Working, AtX, Storing
<1>7. RowsAreGood' /\ TextsMirrorableOnce' /\ IsFiniteSet(Recorded(posts))' /\ CapHolds'
  BY <1>1, <1>3, StoreStays
<1>8. TimersAreGood' /\ TweetsAreMirrorable'
  BY <1>0, <1>1, <1>3 DEF TimersAreGood, TweetsAreMirrorable, Grows
<1>9. QED BY <1>4, <1>5, <1>6, <1>7, <1>8 DEF ConfessInv

----------------------------------------------------------------------------
(* The invariant *)

LEMMA ConfessInvInit == Init => ConfessInv
<1> SUFFICES ASSUME Init PROVE ConfessInv
  OBVIOUS
<1>1. Idle.at = "idle" /\ Idle \in CreatorState /\ Idle \in RunnerState
  BY DEF Idle, CreatorState, RunnerState
<1>2. NoRow \in MirrorRow /\ NoRow.status = "none" /\ ~NoRow.retryable /\ NoRow.tweet = 0
  BY MirrorValues
<1>3. MaxTweets \in Nat /\ 0 \in 0..MaxTweets
  BY ConfessAssumption
<1> HIDE DEF NoRow
<1>4. StatesTyped
  BY <1>1, <1>2, <1>3 DEF Init, StatesTyped, Store
<1>5. LockIsHeld /\ \A c \in Creators : CreatorGood(c)
  BY <1>1 DEF Init, LockIsHeld, CreatorGood
<1>6. (\A r \in Runners : RunnerGood(r)) /\ OneRunEach
  BY <1>1 DEF Init, RunnerGood, OneRunEach, Busies, Working, AtX, Storing
<1>7. RowsAreGood /\ TimersAreGood
  BY <1>2 DEF Init, RowsAreGood, TimersAreGood, GoodMirror
<1>8. TextsMirrorableOnce /\ TweetsAreMirrorable
  BY <1>2 DEF Init, TextsMirrorableOnce, TweetsAreMirrorable, Mirrorable
<1>9. Recorded(posts) = {}
  BY <1>2 DEF Init, Recorded
<1>10. IsFiniteSet(Recorded(posts)) /\ CapHolds
  BY <1>9, FS_EmptySet, ConfessAssumption DEF CapHolds
<1>11. QED BY <1>4, <1>5, <1>6, <1>7, <1>8, <1>10 DEF ConfessInv

\* Every step keeps the invariant and every row the store had.
LEMMA ConfessStep ==
  ConfessInv /\ [Next]_vars => ConfessInv' /\ Recorded(posts) \subseteq Recorded(posts')
<1> SUFFICES ASSUME ConfessInv, [Next]_vars
             PROVE  ConfessInv' /\ Recorded(posts) \subseteq Recorded(posts')
  OBVIOUS
<1>1. CASE \E c \in Creators, e \in Confessions : Admit(c, e)
  BY <1>1, AdmitKeeps DEF Admit
<1>2. ASSUME NEW c \in Creators, Create(c)
      PROVE  ConfessInv' /\ Recorded(posts) \subseteq Recorded(posts')
  <2>1. CASE Check(c)
    BY <2>1, CheckKeeps DEF Check
  <2>2. CASE Publish(c)
    BY <2>2, PublishKeeps DEF Publish
  <2>3. CASE Record(c)
    BY <2>3, RecordKeeps
  <2>4. QED BY <1>2, <2>1, <2>2, <2>3 DEF Create
<1>3. CASE \E item \in timers : FireTimer(item)
  BY <1>3, FireTimerKeeps DEF FireTimer
<1>4. CASE \E r \in Runners, due \in SUBSET Due : StartPending(r, due)
  BY <1>4, StartPendingKeeps DEF StartPending
<1>5. ASSUME NEW r \in Runners, Mirror(r)
      PROVE  ConfessInv' /\ Recorded(posts) \subseteq Recorded(posts')
  <2>1. CASE \E item \in runner[r].todo : Visit(r, item)
    BY <2>1, VisitKeeps DEF Visit
  <2>2. CASE Finish(r)
    BY <2>2, FinishKeeps DEF Finish
  <2>3. CASE Request(r)
    BY <2>3, UploadKeeps, TweetKeeps, ReplyKeeps DEF Request
  <2>4. CASE Lock(r)
    BY <2>4, LockKeeps DEF Lock
  <2>5. CASE Load(r)
    BY <2>5, LoadKeeps DEF Load
  <2>6. CASE Save(r)
    BY <2>6, SaveKeeps
  <2>7. QED BY <1>5, <2>1, <2>2, <2>3, <2>4, <2>5, <2>6 DEF Mirror
<1>6. CASE Crash
  BY <1>6, CrashKeeps DEF Crash
<1>7. CASE UNCHANGED vars
  BY <1>7, NothingMoves DEF vars, xVars
<1>8. QED BY <1>1, <1>2, <1>3, <1>4, <1>5, <1>6, <1>7 DEF Next

THEOREM ConfessInvariant == Spec => []ConfessInv
<1>1. ConfessInv /\ [Next]_vars => ConfessInv'
  BY ConfessStep
<1>2. QED BY ConfessInvInit, <1>1, PTL DEF Spec

\* Rows, lock and tweet counts keep their types, and the attempts of a mirror
\* that can be retried stay below confessXMaxAttempts.
THEOREM ConfessTypeOK == Spec => []TypeOK
<1>1. ConfessInv => TypeOK
  BY DEF ConfessInv, StatesTyped, TypeOK, Store, RowsAreGood, GoodMirror
<1>2. QED BY ConfessInvariant, <1>1, PTL

\* createConfession keeps to confessDailyLimit and records only what a relay
\* has, however its calls overlap with each other and with the mirror's writes.
THEOREM ConfessCapHolds == Spec => []CapHolds
<1>1. ConfessInv => CapHolds
  BY DEF ConfessInv
<1>2. QED BY ConfessInvariant, <1>1, PTL

\* X shows a text for one confession only, one run at a time talks to X about a
\* confession, and a row called "posted" names a post of it that has its reply.
THEOREM ConfessMirrorsHonest == Spec => []MirrorsAreHonest
<1>1. ConfessInv => MirrorsAreHonest
  <2> SUFFICES ASSUME ConfessInv PROVE MirrorsAreHonest
    OBVIOUS
  <2>1. \A e \in Confessions : tweets[e] \in 0..MaxTweets
    BY DEF ConfessInv, StatesTyped
  <2>2. TextMirroredOnce
    <3>1. \A e \in Confessions : tweets[e] = 0 \/ Mirrorable(e)
      BY <2>1, ConfessAssumption DEF ConfessInv, TweetsAreMirrorable
    <3>2. QED BY <3>1 DEF ConfessInv, TextsMirrorableOnce, TextMirroredOnce
  <2>3. OnePoster
    BY DEF ConfessInv, OneRunEach, OnePoster, Busies, Working, AtX
  <2>4. PostedIsOnX
    <3> SUFFICES ASSUME NEW e \in Confessions, posts[e].status = "posted"
                 PROVE  posts[e].tweet \in 1..tweets[e] /\ <<e, posts[e].tweet>> \in replies
      BY DEF PostedIsOnX
    <3>1. /\ posts[e] \in MirrorRow /\ posts[e].tweet <= tweets[e] /\ posts[e].tweet >= 1
          /\ <<e, posts[e].tweet>> \in replies
      BY DEF ConfessInv, RowsAreGood, GoodMirror
    <3>2. posts[e].tweet \in Int /\ tweets[e] \in Int
      BY <2>1, <3>1, MirrorFields, ConfessAssumption
    <3>3. QED BY <3>1, <3>2
  <2>5. QED BY <2>2, <2>3, <2>4 DEF MirrorsAreHonest
<1>2. QED BY ConfessInvariant, <1>1, PTL

\* No write of the whole store file, by createConfession or by the mirror,
\* drops a row that another call had recorded.
THEOREM ConfessNothingLost == Spec => NothingLost
<1>1. ConfessInv /\ [Next]_vars => [Recorded(posts) \subseteq Recorded(posts')]_posts
  BY ConfessStep
<1>2. QED BY ConfessInvariant, <1>1, PTL DEF Spec, NothingLost

----------------------------------------------------------------------------
(* What is settled *)

StillSettled(e) == Settled(e)' /\ posts'[e] = posts[e] /\ OnX(e)' = OnX(e)

\* X shows of e what it showed.
SameOnX(e) ==
  /\ tweets'[e] = tweets[e]
  /\ \A n \in 1..MaxTweets : <<e, n>> \in replies' <=> <<e, n>> \in replies

LEMMA SettledStays ==
  ASSUME NEW e \in Confessions, Settled(e), posts'[e] = posts[e], SameOnX(e),
         \A item \in timers' : item.confession # e,
         \A r \in Runners : ~CopyIn(runner'[r], e)
  PROVE  StillSettled(e)
<1>1. e \in Recorded(posts)' /\ ~posts'[e].retryable
  BY DEF Settled, Recorded
<1>2. ~Copied(e)'
  BY DEF Copied, CopyIn
<1>3. OnX(e)' = OnX(e)
  BY DEF OnX, SameOnX
<1>4. QED BY <1>1, <1>2, <1>3 DEF StillSettled, Settled

\* No run but r moves, and r gets no copy of the mirror of e.
LEMMA SettledByRun ==
  ASSUME StatesTyped, NEW r \in Runners, NEW t, Goto(r, t),
         NEW e \in Confessions, Settled(e), posts'[e] = posts[e], SameOnX(e),
         timers' \subseteq timers, ~CopyIn(t, e)
  PROVE  StillSettled(e)
<1>1. runner'[r] = t /\ \A s \in Runners \ {r} : runner'[s] = runner[s]
  BY DEF StatesTyped, Goto
<1>2. \A s \in Runners : ~CopyIn(runner'[s], e)
  <2> SUFFICES ASSUME NEW s \in Runners PROVE ~CopyIn(runner'[s], e)
    OBVIOUS
  <2>1. CASE s = r
    BY <1>1, <2>1
  <2>2. CASE s # r
    BY <1>1, <2>2 DEF Settled, Copied
  <2>3. QED BY <2>1, <2>2
<1>3. \A item \in timers' : item.confession # e
  BY DEF Settled, Copied
<1>4. QED BY <1>2, <1>3, SettledStays

LEMMA SettledByCreator ==
  ASSUME NEW e \in Confessions, Settled(e), posts'[e] = posts[e], SameOnX(e),
         \A item \in timers' : item \in timers \/ item.confession # e,
         runner' = runner
  PROVE  StillSettled(e)
<1>1. \A item \in timers' : item.confession # e
  BY DEF Settled, Copied
<1>2. \A r \in Runners : ~CopyIn(runner'[r], e)
  BY DEF Settled, Copied
<1>3. QED BY <1>1, <1>2, SettledStays

\* A recorded confession is not recorded again.
LEMMA RecordSettled ==
  ASSUME ConfessInv, NEW c \in Creators, Record(c), NEW e \in Confessions, Settled(e)
  PROVE  StillSettled(e)
<1>1. posts \in Store /\ CreatorGood(c) /\ creator[c].at = "recording"
  BY DEF ConfessInv, StatesTyped, Record
<1>2. creator[c].store = posts /\ creator[c].confession \notin Recorded(posts)
  BY <1>1 DEF CreatorGood, Admits
<1>3. creator[c].confession # e
  BY <1>2 DEF Settled
<1>4. PICK mirror \in InitialMirror(creator[c].store, creator[c].confession) :
        /\ posts' = [creator[c].store EXCEPT ![creator[c].confession] = mirror]
        /\ timers' = timers \cup
             (IF mirror.status = "pending"
              THEN {[confession |-> creator[c].confession, mirror |-> mirror]} ELSE {})
  BY DEF Record
<1>5. posts'[e] = posts[e]
  BY <1>1, <1>2, <1>3, <1>4 DEF Store
<1>6. \A item \in timers' : item \in timers \/ item.confession # e
  BY <1>3, <1>4
<1>7. SameOnX(e) /\ runner' = runner
  BY DEF Record, SameOnX, xVars
<1>8. QED BY <1>5, <1>6, <1>7, SettledByCreator

\* A run that begins with a mirror which is not of e does not get one of e.
LEMMA BeginSettled ==
  ASSUME ConfessInv, NEW r \in Runners, NEW item, NEW rest, Begin(r, item, rest),
         NEW e \in Confessions, Settled(e),
         item.confession # e, \A i \in rest : i.confession # e,
         posts' = posts, timers' \subseteq timers, UNCHANGED xVars
  PROVE  StillSettled(e)
<1> DEFINE t == [at |-> FirstRequest(item.mirror), confession |-> item.confession,
                 mirror |-> item.mirror, media |-> item.mirror.media,
                 tweet |-> item.mirror.tweet, todo |-> rest]
<1>1. Goto(r, t) /\ t.confession = item.confession /\ t.todo = rest
  BY DEF Begin
<1> HIDE DEF t
<1>2. ~CopyIn(t, e)
  BY <1>1 DEF CopyIn
<1>3. StatesTyped /\ SameOnX(e)
  BY DEF ConfessInv, SameOnX, xVars
<1>4. QED BY <1>1, <1>2, <1>3, SettledByRun

LEMMA ProcessSettled ==
  ASSUME ConfessInv, NEW r \in Runners, NEW item, NEW rest, Process(r, item, rest),
         NEW e \in Confessions, Settled(e),
         item.confession # e, \A i \in rest : i.confession # e,
         posts' = posts, timers' = timers, UNCHANGED xVars
  PROVE  StillSettled(e)
<1>1. CASE Begin(r, item, rest)
  BY <1>1, BeginSettled
<1>2. CASE Goto(r, [at |-> "next", todo |-> rest])
  <2>1. ~CopyIn([at |-> "next", todo |-> rest], e)
    BY DEF CopyIn
  <2>2. StatesTyped /\ SameOnX(e)
    BY DEF ConfessInv, SameOnX, xVars
  <2>3. QED BY <1>2, <2>1, <2>2, SettledByRun
<1>3. QED BY <1>1, <1>2 DEF Process

LEMMA FireTimerSettled ==
  ASSUME ConfessInv, NEW item \in timers, FireTimer(item), NEW e \in Confessions, Settled(e)
  PROVE  StillSettled(e)
<1>1. item.confession # e
  BY DEF Settled, Copied
<1>2. posts' = posts /\ timers' \subseteq timers /\ UNCHANGED xVars
  BY DEF FireTimer
<1>3. CASE runner' = runner
  <2>1. SameOnX(e)
    BY <1>2 DEF SameOnX, xVars
  <2>2. QED BY <1>2, <1>3, <2>1, SettledByCreator
<1>4. ASSUME NEW r \in Runners, Begin(r, item, {}) PROVE StillSettled(e)
  BY <1>1, <1>2, <1>4, BeginSettled
<1>5. QED BY <1>3, <1>4 DEF FireTimer

\* The list a run reads has only mirrors that can be retried.
LEMMA StartPendingSettled ==
  ASSUME ConfessInv, NEW r \in Runners, NEW due \in SUBSET Due, StartPending(r, due),
         NEW e \in Confessions, Settled(e)
  PROVE  StillSettled(e)
<1>1. \A item \in due : item.confession # e
  BY DEF Due, Settled
<1>2. PICK item \in due : Process(r, item, due \ {item})
  BY DEF StartPending
<1> DEFINE rest == due \ {item}
<1>3. Process(r, item, rest) /\ \A i \in rest : i.confession # e
  BY <1>1, <1>2
<1> HIDE DEF rest
<1>4. QED BY <1>1, <1>2, <1>3, ProcessSettled DEF StartPending

LEMMA VisitSettled ==
  ASSUME ConfessInv, NEW r \in Runners, NEW item \in runner[r].todo, Visit(r, item),
         NEW e \in Confessions, Settled(e)
  PROVE  StillSettled(e)
<1>1. \A i \in runner[r].todo : i.confession # e
  BY DEF Visit, Settled, Copied, CopyIn
<1> DEFINE rest == runner[r].todo \ {item}
<1>2. Process(r, item, rest) /\ \A i \in rest : i.confession # e
  BY <1>1 DEF Visit
<1> HIDE DEF rest
<1>3. QED BY <1>1, <1>2, ProcessSettled DEF Visit

\* A run at work on a confession has that confession, and no copy of e.
LEMMA WorkHasNoCopy ==
  ASSUME ConfessInv, NEW r \in Runners, runner[r].at \in AtX \cup Storing \cup {"saving"},
         NEW e \in Confessions, Settled(e)
  PROVE  /\ runner[r].confession # e
         /\ \A t : t.todo = runner[r].todo /\ t.confession = runner[r].confession
                     => ~CopyIn(t, e)
<1>1. runner[r].at \notin {"idle", "next"}
  BY DEF AtX, Storing
<1>2. ~CopyIn(runner[r], e)
  BY DEF Settled, Copied
<1>3. QED BY <1>1, <1>2 DEF CopyIn

\* A request, and what follows it up to the lock, is about the run's confession.
LEMMA RequestSettled ==
  ASSUME ConfessInv, NEW r \in Runners, Request(r), NEW e \in Confessions, Settled(e)
  PROVE  StillSettled(e)
<1>1. StatesTyped /\ runner[r].at \in AtX /\ runner[r] \in WorkState
  <2>1. runner[r].at \in AtX
    BY DEF Request, Upload, Tweet, Reply, AtX
  <2>2. QED BY <2>1, AtRequest
<1>2. PICK s \in WorkState : s = runner[r]
  BY <1>1
<1>3. s.confession # e /\ \A t : t.todo = s.todo /\ t.confession = s.confession => ~CopyIn(t, e)
  BY <1>1, <1>2, WorkHasNoCopy
<1>4. posts' = posts /\ timers' = timers
  BY DEF Request
<1>5. SameOnX(e)
  <2>1. tweets'[e] = tweets[e]
    <3>1. tweets' = tweets \/ NewTweet(s.confession)
      BY <1>2 DEF Request, Upload, Tweet, Reply, xVars
    <3>2. QED BY <1>1, <1>3, <3>1 DEF NewTweet, StatesTyped
  <2>2. replies' = replies \/ replies' = replies \cup {<<s.confession, s.tweet>>}
    BY <1>2 DEF Request, Upload, Tweet, Reply, xVars
  <2>3. QED BY <1>3, <2>1, <2>2 DEF SameOnX
<1>6. PICK t : Goto(r, t) /\ t.todo = s.todo /\ t.confession = s.confession
  <2>1. CASE Goto(r, [s EXCEPT !.at = AfterUpload(r), !.media = 1])
    <3> DEFINE t == [s EXCEPT !.at = AfterUpload(r), !.media = 1]
    <3>1. Goto(r, t) /\ t.todo = s.todo /\ t.confession = s.confession
      BY <2>1 DEF WorkState
    <3> HIDE DEF t
    <3>2. QED BY <3>1
  <2>2. ASSUME NEW m, Goto(r, [s EXCEPT !.at = "locking", !.mirror = m])
        PROVE  \E t : Goto(r, t) /\ t.todo = s.todo /\ t.confession = s.confession
    <3> DEFINE t == [s EXCEPT !.at = "locking", !.mirror = m]
    <3>1. Goto(r, t) /\ t.todo = s.todo /\ t.confession = s.confession
      BY <2>2 DEF WorkState
    <3> HIDE DEF t
    <3>2. QED BY <3>1
  <2>3. CASE Goto(r, [s EXCEPT !.at = "reply", !.tweet = tweets'[s.confession]])
    <3> DEFINE t == [s EXCEPT !.at = "reply", !.tweet = tweets'[s.confession]]
    <3>1. Goto(r, t) /\ t.todo = s.todo /\ t.confession = s.confession
      BY <2>3 DEF WorkState
    <3> HIDE DEF t
    <3>2. QED BY <3>1
  <2>4. QED BY <1>2, <2>1, <2>2, <2>3 DEF Request, Upload, Tweet, Reply, Result, Thrown
<1>7. ~CopyIn(t, e)
  BY <1>3, <1>6
<1>8. QED BY <1>1, <1>4, <1>5, <1>6, <1>7, SettledByRun

\* updateConfessXMirror changes the row of the run's confession only: what it
\* writes of the others is what the store has.
LEMMA StoringSettled ==
  ASSUME ConfessInv, NEW r \in Runners, Lock(r) \/ Load(r) \/ Save(r),
         NEW e \in Confessions, Settled(e)
  PROVE  StillSettled(e)
<1>1. StatesTyped /\ RunnerGood(r) /\ runner[r] \in RunnerState
      /\ runner[r].at \in AtX \cup Storing \cup {"saving"}
  BY DEF ConfessInv, StatesTyped, Lock, Load, Save, Storing
<1>2. /\ runner[r].confession # e
      /\ \A t : t.todo = runner[r].todo /\ t.confession = runner[r].confession
                  => ~CopyIn(t, e)
  BY <1>1, WorkHasNoCopy
<1>3. SameOnX(e) /\ timers' = timers
  BY DEF SameOnX, Lock, Load, Save, xVars
<1>4. CASE Lock(r)
  <2>1. PICK s \in WorkState : s = runner[r]
    BY <1>1, <1>4, RunnerFields DEF Lock, Storing
  <2> DEFINE t == [s EXCEPT !.at = "loading"]
  <2>2. Goto(r, t) /\ t.todo = s.todo /\ t.confession = s.confession
    BY <1>4, <2>1 DEF Lock, WorkState
  <2> HIDE DEF t
  <2>3. QED BY <1>1, <1>2, <1>3, <1>4, <2>1, <2>2, SettledByRun DEF Lock
<1>5. CASE Load(r)
  <2> DEFINE t == [at |-> "saving", confession |-> runner[r].confession,
                   todo |-> runner[r].todo,
                   store |-> Updated(posts, runner[r].confession, runner[r].mirror)]
  <2>1. Goto(r, t) /\ t.todo = runner[r].todo /\ t.confession = runner[r].confession
    BY <1>5 DEF Load
  <2> HIDE DEF t
  <2>2. QED BY <1>1, <1>2, <1>3, <1>5, <2>1, SettledByRun DEF Load
<1>6. CASE Save(r)
  <2> DEFINE t == [at |-> "next", todo |-> runner[r].todo]
  <2>1. Goto(r, t) /\ t.todo = runner[r].todo /\ t.at = "next"
    BY <1>6 DEF Save, Continue
  <2> HIDE DEF t
  <2>2. ~CopyIn(t, e)
    <3>1. ~CopyIn(runner[r], e) /\ runner[r].at = "saving"
      BY <1>6 DEF Settled, Copied, Save
    <3>2. QED BY <2>1, <3>1 DEF CopyIn
  <2>3. posts'[e] = posts[e]
    BY <1>1, <1>2, <1>6 DEF RunnerGood, Save
  <2>4. QED BY <1>1, <1>3, <2>1, <2>2, <2>3, SettledByRun
<1>7. QED BY <1>4, <1>5, <1>6

LEMMA CrashSettled ==
  ASSUME Crash, NEW e \in Confessions, Settled(e)
  PROVE  StillSettled(e)
<1>1. \A r \in Runners : ~CopyIn(runner'[r], e)
  BY DEF Crash, CopyIn, Idle
<1>2. timers' = {} /\ posts' = posts /\ SameOnX(e)
  BY DEF Crash, SameOnX, xVars
<1>3. QED BY <1>1, <1>2, SettledStays

\* No step touches a settled confession: whoever would has a copy of its mirror
\* or reads one that can be retried.
LEMMA SettledStep ==
  ASSUME ConfessInv, [Next]_vars, NEW e \in Confessions, Settled(e)
  PROVE  StillSettled(e)
<1>1. ASSUME NEW c \in Creators,
             (\E f \in Confessions : Admit(c, f)) \/ Check(c) \/ Publish(c)
      PROVE  StillSettled(e)
  <2>1. posts' = posts /\ timers' = timers /\ runner' = runner /\ SameOnX(e)
    BY <1>1 DEF Admit, Check, Publish, SameOnX, xVars
  <2>2. QED BY <2>1, SettledByCreator
<1>2. ASSUME NEW c \in Creators, Record(c) PROVE StillSettled(e)
  BY <1>2, RecordSettled
<1>3. CASE \E item \in timers : FireTimer(item)
  BY <1>3, FireTimerSettled
<1>4. CASE \E r \in Runners, due \in SUBSET Due : StartPending(r, due)
  BY <1>4, StartPendingSettled
<1>5. ASSUME NEW r \in Runners, Mirror(r) PROVE StillSettled(e)
  <2>1. CASE \E item \in runner[r].todo : Visit(r, item)
    BY <2>1, VisitSettled
  <2>2. CASE Finish(r)
    <3>1. Goto(r, Idle) /\ ~CopyIn(Idle, e)
      BY <2>2 DEF Finish, CopyIn, Idle
    <3>2. StatesTyped /\ SameOnX(e) /\ posts' = posts /\ timers' = timers
      BY <2>2 DEF ConfessInv, Finish, SameOnX, xVars
    <3>3. QED BY <3>1, <3>2, SettledByRun
  <2>3. CASE Request(r)
    BY <2>3, RequestSettled
  <2>4. CASE Lock(r) \/ Load(r) \/ Save(r)
    BY <2>4, StoringSettled
  <2>5. QED BY <1>5, <2>1, <2>2, <2>3, <2>4 DEF Mirror
<1>6. CASE Crash
  BY <1>6, CrashSettled
<1>7. CASE UNCHANGED vars
  <2>1. posts' = posts /\ timers' = timers /\ runner' = runner /\ SameOnX(e)
    BY <1>7 DEF vars, SameOnX, xVars
  <2>2. QED BY <2>1, SettledByCreator
<1>8. QED BY <1>1, <1>2, <1>3, <1>4, <1>5, <1>6, <1>7 DEF Next, Create

\* A confession that is posted, blocked or given up, and of whose mirror no copy
\* from before is left, is settled for good: no run takes it up, X gets nothing
\* more of it, and its row stays as it is.
THEOREM ConfessSettledIsLeftAlone == Spec => SettledIsLeftAlone
<1>1. ConfessInv /\ [Next]_vars =>
        [\A e \in Confessions : Settled(e) =>
           Settled(e)' /\ posts'[e] = posts[e] /\ OnX(e)' = OnX(e)]_vars
  BY SettledStep DEF StillSettled
<1>2. QED BY ConfessInvariant, <1>1, PTL DEF Spec, SettledIsLeftAlone

=============================================================================

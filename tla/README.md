# TLA+ models of wired-admin

This directory holds TLA+ specifications of the server in
`smolgrrr-wired-admin/web`: a Nostr relay gateway with a moderated feed, a
"confess" account that is mirrored on X, media moderation, a revenue service
that splits zaps 70/30 between creators and Wired and pays creators out over
Lightning, and the script that deploys it. The modules model the parts whose correctness depends on the order of
things: what happens between two awaits, when the process ends, or when a remote
service answers late, twice or never. File names below are relative to
`smolgrrr-wired-admin/web/src/` unless they are `server.ts`, which is
`smolgrrr-wired-admin/web/server.ts`, or under `scripts/`. `PROJECT.json` maps each definition to the
lines it models, and lists the runs, hazards, findings and theorems.

To check: `tlc -config MCRevenueLedger.cfg MCRevenueLedger` (and so on for each
run below); to prove: `tlapm RevenueProofs.tla` (and so on).

## The system and its parts

One Node process, whose event loop runs one callback at a time: code between two
awaits is atomic, and anything may run at an await. State that survives the
process is a SQLite file (revenue) and JSON files (everything else).

| Part | State | Operations | Talks to |
|---|---|---|---|
| Revenue ledger (`revenue/ledger.ts`) | SQLite tables of settlements, ledger entries, payouts, invoices, intents, enrollments | one synchronous transaction per method | called by the service |
| Revenue service (`revenue/service.ts`) | the creation queue; locals of running calls | `createZapInvoice`, `reconcileInvoice` (webhook, operator), `reconcileAll` (interval), `attemptPayout`, enrollment | ledger, wallet, Lightning address, relays |
| Wallet adapters (`revenue/lnbits-wallet.ts`, `spark-wallet.ts`) | remembered identities | create/look up invoice, quote, pay, look up payment | LNbits or Spark |
| Confessions (`server.ts`) | confess store file, ledger lock, set of mirrors in flight | `createConfession`, `processConfessXMirror` from a timer or the interval | relays, X |
| Wired-account posts (`server.ts`) | its store file and lock | `createWiredAccountPost` | relays, enrollment in the ledger |
| Media moderation (`media-moderation/`) | store in memory and file, write queue, job queue, slots | verdict requests, rescan, overrides, recovery, close | analyzer, moderation store |
| Feed snapshot (`feed-snapshot-service.ts`) | snapshot, cache file, the active refresh | refresh, abort, cancel, load | relays, moderation store |
| Deployment (`scripts/deploy-wired-admin-umbrel.mjs`) | checkout, installed compose file and manifest, backups | one run per job: sync, install, update, restart, smoke checks | git, umbreld, docker |
| Moderation store (`moderation.ts`) | JSON file | create and delete actions, manifest | HTTP routes |
| Relay sessions (`server-relay-session.ts`) | connections and attempts of one session | ensure relays, finite queries, close | relays |
| Relay gateway (`relay-gateway.ts`) | one backend socket and queue per client | forwards frames, checks proof of work | clients, strfry |
| Publisher (`nostr-publisher.ts`) | none | publish to many relays with a time limit | relays, evidence |
| Evidence (`evidence/`) | bounded queues, aggregates | defer, drain, enqueue, upload | a sink |
| Shutdown (`server-shutdown.ts`) | a started flag, a force timer | signals, close | sockets, feed, media |
| HTTP routes, access, renderer, proof of work, contracts | none that outlives a request | parsing, authorisation, drawing | all of the above |

Where the difficulty lies: a payout is decided from a balance that was read three
network requests earlier; a payment that timed out may have been made; the
webhook and overlapping interval runs reconcile the same rows; several processes
may open one database; one promise chain serialises a file of whole-file writes;
callers share a cancellable refresh; and a mirror run works through a list that
others change meanwhile; sockets open after their deadline, when nobody waits for
them any more; frames arrive before the backend they are for; and a deployment may
be killed between any two of its commands and run again.

What makes each part correct: the books balance and no creator is paid twice or
from money that is not owed (revenue); a zap has one invoice and one receipt and
a paid one gets it (invoices); the daily cap, the proof and the rule that a text
is mirrored for one confession only hold for concurrent submissions, and a
settled mirror is left alone by every run that reads it after (confessions); one scan per URL and no lost
job (media); one caller's abort is no other's, a cancelled refresh leaves no trace
while the process runs and a blocked event leaves the feed (feed refresh); the feed shows what has work
behind it, hides what is blocked and misses nothing the relays hold (feed
contents); no connection is leaked, every call returns and says what happened
(sessions, publisher); a proof buys one post and an enrollment is only active for
a post that exists (wired account); no sample is lost unnoticed (evidence); no
frame is lost or overtaken while its client stays (gateway); a completed
deployment is the one that is served and what was started before can be restored
(deployment).

## Modules

| Module | Models | Composition |
|---|---|---|
| `RevenueLedger` | every settlement and payout method of the ledger, one action each | |
| `CreatorAccount` | what the revenue service promises a creator | abstract specification |
| `RevenuePayouts` | the service's calls over the ledger, and the provider | EXTENDS RevenueLedger, INSTANCE CreatorAccount |
| `ZapInvoices` | invoice creation in several processes, settlement and receipts | |
| `Confessions` | confessions and their mirror on X | |
| `MediaModeration` | the job queue and the store under it | |
| `FeedRefresh` | the shared refresh of the feed snapshot | |
| `FeedContents` | what refreshes find, select, hide and carry over | |
| `RelaySession` | connections, queries and deadlines of one finite session | |
| `RelayEvidence` | samples on their way to the operator: deferred, added up, queued, uploaded | |
| `Publishing` | one publication to many relays | EXTENDS RelayEvidence |
| `WiredPosts` | posts of the wired account and their enrollments | EXTENDS Publishing |
| `RelayGateway` | pairs of sockets, and the shutdown of the process that holds them | |
| `Deployment` | the deployment script, umbreld's restart and the process it replaces | EXTENDS RelayGateway |
| `MC...` | the small instances | EXTENDS the module |
| `ConfessionsProofs`, `ZapInvoicesProofs`, `MediaModerationProofs`, `RelaySessionProofs`, `WiredPostsProofs`, `DeploymentProofs` | theorems about the module of that name (and those it extends) | EXTENDS the module, TLAPS |
| `RevenueProofs` | theorems about `RevenueLedger` and `RevenuePayouts` | EXTENDS RevenuePayouts, TLAPS |
| `FeedProofs` | theorems about `FeedRefresh` and `FeedContents`, which share no name | EXTENDS both, TLAPS |

**RevenueLedger.** A ledger method is one SQLite transaction, so it is one
action; a method that throws rolls back and is an action that is not enabled. The
entry table is kept as what its readers take from it: the sums per payout key
(`balanceFor`), Wired's sum, the total, and the set of unique keys, because
`INSERT OR IGNORE` makes what a completion or a release moves depend on whether
its key was used. `laterCredit` stands for the comparison of times in
`sweepLegacySucceededPayoutRemainder`.

**RevenuePayouts.** A worker is one call of `reconcileInvoice` or `reconcileAll`
and its record holds what the call awaits and the locals it will use afterwards:
`quoting` carries the balance read before the network requests. The validation of
the address, the invoice request and the fee quote touch no shared state and are
one await with several ways to fail. `Dispatch` separates the reservation from
the call of the provider because a crash fits between them, and `LoopFree` keeps
other callbacks out. The provider may receive a payment or lose it, conclude it
much later, and answer with what it knew when it looked. Ties of
`latestPayout` (rows written in one millisecond) are a choice.

**ZapInvoices.** Calls queue per process, as in `#invoiceCreationQueue`; the
lease of an intent keeps other processes out until it expires. The wallet can
hand out a second invoice for one zap, for its check and its creation are two
requests and Spark's memory of keys is per process. `createInvoice` is three
statements and so three steps. Reconcilers carry the invoice row as they read it.

**Confessions.** The lock, the store read, the publication, the store write and
the release are the steps of a submission; the runs of the mirror carry the
mirror objects of their own read, and a timer the one it was set with. A run reads
its list and takes up the first mirror of it in one step (`StartPending`), for no
await is in between; it comes to the others after the requests of those before
(`Visit`), and all that `processConfessXMirror` looks at then is the old mirror and
`confessXMirrorInFlight` (`Begin`, `Skip`). X may carry out a request whose answer is
lost (`Lossy`). Timers and runs may overlap freely, but for one thing: a timer is
set to 0 ms, so when a run has overtaken it the timer fires before X answers that
run (`TimerDue`).

What the models say of X is in four parts. `MirrorsAreHonest`: one confession for
a text, one run at a time for a confession, and no untrue row. `SettledIsLeftAlone`:
a confession that is posted, blocked or given up, and of whose mirror no timer and
no run holds a copy from before, is never posted or rewritten again. That a
confession is posted once is not true: a run with an old list posts it again, which
`confess_stale` shows (`StoredPostIsReused`), and so does a retry after a reply that
threw (see below). `MirrorSettles`: in the end every mirror is posted, blocked or
given up.

**MediaModeration.** Writes carry the snapshot taken when the change was made.
`Pump` has priority over every other step, as a loop without awaits. A rejected
write leaves every later one rejected, as the promise chain does.

**FeedRefresh.** Stages of the refresh, its controller and its owners. Callers
that leave, shut down or join late are told apart; the content is what the
snapshot shows of one event that moderators block and unblock.

**FeedContents.** A refresh as a sequence of queries, each answered or not:
activity from the relays that ask for work, rounds that look for the roots of
that activity, the roots themselves, the replies, then the manifest and the
selection of posts, then what the posts quote. Events are numbers in the order of
their creation, so that what one refers to is smaller; the threads come from a set
of shapes and the distribution over the two relays is arbitrary. `work` holds the
local variables of the refresh, `fresh` among them, the events that are not too old
for `since` when the posts are selected; `since` moves on, as time does, and the snapshot
of one refresh is the cache of the next. `PostsAreBacked` and `FeedIsComplete`
say the two sides of the same thing with paths (`Leads`), not with the functions
of the model.

**RelaySession.** One session of `withFiniteRelaySession` and any callback: its
queries and its further `ensureRelays` call come in any order and at the same
time. `attempt` is what the session knows of a dialled relay and `socket` what
really became of it; a relay that connects when its attempt is over is the
difference. `finish`, `maybeFinish` and `settleTarget` are the operators `Finish`,
`MaybeFinish` and `SettleTargets`.

**RelayEvidence, Publishing, WiredPosts.** `WiredPosts` is one composition of
three: calls of `createWiredAccountPost` queue for the lock, enroll, publish,
write the store and activate; each publication dials its relays, has two time
limits for each and defers one sample; the samples run through two bounded queues
that drop their oldest entry. `history` counts what has not left yet and is there
for the property only. A second signature of the same event differs from the
first, so an enrollment row is known by the call that signed it.

**RelayGateway, Deployment.** A client's frames are numbered; `link` has the state
of both its sockets and where each frame went. `BeginShutdown`, `ForceShutdown`
and `ServerClosed` are `server-shutdown.ts`. `Deployment` puts the script around
it: each of its commands is a step, a run may end anywhere, umbreld stops the
process with a signal and starts one from the files that are installed at that
time.

## Runs

| Run | Bounds | States | What it shows |
|---|---|---|---|
| `ledger` | 2 creators, 2 zaps of 2 amounts, 2 payouts with and without a rounding, 2 identities, 2 fees | 108 k | every order of ledger calls conserves money, keeps the reserve exact, makes outcomes final and costs a creator no more than dust |
| `payouts` | 1 creator, 2 zaps, 2 payouts, webhook and reconciler, 1 crash, fee limit near Wired's income | 138 k | no double payment, no release before a refusal, no orphaned attempt, overdraft bound, implementation of `CreatorAccount`, every final outcome reaches the ledger |
| `zap` | 1 zap, 2 calls, 2 processes, 2 hashes, 2 receipts, 2 reconcilers, 1 expiry, 1 crash | 58 k | every answer is the stored invoice, one receipt, nothing published before it is credited; a paid zap gets its receipt, calls end |
| `confess` | 3 confessions of one text, 2 submissions, 2 runs, cap 2, 2 attempts, 1 crash, lost answers | 289 k | cap, no lost update, a text on X for one confession only and one run at a time for it, rows that are true of X; every mirror is settled in the end |
| `confess_lists` | 2 confessions of two texts, 1 submission, 2 runs, 2 attempts, lost answers | 2.5 M | what is settled is left alone, also by runs that have lists to work through |
| `media` | 2 URLs, 1 slot, 2 callers, 1 restart, failing writes | 74 k | one scan per URL, no marked URL forgotten; a job leaves the file only with its verdict, and is done in the end |
| `feed` | a request, the interval, a moderator, 1 restart | 57 k | aborts are private, what an aborted refresh fetched is not served while the process runs and does not stay in the file, refreshes end and moderation arrives |
| `contents` | 3 events in 6 shapes on 2 relays, depth 0 to 2, 2 refreshes, 1 change of the moderation store, 1 event that grows old | 3.3 M | what is shown has work that is fresh when it is selected, and is not hidden; what the relays hold is found, threads are whole, posts are carried over |
| `relay_session` | 2 relays (one configured), 2 queries, 1 event per relay | 161 k | no leaked connection, true completions, every call returns |
| `wired_posts` | 2 calls of one proof, 2 relays, queues of 1, 1 crash | 362 k | one post per proof, true answers; samples that add up, no sample or envelope unaccounted for; every call is answered |
| `deploy` | 1 client with 2 frames, 1 request, 2 revisions, 2 runs | 380 k | files whole at every point, completed means served, restorable, frames in order, restarts end |
| `confess_stale` | 2 confessions, 2 runs, 2 attempts, no lost answer | | the disagreement below |

The schema of the ledger's tables, `LedgerTypeOK`, is part of `TypeOK` in `payouts`.
A property that is a conjunction (`PayoutsAreSafe`, `FeedIsComplete` and so on)
names its parts, which are defined and commented above it.

Why the bounds suffice: the interesting cases need two actors and one shared
item. In `ledger` the second creator shows that keys do not mix; a third payout
would repeat the second since at most one is active per key. In `payouts` two
zaps of 21000 msat leave remainders (14700 each), a limit of 14000 forces a
payout of part of the balance, and fees of up to 12000 against an income of 6300
per zap make the Wired balance go negative. In `confess` the third confession is
the one that the cap refuses; all have one text there, so that one of them is
mirrored, and `confess_lists` has two that are, which makes the second on a run's
list the one that is taken up late; `MirrorSettles` is checked for one mirrored
confession only, since its states with such lists are too many for liveness. In
`contents` a chain of three events is deeper than
the rounds of depth 0 and as deep as those of depth 1, and the second refresh is
the first with a cache. In `relay_session` one relay is dialled at once and one
only when the callback asks. In `wired_posts` queues of one entry overflow with
the second publication. In `deploy` two runs are a failed one and its rerun, or
two jobs in the wrong order; the second revision's versions do not match, and all
revisions have one version, so that a comparison of versions alone tells nothing. One crash at every point covers every point; after
it the system is in a state other runs start from. The counters `crashes`,
`expiries`, `restarts` and `MaxTweets` are bounds of the models only.
So are `MaxChanges`, `MaxAge`, `MaxRefreshes`, `MaxRuns` and `MaxFrames`; `Stored`
is what a relay holds. `MaxTasks`, `MaxQueue`, `PerEnvelope` and `CounterLimit`
are limits of the code, made small. `CHECK_DEADLOCK FALSE` is set because every model can come to rest: all zaps are
credited and paid, all calls have ended.

Each property has a mutation of the code's definition, an operator named
`Faulty...` beside it, under which TLC finds the property violated.

## Fairness

* The event loop runs a callback whose await is over: weak fairness of every
  call, and of a refresh or a write, all of which have time limits in the code.
* Intervals come round: `setInterval` starts another `reconcileAll` or mirror
  run and every row that stays due is taken by some run. It is strong fairness
  where other runs may occupy the model's few workers at the time.
* Environment, stated only where a liveness property needs it: a lookup that is
  repeated for ever is answered at some time; some relay accepts at some time;
  of the refreshes the interval waits for some find relays and disk at work; a
  client told "pending" asks again (its own polling); a stopped process is
  started again. Nothing is assumed of a payment's outcome, of X, or of an
  operator.
* Sessions and publications assume their timers and nothing of relays: a query,
  a connection attempt and an answer all have a `setTimeout`. `wired_posts` needs
  weak fairness only of some ready step of the process, since no call goes on for
  ever.
* `deploy` assumes that docker goes through with a restart, that the force timer
  fires and that a socket that is being closed gets closed (`ws` destroys one
  whose peer does not answer); clients, requests and the script may stop anywhere.
* A timer of the mirror fires.
* The lock of the confess store is a promise chain and first come first served:
  strong fairness of taking it.

## What the models found

* `confess_stale` shows it: `processPendingConfessXMirrors` reads its list once and
  awaits the requests of each mirror on it before it comes to the next
  (`server.ts:1141`). A timer or the next interval run posts a confession meanwhile,
  X refuses the reply, and the row stores the identity of the post; the first run
  still has the mirror as "pending", finds it no longer in flight
  (`server.ts:1098-1105`) and posts the confession a second time, with every answer of
  X received. Then the row of the first post is overwritten. README.md:147 says that
  retries reuse the stored post. A confession whose reply succeeded is posted again
  in the same way. `SettledIsLeftAlone` says what does hold.
* The model takes the same step from the code in another place, on which no run is
  spent: a reply that throws (`Thrown`), instead of being refused, is stored over the
  row as it is found (`server.ts:1112`), without the identity X had given the
  original post, and the retry posts it again, against the same sentence.
* `deploy/staging/spark-real-sat-canary.md` says that the 0.7 sats a 14-sat payout
  leaves stay available to the creator; `completePayout` (`revenue/ledger.ts:597`)
  gives them to Wired. `OutcomesStand` states what the code does: a creator loses
  less than a satoshi with each payout, and nothing else.
* `deploy/staging/README.md` and the canary describe the not-found grace period as
  the time a reservation is kept; the code (`revenue/service.ts:455`) never ends
  the reservation of a payment the provider does not know and uses the period for
  an alert only. `OutcomeRecorded` therefore speaks of concluded payments.
* A revenue post whose publication failed cannot be tried again: the retry is
  signed anew, its bytes differ, and `createEnrollment` calls it a conflict
  (`revenue/ledger.ts:228`).
* `fetchReplyClosure` does not ask for replies to a reply that it knew already
  (`feed-snapshot-service.ts:592`), so a deep reply to something found with the
  activity is not looked for; `docs/research/relay-audit-rubric.md` speaks of
  recursive descendants. `ThreadsAreWhole` names the exception.
* Two moderation actions at the same time go through one temporary file and each
  writes back the list it read (`moderation.ts:216`): one is lost. And a blocked
  domain keeps its upper case, because `|| ""` and the two calls after it bind
  together (`moderation.ts:119`), so that it matches no host.
* Nothing orders the publish jobs of two revisions: an older one that ends its
  build later, or is run again, deploys over the newer one.
* A process that ends after relays accepted a confession and before the store is
  written has published it and not counted it (`server.ts:1364`).

## Proofs

Eight modules hold proofs. Each has one inductive invariant, a lemma for every
action that says the action preserves it (lemmas named `...Keeps` or `...Step`),
and theorems that conclude `Spec => []Inv` and, from it, the properties the runs
check. The theorems hold for every value of the constants that meets the named
assumption of the module; the assumptions are only those the code justifies:
times and bounds are numbers, the kinds of processes are disjoint, one sum ranges
over a finite set. They are about `Spec`, which `FairSpec` implies; the provers know
nothing of fairness, so that no theorem
says what happens in the end.

**`RevenueProofs`: the ledger.** `LedgerBooksBalance`, `LedgerReservesAreHeld`,
`LedgerOutcomesStand`, `LedgerTypeInvariant`, from `AmountsAssumption` (zaps and
payouts are positive, roundings below one satoshi, fees not negative),
`KeysAssumption` (finitely many creators) and `ProviderAssumption` (no payment
identity is NULL). None of the invariants but the types is inductive alone. A
completion moves the reserved amount only if its unique key is fresh
(`INSERT OR IGNORE`), so that conservation and the reserve need that the keys of
an active payout are fresh (`ClosingEntriesMatchOutcome`); and that an active
payout's completion empties the reserve needs that it is the only one
(`ReservedIsActivePayout`). Their conjunction is `LedgerInv`. It is preserved by
any ledger call with arguments of the right kind (`LedgerCall`), not only by
`LedgerNext`, which is what lets the proofs about the service use it. The sums
over rows are folds of the community modules, whose defining recursive function
has to be shown to exist first (`SumExists`); `SumAdd`, `SumRemove` and `SumChange`
then say what one more, one less and one changed row do to a sum. The induction
they need is on the subsets of a finite set, with the predicate written as a set
of subsets (`SubsetInduction`).

**`RevenueProofs`: the service.** `PayoutsSafe` (a reservation is released only when
the provider refused for good, and the overdraft of Wired is bounded),
`PayoutsTypeInvariant`, `ServiceKeepsBooks` (the ledger's promises hold under
overlapping calls and crashes), and `ServiceKeepsAccount`: the service over its
ledger implements `CreatorAccount`, under the mapping of `Account`. The heart of
`PayoutsInv` is `AnswersStayTrue`: a call carries an answer across awaits, and
"the provider refused this payment" must still be true when it is handled. It is,
because a payment is dispatched once and before anybody can ask about it
(`DispatchedOnce`), and each row that is `attempting` has one call that owns it
(`AttemptingIsOwned`, a part of `TypeOK`). `StepKinds` sorts all steps into those
that leave payouts alone, those that learn an answer and those of an owner, so
that later lemmas have three cases and not twenty. For the refinement `FundsKinds`
does the same by what a step does to a creator's funds: a credit is `Earn`, the
provider's success is `Send` (not the completion, which comes later), a
completion forfeits the rounding, all else is a stutter.

**`ZapInvoicesProofs`.** `ZapAnswersAreStored`, `ZapReceiptsAreTrue`,
`ZapTypeOK`. The row of a zap gets its hash once and its receipt once (`Grows`), so
that what a reconciliation holds may be out of date but never contradicts the
row (`ReconcilerGood`); that a call answers with the stored hash needs that it
inserts only what was issued for its zap (`CallGood`).

**`ConfessionsProofs`.** `ConfessCapHolds`, `ConfessMirrorsHonest`,
`ConfessNothingLost`, `ConfessSettledIsLeftAlone`, `ConfessTypeOK`. Whoever holds a copy of the store that it
will write back holds the lock (`LockIsHeld`), so that the copy is still the store
and the cap that was checked before the publication is true after it
(`CreatorGood`). Whoever talks to X about a confession has it in
`confessXMirrorInFlight` (`OneRunEach`), so that the mirror objects of other runs
and of timers, which are older, still say nothing of X that is not so
(`GoodMirror`). That what is settled is left alone goes by the copies of a mirror:
a step that touches a confession is of a run that has it on its list or is at work
on it, or reads a mirror that can be retried (`SettledStep`), and what a run or a
submission writes of the other rows is what the store has. `ConfessAssumption` says also that no call is named "free", which
is how the model writes that nobody holds the lock.

**`MediaModerationProofs`.** `MediaQueueIsSound`, `MediaJobsLeaveWithVerdict`,
`MediaTypeOK`. The file, the writes under way and the store in memory are a chain
in which no job is dropped without a verdict (`Chain`); who awaits a write awaits
only that one (`OneWriteEach`), so that a failure wakes the right ones; a marked
URL is in one place: queued, being scanned, or with the request that is about to
queue it (`Once`, `OnItsWay`).

**`FeedProofs`: the shared refresh.** `FeedAbortsAreContained`, `FeedAbortedIsNotServed`,
`FeedTypeOK`. A refresh that is aborted while the process goes on has no owner left,
so that who waits for it later joined late (`CallGood`); and the file differs from
what is served only from the end of an aborted write to the end of its rolling
back, or after a write that failed.

**`FeedProofs`: what a refresh finds.** `PostsAlwaysBacked`, `FeedAlwaysComplete`,
`ContentsTypesHold`, for any threads that refer to earlier events only, any depth,
any distribution of events over the relays and any moderation. Backed means: by an
event that leads to the post over what is stored, that was returned where relays
were asked for work, and that was fresh when the posts were selected, so that no
old root that is carried over keeps itself. `PostsAreBacked` and
`FeedIsComplete` speak of paths of references, the code of loops with a limit, and
the proof takes one to the other. Each recursive function of the model is shown to
run through rounds (`Iterates`, then `Climbs`, `ThreadRounds`, `ClosureRounds`,
`BelowLevels`), with induction up to a number (`UpTo`). From that: the climb of
`traceRootRefFromKnownEvents` follows a path as far as it is known and stops at its
end (`ClimbFollows`); what it reaches is led to (`ReachedLeads`); the replies that
are collected are a fixed point, since replies are later than what they refer to
(`ThreadRepliesAre`); and each round of `fetchReplyClosure` brings the replies to
the one before that were not known (`ClosureFinds`). The invariant `ContentsInv`
says of each stage of a refresh what its local variables have been made of. Its
heart is `Traced`: after m rounds with answers, whatever the relays have within m
links above the activity is known, because the first link that is not known is the
one that the next round asks for (`NextLink`), and one that was asked for before
and is still unknown is not there. When nothing is missing, or the rounds are used
up, that holds for as many links as the climb may follow (`RootsTraced`).

**`RelaySessionProofs`.** `SessionCompletionIsTruthful`, `SessionTyped` (which
says too that no connection is leaked), for finitely many relays. An attempt is
settled once, so that a target that took its state from it stays right
(`Earned`); relays of connected attempts are in the session's map until it closes
(`ConnectionsHeld`), which is why a target that is "timed-out" in a settled query
was not reached.

**`WiredPostsProofs`.** `PostsHonest`, `WiredEvidenceAddsUp`, `PostsTyped`,
`SamplesAlwaysConserved`, over posts, publisher and evidence together. Only the
first call of the lock's queue is past its turn (`LockGood`), so that nobody records
its event while it publishes; the row it enrolled stays pending until it settles it
(`CallGood`), and a row's signer is known (`RowGood`). That samples add up is
counting: the relays of a publication fall into the four ways to settle
(`EachTargetCountsOnce`, with
cardinalities). What the collector holds is the result of a fold over the deferred
tasks; `FlushRuns` gives what it holds after each of them, and `FlushIsCapped`
carries the caps through. The assumption that there are at most `CountLimit` relays
is the code's: its check throws for more.

`SamplesAlwaysConserved` is an equation of sums, which the proof takes to running
sums (`Running`): a drain cuts what the collector holds into envelopes without
loss (`EnvelopesCount`), and a flush adds one for each sample (`FlushCounts`) as
long as no outcome has both of its counters full. Filling both takes
`2 * CounterLimit` samples, and the other half of the invariant `SamplesInv` is that
the samples that are deferred or in the collector are never more than the
publications that have ended. So the theorem assumes
`Cardinality(Publications) <= 2 * CounterLimit`, a bound on the publications of a
history (two million in the code, in all windows together), and beyond it the
property can fail: with both counters full the code loses count. The run
meets the assumption exactly, with 2 publications and a limit of 1.

**`DeploymentProofs`.** `FramesAlwaysArrive`, `StartedAlwaysRestorable`,
`DeploymentTypesHold`, and `CompletedAlwaysServed`, which is the safety half of
`RestartsServe`, for any clients, frames, revisions and versions. For the gateway
the invariant is about one link (`LinkOK`): what was forwarded and after it what
waits for the backend (`Way`) is in order, shares no frame with those that the
gateway answered, and makes up all frames of the client with them while it is
connected; and only a backend that is connecting has frames waiting. Only the count
of clients relates two links. For the script it is what each of its stages may
assume (`StagesHold`): that the files are in a backup when they are about to be
replaced, which of them are in place afterwards, and from which of them the app was
started. Runs do not overlap, so that nothing but the app itself changes between
two stages, and a run begins without any of it, wherever the one before ended.

Only model-checked:

* every liveness property (`OutcomeRecorded`, `ZapsEnd`, `MirrorSettles`,
  `JobsGetDone`, `RefreshesEnd`, `CallsReturn`, `CallsAreAnswered`,
  `RestartsServe`): fairness and ENABLED are beyond the prover.

## Not modelled

* Pure functions: proof of work, the scores and the order of feed posts, drawing,
  parsing, encryption; the administration page, which keeps nothing; the analysis
  of one attachment, which is one await of the media queue.
* HTTP routes, access and rate limits, except as the origin of the calls above.
* Of the feed: profiles and the limits of 30 posts and 12 replies. Of the
  gateway: what the backend answers, which is passed on. Of the evidence: the
  other owners and the latency histograms. Of media moderation: overrides, the
  audit log and the cache by content hash. Of the confess account: failing store
  writes and the change of day. Of the revenue service: enrollment over its
  public route and repair commands outside the ledger.
* Of the deployment script: `WIRED_ADMIN_SKIP_RESTART` (422-425),
  `WIRED_ADMIN_SKIP_READY_POLL` (431) and `WIRED_ADMIN_SKIP_LOCAL_SMOKE` (462), which
  no workflow sets. The two copies of its backup are one step, since nothing is
  written before both are made.
* Of the publisher: a `relay.close()` that throws (`nostr-publisher.ts:169-174`).
* What a media write that is rejected leaves behind: `MediaModeration` has the step,
  and its properties speak of stores that can still be written.
* Concurrent writes of the moderation store: there is nothing to check but the
  loss described above.
* A store file that cannot be parsed is read as empty; no step of a model leaves
  such a file.

## Plan

What remains is to model more: overrides of media moderation and its cache by
content hash; failing store writes in `Confessions`; the limits of 30 posts and 12
replies, which take the order of posts. The theorems cover every safety property of
the runs but those named above.

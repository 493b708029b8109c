---------------------------- MODULE FeedRefresh ----------------------------
(***************************************************************************)
(* The refresh of the feed snapshot (web/src/feed-snapshot-service.ts):    *)
(* callers share one refresh, each may give up its share, the last one to  *)
(* do so cancels it, and a refresh that is cancelled while it writes the   *)
(* cache file writes the previous snapshot back.  Callers are the          *)
(* interval, HTTP requests and the moderation routes (web/src/             *)
(* http-routes.ts), which change the manifest before they refresh.  The    *)
(* refresh at start-up counts as one of the interval's.                    *)
(*                                                                         *)
(* A snapshot is what it shows of one event that moderators may block:     *)
(* every refresh filters the cached and the fetched events alike with the  *)
(* manifest it read.  The queries of a refresh are one await before the    *)
(* manifest is read and one after.                                         *)
(***************************************************************************)
EXTENDS Integers, FiniteSets

CONSTANTS
  Requests,      \* refresh calls of HTTP requests, aborted when they are
  Intervals,     \* calls of the scheduler, aborted when it is closed
  Moderators,    \* calls that follow a moderation action, never aborted
  MaxRestarts    \* bound on crashes and restarts

Callers == Requests \cup Intervals \cup Moderators

ASSUME FeedAssumption ==
  /\ Requests \cap Intervals = {} /\ Requests \cap Moderators = {}
  /\ Intervals \cap Moderators = {}
  /\ MaxRestarts \in Nat

VARIABLES
  blocked,     \* moderation.json: a moderator blocks the event
  refresh,     \* activeRefresh: its stage, controller and owners
  caller,      \* refresh call -> what it waits for, and how the last one ended
  snapshot,    \* the snapshot served
  file,        \* the cache file
  unwritten,   \* the last write of the cache file failed
  stopping,    \* the shutdown has closed the schedule
  restarts

vars == <<blocked, refresh, caller, snapshot, file, unwritten, stopping, restarts>>

None == [at |-> "none", aborted |-> FALSE, owners |-> {}, next |-> "none"]
New(c) == [at |-> "fetching", aborted |-> FALSE, owners |-> {c}, next |-> "none"]
Idle == [at |-> "idle", aborted |-> FALSE, late |-> FALSE, got |-> "none"]

Init ==
  /\ blocked = FALSE
  /\ refresh = None
  /\ caller = [c \in Callers |-> Idle]
  /\ snapshot = "none"
  /\ file = "none"
  /\ unwritten = FALSE
  /\ stopping = FALSE
  /\ restarts = 0

\* Operators named Faulty... are plausible mistakes in the definition that
\* follows them; no other definition uses them.

----------------------------------------------------------------------------
(* refresh() and the abort of a caller's signal *)

FaultyJoined(c) == refresh
Joined(c) == [refresh EXCEPT !.owners = @ \cup {c}]

\* A call starts a refresh or joins the one that is under way, even when that
\* was aborted and has only not ended yet.
Call(c) ==
  /\ caller[c].at = "idle"
  /\ refresh' = IF refresh.at = "none" THEN New(c) ELSE Joined(c)
  /\ caller' = [caller EXCEPT ![c] =
                  [Idle EXCEPT !.at = "waiting", !.late = refresh.aborted]]
  /\ UNCHANGED <<snapshot, file, unwritten, stopping, restarts>>

Request(c) == c \in Requests /\ Call(c) /\ UNCHANGED blocked
Tick(c) == c \in Intervals /\ ~stopping /\ Call(c) /\ UNCHANGED blocked
Moderate(c) == c \in Moderators /\ Call(c) /\ blocked' = ~blocked

FaultyLastOwners(leaving) == TRUE
LastOwners(leaving) == refresh.owners \subseteq leaving

\* Callers that leave together; the last one to leave waits for the refresh to
\* end, and no one leaves a refresh that is committed.
Leave(leaving) ==
  caller' = [c \in Callers |->
    IF c \notin leaving THEN caller[c]
    ELSE IF refresh.at = "committed" THEN [caller[c] EXCEPT !.aborted = TRUE]
    ELSE [caller[c] EXCEPT !.aborted = TRUE, !.got = "abort",
                           !.at = IF LastOwners(leaving) THEN "cancelling" ELSE "idle"]]
Remaining(leaving) == IF refresh.at = "committed" THEN refresh.owners ELSE refresh.owners \ leaving

Disconnect(c) ==
  /\ c \in Requests /\ caller[c].at = "waiting" /\ ~caller[c].aborted
  /\ Leave({c})
  /\ refresh' = [refresh EXCEPT !.owners = Remaining({c}),
                                !.aborted = @ \/ (refresh.at # "committed" /\ LastOwners({c}))]
  /\ UNCHANGED <<blocked, snapshot, file, unwritten, stopping, restarts>>

\* The schedule aborts its calls, then cancelRefresh aborts what is under way.
Shutdown ==
  /\ ~stopping /\ restarts < MaxRestarts
  /\ stopping' = TRUE
  /\ LET leaving == {c \in Intervals : caller[c].at = "waiting"}
     IN  /\ Leave(leaving)
         /\ refresh' = IF refresh.at = "none" THEN None
                       ELSE [refresh EXCEPT !.owners = Remaining(leaving), !.aborted = TRUE]
  /\ UNCHANGED <<blocked, snapshot, file, unwritten, restarts>>

----------------------------------------------------------------------------
(* The refresh *)

Stage(at) == refresh' = [refresh EXCEPT !.at = at]

FaultyContent == IF blocked /\ snapshot # "visible" THEN "hidden" ELSE "visible"
Content == IF blocked THEN "hidden" ELSE "visible"

ReadManifest ==
  /\ refresh.at = "fetching" /\ ~refresh.aborted
  /\ refresh' = [refresh EXCEPT !.at = "filtered", !.next = Content]
  /\ UNCHANGED <<snapshot, file, unwritten>>

\* A query or the manifest fails, or the signal is found aborted.
FetchFails ==
  /\ refresh.at \in {"fetching", "filtered"}
  /\ Stage("failed")
  /\ UNCHANGED <<snapshot, file, unwritten>>

StartPersist ==
  /\ refresh.at = "filtered" /\ ~refresh.aborted
  /\ Stage("persisting")
  /\ UNCHANGED <<snapshot, file, unwritten>>

FaultyAborted == FALSE
Aborted == refresh.aborted

AfterAbort == "rolling back"

\* The file is written before the snapshot is served; an abort in between
\* leaves the old snapshot in place.
Persisted ==
  /\ refresh.at = "persisting"
  /\ file' = refresh.next
  /\ unwritten' = FALSE
  /\ \/ ~Aborted /\ Stage("committed") /\ snapshot' = refresh.next
     \/ Aborted /\ Stage(AfterAbort) /\ UNCHANGED snapshot

\* The file is not replaced but written over: a failure may leave a part.
PersistFails ==
  /\ refresh.at = "persisting"
  /\ file' \in {file, "torn"}
  /\ unwritten' = TRUE
  /\ Stage(IF Aborted THEN AfterAbort ELSE "failed")
  /\ UNCHANGED snapshot

RolledBack ==
  /\ refresh.at = "rolling back"
  /\ Stage("failed")
  /\ \/ file' = snapshot /\ unwritten' = FALSE
     \/ file' \in {file, "torn"} /\ unwritten' = TRUE
  /\ UNCHANGED snapshot

Progress ==
  /\ ReadManifest \/ FetchFails \/ StartPersist \/ Persisted \/ PersistFails \/ RolledBack
  /\ UNCHANGED <<blocked, caller, stopping, restarts>>

Answer ==
  IF refresh.at = "committed" THEN "snapshot" ELSE IF refresh.aborted THEN "abort" ELSE "error"

Answered == refresh.owners \cup {c \in Callers : caller[c].at = "cancelling"}

\* The refresh ends for all who share it, and for the one whose leaving
\* cancelled it.
Settle ==
  /\ refresh.at \in {"committed", "failed"}
  /\ refresh' = None
  /\ caller' = [c \in Callers |->
       IF c \in Answered
       THEN [caller[c] EXCEPT !.at = "idle", !.got = IF @ = "abort" THEN @ ELSE Answer]
       ELSE caller[c]]
  /\ UNCHANGED <<blocked, snapshot, file, unwritten, stopping, restarts>>

----------------------------------------------------------------------------

Written == IF refresh.at = "persisting" THEN {refresh.next, "torn"}
           ELSE IF refresh.at = "rolling back" THEN {snapshot, "torn"} ELSE {}

\* The process ends, perhaps within a write; loadFromDisk ignores a file it
\* cannot parse.
Restart ==
  /\ restarts < MaxRestarts
  /\ restarts' = restarts + 1
  /\ file' \in {file} \cup Written
  /\ snapshot' = IF file' = "torn" THEN "none" ELSE file'
  /\ unwritten' = (file' = "torn")
  /\ refresh' = None
  /\ caller' = [c \in Callers |-> Idle]
  /\ stopping' = FALSE
  /\ UNCHANGED blocked

Next ==
  \/ \E c \in Callers : Request(c) \/ Tick(c) \/ Moderate(c) \/ Disconnect(c)
  \/ Shutdown
  \/ Progress
  \/ Settle
  \/ Restart

Spec == Init /\ [][Next]_vars

\* A refresh comes to its end and a stopped process is started again.  Of the
\* interval's calls some find no refresh under way, and, of the refreshes that
\* the interval waits for, some find the relays, the manifest and the disk at work.
ForInterval(A) ==
  /\ refresh.owners \cap Intervals # {} /\ ~refresh.aborted /\ A
  /\ UNCHANGED <<blocked, caller, stopping, restarts>>

Fairness ==
  /\ WF_vars(Progress)
  /\ WF_vars(Settle)
  /\ WF_vars(stopping /\ Restart)
  /\ SF_vars(refresh.at = "none" /\ \E c \in Intervals : Tick(c))
  /\ SF_vars(ForInterval(ReadManifest))
  /\ SF_vars(ForInterval(StartPersist))
  /\ SF_vars(ForInterval(Persisted))

FairSpec == Spec /\ Fairness

----------------------------------------------------------------------------

Contents == {"none", "visible", "hidden"}
Stages == {"none", "fetching", "filtered", "persisting", "rolling back", "committed", "failed"}

\* The owners of the refresh are exactly the calls that wait for its outcome.
TypeOK ==
  /\ refresh \in [at : Stages, aborted : BOOLEAN, owners : SUBSET Callers, next : Contents]
  /\ caller \in [Callers -> [at : {"idle", "waiting", "cancelling"}, aborted : BOOLEAN,
                             late : BOOLEAN, got : {"none", "snapshot", "abort", "error"}]]
  /\ refresh.owners = {c \in Callers : caller[c].at = "waiting"}
  /\ snapshot \in Contents
  /\ file \in Contents \cup {"torn"}
  /\ restarts \in 0..MaxRestarts

\* Between refreshes the file holds what is served, unless its last write
\* failed: an abort during a write is undone completely.
FileHoldsSnapshot == refresh.at = "none" /\ ~unwritten => file = snapshot

\* What an aborted refresh fetched is not served while the process runs.  One
\* that ends before the write is rolled back leaves it in the file, which the
\* next process loads.
AbortedIsNotServed ==
  [][refresh.aborted /\ restarts' = restarts => snapshot' = snapshot]_vars

\* A caller that did not give up is told that the refresh was aborted only on
\* shutdown, or when it joined one that others had already abandoned.
OthersDoNotAbort ==
  \A c \in Callers :
    caller[c].got = "abort" => caller[c].aborted \/ caller[c].late \/ stopping

\* A caller that gives up takes nothing from the others and leaves no trace in
\* the cache file.
AbortsAreContained == OthersDoNotAbort /\ FileHoldsSnapshot

\* A blocked event leaves the snapshot that is served, although the refresh
\* that a moderator asks for may join one that read the manifest before.
ModerationReachesFeed == blocked ~> snapshot # "visible" \/ ~blocked

\* Every call of refresh ends, that of the one who cancelled it included.
CallersReturn == \A c \in Callers : caller[c].at # "idle" ~> caller[c].at = "idle"

\* Refreshes come to an end, for everyone and with what moderators left.
RefreshesEnd == ModerationReachesFeed /\ CallersReturn
=============================================================================

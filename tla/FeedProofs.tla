----------------------------- MODULE FeedProofs -----------------------------
(***************************************************************************)
(* Proofs about FeedRefresh and FeedContents, for all values of their      *)
(* constants.                                                              *)
(*                                                                         *)
(* FeedRefresh, for any requests, intervals, moderators and restarts:      *)
(* types, that an abort takes nothing from the callers that did not ask    *)
(* for it and leaves the file as it was, and that what an aborted refresh  *)
(* fetched is never served.  The argument: a refresh that is aborted while *)
(* the process goes on has lost its last owner, so whoever waits for it    *)
(* afterwards joined late; and the file differs from what is served only   *)
(* from the end of an aborted write to the end of its rolling back, or     *)
(* after a failed write.                                                   *)
(*                                                                         *)
(* FeedContents, for any threads, depth, holdings of the relays and        *)
(* moderation: types, that posts are backed by fresh work over what is     *)
(* shown, and that the feed is complete.  The search for roots runs along  *)
(* chains of references: after m rounds, all that the relays have within m *)
(* links above the activity is known, because the climb from an event      *)
(* stops at the first link that is not known and the round asks for it.    *)
(* What the closure and the collection of replies compute is proved by     *)
(* induction over their rounds; replies are later than what they refer to, *)
(* so collecting them comes to a fixed point within as many rounds as      *)
(* there are events.                                                       *)
(***************************************************************************)
EXTENDS FeedRefresh, FeedContents, FiniteSetTheorems, WellFoundedInduction, TLAPS

RefreshStates == [at : Stages, aborted : BOOLEAN, owners : SUBSET Callers, next : Contents]
CallStates == [at : {"idle", "waiting", "cancelling"}, aborted : BOOLEAN, late : BOOLEAN,
               got : {"none", "snapshot", "abort", "error"}]

\* Who may wait for an aborted refresh, or have left it, or be told of it.
CallGood(call, ownersAborted, ends) ==
  /\ call.at = "waiting" /\ ownersAborted => call.late \/ ends
  /\ call.at = "cancelling" => call.aborted
  /\ call.got = "abort" => call.aborted \/ call.late \/ ends

FeedInv ==
  /\ TypeOK
  /\ refresh.at = "none" => refresh = None
  /\ refresh.at # "rolling back" /\ ~unwritten => file = snapshot
  /\ \A c \in Callers : CallGood(caller[c], refresh.aborted, stopping)

LEMMA FeedInit == Init => FeedInv
<1> SUFFICES ASSUME Init PROVE FeedInv
  OBVIOUS
<1>1. refresh \in RefreshStates
  BY DEF Init, None, RefreshStates, Stages, Contents
<1>2. Idle \in CallStates
  BY DEF Idle, CallStates
<1>3. caller \in [Callers -> CallStates]
  BY <1>2 DEF Init
<1>4. refresh.owners = {c \in Callers : caller[c].at = "waiting"}
  BY DEF Init, None, Idle
<1>5. TypeOK
  BY <1>1, <1>3, <1>4, FeedAssumption
  DEF TypeOK, Init, RefreshStates, CallStates, Contents
<1>6. \A c \in Callers : CallGood(caller[c], refresh.aborted, stopping)
  BY DEF Init, None, Idle, CallGood
<1>7. QED BY <1>5, <1>6 DEF FeedInv, Init

----------------------------------------------------------------------------
(* The calls of refresh *)

\* What a call of refresh leaves of a caller, and of the refresh it joins.
LEMMA CallKeeps ==
  ASSUME FeedInv, NEW c \in Callers, Call(c)
  PROVE  FeedInv'
<1>1. PICK R \in RefreshStates : R = refresh
  BY DEF FeedInv, TypeOK, RefreshStates
<1>2. PICK k \in [Callers -> CallStates] : k = caller
  BY DEF FeedInv, TypeOK, CallStates
<1>3. k[c].at = "idle" /\ R.owners = {d \in Callers : k[d].at = "waiting"}
  BY <1>1, <1>2 DEF Call, FeedInv, TypeOK
<1>4. PICK late \in BOOLEAN : late = R.aborted
  BY <1>1 DEF RefreshStates
<1>5. PICK call : call = [Idle EXCEPT !.at = "waiting", !.late = R.aborted]
  OBVIOUS
<1>6. call \in CallStates /\ call.at = "waiting" /\ call.late = late /\ call.got = "none"
  <2>1. PICK waits : waits = [Idle EXCEPT !.at = "waiting"]
    OBVIOUS
  <2>2. waits \in CallStates /\ waits.at = "waiting" /\ waits.got = "none"
    BY <2>1 DEF Idle, CallStates
  <2>3. PICK joins : joins = [waits EXCEPT !.late = late]
    OBVIOUS
  <2>4. joins \in CallStates /\ joins.at = "waiting" /\ joins.late = late /\ joins.got = "none"
    BY <2>2, <2>3 DEF CallStates
  <2>5. call = joins
    BY <1>4, <1>5, <2>1, <2>3, Zenon
  <2>6. QED BY <2>4, <2>5
<1>7. caller' = [k EXCEPT ![c] = call]
  BY <1>1, <1>2, <1>5 DEF Call
<1>8. /\ caller' \in [Callers -> CallStates]
      /\ caller'[c] = call
      /\ \A d \in Callers \ {c} : caller'[d] = k[d]
  BY <1>2, <1>6, <1>7
<1>9. R.owners \cup {c} = {d \in Callers : caller'[d].at = "waiting"}
  BY <1>3, <1>6, <1>8
<1>10. PICK S : S = refresh'
  OBVIOUS
<1>11. /\ S \in RefreshStates /\ S.owners = R.owners \cup {c} /\ S.at # "none"
       /\ S.aborted = R.aborted
       /\ S.at = "rolling back" <=> R.at = "rolling back"
  <2>1. CASE R.at = "none"
    <3>1. R = None
      BY <1>1, <2>1 DEF FeedInv
    <3>2. S = [at |-> "fetching", aborted |-> FALSE, owners |-> {c}, next |-> "none"]
      BY <1>1, <1>10, <2>1 DEF Call, New
    <3>3. QED BY <3>1, <3>2 DEF None, RefreshStates, Stages, Contents
  <2>2. CASE R.at # "none"
    <3>1. PICK o \in SUBSET Callers : o = R.owners \cup {c}
      BY <1>1 DEF RefreshStates
    <3>2. S = [R EXCEPT !.owners = o]
      BY <1>1, <1>10, <2>2, <3>1 DEF Call, Joined
    <3>3. QED BY <1>1, <2>2, <3>1, <3>2 DEF RefreshStates
  <2>3. QED BY <2>1, <2>2
<1>12. TypeOK'
  BY <1>8, <1>9, <1>10, <1>11 DEF Call, FeedInv, TypeOK, RefreshStates, CallStates
<1>13. ASSUME NEW d \in Callers
       PROVE  CallGood(caller'[d], R.aborted, stopping)
  BY <1>1, <1>2, <1>4, <1>6, <1>8 DEF FeedInv, CallGood
<1>14. (\A d \in Callers : CallGood(caller[d], refresh.aborted, stopping))'
  BY <1>10, <1>11, <1>13 DEF Call
<1>15. QED BY <1>1, <1>10, <1>11, <1>12, <1>14 DEF FeedInv, Call

----------------------------------------------------------------------------
(* Callers that leave *)

\* Whoever is left waiting has joined late when the refresh was aborted, or has
\* an owner left beside it; leavers are aborted themselves.
LEMMA LeaveKeeps ==
  ASSUME FeedInv, NEW leaving \in SUBSET Callers,
         \A c \in leaving : caller[c].at = "waiting",
         Leave(leaving),
         NEW ends \in BOOLEAN, stopping => ends,
         NEW cut \in BOOLEAN,
         cut => refresh.aborted \/ ends \/ (refresh.at # "committed" /\ LastOwners(leaving))
  PROVE  /\ caller' \in [Callers -> CallStates]
         /\ Remaining(leaving) = {c \in Callers : caller'[c].at = "waiting"}
         /\ \A c \in Callers : CallGood(caller'[c], cut, ends)
<1>1. PICK R \in RefreshStates : R = refresh
  BY DEF FeedInv, TypeOK, RefreshStates
<1>2. PICK k \in [Callers -> CallStates] : k = caller
  BY DEF FeedInv, TypeOK, CallStates
<1>3. R.owners = {d \in Callers : k[d].at = "waiting"}
  BY <1>1, <1>2 DEF FeedInv, TypeOK
<1>4. PICK last \in BOOLEAN : last = LastOwners(leaving)
  BY DEF LastOwners
<1>5. last => R.owners \subseteq leaving
  BY <1>1, <1>4 DEF LastOwners
<1>6. PICK to \in {"cancelling", "idle"} : to = IF last THEN "cancelling" ELSE "idle"
  OBVIOUS
<1>7. PICK j : j = caller'
  OBVIOUS
<1>8. j = [c \in Callers |->
             IF c \notin leaving THEN k[c]
             ELSE IF R.at = "committed" THEN [k[c] EXCEPT !.aborted = TRUE]
             ELSE [k[c] EXCEPT !.aborted = TRUE, !.got = "abort", !.at = to]]
  BY <1>1, <1>2, <1>4, <1>6, <1>7 DEF Leave
<1>9. ASSUME NEW c \in Callers
      PROVE  /\ j[c] \in CallStates
             /\ j[c].at = "waiting" <=> k[c].at = "waiting" /\ (c \notin leaving \/ R.at = "committed")
             /\ CallGood(j[c], cut, ends)
  <2>1. PICK x \in CallStates : x = k[c]
    BY <1>2
  <2>2. CallGood(x, R.aborted, stopping)
    BY <1>1, <1>2, <2>1 DEF FeedInv
  <2>3. CASE c \notin leaving
    <3>1. j[c] = x
      BY <1>8, <2>1, <2>3
    <3>2. x.at = "waiting" => c \in R.owners
      BY <1>3, <2>1
    <3>3. x.at = "waiting" /\ cut => R.aborted \/ ends
      BY <1>1, <1>4, <1>5, <2>3, <3>2
    <3>4. QED BY <2>1, <2>2, <2>3, <3>1, <3>3 DEF CallGood
  <2>4. CASE c \in leaving /\ R.at = "committed"
    <3>1. j[c] = [x EXCEPT !.aborted = TRUE]
      BY <1>8, <2>1, <2>4
    <3>2. /\ j[c] \in CallStates /\ j[c].aborted = TRUE /\ j[c].at = x.at
          /\ j[c].late = x.late /\ j[c].got = x.got
      BY <2>1, <3>1 DEF CallStates
    <3>3. x.at = "waiting" /\ cut => R.aborted \/ ends
      BY <1>1, <2>4
    <3>4. QED BY <2>1, <2>2, <2>4, <3>2, <3>3 DEF CallGood
  <2>5. CASE c \in leaving /\ R.at # "committed"
    <3>1. j[c] = [x EXCEPT !.aborted = TRUE, !.got = "abort", !.at = to]
      BY <1>8, <2>1, <2>5
    <3>2. j[c] \in CallStates /\ j[c].aborted = TRUE /\ j[c].at = to
      BY <1>6, <2>1, <3>1 DEF CallStates
    <3>3. QED BY <1>6, <2>1, <2>5, <3>2 DEF CallGood
  <2>6. QED BY <2>3, <2>4, <2>5
<1>10. j \in [Callers -> CallStates]
  BY <1>8, <1>9
<1>11. Remaining(leaving) = {c \in Callers : j[c].at = "waiting"}
  BY <1>1, <1>3, <1>9 DEF Remaining
<1>12. QED BY <1>7, <1>9, <1>10, <1>11

\* One request is aborted.
LEMMA DisconnectKeeps ==
  ASSUME FeedInv, NEW c \in Callers, Disconnect(c)
  PROVE  FeedInv'
<1>1. PICK R \in RefreshStates : R = refresh
  BY DEF FeedInv, TypeOK, RefreshStates
<1>2. PICK cut \in BOOLEAN : cut = (R.aborted \/ (R.at # "committed" /\ LastOwners({c})))
  <2>1. R.aborted \in BOOLEAN
    BY <1>1 DEF RefreshStates
  <2>2. QED BY <2>1 DEF LastOwners
<1>3. PICK ends \in BOOLEAN : ends <=> stopping
  OBVIOUS
<1>4. /\ caller' \in [Callers -> CallStates]
      /\ Remaining({c}) = {d \in Callers : caller'[d].at = "waiting"}
      /\ \A d \in Callers : CallGood(caller'[d], cut, ends)
  <2>1. /\ {c} \in SUBSET Callers
        /\ \A d \in {c} : caller[d].at = "waiting"
        /\ Leave({c})
        /\ stopping => ends
        /\ cut => refresh.aborted \/ ends \/ (refresh.at # "committed" /\ LastOwners({c}))
    BY <1>1, <1>2, <1>3 DEF Disconnect
  <2>2. QED BY <2>1, LeaveKeeps
<1>5. PICK left \in SUBSET Callers : left = Remaining({c})
  BY <1>4
<1>6. PICK S : S = [R EXCEPT !.owners = left, !.aborted = cut]
  OBVIOUS
<1>7. /\ S \in RefreshStates /\ S.at = R.at /\ S.owners = left
  BY <1>1, <1>2, <1>5, <1>6 DEF RefreshStates
<1>8. S.aborted = cut
  BY <1>1, <1>6 DEF RefreshStates
<1>9. refresh' = S
  BY <1>1, <1>2, <1>5, <1>6 DEF Disconnect
<1>10. R.at # "none"
  <2>1. c \in R.owners
    BY <1>1 DEF Disconnect, FeedInv, TypeOK
  <2>2. None.owners = {}
    BY DEF None
  <2>3. QED BY <1>1, <2>1, <2>2 DEF FeedInv
<1>11. TypeOK'
  BY <1>4, <1>5, <1>7, <1>9 DEF Disconnect, FeedInv, TypeOK, RefreshStates, CallStates
<1>12. (\A d \in Callers : CallGood(caller[d], refresh.aborted, stopping))'
  BY <1>3, <1>4, <1>8, <1>9 DEF Disconnect, CallGood
<1>13. QED BY <1>1, <1>7, <1>9, <1>10, <1>11, <1>12 DEF FeedInv, Disconnect

\* The interval's calls are aborted, and the refresh with them.
LEMMA ShutdownKeeps ==
  ASSUME FeedInv, Shutdown
  PROVE  FeedInv'
<1>1. PICK R \in RefreshStates : R = refresh
  BY DEF FeedInv, TypeOK, RefreshStates
<1>2. PICK leaving \in SUBSET Callers : leaving = {c \in Intervals : caller[c].at = "waiting"}
  BY DEF Callers
<1>3. PICK cut \in BOOLEAN : cut = (R.at # "none")
  OBVIOUS
<1>4. /\ caller' \in [Callers -> CallStates]
      /\ Remaining(leaving) = {d \in Callers : caller'[d].at = "waiting"}
      /\ \A d \in Callers : CallGood(caller'[d], cut, TRUE)
  <2>1. /\ \A d \in leaving : caller[d].at = "waiting"
        /\ Leave(leaving)
    BY <1>2 DEF Shutdown
  <2>2. QED BY <2>1, LeaveKeeps
<1>5. PICK left \in SUBSET Callers : left = Remaining(leaving)
  BY <1>4
<1>6. PICK S : S = refresh'
  OBVIOUS
<1>7. S \in RefreshStates /\ S.owners = left /\ S.at = R.at /\ (S.at = "none" => S = None)
  <2>1. CASE R.at = "none"
    <3>1. R = None /\ S = None
      BY <1>1, <1>6, <2>1 DEF FeedInv, Shutdown
    <3>2. left = R.owners \/ left = R.owners \ leaving
      BY <1>1, <1>5 DEF Remaining
    <3>3. QED BY <1>1, <3>1, <3>2 DEF None
  <2>2. CASE R.at # "none"
    <3>1. S = [R EXCEPT !.owners = left, !.aborted = TRUE]
      BY <1>1, <1>2, <1>5, <1>6, <2>2 DEF Shutdown
    <3>2. QED BY <1>1, <1>5, <2>2, <3>1 DEF RefreshStates
  <2>3. QED BY <2>1, <2>2
<1>8. stopping'
  BY DEF Shutdown
<1>9. TypeOK'
  BY <1>4, <1>5, <1>6, <1>7 DEF Shutdown, FeedInv, TypeOK, RefreshStates, CallStates
<1>10. (\A d \in Callers : CallGood(caller[d], refresh.aborted, stopping))'
  BY <1>4, <1>8 DEF CallGood
<1>11. QED BY <1>1, <1>6, <1>7, <1>9, <1>10 DEF FeedInv, Shutdown

----------------------------------------------------------------------------
(* The refresh *)

\* A refresh comes to another stage; its owners and their calls stay.
LEMMA StageKeeps ==
  ASSUME FeedInv, NEW s \in Stages, s # "none", NEW n \in Contents,
         refresh' = [refresh EXCEPT !.at = s, !.next = n],
         UNCHANGED <<caller, stopping, restarts>>,
         snapshot' \in Contents, file' \in Contents \cup {"torn"},
         s # "rolling back" /\ ~unwritten' => file' = snapshot'
  PROVE  FeedInv'
<1>1. PICK R \in RefreshStates : R = refresh
  BY DEF FeedInv, TypeOK, RefreshStates
<1>2. refresh' \in RefreshStates /\ refresh'.at = s
  BY <1>1 DEF RefreshStates
<1>3. refresh'.aborted = R.aborted /\ refresh'.owners = R.owners
  BY <1>1 DEF RefreshStates
<1>4. TypeOK'
  BY <1>1, <1>2, <1>3 DEF FeedInv, TypeOK, RefreshStates
<1>5. QED BY <1>1, <1>2, <1>3, <1>4 DEF FeedInv

\* Only the stage changes.
LEMMA OnlyStageKeeps ==
  ASSUME FeedInv, NEW s \in Stages, s # "none", Stage(s),
         UNCHANGED <<caller, stopping, restarts>>,
         snapshot' \in Contents, file' \in Contents \cup {"torn"},
         s # "rolling back" /\ ~unwritten' => file' = snapshot'
  PROVE  FeedInv'
<1>1. PICK R \in RefreshStates : R = refresh
  BY DEF FeedInv, TypeOK, RefreshStates
<1>2. PICK n \in Contents : n = R.next
  BY <1>1 DEF RefreshStates
<1>3. [R EXCEPT !.at = s] = [R EXCEPT !.at = s, !.next = n]
  BY <1>1, <1>2 DEF RefreshStates
<1>4. refresh' = [refresh EXCEPT !.at = s, !.next = n]
  BY <1>1, <1>3 DEF Stage
<1>5. QED BY <1>4, StageKeeps

\* One step of the refresh.
LEMMA ProgressKeeps ==
  ASSUME FeedInv, Progress
  PROVE  FeedInv'
<1>1. PICK R \in RefreshStates : R = refresh
  BY DEF FeedInv, TypeOK, RefreshStates
<1>2. UNCHANGED <<caller, stopping, restarts>>
  BY DEF Progress
<1>3. /\ snapshot \in Contents /\ R.next \in Contents
      /\ file \in Contents \cup {"torn"}
      /\ R.at # "rolling back" /\ ~unwritten => file = snapshot
  BY <1>1 DEF FeedInv, TypeOK, RefreshStates
<1>4. CASE ReadManifest
  <2>1. PICK s \in Stages : s = "filtered"
    BY DEF Stages
  <2>2. PICK n \in Contents : n = Content
    BY DEF Content, Contents
  <2>3. /\ s # "none"
        /\ refresh' = [refresh EXCEPT !.at = s, !.next = n]
        /\ snapshot' \in Contents /\ file' \in Contents \cup {"torn"}
        /\ s # "rolling back" /\ ~unwritten' => file' = snapshot'
    BY <1>1, <1>3, <1>4, <2>1, <2>2 DEF ReadManifest
  <2>4. QED BY <1>2, <2>3, StageKeeps
<1>5. CASE FetchFails
  <2>1. PICK s \in Stages : s = "failed"
    BY DEF Stages
  <2>2. /\ s # "none" /\ Stage(s)
        /\ snapshot' \in Contents /\ file' \in Contents \cup {"torn"}
        /\ s # "rolling back" /\ ~unwritten' => file' = snapshot'
    BY <1>1, <1>3, <1>5, <2>1 DEF FetchFails
  <2>3. QED BY <1>2, <2>2, OnlyStageKeeps
<1>6. CASE StartPersist
  <2>1. PICK s \in Stages : s = "persisting"
    BY DEF Stages
  <2>2. /\ s # "none" /\ Stage(s)
        /\ snapshot' \in Contents /\ file' \in Contents \cup {"torn"}
        /\ s # "rolling back" /\ ~unwritten' => file' = snapshot'
    BY <1>1, <1>3, <1>6, <2>1 DEF StartPersist
  <2>3. QED BY <1>2, <2>2, OnlyStageKeeps
<1>7. CASE Persisted
  <2>1. CASE ~Aborted /\ Stage("committed") /\ snapshot' = refresh.next
    <3>1. PICK s \in Stages : s = "committed"
      BY DEF Stages
    <3>2. /\ s # "none" /\ Stage(s)
          /\ snapshot' \in Contents /\ file' \in Contents \cup {"torn"}
          /\ s # "rolling back" /\ ~unwritten' => file' = snapshot'
      BY <1>1, <1>3, <1>7, <2>1, <3>1 DEF Persisted
    <3>3. QED BY <1>2, <3>2, OnlyStageKeeps
  <2>2. CASE Aborted /\ Stage(AfterAbort) /\ UNCHANGED snapshot
    <3>1. PICK s \in Stages : s = "rolling back"
      BY DEF Stages
    <3>2. /\ s # "none" /\ Stage(s)
          /\ snapshot' \in Contents /\ file' \in Contents \cup {"torn"}
          /\ s # "rolling back" /\ ~unwritten' => file' = snapshot'
      BY <1>1, <1>3, <1>7, <2>2, <3>1 DEF Persisted, AfterAbort
    <3>3. QED BY <1>2, <3>2, OnlyStageKeeps
  <2>3. QED BY <1>7, <2>1, <2>2 DEF Persisted
<1>8. CASE PersistFails
  <2>1. PICK s \in Stages : s = IF Aborted THEN AfterAbort ELSE "failed"
    BY DEF Stages, AfterAbort
  <2>2. /\ s # "none" /\ Stage(s)
        /\ snapshot' \in Contents /\ file' \in Contents \cup {"torn"}
        /\ s # "rolling back" /\ ~unwritten' => file' = snapshot'
    BY <1>1, <1>3, <1>8, <2>1 DEF PersistFails, AfterAbort
  <2>3. QED BY <1>2, <2>2, OnlyStageKeeps
<1>9. CASE RolledBack
  <2>1. PICK s \in Stages : s = "failed"
    BY DEF Stages
  <2>2. /\ s # "none" /\ Stage(s)
        /\ snapshot' \in Contents /\ file' \in Contents \cup {"torn"}
        /\ s # "rolling back" /\ ~unwritten' => file' = snapshot'
    BY <1>1, <1>3, <1>9, <2>1 DEF RolledBack
  <2>3. QED BY <1>2, <2>2, OnlyStageKeeps
<1>10. QED BY <1>4, <1>5, <1>6, <1>7, <1>8, <1>9 DEF Progress

\* Every call that waits is answered.
LEMMA SettleKeeps ==
  ASSUME FeedInv, Settle
  PROVE  FeedInv'
<1>1. PICK R \in RefreshStates : R = refresh
  BY DEF FeedInv, TypeOK, RefreshStates
<1>2. PICK k \in [Callers -> CallStates] : k = caller
  BY DEF FeedInv, TypeOK, CallStates
<1>3. PICK j : j = caller'
  OBVIOUS
<1>4. PICK answer \in {"snapshot", "abort", "error"} :
        answer = Answer /\ (answer = "abort" => R.aborted)
  BY <1>1 DEF Answer
<1>5. Answered = {c \in Callers : k[c].at \in {"waiting", "cancelling"}}
  BY <1>1, <1>2 DEF Answered, FeedInv, TypeOK
<1>6. j = [c \in Callers |->
             IF c \in Answered
             THEN [k[c] EXCEPT !.at = "idle", !.got = IF @ = "abort" THEN @ ELSE answer]
             ELSE k[c]]
  BY <1>2, <1>3, <1>4 DEF Settle
<1>7. ASSUME NEW c \in Callers
      PROVE  /\ j[c] \in CallStates
             /\ j[c].at = "idle"
             /\ CallGood(j[c], FALSE, stopping)
  <2>1. PICK x \in CallStates : x = k[c]
    BY <1>2
  <2>2. CallGood(x, R.aborted, stopping)
    BY <1>1, <1>2, <2>1 DEF FeedInv
  <2>3. CASE c \notin Answered
    <3>1. j[c] = x
      BY <1>6, <2>1, <2>3
    <3>2. x.at = "idle"
      BY <1>5, <2>1, <2>3 DEF CallStates
    <3>3. QED BY <2>1, <2>2, <3>1, <3>2 DEF CallGood
  <2>4. CASE c \in Answered
    <3>1. PICK got \in {"none", "snapshot", "abort", "error"} :
            got = IF x.got = "abort" THEN x.got ELSE answer
      BY <1>4
    <3>2. j[c] = [x EXCEPT !.at = "idle", !.got = got]
      BY <1>6, <2>1, <2>4, <3>1
    <3>3. /\ j[c] \in CallStates /\ j[c].at = "idle" /\ j[c].got = got
          /\ j[c].aborted = x.aborted /\ j[c].late = x.late
      BY <2>1, <3>1, <3>2 DEF CallStates
    <3>4. got = "abort" => x.aborted \/ x.late \/ stopping
      <4>1. x.at = "waiting" \/ x.at = "cancelling"
        BY <1>5, <2>1, <2>4
      <4>2. CASE x.got = "abort"
        BY <2>2, <4>2 DEF CallGood
      <4>3. CASE x.got # "abort"
        BY <1>4, <2>2, <3>1, <4>1, <4>3 DEF CallGood
      <4>4. QED BY <4>2, <4>3
    <3>5. QED BY <3>3, <3>4 DEF CallGood
  <2>5. QED BY <2>3, <2>4
<1>8. j \in [Callers -> CallStates]
  BY <1>6, <1>7
<1>9. refresh' = None /\ None \in RefreshStates /\ None.owners = {} /\ ~None.aborted
  BY DEF Settle, None, RefreshStates, Stages, Contents
<1>10. {} = {c \in Callers : j[c].at = "waiting"}
  BY <1>7
<1>11. TypeOK'
  <2>1. refresh'.owners = {c \in Callers : caller'[c].at = "waiting"}
    BY <1>3, <1>9, <1>10
  <2>2. QED
    BY <1>3, <1>8, <1>9, <2>1 DEF Settle, FeedInv, TypeOK, RefreshStates, CallStates
<1>12. (\A c \in Callers : CallGood(caller[c], refresh.aborted, stopping))'
  BY <1>3, <1>7, <1>9 DEF Settle, CallGood
<1>13. refresh.at # "rolling back"
  BY DEF Settle
<1>14. QED BY <1>9, <1>11, <1>12, <1>13 DEF FeedInv, Settle

\* A restart reads what the file holds.
LEMMA RestartKeeps ==
  ASSUME FeedInv, Restart
  PROVE  FeedInv'
<1>1. PICK R \in RefreshStates : R = refresh
  BY DEF FeedInv, TypeOK, RefreshStates
<1>2. file' \in Contents \cup {"torn"}
  <2>1. Written \subseteq Contents \cup {"torn"}
    BY <1>1 DEF Written, FeedInv, TypeOK, RefreshStates
  <2>2. QED BY <2>1 DEF Restart, FeedInv, TypeOK
<1>3. /\ snapshot' \in Contents
      /\ ~unwritten' => file' = snapshot'
  BY <1>2 DEF Restart, Contents
<1>4. refresh' = None /\ None \in RefreshStates /\ None.owners = {}
  BY DEF Restart, None, RefreshStates, Stages, Contents
<1>5. Idle \in CallStates /\ Idle.at = "idle" /\ Idle.got = "none"
  BY DEF Idle, CallStates
<1>6. /\ caller' \in [Callers -> CallStates]
      /\ \A c \in Callers : caller'[c] = Idle
  BY <1>5 DEF Restart
<1>7. {} = {c \in Callers : caller'[c].at = "waiting"}
  BY <1>5, <1>6
<1>8. restarts' \in 0..MaxRestarts
  <2>1. restarts \in 0..MaxRestarts /\ restarts < MaxRestarts /\ restarts' = restarts + 1
    BY DEF Restart, FeedInv, TypeOK
  <2>2. QED BY <2>1, FeedAssumption
<1>9. TypeOK'
  BY <1>2, <1>3, <1>4, <1>6, <1>7, <1>8 DEF TypeOK, RefreshStates, CallStates
<1>10. (\A c \in Callers : CallGood(caller[c], refresh.aborted, stopping))'
  BY <1>5, <1>6 DEF CallGood
<1>11. QED BY <1>3, <1>4, <1>9, <1>10 DEF FeedInv

----------------------------------------------------------------------------
(* The specification *)

LEMMA FeedStep == FeedInv /\ [Next]_vars => FeedInv'
<1> SUFFICES ASSUME FeedInv, [Next]_vars PROVE FeedInv'
  OBVIOUS
<1>1. ASSUME NEW c \in Callers, Request(c) \/ Tick(c) \/ Moderate(c)
      PROVE  FeedInv'
  <2>1. Call(c)
    BY <1>1 DEF Request, Tick, Moderate
  <2>2. QED BY <2>1, CallKeeps
<1>2. CASE vars' = vars
  <2>1. UNCHANGED <<blocked, refresh, caller, snapshot, file, unwritten, stopping, restarts>>
    BY <1>2 DEF vars
  <2>2. TypeOK'
    BY <2>1 DEF FeedInv, TypeOK
  <2>3. QED BY <2>1, <2>2 DEF FeedInv
<1>3. QED
  BY <1>1, <1>2, DisconnectKeeps, ShutdownKeeps, ProgressKeeps, SettleKeeps, RestartKeeps
  DEF Next

\* The invariant all the others follow from.
THEOREM FeedInvariant == Spec => []FeedInv
<1>1. QED BY FeedInit, FeedStep, PTL DEF Spec

\* Types, and that the owners of the refresh are exactly the calls that wait
\* for it: feed-snapshot-service.ts's set of owners.
THEOREM FeedTypeOK == Spec => []TypeOK
<1>1. FeedInv => TypeOK
  BY DEF FeedInv
<1>2. QED BY <1>1, FeedInvariant, PTL

\* Nobody is told of an abort that neither it nor the shutdown asked for,
\* unless it joined an abandoned refresh; and between refreshes the file holds
\* what is served, unless its last write failed.
THEOREM FeedAbortsAreContained == Spec => []AbortsAreContained
<1>1. FeedInv => OthersDoNotAbort
  BY DEF FeedInv, OthersDoNotAbort, CallGood
<1>2. FeedInv => FileHoldsSnapshot
  BY DEF FeedInv, FileHoldsSnapshot
<1>3. QED BY <1>1, <1>2, FeedInvariant, PTL DEF AbortsAreContained

\* While the process runs, what an aborted refresh fetched is never served,
\* however the abort and the write of the file overlap.
THEOREM FeedAbortedIsNotServed == Spec => AbortedIsNotServed
<1>1. ASSUME FeedInv, [Next]_vars, refresh.aborted, restarts' = restarts
      PROVE  snapshot' = snapshot
  <2>1. CASE vars' = vars
    BY <2>1 DEF vars
  <2>2. ASSUME NEW c \in Callers, Request(c) \/ Tick(c) \/ Moderate(c) \/ Disconnect(c)
        PROVE  snapshot' = snapshot
    BY <2>2 DEF Request, Tick, Moderate, Disconnect, Call
  <2>3. CASE Shutdown \/ Settle
    BY <2>3 DEF Shutdown, Settle
  <2>4. CASE Progress
    BY <1>1, <2>4
    DEF Progress, ReadManifest, FetchFails, StartPersist, Persisted, PersistFails, RolledBack, Aborted
  <2>5. CASE Restart
    <3>1. restarts \in Int /\ restarts' = restarts + 1
      <4>1. restarts \in 0..MaxRestarts
        BY <1>1 DEF FeedInv, TypeOK
      <4>2. QED BY <2>5, <4>1 DEF Restart
    <3>2. QED BY <1>1, <3>1
  <2>6. QED BY <1>1, <2>1, <2>2, <2>3, <2>4, <2>5 DEF Next
<1>2. FeedInv /\ [Next]_vars =>
        [refresh.aborted /\ restarts' = restarts => snapshot' = snapshot]_vars
  BY <1>1
<1>3. QED BY <1>2, FeedInvariant, PTL DEF Spec, AbortedIsNotServed

----------------------------------------------------------------------------
(* Induction *)

\* Induction over the subsets of a finite set: "good" is the set of those for
\* which what is to be shown holds.
LEMMA SubsetInduction ==
  ASSUME NEW S, IsFiniteSet(S), NEW good \in SUBSET SUBSET S,
         \A T \in SUBSET S : (\A U \in SUBSET T : U # T => U \in good) => T \in good
  PROVE  S \in good
<1> DEFINE bad == (SUBSET S) \ good
<1> SUFFICES ASSUME bad # {} PROVE FALSE
  OBVIOUS
<1>1. IsWellFoundedOn(StrictSubsetOrdering(S), SUBSET S)
  <2>1. FiniteSubsetsOf(S) = SUBSET S
    BY FS_FiniteSubsetsOfFinite
  <2>2. IsWellFoundedOn(StrictSubsetOrdering(S), FiniteSubsetsOf(S))
    BY FS_StrictSubsetOrderingWellFounded
  <2>3. QED BY <2>1, <2>2
<1>2. PICK T \in bad : \A U \in bad : <<U, T>> \notin StrictSubsetOrdering(S)
  <2> HIDE DEF bad
  <2>1. bad \subseteq SUBSET S
    BY DEF bad
  <2>2. QED BY <1>1, <2>1, WFMin
<1>3. \A U \in SUBSET T : U # T => U \in good
  BY <1>2 DEF StrictSubsetOrdering
<1>4. QED BY <1>2, <1>3


\* Induction up to a number: "good" is the set of those for which what is to be
\* shown holds.
LEMMA UpTo ==
  ASSUME NEW N \in Nat, NEW good, 0 \in good,
         \A n \in 0..(N - 1) : n \in good => n + 1 \in good
  PROVE  \A n \in 0..N : n \in good
<1> DEFINE S == 0..N
           fine == {T \in SUBSET S : \A n \in S : 0..n \subseteq T => n \in good}
<1>1. IsFiniteSet(S)
  BY FS_Interval
<1>2. ASSUME NEW T \in SUBSET S, \A U \in SUBSET T : U # T => U \in fine
      PROVE  T \in fine
  <2> SUFFICES ASSUME NEW n \in S, 0..n \subseteq T PROVE n \in good
    OBVIOUS
  <2>1. CASE n = 0
    BY <2>1
  <2>2. CASE n # 0
    <3>1. n - 1 \in S /\ n - 1 \in 0..(N - 1) /\ 0..(n - 1) \subseteq T \ {n} /\ n \in T
      BY <2>2
    <3>2. T \ {n} \in SUBSET T /\ T \ {n} # T
      BY <3>1
    <3>2a. T \ {n} \in fine
      <4> HIDE DEF fine
      <4>1. QED BY <1>2, <3>2
    <3>3. n - 1 \in good
      BY <3>1, <3>2a
    <3>4. (n - 1) + 1 \in good
      BY <3>1, <3>3
    <3>5. QED BY <3>4
  <2>3. QED BY <2>1, <2>2
<1>3. S \in fine
  <2> HIDE DEF S
  <2>1. fine \in SUBSET SUBSET S
    OBVIOUS
  <2> HIDE DEF fine
  <2>2. QED BY <1>1, <1>2, <2>1, SubsetInduction
<1>4. \A n \in S : 0..n \subseteq S
  OBVIOUS
<1>5. QED BY <1>3, <1>4

\* A recursive function whose value at a number depends on the one before.
StepsOn(N, X) == [1..N -> [X -> X]]
IsIteration(f, N, X, x, F) ==
  f \in [0..N -> X] /\ f[0] = x /\ \A d \in 1..N : f[d] = F[d][f[d - 1]]

LEMMA Iterates ==
  ASSUME NEW N, N \in Nat, NEW X, NEW x, x \in X, NEW F, F \in StepsOn(N, X)
  PROVE  \E f : IsIteration(f, N, X, x, F)
<1> USE DEF StepsOn, IsIteration
<1> DEFINE Follows(f, n) == f[0] = x /\ \A d \in 1..n : f[d] = F[d][f[d - 1]]
           good == {n \in 0..N : \E f \in [0..n -> X] : Follows(f, n)}
<1>1. 0 \in good
  <2> DEFINE f == [d \in 0..0 |-> x]
  <2>1. f \in [0..0 -> X] /\ f[0] = x
    OBVIOUS
  <2> HIDE DEF f
  <2>2. Follows(f, 0)
    BY <2>1
  <2>3. QED BY <2>1, <2>2
<1>2. ASSUME NEW n \in 0..(N - 1), n \in good PROVE n + 1 \in good
  <2>1. PICK f \in [0..n -> X] : Follows(f, n)
    BY <1>2
  <2> DEFINE g == [d \in 0..(n + 1) |-> IF d = n + 1 THEN F[n + 1][f[n]] ELSE f[d]]
  <2>2. n \in 0..n /\ n + 1 \in 1..N /\ F[n + 1][f[n]] \in X
    OBVIOUS
  <2>3. g \in [0..(n + 1) -> X]
    BY <2>2
  <2>4. ASSUME NEW d \in 1..(n + 1) PROVE g[d] = F[d][g[d - 1]]
    BY <2>1
  <2>5. g[0] = x
    BY <2>1
  <2> HIDE DEF g
  <2>6. Follows(g, n + 1)
    BY <2>4, <2>5
  <2>7. n + 1 \in 0..N
    OBVIOUS
  <2>8. QED BY <2>3, <2>6, <2>7
<1>3. N \in good
  <2> HIDE DEF good
  <2>1. N \in 0..N
    OBVIOUS
  <2>2. QED BY <1>1, <1>2, <2>1, UpTo
<1>4. QED BY <1>3

----------------------------------------------------------------------------
(* Events and what they refer to *)

WorldOK ==
  /\ depth \in Nat
  /\ shape.refs \in [Events -> SUBSET Events] /\ shape.up \in [Events -> Events]
  /\ shape.quotes \in [Events -> SUBSET Events]
  /\ \A e \in Events : /\ shape.refs[e] \subseteq 1..(e - 1)
                       /\ shape.up[e] \in IF shape.refs[e] = {} THEN {e} ELSE shape.refs[e]
  /\ pow \in SUBSET Events
  /\ held \in [{"pow", "thread"} -> SUBSET Events]

LEMMA EventsAreNumbers ==
  /\ IsFiniteSet(Events) /\ Cardinality(Events) \in Nat
  /\ Events = 1..Cardinality(Events) /\ Events \in SUBSET Nat
<1>1. IsFiniteSet(Events) /\ Events = 1..Cardinality(Events)
  BY ContentsAssumption DEF ContentsAssumption
<1>2. Cardinality(Events) \in Nat
  BY <1>1, FS_CardinalityType
<1> DEFINE n == Cardinality(Events)
<1>3. Events = 1..n /\ n \in Nat
  BY <1>1, <1>2
<1> HIDE DEF n
<1>4. Events \in SUBSET Nat
  BY <1>3
<1>5. QED BY <1>1, <1>2, <1>4

LEMMA LimitIs ==
  ASSUME WorldOK
  PROVE  depth \in Nat /\ Limit \in Nat /\ Limit = depth + 1 /\ Limit >= 1
BY DEF WorldOK, Limit

\* The reference upwards, of a note and of an answer.
LEMMA UpOf ==
  ASSUME WorldOK, NEW e \in Events
  PROVE  /\ shape.up[e] \in Events
         /\ Note(e) => shape.up[e] = e
         /\ ~Note(e) => shape.up[e] \in shape.refs[e]
BY DEF WorldOK, Note

\* The climb of traceRootRefFromKnownEvents as a sequence of events that starts
\* at the event itself.
IsClimb(q, e, known) ==
  /\ q \in [0..Limit -> Events] /\ q[0] = e /\ q[1] = shape.up[e]
  /\ \A n \in 1..depth : q[n + 1] = IF q[n] \in known THEN shape.up[q[n]] ELSE q[n]

LEMMA Climbs ==
  ASSUME WorldOK, NEW e \in Events, NEW known
  PROVE  \E q : IsClimb(q, e, known) /\ Reached(e, known) = q[Limit]
<1> DEFINE up == shape.up
           next == [z \in Events |-> IF z \in known THEN up[z] ELSE z]
           F == [d \in 1..depth |-> next]
           Rec(c) == c = [n \in 1..Limit |-> IF n = 1 THEN shape.up[e]
                                      ELSE IF c[n - 1] \in known THEN shape.up[c[n - 1]]
                                           ELSE c[n - 1]]
<1>1. up \in [Events -> Events] /\ up[e] \in Events /\ depth \in Nat /\ Limit = depth + 1
  BY LimitIs DEF WorldOK
<1>2. next \in [Events -> Events]
  BY <1>1
<1>3. F \in StepsOn(depth, Events)
  BY <1>2 DEF StepsOn
<1>4. \A d \in 1..depth : F[d] = next
  OBVIOUS
<1>5. PICK f \in [0..depth -> Events] : f[0] = up[e] /\ \A d \in 1..depth : f[d] = F[d][f[d - 1]]
  <2> HIDE DEF F, up, next
  <2>1. \E f : IsIteration(f, depth, Events, up[e], F)
    BY <1>1, <1>3, Iterates
  <2>2. QED BY <2>1 DEF IsIteration
<1>6. ASSUME NEW d \in 1..depth
      PROVE  f[d] = IF f[d - 1] \in known THEN up[f[d - 1]] ELSE f[d - 1]
  <2>1. f[d - 1] \in Events
    BY <1>1, <1>5
  <2>2. f[d] = next[f[d - 1]]
    BY <1>4, <1>5
  <2>3. QED BY <2>1, <2>2
<1> HIDE DEF F, next
<1> DEFINE c == [n \in 1..Limit |-> f[n - 1]]
<1>7. Rec(c)
  <2>1. ASSUME NEW n \in 1..Limit
        PROVE  c[n] = IF n = 1 THEN up[e]
                      ELSE IF c[n - 1] \in known THEN up[c[n - 1]] ELSE c[n - 1]
    <3>1. CASE n = 1
      BY <1>1, <1>5, <3>1
    <3>2. CASE n # 1
      <4>1. n - 1 \in 1..depth /\ n - 1 \in 1..Limit /\ c[n - 1] = f[(n - 1) - 1]
        BY <1>1, <3>2
      <4>2. c[n] = f[n - 1]
        BY <1>1
      <4>3. QED BY <1>6, <3>2, <4>1, <4>2
    <3>3. QED BY <3>1, <3>2
  <2> DEFINE v == [n \in 1..Limit |-> IF n = 1 THEN up[e]
                      ELSE IF c[n - 1] \in known THEN up[c[n - 1]] ELSE c[n - 1]]
  <2>2. \A n \in 1..Limit : c[n] = v[n]
    BY <2>1
  <2>3. c = [n \in 1..Limit |-> c[n]]
    OBVIOUS
  <2> HIDE DEF c
  <2>4. c = v
    BY <2>2, <2>3
  <2>5. QED BY <2>4
<1> DEFINE g == CHOOSE h : Rec(h)
<1>8. Rec(g)
  <2> HIDE DEF Rec, c
  <2>1. QED BY <1>7
<1>9. Reached(e, known) = g[Limit]
  BY DEF Reached
<1> HIDE DEF g
<1>10. ASSUME NEW n \in 1..Limit
       PROVE  g[n] = IF n = 1 THEN up[e]
                     ELSE IF g[n - 1] \in known THEN up[g[n - 1]] ELSE g[n - 1]
  BY <1>8
<1> HIDE DEF Rec
<1> DEFINE same == {d \in 0..depth : g[d + 1] = f[d]}
<1>11. \A d \in 0..depth : d \in same
  <2>1. 0 \in same
    <3>1. 1 \in 1..Limit
      BY <1>1
    <3>2. g[1] = up[e]
      BY <1>10, <3>1
    <3>3. QED BY <1>1, <1>5, <3>2
  <2>2. ASSUME NEW d \in 0..(depth - 1), d \in same PROVE d + 1 \in same
    <3>1. d + 1 \in 1..depth /\ (d + 1) - 1 = d /\ d + 2 \in 1..Limit /\ d + 2 # 1
          /\ (d + 2) - 1 = d + 1
      BY <1>1
    <3>2. g[d + 2] = IF g[d + 1] \in known THEN up[g[d + 1]] ELSE g[d + 1]
      BY <1>10, <3>1
    <3>3. f[d + 1] = IF f[d] \in known THEN up[f[d]] ELSE f[d]
      BY <1>6, <3>1
    <3>4. g[(d + 1) + 1] = f[d + 1]
      BY <2>2, <3>2, <3>3
    <3>5. QED BY <1>1, <3>1, <3>4
  <2> HIDE DEF same
  <2>3. QED BY <1>1, <2>1, <2>2, UpTo
<1> DEFINE q == [n \in 0..Limit |-> IF n = 0 THEN e ELSE f[n - 1]]
<1>12. q \in [0..Limit -> Events] /\ q[0] = e /\ \A n \in 1..Limit : q[n] = f[n - 1]
  BY <1>1, <1>5
<1> HIDE DEF q
<1>13. q[1] = up[e]
  BY <1>1, <1>5, <1>12
<1>14. ASSUME NEW n \in 1..depth
       PROVE  q[n + 1] = IF q[n] \in known THEN up[q[n]] ELSE q[n]
  <2>1. n \in 1..Limit /\ n + 1 \in 1..Limit /\ (n + 1) - 1 = n
    BY <1>1
  <2>2. q[n + 1] = f[n] /\ q[n] = f[n - 1]
    BY <1>12, <2>1
  <2>3. QED BY <1>6, <2>2
<1>15. g[Limit] = q[Limit]
  <2>1. depth \in same /\ Limit \in 1..Limit /\ Limit - 1 = depth
    BY <1>1, <1>11
  <2>2. QED BY <1>1, <1>12, <2>1
<1>16. IsClimb(q, e, known)
  BY <1>12, <1>13, <1>14 DEF IsClimb
<1>17. QED BY <1>9, <1>15, <1>16

----------------------------------------------------------------------------
(* Chains of references *)

IsChain(p, n, e, r) ==
  /\ p \in [0..n -> Events] /\ p[0] = e /\ p[n] = r
  /\ \A i \in 0..(n - 1) : ~Note(p[i]) /\ p[i + 1] = shape.up[p[i]]

Through(p, n, S) == \A i \in 0..(n - 1) : p[i] \in S

LEMMA LeadsIs ==
  ASSUME NEW e, NEW r, NEW S
  PROVE  Leads(e, r, S) <=> \E n \in 0..Limit : \E p : IsChain(p, n, e, r) /\ Through(p, n, S)
<1>1. ASSUME Leads(e, r, S)
      PROVE  \E n \in 0..Limit : \E p : IsChain(p, n, e, r) /\ Through(p, n, S)
  <2>1. PICK n \in 0..Limit : \E p \in [0..n -> Events] :
          /\ p[0] = e /\ p[n] = r
          /\ \A i \in 0..(n - 1) : p[i] \in S /\ ~Note(p[i]) /\ p[i + 1] = shape.up[p[i]]
    BY <1>1 DEF Leads
  <2>2. PICK p \in [0..n -> Events] :
          /\ p[0] = e /\ p[n] = r
          /\ \A i \in 0..(n - 1) : p[i] \in S /\ ~Note(p[i]) /\ p[i + 1] = shape.up[p[i]]
    BY <2>1
  <2>3. IsChain(p, n, e, r) /\ Through(p, n, S)
    BY <2>2 DEF IsChain, Through
  <2>4. QED BY <2>3
<1>2. ASSUME NEW n \in 0..Limit, NEW p, IsChain(p, n, e, r), Through(p, n, S)
      PROVE  Leads(e, r, S)
  <2>1. p \in [0..n -> Events] /\ p[0] = e /\ p[n] = r
    BY <1>2 DEF IsChain
  <2>2. \A i \in 0..(n - 1) : p[i] \in S /\ ~Note(p[i]) /\ p[i + 1] = shape.up[p[i]]
    BY <1>2 DEF IsChain, Through
  <2>3. QED BY <2>1, <2>2 DEF Leads
<1>3. QED BY <1>1, <1>2

LEMMA LeadsMore ==
  ASSUME NEW e, NEW r, NEW S, NEW T, S \subseteq T, Leads(e, r, S)
  PROVE  Leads(e, r, T)
<1>1. PICK n \in 0..Limit : \E p : IsChain(p, n, e, r) /\ Through(p, n, S)
  BY LeadsIs
<1>1a. PICK p : IsChain(p, n, e, r) /\ Through(p, n, S)
  BY <1>1
<1>2. Through(p, n, T)
  BY <1>1a DEF Through
<1>3. QED BY <1>1a, <1>2, LeadsIs

\* The climb follows a chain over events that are known, and stays at its end
\* when that is a note or is not known.
LEMMA ClimbFollows ==
  ASSUME WorldOK, NEW e \in Events, NEW known, NEW n \in 0..Limit, NEW p, NEW r,
         IsChain(p, n, e, r), n = 0 => Note(e),
         \A i \in 1..(n - 1) : p[i] \in known, Note(r) \/ r \notin known
  PROVE  Reached(e, known) = r
<1>1. PICK q : IsClimb(q, e, known) /\ Reached(e, known) = q[Limit]
  BY Climbs
<1>2. depth \in Nat /\ Limit = depth + 1 /\ Limit \in Nat /\ n \in Nat /\ n <= Limit
  BY LimitIs
<1>3. /\ p \in [0..n -> Events] /\ p[0] = e /\ p[n] = r
      /\ \A i \in 0..(n - 1) : p[i + 1] = shape.up[p[i]]
  BY DEF IsChain
<1>4. r \in Events /\ (r \in known => shape.up[r] = r)
  <2>1. r \in Events
    BY <1>2, <1>3
  <2>2. QED BY <2>1, UpOf
<1> DEFINE at(j) == IF j <= n THEN p[j] ELSE r
           same == {d \in 0..depth : q[d + 1] = at(d + 1)}
<1>5. 0 \in same
  <2>1. q[1] = shape.up[e]
    BY <1>1 DEF IsClimb
  <2>2. CASE n = 0
    <3>1. shape.up[e] = e /\ r = e
      BY <1>3, <2>2, UpOf
    <3>2. at(1) = r
      BY <2>2
    <3>3. QED BY <1>2, <2>1, <3>1, <3>2
  <2>3. CASE n # 0
    <3>1. 0 \in 0..(n - 1) /\ 1 <= n
      BY <1>2, <2>3
    <3>2. p[1] = shape.up[e]
      BY <1>3, <3>1
    <3>3. QED BY <1>2, <2>1, <3>1, <3>2
  <2>4. QED BY <2>2, <2>3
<1>6. ASSUME NEW d \in 0..(depth - 1), d \in same PROVE d + 1 \in same
  <2>1. d + 1 \in 1..depth /\ d \in Nat /\ (d + 1) + 1 = d + 2 /\ d + 1 \in 0..depth
    BY <1>2
  <2>2. q[d + 2] = IF q[d + 1] \in known THEN shape.up[q[d + 1]] ELSE q[d + 1]
    BY <1>1, <2>1 DEF IsClimb
  <2>3. q[d + 1] = at(d + 1)
    BY <1>6
  <2>4. CASE d + 1 < n
    <3>1. d + 1 \in 1..(n - 1) /\ d + 1 \in 0..(n - 1) /\ d + 1 <= n /\ d + 2 <= n
      BY <1>2, <2>1, <2>4
    <3>2. q[d + 1] = p[d + 1] /\ p[d + 1] \in known
      BY <2>3, <3>1
    <3>3. p[d + 2] = shape.up[p[d + 1]]
      BY <1>3, <2>1, <3>1
    <3>4. QED BY <2>1, <2>2, <3>1, <3>2, <3>3
  <2>5. CASE ~(d + 1 < n)
    <3>1. q[d + 1] = r
      BY <1>2, <1>3, <2>1, <2>3, <2>5
    <3>2. at(d + 2) = r
      BY <1>2, <2>1, <2>5
    <3>3. q[d + 2] = r
      BY <1>4, <2>2, <3>1
    <3>4. QED BY <2>1, <3>2, <3>3
  <2>6. QED BY <2>4, <2>5
<1>7. depth \in same
  <2> HIDE DEF same
  <2>1. depth \in 0..depth
    BY <1>2
  <2>2. QED BY <1>2, <1>5, <1>6, <2>1, UpTo
<1>8. at(depth + 1) = r
  BY <1>2, <1>3
<1>9. QED BY <1>1, <1>2, <1>7, <1>8

\* One link more.
Extends(q, p, n) == \A i \in 0..n : q[i] = p[i]

LEMMA ChainGrows ==
  ASSUME WorldOK, NEW e, NEW n \in Nat, NEW p, NEW r, IsChain(p, n, e, r), ~Note(r)
  PROVE  \E q : IsChain(q, n + 1, e, shape.up[r]) /\ Extends(q, p, n)
<1> DEFINE q == [i \in 0..(n + 1) |-> IF i = n + 1 THEN shape.up[r] ELSE p[i]]
<1>1. /\ p \in [0..n -> Events] /\ p[0] = e /\ p[n] = r /\ r \in Events
      /\ \A i \in 0..(n - 1) : ~Note(p[i]) /\ p[i + 1] = shape.up[p[i]]
  BY DEF IsChain
<1>2. shape.up[r] \in Events
  BY <1>1, UpOf
<1>3. q \in [0..(n + 1) -> Events]
  BY <1>1, <1>2
<1>4. (\A i \in 0..n : q[i] = p[i]) /\ q[n + 1] = shape.up[r]
  BY <1>1
<1> HIDE DEF q
<1>5. ASSUME NEW i \in 0..n PROVE ~Note(q[i]) /\ q[i + 1] = shape.up[q[i]]
  <2>1. CASE i = n
    BY <1>1, <1>4, <2>1
  <2>2. CASE i # n
    <3>1. i \in 0..(n - 1) /\ i + 1 \in 0..n
      BY <2>2
    <3>2. q[i] = p[i] /\ q[i + 1] = p[i + 1]
      BY <1>4, <3>1
    <3>3. QED BY <1>1, <3>1, <3>2
  <2>3. QED BY <2>1, <2>2
<1>6. q[0] = e
  BY <1>1, <1>4
<1>7. (n + 1) - 1 = n
  OBVIOUS
<1>8. IsChain(q, n + 1, e, shape.up[r])
  BY <1>3, <1>4, <1>5, <1>6, <1>7 DEF IsChain
<1>9. QED BY <1>4, <1>8 DEF Extends

\* What a climb from a known event reaches, the event leads to.
LEMMA ReachedLeads ==
  ASSUME WorldOK, NEW known, NEW e \in Events, e \in known
  PROVE  Leads(e, Reached(e, known), known)
<1>1. PICK q : IsClimb(q, e, known) /\ Reached(e, known) = q[Limit]
  BY Climbs
<1>2. depth \in Nat /\ Limit = depth + 1 /\ Limit \in Nat
  BY LimitIs
<1>3. /\ q \in [0..Limit -> Events] /\ q[0] = e
      /\ \A k \in 0..depth : q[k + 1] = IF q[k] \in known THEN shape.up[q[k]] ELSE q[k]
  <2>1. q \in [0..Limit -> Events] /\ q[0] = e /\ q[1] = shape.up[e]
    BY <1>1 DEF IsClimb
  <2>2. ASSUME NEW k \in 0..depth
        PROVE  q[k + 1] = IF q[k] \in known THEN shape.up[q[k]] ELSE q[k]
    <3>1. CASE k = 0
      BY <2>1, <3>1
    <3>2. CASE k # 0
      <4>1. k \in 1..depth
        BY <1>2, <3>2
      <4>2. QED BY <1>1, <4>1 DEF IsClimb
    <3>3. QED BY <3>1, <3>2
  <2>3. QED BY <2>1, <2>2
<1> DEFINE good == {k \in 0..Limit : \E n \in 0..k : \E p :
                      IsChain(p, n, e, q[k]) /\ Through(p, n, known)}
<1>4. 0 \in good
  <2> DEFINE p == [i \in 0..0 |-> e]
  <2>1. p \in [0..0 -> Events] /\ p[0] = e
    OBVIOUS
  <2>2. \A i \in 0..(0 - 1) : FALSE
    OBVIOUS
  <2> HIDE DEF p
  <2>3. IsChain(p, 0, e, e) /\ Through(p, 0, known)
    BY <2>1, <2>2 DEF IsChain, Through
  <2>4. 0 \in 0..0 /\ 0 \in 0..Limit
    BY <1>2
  <2>5. QED BY <1>3, <2>3, <2>4
<1>5. ASSUME NEW k \in 0..(Limit - 1), k \in good PROVE k + 1 \in good
  <2>1. PICK n \in 0..k : \E p : IsChain(p, n, e, q[k]) /\ Through(p, n, known)
    BY <1>5
  <2>1a. PICK p : IsChain(p, n, e, q[k]) /\ Through(p, n, known)
    BY <2>1
  <2>2. k \in 0..depth /\ k + 1 \in 0..Limit /\ n \in 0..(k + 1) /\ n \in Nat /\ k \in 0..Limit
        /\ n + 1 \in 0..(k + 1)
    BY <1>2
  <2>3. q[k + 1] = IF q[k] \in known THEN shape.up[q[k]] ELSE q[k]
    BY <1>3, <2>2
  <2>4. CASE q[k + 1] = q[k]
    BY <2>1a, <2>2, <2>4
  <2>5. CASE q[k + 1] # q[k]
    <3>1. q[k] \in known /\ q[k + 1] = shape.up[q[k]] /\ q[k] \in Events
      BY <1>3, <2>2, <2>3, <2>5
    <3>2. ~Note(q[k])
      BY <2>5, <3>1, UpOf
    <3>3. PICK g : IsChain(g, n + 1, e, q[k + 1]) /\ \A i \in 0..n : g[i] = p[i]
      <4>1. PICK z : z = q[k]
        OBVIOUS
      <4>2. IsChain(p, n, e, z) /\ ~Note(z) /\ n \in Nat
        BY <2>1a, <2>2, <3>2, <4>1
      <4>3. \E g : IsChain(g, n + 1, e, shape.up[z]) /\ Extends(g, p, n)
        BY <4>2, ChainGrows
      <4>4. QED BY <3>1, <4>1, <4>3 DEF Extends
    <3>4. \A i \in 0..((n + 1) - 1) : g[i] \in known
      <4> SUFFICES ASSUME NEW i \in 0..((n + 1) - 1) PROVE g[i] \in known
        OBVIOUS
      <4>1. i \in 0..n /\ (i = n \/ i \in 0..(n - 1))
        BY <2>2
      <4>2. g[i] = p[i]
        BY <3>3, <4>1
      <4>3. CASE i = n
        BY <2>1a, <3>1, <4>2, <4>3 DEF IsChain
      <4>4. CASE i \in 0..(n - 1)
        BY <2>1a, <4>2, <4>4 DEF Through
      <4>5. QED BY <4>1, <4>3, <4>4
    <3>5. Through(g, n + 1, known)
      BY <3>4 DEF Through
    <3>6. QED BY <2>2, <3>3, <3>5
  <2>6. QED BY <2>4, <2>5
<1>6. Limit \in good
  <2> HIDE DEF good
  <2>1. Limit \in 0..Limit
    BY <1>2
  <2>2. QED BY <1>2, <1>4, <1>5, <2>1, UpTo
<1>7. PICK n \in 0..Limit : \E p : IsChain(p, n, e, q[Limit]) /\ Through(p, n, known)
  BY <1>6
<1>7a. PICK p : IsChain(p, n, e, q[Limit]) /\ Through(p, n, known)
  BY <1>7
<1>8. QED BY <1>1, <1>7a, LeadsIs

LEMMA RootRefLeads ==
  ASSUME WorldOK, NEW known, NEW e \in Events, e \in known
  PROVE  Leads(e, RootRef(e, known), known)
<1>1. Leads(e, Reached(e, known), known)
  BY ReachedLeads
<1>2. Leads(e, shape.up[e], known)
  <2>1. Limit \in Nat /\ 0 \in 0..Limit /\ 1 \in 0..Limit
    BY LimitIs
  <2>2. CASE Note(e)
    <3>1. shape.up[e] = e
      BY <2>2, UpOf
    <3> DEFINE p == [i \in 0..0 |-> e]
    <3>2. p \in [0..0 -> Events] /\ p[0] = e
      OBVIOUS
    <3>3. \A i \in 0..(0 - 1) : FALSE
      OBVIOUS
    <3> HIDE DEF p
    <3>4. IsChain(p, 0, e, e) /\ Through(p, 0, known)
      BY <3>2, <3>3 DEF IsChain, Through
    <3>5. QED BY <2>1, <3>1, <3>4, LeadsIs
  <2>3. CASE ~Note(e)
    <3> DEFINE p == [i \in 0..1 |-> IF i = 0 THEN e ELSE shape.up[e]]
    <3>1. p \in [0..1 -> Events] /\ p[0] = e /\ p[1] = shape.up[e]
      BY UpOf
    <3> HIDE DEF p
    <3>2. \A i \in 0..(1 - 1) : i = 0 /\ i + 1 = 1
      OBVIOUS
    <3>3. IsChain(p, 1, e, shape.up[e]) /\ Through(p, 1, known)
      BY <2>3, <3>1, <3>2 DEF IsChain, Through
    <3>4. QED BY <2>1, <3>3, LeadsIs
  <2>4. QED BY <2>2, <2>3
<1>3. QED BY <1>1, <1>2 DEF RootRef

\* What leads to a known note has it as its root.
LEMMA RootFound ==
  ASSUME WorldOK, NEW known, NEW e \in Events, NEW r, r \in known, Note(r), Leads(e, r, known)
  PROVE  RootRef(e, known) = r
<1>1. PICK n \in 0..Limit : \E p : IsChain(p, n, e, r) /\ Through(p, n, known)
  BY LeadsIs
<1>1a. PICK p : IsChain(p, n, e, r) /\ Through(p, n, known)
  BY <1>1
<1>2. n \in Nat
  BY LimitIs
<1>3. n = 0 => Note(e)
  BY <1>1a DEF IsChain
<1>4. \A i \in 1..(n - 1) : p[i] \in known
  BY <1>1a, <1>2 DEF Through
<1>5. Reached(e, known) = r
  BY <1>1a, <1>3, <1>4, ClimbFollows
<1>6. QED BY <1>5 DEF RootRef

----------------------------------------------------------------------------
(* Threads *)

IsThread(T, root, known) ==
  T = {e \in known : shape.refs[e] \cap ({root} \cup T) # {}}

\* A chain that ends in the root of a thread runs within the thread.
LEMMA ChainInThread ==
  ASSUME WorldOK, NEW known, NEW root, NEW T, IsThread(T, root, known),
         NEW n \in Nat, NEW p, NEW e, IsChain(p, n, e, root), Through(p, n, known)
  PROVE  Through(p, n, T)
<1>1. /\ p \in [0..n -> Events] /\ p[n] = root
      /\ \A i \in 0..(n - 1) : p[i] \in known /\ ~Note(p[i]) /\ p[i + 1] = shape.up[p[i]]
  BY DEF IsChain, Through
<1>2. CASE n = 0
  <2>1. \A i \in 0..(n - 1) : FALSE
    BY <1>2
  <2>2. QED BY <2>1 DEF Through
<1>3. CASE n # 0
  <2>1. ASSUME NEW i \in 0..(n - 1), p[i + 1] \in {root} \cup T PROVE p[i] \in T
    <3>1. p[i] \in Events
      BY <1>1
    <3>2. p[i + 1] \in shape.refs[p[i]]
      BY <1>1, <3>1, UpOf
    <3>3. QED BY <1>1, <2>1, <3>2 DEF IsThread
  <2> DEFINE good == {j \in 0..(n - 1) : p[(n - 1) - j] \in T}
  <2>2. 0 \in good
    <3>1. n - 1 \in 0..(n - 1) /\ (n - 1) + 1 = n /\ 0 \in 0..(n - 1) /\ (n - 1) - 0 = n - 1
      BY <1>3
    <3>2. p[n - 1] \in T
      BY <1>1, <2>1, <3>1
    <3>3. QED BY <3>1, <3>2
  <2>3. ASSUME NEW j \in 0..((n - 1) - 1), j \in good PROVE j + 1 \in good
    <3>1. /\ (n - 1) - (j + 1) \in 0..(n - 1) /\ j + 1 \in 0..(n - 1)
          /\ ((n - 1) - (j + 1)) + 1 = (n - 1) - j
      BY <1>3
    <3>2. p[(n - 1) - j] \in T
      BY <2>3
    <3>3. p[(n - 1) - (j + 1)] \in T
      BY <2>1, <3>1, <3>2
    <3>4. QED BY <3>1, <3>3
  <2>4. \A j \in 0..(n - 1) : j \in good
    <3> DEFINE m == n - 1
    <3>1. m \in Nat
      BY <1>3
    <3> HIDE DEF good
    <3>2. \A j \in 0..(m - 1) : j \in good => j + 1 \in good
      BY <2>3
    <3> HIDE DEF m
    <3>3. \A j \in 0..m : j \in good
      BY <2>2, <3>1, <3>2, UpTo
    <3>4. QED BY <3>3 DEF m
  <2>5. ASSUME NEW i \in 0..(n - 1) PROVE p[i] \in T
    <3>1. (n - 1) - i \in 0..(n - 1) /\ (n - 1) - ((n - 1) - i) = i
      OBVIOUS
    <3>2. (n - 1) - i \in good
      BY <2>4, <3>1
    <3>3. p[(n - 1) - ((n - 1) - i)] \in T
      BY <3>2
    <3>4. QED BY <3>1, <3>3
  <2>6. QED BY <2>5 DEF Through
<1>4. QED BY <1>2, <1>3

\* The rounds of collectThreadReplies.
AreRounds(g, root, known) ==
  /\ g[0] = {}
  /\ \A d \in 1..Cardinality(Events) :
       g[d] = {e \in known : shape.refs[e] \cap ({root} \cup g[d - 1]) # {}}

LEMMA ThreadRounds ==
  ASSUME WorldOK, NEW root, NEW known \in SUBSET Events
  PROVE  \E g : /\ AreRounds(g, root, known)
                /\ ThreadReplies(root, known) = g[Cardinality(Events)]
<1> DEFINE N == Cardinality(Events)
           refs == shape.refs
           X == SUBSET Events
           next == [S \in X |-> {e \in known : refs[e] \cap ({root} \cup S) # {}}]
           F == [d \in 1..N |-> next]
           Rec(c) == c = [d \in 0..Cardinality(Events) |->
                            IF d = 0 THEN {}
                            ELSE {e \in known : shape.refs[e] \cap ({root} \cup c[d - 1]) # {}}]
<1>1. N \in Nat /\ {} \in X
  BY EventsAreNumbers
<1>2. next \in [X -> X]
  OBVIOUS
<1>3. F \in StepsOn(N, X) /\ \A d \in 1..N : F[d] = next
  BY <1>2 DEF StepsOn
<1>4. PICK f \in [0..N -> X] : f[0] = {} /\ \A d \in 1..N : f[d] = F[d][f[d - 1]]
  <2> HIDE DEF F, X, N
  <2>1. \E f : IsIteration(f, N, X, {}, F)
    BY <1>1, <1>3, Iterates
  <2>2. QED BY <2>1 DEF IsIteration
<1>5. ASSUME NEW d \in 1..N
      PROVE  f[d] = {e \in known : refs[e] \cap ({root} \cup f[d - 1]) # {}}
  <2>1. f[d - 1] \in X
    BY <1>1, <1>4
  <2>2. f[d] = next[f[d - 1]]
    BY <1>3, <1>4
  <2>3. QED BY <2>1, <2>2
<1>6. Rec(f)
  <2> DEFINE v == [d \in 0..N |-> IF d = 0 THEN {}
                     ELSE {e \in known : refs[e] \cap ({root} \cup f[d - 1]) # {}}]
  <2>1. ASSUME NEW d \in 0..N PROVE f[d] = v[d]
    <3>1. CASE d = 0
      BY <1>1, <1>4, <3>1
    <3>2. CASE d # 0
      <4>1. d \in 1..N
        BY <1>1, <3>2
      <4>2. v[d] = {e \in known : refs[e] \cap ({root} \cup f[d - 1]) # {}}
        BY <3>2
      <4>3. QED BY <1>5, <4>1, <4>2
    <3>3. QED BY <3>1, <3>2
  <2>2. f = [d \in 0..N |-> f[d]] /\ v = [d \in 0..N |-> v[d]]
    BY <1>4
  <2> HIDE DEF v
  <2>3. f = v
    BY <2>1, <2>2
  <2>4. QED BY <2>3 DEF v
<1> DEFINE g == CHOOSE h : Rec(h)
<1>7. Rec(g)
  <2> HIDE DEF Rec
  <2>1. QED BY <1>6
<1>8. ThreadReplies(root, known) = g[Cardinality(Events)]
  BY DEF ThreadReplies
<1> HIDE DEF g
<1>9. g[0] = {}
  <2>1. 0 \in 0..Cardinality(Events)
    BY <1>1
  <2>2. QED BY <1>7, <2>1
<1>10. ASSUME NEW d \in 1..Cardinality(Events)
       PROVE  g[d] = {e \in known : shape.refs[e] \cap ({root} \cup g[d - 1]) # {}}
  <2>1. d \in 0..Cardinality(Events) /\ d # 0
    BY <1>1
  <2>2. QED BY <1>7, <2>1
<1>11. AreRounds(g, root, known)
  BY <1>9, <1>10 DEF AreRounds
<1>12. QED BY <1>8, <1>11

\* It collects all of the thread: replies are later than what they refer to.
LEMMA ThreadRepliesAre ==
  ASSUME WorldOK, NEW root, NEW known \in SUBSET Events
  PROVE  IsThread(ThreadReplies(root, known), root, known)
<1> DEFINE N == Cardinality(Events)
           Step(S) == {e \in known : shape.refs[e] \cap ({root} \cup S) # {}}
<1>1. PICK g : /\ g[0] = {} /\ \A d \in 1..N : g[d] = Step(g[d - 1])
               /\ ThreadReplies(root, known) = g[N]
  <2>1. PICK g : /\ AreRounds(g, root, known)
                 /\ ThreadReplies(root, known) = g[Cardinality(Events)]
    BY ThreadRounds
  <2>2. QED BY <2>1, Zenon DEF AreRounds
<1>2. N \in Nat /\ Events = 1..N
  BY EventsAreNumbers
<1> HIDE DEF N
<1> DEFINE good == {k \in 0..N : \A d \in k..N : \A e \in 1..k : e \in g[d] <=> e \in g[k]}
<1>3. 0 \in good
  BY <1>2
<1>4. ASSUME NEW k \in 0..(N - 1), k \in good PROVE k + 1 \in good
  <2>1. ASSUME NEW d \in (k + 1)..N, NEW e \in 1..(k + 1)
        PROVE  e \in g[d] <=> e \in g[k + 1]
    <3>1. /\ d \in 1..N /\ k + 1 \in 1..N /\ d - 1 \in k..N /\ (k + 1) - 1 = k
          /\ e \in Events /\ e - 1 \in 0..k
      BY <1>2
    <3>2. g[d] = Step(g[d - 1]) /\ g[k + 1] = Step(g[k])
      BY <1>1, <3>1
    <3>3. \A z \in shape.refs[e] : z \in 1..k
      <4>1. shape.refs[e] \subseteq 1..(e - 1)
        BY <3>1 DEF WorldOK
      <4>2. 1..(e - 1) \subseteq 1..k
        BY <1>2, <3>1
      <4>3. QED BY <4>1, <4>2
    <3>4. \A z \in 1..k : z \in g[d - 1] <=> z \in g[k]
      BY <1>4, <3>1
    <3>5. QED BY <3>2, <3>3, <3>4
  <2>2. k + 1 \in 0..N
    BY <1>2
  <2>3. QED BY <2>1, <2>2
<1>5. \A k \in 0..N : k \in good
  <2> HIDE DEF good
  <2>1. QED BY <1>2, <1>3, <1>4, UpTo
<1>6. ASSUME NEW e \in Events PROVE e \in Step(g[N]) <=> e \in g[N]
  <2>1. /\ N \in 1..N /\ e - 1 \in 0..N /\ N \in (e - 1)..N /\ N - 1 \in (e - 1)..N
    BY <1>2
  <2>2. g[N] = Step(g[N - 1])
    BY <1>1, <2>1
  <2>3. shape.refs[e] \subseteq 1..(e - 1)
    BY DEF WorldOK
  <2>4. \A z \in 1..(e - 1) : (z \in g[N] <=> z \in g[e - 1]) /\ (z \in g[N - 1] <=> z \in g[e - 1])
    BY <1>5, <2>1
  <2>5. QED BY <2>2, <2>3, <2>4
<1>7. g[N] \subseteq known
  <2>1. CASE N = 0
    BY <1>1, <2>1
  <2>2. CASE N # 0
    <3>1. N \in 1..N
      BY <1>2, <2>2
    <3>2. QED BY <1>1, <3>1
  <2>3. QED BY <2>1, <2>2
<1>8. g[N] = Step(g[N])
  BY <1>6, <1>7
<1>9. QED BY <1>1, <1>8 DEF IsThread

\* A root note is not among its replies.
LEMMA RootIsNoReply ==
  ASSUME NEW T, NEW root, NEW known, IsThread(T, root, known), Note(root)
  PROVE  root \notin T /\ T \subseteq known
BY DEF IsThread, Note

----------------------------------------------------------------------------
(* Replies that are fetched *)

LEMMA RepliesType ==
  ASSUME WorldOK, NEW P
  PROVE  RepliesOf(P) \in SUBSET Events
BY DEF RepliesOf, Fresh

\* The rounds of fetchReplyClosure.
ClosureStep(l, known) ==
  LET new == RepliesOf(l.new) \ (known \cup l.all) IN [new |-> new, all |-> l.all \cup new]
AreLevels(g, parents, known) ==
  /\ g[0] = [new |-> parents, all |-> {}]
  /\ \A d \in 1..depth : g[d] = ClosureStep(g[d - 1], known)

LEMMA ClosureRounds ==
  ASSUME WorldOK, NEW parents \in SUBSET Events, NEW known
  PROVE  \E g : /\ AreLevels(g, parents, known)
               /\ \A d \in 0..depth : ReplyClosure(parents, known, d) = g[d].all
<1> DEFINE X == [new : SUBSET Events, all : SUBSET Events]
           first == [new |-> parents, all |-> {}]
           next == [l \in X |-> ClosureStep(l, known)]
           F == [d \in 1..depth |-> next]
           Rec(c) == c = [d \in 0..depth |->
             IF d = 0 THEN [new |-> parents, all |-> {}]
             ELSE LET new == RepliesOf(c[d - 1].new) \ (known \cup c[d - 1].all)
                  IN  [new |-> new, all |-> c[d - 1].all \cup new]]
<1>1. depth \in Nat /\ first \in X
  BY DEF WorldOK
<1>2. next \in [X -> X]
  <2>1. ASSUME NEW l \in X PROVE ClosureStep(l, known) \in X
    <3>1. RepliesOf(l.new) \in SUBSET Events /\ l.all \in SUBSET Events
      BY RepliesType
    <3>2. QED BY <3>1 DEF ClosureStep
  <2> HIDE DEF X
  <2>2. QED BY <2>1
<1>3. F \in StepsOn(depth, X) /\ \A d \in 1..depth : F[d] = next
  BY <1>2 DEF StepsOn
<1>4. PICK f \in [0..depth -> X] : f[0] = first /\ \A d \in 1..depth : f[d] = F[d][f[d - 1]]
  <2> HIDE DEF F, X, first
  <2>1. \E f : IsIteration(f, depth, X, first, F)
    BY <1>1, <1>3, Iterates
  <2>2. QED BY <2>1 DEF IsIteration
<1>5. ASSUME NEW d \in 1..depth PROVE f[d] = ClosureStep(f[d - 1], known)
  <2> HIDE DEF X
  <2>1. f[d - 1] \in X
    BY <1>1, <1>4
  <2>2. f[d] = next[f[d - 1]]
    BY <1>3, <1>4
  <2>3. QED BY <2>1, <2>2
<1>6. Rec(f)
  <2> DEFINE v == [d \in 0..depth |-> IF d = 0 THEN first ELSE ClosureStep(f[d - 1], known)]
  <2>1. ASSUME NEW d \in 0..depth PROVE f[d] = v[d]
    <3> HIDE DEF first
    <3>1. CASE d = 0
      BY <1>1, <1>4, <3>1
    <3>2. CASE d # 0
      <4>1. d \in 1..depth
        BY <1>1, <3>2
      <4>2. v[d] = ClosureStep(f[d - 1], known)
        BY <3>2
      <4>3. QED BY <1>5, <4>1, <4>2
    <3>3. QED BY <3>1, <3>2
  <2>2. f = [d \in 0..depth |-> f[d]] /\ v = [d \in 0..depth |-> v[d]]
    BY <1>4
  <2> HIDE DEF v
  <2>3. f = v
    BY <2>1, <2>2
  <2>4. QED BY <2>3 DEF v, ClosureStep
<1> DEFINE g == CHOOSE h : Rec(h)
<1>7. Rec(g)
  <2> HIDE DEF Rec
  <2>1. QED BY <1>6
<1>8. \A d \in 0..depth : ReplyClosure(parents, known, d) = g[d].all
  BY DEF ReplyClosure
<1> HIDE DEF g
<1>9. g[0] = [new |-> parents, all |-> {}]
  <2>1. 0 \in 0..depth
    BY <1>1
  <2>2. QED BY <1>7, <2>1
<1>10. ASSUME NEW d \in 1..depth PROVE g[d] = ClosureStep(g[d - 1], known)
  <2>1. d \in 0..depth /\ d # 0
    BY <1>1
  <2>2. QED BY <1>7, <2>1 DEF ClosureStep
<1>11. AreLevels(g, parents, known)
  BY <1>9, <1>10 DEF AreLevels
<1>12. QED BY <1>8, <1>11

\* What a closure brings, by rounds: the replies to each round are known, or
\* came in this round or one before.
AreClosed(N, parents, known, found) ==
  /\ N \in [0..depth -> SUBSET Events] /\ N[0] = parents
  /\ \A j \in 1..depth :
       /\ N[j] \subseteq found
       /\ \A e \in RepliesOf(N[j - 1]) : e \in known \/ \E i \in 1..j : e \in N[i]

LEMMA ClosureFinds ==
  ASSUME WorldOK, NEW parents \in SUBSET Events, NEW known
  PROVE  /\ \A d \in 0..depth : ReplyClosure(parents, known, d) \in SUBSET Events
         /\ \E N : AreClosed(N, parents, known, ReplyClosure(parents, known, depth))
<1>1. PICK g : /\ AreLevels(g, parents, known)
              /\ \A d \in 0..depth : ReplyClosure(parents, known, d) = g[d].all
  BY ClosureRounds
<1>2. depth \in Nat
  BY DEF WorldOK
<1> DEFINE new(d) == g[d].new
           all(d) == g[d].all
<1>3. new(0) = parents /\ all(0) = {}
  BY <1>1 DEF AreLevels
<1>4. ASSUME NEW d \in 1..depth
      PROVE  /\ new(d) = RepliesOf(new(d - 1)) \ (known \cup all(d - 1))
             /\ all(d) = all(d - 1) \cup new(d)
  <2>1. g[d] = ClosureStep(g[d - 1], known)
    BY <1>1 DEF AreLevels
  <2>2. QED BY <2>1 DEF ClosureStep
<1> DEFINE N == [d \in 0..depth |-> new(d)]
<1>5. \A d \in 0..depth : N[d] = new(d)
  OBVIOUS
<1>6. N \in [0..depth -> SUBSET Events]
  <2>1. ASSUME NEW d \in 0..depth PROVE new(d) \in SUBSET Events
    <3>1. CASE d = 0
      BY <1>3, <3>1
    <3>2. CASE d # 0
      <4>1. d \in 1..depth
        BY <1>2, <3>2
      <4>2. RepliesOf(new(d - 1)) \in SUBSET Events
        BY RepliesType
      <4>3. QED BY <1>4, <4>1, <4>2
    <3>3. QED BY <3>1, <3>2
  <2> HIDE DEF new
  <2>2. QED BY <2>1
<1> HIDE DEF N, new, all
<1> DEFINE good == {d \in 0..depth : \A e : e \in all(d) <=> \E i \in 1..d : e \in N[i]}
<1>7. 0 \in good
  <2>1. \A i \in 1..0 : FALSE
    OBVIOUS
  <2>2. QED BY <1>2, <1>3, <2>1
<1>8. ASSUME NEW d \in 0..(depth - 1), d \in good PROVE d + 1 \in good
  <2>1. d + 1 \in 1..depth /\ (d + 1) - 1 = d /\ d + 1 \in 0..depth
    BY <1>2
  <2>2. all(d + 1) = all(d) \cup N[d + 1]
    BY <1>4, <1>5, <2>1
  <2>3. \A i : i \in 1..(d + 1) <=> i \in 1..d \/ i = d + 1
    OBVIOUS
  <2>4. \A e : e \in all(d) <=> \E i \in 1..d : e \in N[i]
    BY <1>8
  <2>5. \A e : e \in all(d + 1) <=> \E i \in 1..(d + 1) : e \in N[i]
    BY <2>2, <2>3, <2>4
  <2>6. QED BY <2>1, <2>5
<1>9. \A d \in 0..depth : d \in good
  <2> HIDE DEF good
  <2>1. QED BY <1>2, <1>7, <1>8, UpTo
<1>10. \A d \in 0..depth : \A e : e \in all(d) <=> \E i \in 1..d : e \in N[i]
  BY <1>9
<1>11. /\ \A d \in 0..depth : ReplyClosure(parents, known, d) = all(d)
       /\ depth \in 0..depth
  BY <1>1, <1>2 DEF all
<1>12. ASSUME NEW d \in 0..depth PROVE all(d) \in SUBSET Events
  <2>1. ASSUME NEW e \in all(d) PROVE e \in Events
    <3>1. PICK i \in 1..d : e \in N[i]
      BY <1>10
    <3>2. i \in 0..depth
      BY <1>2
    <3>3. QED BY <1>6, <3>1, <3>2
  <2>2. QED BY <2>1
<1>13. ASSUME NEW j \in 1..depth
       PROVE  /\ N[j] \subseteq all(depth)
              /\ \A e \in RepliesOf(N[j - 1]) : e \in known \/ \E i \in 1..j : e \in N[i]
  <2>1. N[j] \subseteq all(depth)
    BY <1>10, <1>11
  <2>2. ASSUME NEW e \in RepliesOf(N[j - 1]), e \notin known
        PROVE  \E i \in 1..j : e \in N[i]
    <3>1. j - 1 \in 0..depth /\ j \in 0..depth /\ j \in 1..j /\ \A i \in 1..(j - 1) : i \in 1..j
      BY <1>2
    <3>2. N[j - 1] = new(j - 1) /\ N[j] = new(j)
      BY <1>5, <3>1
    <3>3. e \in all(j - 1) \/ e \in N[j]
      BY <1>4, <2>2, <3>2
    <3>4. CASE e \in N[j]
      BY <3>1, <3>4
    <3>5. CASE e \in all(j - 1)
      BY <1>10, <3>1, <3>5
    <3>6. QED BY <3>3, <3>4, <3>5
  <2>3. QED BY <2>1, <2>2
<1>14. AreClosed(N, parents, known, all(depth))
  <2>1. 0 \in 0..depth
    BY <1>2
  <2>2. N[0] = parents
    BY <1>3, <1>5, <2>1
  <2>3. QED BY <1>6, <1>13, <2>2 DEF AreClosed
<1>15. QED BY <1>11, <1>12, <1>14

\* The levels below a post.
BelowStep(S, d) == RepliesOf(S \ (IF d = 1 THEN {} ELSE work.known)) \ work.hidden

LEMMA BelowLevels ==
  ASSUME WorldOK, NEW p \in Events
  PROVE  /\ Below(p)[0] = {p}
         /\ \A d \in 1..depth : Below(p)[d] = BelowStep(Below(p)[d - 1], d)
<1> DEFINE X == SUBSET Events
           F == [d \in 1..depth |-> [S \in X |-> BelowStep(S, d)]]
           Rec(c) == c = [d \in 0..depth |->
             IF d = 0 THEN {p}
             ELSE RepliesOf(c[d - 1] \ (IF d = 1 THEN {} ELSE work.known)) \ work.hidden]
<1>1. depth \in Nat /\ {p} \in X
  BY DEF WorldOK
<1>2. \A S, d : BelowStep(S, d) \in X
  BY RepliesType DEF BelowStep
<1>3. F \in StepsOn(depth, X)
  <2> HIDE DEF X
  <2>1. QED BY <1>2 DEF StepsOn
<1>4. \A d \in 1..depth, S \in X : F[d][S] = BelowStep(S, d)
  OBVIOUS
<1>5. PICK f \in [0..depth -> X] : f[0] = {p} /\ \A d \in 1..depth : f[d] = F[d][f[d - 1]]
  <2> HIDE DEF F, X
  <2>1. \E f : IsIteration(f, depth, X, {p}, F)
    BY <1>1, <1>3, Iterates
  <2>2. QED BY <2>1 DEF IsIteration
<1>6. ASSUME NEW d \in 1..depth PROVE f[d] = BelowStep(f[d - 1], d)
  <2> HIDE DEF X, F
  <2>1. f[d - 1] \in X
    BY <1>1, <1>5
  <2>2. QED BY <1>4, <1>5, <2>1
<1>7. Rec(f)
  <2> DEFINE v == [d \in 0..depth |-> IF d = 0 THEN {p} ELSE BelowStep(f[d - 1], d)]
  <2>1. ASSUME NEW d \in 0..depth PROVE f[d] = v[d]
    <3>1. CASE d = 0
      BY <1>1, <1>5, <3>1
    <3>2. CASE d # 0
      <4>1. d \in 1..depth
        BY <1>1, <3>2
      <4>2. v[d] = BelowStep(f[d - 1], d)
        BY <3>2
      <4>3. QED BY <1>6, <4>1, <4>2
    <3>3. QED BY <3>1, <3>2
  <2>2. f = [d \in 0..depth |-> f[d]] /\ v = [d \in 0..depth |-> v[d]]
    BY <1>5
  <2> HIDE DEF v
  <2>3. f = v
    BY <2>1, <2>2
  <2>4. QED BY <2>3 DEF v, BelowStep
<1> DEFINE g == CHOOSE h : Rec(h)
<1>8. Rec(g)
  <2> HIDE DEF Rec
  <2>1. QED BY <1>7
<1>9. Below(p) = g
  BY DEF Below
<1> HIDE DEF g
<1>10. g[0] = {p}
  <2>1. 0 \in 0..depth
    BY <1>1
  <2>2. QED BY <1>8, <2>1
<1>11. ASSUME NEW d \in 1..depth PROVE g[d] = BelowStep(g[d - 1], d)
  <2>1. d \in 0..depth /\ d # 0
    BY <1>1
  <2>2. QED BY <1>8, <2>1 DEF BelowStep
<1>12. QED BY <1>9, <1>10, <1>11

\* Replies of fewer parents, or later, when fewer of them are fresh, are fewer.
LEMMA RepliesLess ==
  ASSUME NEW P, NEW Q, P \subseteq Q
  PROVE  RepliesOf(P) \subseteq RepliesOf(Q)
BY DEF RepliesOf

\* What is below a root that was asked for is known or was fetched, and is in
\* the post's thread.
LEMMA BelowIsFetched ==
  ASSUME WorldOK, NEW p \in Events, NEW N, NEW roots, NEW found,
         AreClosed(N, roots, work.known, found), p \in roots,
         work.known \subseteq found, found \in SUBSET Events,
         NEW visible, found \ work.hidden \subseteq visible,
         NEW T, IsThread(T, p, visible)
  PROVE  \A d \in 1..depth : Below(p)[d] \subseteq T
<1> DEFINE B == Below(p)
           Got(d) == /\ B[d] \subseteq T
                     /\ \A e \in B[d] : e \in work.known \/ \E i \in 1..d : e \in N[i]
           good == {d \in 0..depth : d # 0 => Got(d)}
<1>1. depth \in Nat /\ B[0] = {p} /\ \A d \in 1..depth : B[d] = BelowStep(B[d - 1], d)
  BY BelowLevels DEF WorldOK
<1>2. /\ N[0] = roots
      /\ \A j \in 1..depth :
           /\ N[j] \subseteq found
           /\ \A e \in RepliesOf(N[j - 1]) : e \in work.known \/ \E i \in 1..j : e \in N[i]
  BY DEF AreClosed
<1> HIDE DEF B
<1>3. ASSUME NEW d \in 1..depth, NEW e, e \notin work.hidden,
             e \in work.known \/ \E i \in 1..d : e \in N[i]
      PROVE  e \in visible
  <2>1. \A i \in 1..d : i \in 1..depth
    BY <1>1
  <2>2. e \in found
    BY <1>2, <1>3, <2>1
  <2>3. QED BY <1>3, <2>2
<1>4. ASSUME NEW e, NEW S, e \in visible, e \in RepliesOf(S), S \subseteq {p} \cup T
      PROVE  e \in T
  <2>1. shape.refs[e] \cap ({p} \cup T) # {}
    BY <1>4 DEF RepliesOf
  <2>2. QED BY <1>4, <2>1 DEF IsThread
<1>5. 0 \in good
  BY <1>1
<1>6. ASSUME NEW d \in 0..(depth - 1), d \in good PROVE d + 1 \in good
  <2>1. d + 1 \in 1..depth /\ (d + 1) - 1 = d /\ d + 1 \in 0..depth
    BY <1>1
  <2>2. B[d + 1] = BelowStep(B[d], d + 1)
    BY <1>1, <2>1
  <2> DEFINE S == B[d] \ (IF d + 1 = 1 THEN {} ELSE work.known)
  <2>3. B[d + 1] = RepliesOf(S) \ work.hidden
    BY <2>2 DEF BelowStep
  <2>4. S \subseteq {p} \cup T /\ \A b \in S : \E i \in 0..d : b \in N[i]
    <3>1. CASE d = 0
      <4>1. S = {p} /\ 0 \in 0..d
        BY <1>1, <3>1
      <4>2. QED BY <1>2, <4>1
    <3>2. CASE d # 0
      <4>1. Got(d)
        BY <1>6, <3>2
      <4>2. S = B[d] \ work.known
        BY <3>2
      <4>3. \A i \in 1..d : i \in 0..d
        OBVIOUS
      <4>4. QED BY <4>1, <4>2, <4>3
    <3>3. QED BY <3>1, <3>2
  <2> HIDE DEF S
  <2>5. ASSUME NEW e \in B[d + 1]
        PROVE  e \in work.known \/ \E i \in 1..(d + 1) : e \in N[i]
    <3>1. e \in RepliesOf(S)
      BY <2>3
    <3>2. PICK b \in S : b \in shape.refs[e]
      BY <3>1 DEF RepliesOf
    <3>3. PICK i \in 0..d : b \in N[i]
      BY <2>4
    <3>4. e \in RepliesOf(N[i])
      BY <3>1, <3>2, <3>3 DEF RepliesOf
    <3>5. i + 1 \in 1..depth /\ (i + 1) - 1 = i /\ \A j \in 1..(i + 1) : j \in 1..(d + 1)
      BY <1>1
    <3>6. e \in work.known \/ \E j \in 1..(i + 1) : e \in N[j]
      BY <1>2, <3>4, <3>5
    <3>7. QED BY <3>5, <3>6
  <2>6. ASSUME NEW e \in B[d + 1] PROVE e \in T
    <3>1. e \in RepliesOf(S) /\ e \notin work.hidden
      BY <2>3
    <3>2. e \in visible
      BY <1>3, <2>1, <2>5, <3>1
    <3>3. QED BY <1>4, <2>4, <3>1, <3>2
  <2>7. Got(d + 1)
    BY <2>5, <2>6
  <2>8. QED BY <2>1, <2>7
<1>7. \A d \in 0..depth : d \in good
  <2> HIDE DEF good
  <2>1. QED BY <1>1, <1>5, <1>6, UpTo
<1>8. ASSUME NEW d \in 1..depth PROVE B[d] \subseteq T
  <2>1. d \in 0..depth /\ d # 0
    OBVIOUS
  <2>2. QED BY <1>7, <2>1
<1>9. QED BY <1>8 DEF B

----------------------------------------------------------------------------
(* The invariant of a refresh *)

Threads == UNION {[P -> SUBSET Events] : P \in SUBSET Events}
Snapshots == [posts : SUBSET Events, replies : Threads, events : SUBSET Events,
              seen : SUBSET Events]
Works == [at : {"none", "resolving", "closing", "filtering", "referring", "fetched"},
          cached : SUBSET Events, activity : SUBSET Events, known : SUBSET Events,
          asked : SUBSET Events, round : Nat, roots : SUBSET Events, found : SUBSET Events,
          hidden : SUBSET Events, fresh : SUBSET Events, visible : SUBSET Events,
          next : Snapshots, whole : BOOLEAN]

SnapshotOK(s) ==
  /\ s.posts \subseteq s.events /\ \A p \in s.posts : Note(p)
  /\ DOMAIN s.replies = s.posts
  /\ \A p \in s.posts : s.replies[p] \subseteq s.events \ {p}

\* What is m links above the activity that counts is known, if the relays have
\* it and all between.
Traced(w, m) ==
  \A e \in w.activity \cap pow, n \in 0..m : \A p, r :
    IsChain(p, n, e, r) /\ (\A i \in 0..n : p[i] \in w.activity \cup held["thread"])
      => r \in w.known

\* What the snapshot under way has been made of.
Selected(w) ==
  /\ w.visible = (w.cached \cup w.found) \ w.hidden
  /\ \A e \in w.visible \cap Fresh \cap pow \cap (feed.seen \cup w.activity), r \in w.visible :
       Note(r) /\ Leads(e, r, w.visible) => r \in w.next.posts
  /\ SnapshotOK(w.next) /\ w.next.events \cap w.hidden = {}
  /\ \A p \in w.next.posts :
       /\ IsThread(w.next.replies[p], p, w.visible)
       /\ \E e \in {p} \cup w.next.replies[p] :
            e \in pow \cap w.next.seen \cap w.fresh /\ Leads(e, p, w.next.events)

WorkOK(w) ==
  /\ w \in Works /\ w.round <= Limit /\ Cardinality(w.asked) >= w.round
  /\ w.activity \subseteq w.known
  /\ w.at # "none" => feed.events \cap (Fresh \cup feed.posts) \subseteq w.cached
  /\ w.at = "resolving" /\ w.whole => w.asked \cap held["thread"] \subseteq w.known
                                      /\ Traced(w, w.round)
  /\ w.at \in {"closing", "filtering", "referring", "fetched"} /\ w.whole => Traced(w, Limit)
  /\ w.at \in {"filtering", "referring", "fetched"} =>
       /\ w.known \subseteq w.found
       /\ w.whole => \E N : AreClosed(N, w.roots, w.known, w.found)
  /\ w.at \in {"referring", "fetched"} => Selected(w)
  /\ w.at = "fetched" => w.next.seen \subseteq w.next.events

FeedOK == /\ WorldOK /\ since \in Nat
          /\ feed \in Snapshots /\ SnapshotOK(feed) /\ feed.seen \subseteq feed.events

ContentsInv == FeedOK /\ WorkOK(work)

LEMMA EmptySnapshot == NoSnapshot \in Snapshots /\ SnapshotOK(NoSnapshot)
<1>1. DOMAIN <<>> = {} /\ <<>> = [x \in {} |-> {}]
  OBVIOUS
<1>2. <<>> \in [{} -> SUBSET Events]
  BY <1>1
<1>3. <<>> \in Threads
  BY <1>2 DEF Threads
<1> DEFINE t == <<>>
<1>4. t \in Threads /\ DOMAIN t = {}
  BY <1>1, <1>3
<1> HIDE DEF t
<1>5. [posts |-> {}, replies |-> t, events |-> {}, seen |-> {}] \in Snapshots
  BY <1>4 DEF Snapshots
<1>6. SnapshotOK([posts |-> {}, replies |-> t, events |-> {}, seen |-> {}])
  BY <1>4 DEF SnapshotOK
<1>7. QED BY <1>5, <1>6 DEF NoSnapshot, t

LEMMA NoWorkOK ==
  ASSUME WorldOK
  PROVE  WorkOK(NoWork)
<1>1. NoWork \in Works
  <2> DEFINE s == NoSnapshot
  <2>1. s \in Snapshots
    BY EmptySnapshot
  <2> HIDE DEF s
  <2>2. [at |-> "none", cached |-> {}, activity |-> {}, known |-> {}, asked |-> {}, round |-> 0,
         roots |-> {}, found |-> {}, hidden |-> {}, fresh |-> {}, visible |-> {},
         next |-> s, whole |-> TRUE] \in Works
    BY <2>1 DEF Works
  <2>3. QED BY <2>2 DEF NoWork, s
<1>2. NoWork.at = "none" /\ NoWork.round = 0 /\ NoWork.asked = {} /\ NoWork.activity = {}
  BY DEF NoWork
<1>3. 0 <= Limit /\ Cardinality({}) >= 0
  BY LimitIs, FS_EmptySet
<1>4. QED BY <1>1, <1>2, <1>3 DEF WorkOK

LEMMA ContentsInitially == ContentsInit => ContentsInv
<1> SUFFICES ASSUME ContentsInit PROVE ContentsInv
  OBVIOUS
<1>1. WorldOK
  <2>1. depth \in Nat /\ shape \in Shapes /\ pow \in SUBSET Events
        /\ held \in [{"pow", "thread"} -> SUBSET Events]
    BY ContentsAssumption DEF ContentsInit, ContentsAssumption
  <2>2. /\ shape.refs \in [Events -> SUBSET Events] /\ shape.up \in [Events -> Events]
        /\ shape.quotes \in [Events -> SUBSET Events]
        /\ \A e \in Events : /\ shape.refs[e] \subseteq 1..(e - 1)
                             /\ shape.up[e] \in IF shape.refs[e] = {} THEN {e}
                                                ELSE shape.refs[e]
    BY <2>1, ContentsAssumption DEF ContentsAssumption
  <2>3. QED BY <2>1, <2>2 DEF WorldOK
<1>2. feed = NoSnapshot /\ work = NoWork /\ since = 0
  BY DEF ContentsInit
<1>3. NoSnapshot.seen \subseteq NoSnapshot.events
  BY DEF NoSnapshot
<1>4. FeedOK
  BY <1>1, <1>2, <1>3, EmptySnapshot DEF FeedOK
<1>5. QED BY <1>1, <1>2, <1>4, NoWorkOK DEF ContentsInv

----------------------------------------------------------------------------
(* Steps that leave the world as it is *)

Stays == depth' = depth /\ shape' = shape /\ pow' = pow /\ held' = held

LEMMA WorldStays ==
  ASSUME Stays
  PROVE  /\ WorldOK' <=> WorldOK
         /\ Limit' = Limit
         /\ \A e : Note(e)' <=> Note(e)
         /\ \A p, n, e, r : IsChain(p, n, e, r)' <=> IsChain(p, n, e, r)
         /\ \A T, p, S : IsThread(T, p, S)' <=> IsThread(T, p, S)
<1> USE DEF Stays
<1>1. WorldOK' <=> WorldOK
  BY DEF WorldOK
<1>2. Limit' = Limit
  BY DEF Limit
<1>3. \A e : Note(e)' <=> Note(e)
  BY DEF Note
<1>4. ASSUME NEW p, NEW n, NEW e, NEW r PROVE IsChain(p, n, e, r)' <=> IsChain(p, n, e, r)
  BY DEF IsChain, Note
<1>5. ASSUME NEW T, NEW p, NEW S PROVE IsThread(T, p, S)' <=> IsThread(T, p, S)
  BY DEF IsThread
<1>6. QED BY <1>1, <1>2, <1>3, <1>4, <1>5

LEMMA LeadsStays ==
  ASSUME Stays, NEW e, NEW r, NEW S
  PROVE  Leads(e, r, S)' <=> Leads(e, r, S)
BY DEF Leads, Note, Stays, Limit

LEMMA SnapshotStays ==
  ASSUME Stays, NEW s
  PROVE  SnapshotOK(s)' <=> SnapshotOK(s)
BY DEF SnapshotOK, Note, Stays

LEMMA TracedStays ==
  ASSUME Stays, NEW w, NEW m
  PROVE  Traced(w, m)' <=> Traced(w, m)
<1>1. \A p, n, e, r : IsChain(p, n, e, r)' <=> IsChain(p, n, e, r)
  BY WorldStays
<1>2. pow' = pow /\ held' = held
  BY DEF Stays
<1>3. QED BY <1>1, <1>2 DEF Traced

\* Events may have grown old meanwhile.
LEMMA ClosedStays ==
  ASSUME Stays, \A e : e \in Fresh' => e \in Fresh, NEW N, NEW P, NEW S, NEW found,
         AreClosed(N, P, S, found)
  PROVE  AreClosed(N, P, S, found)'
<1>1. \A Q, e : e \in RepliesOf(Q)' => e \in RepliesOf(Q)
  BY DEF RepliesOf, Stays
<1>2. depth' = depth
  BY DEF Stays
<1>3. QED BY <1>1, <1>2 DEF AreClosed

LEMMA SelectedStays ==
  ASSUME Stays, \A e : e \in Fresh' => e \in Fresh, feed' = feed, NEW w, Selected(w)
  PROVE  Selected(w)'
<1>1. \A e, r, S : Leads(e, r, S)' <=> Leads(e, r, S)
  BY LeadsStays
<1>2. \A s : SnapshotOK(s)' <=> SnapshotOK(s)
  BY SnapshotStays
<1>3. /\ \A e : Note(e)' <=> Note(e)
      /\ \A T, p, S : IsThread(T, p, S)' <=> IsThread(T, p, S)
  BY WorldStays
<1>4. pow' = pow
  BY DEF Stays
<1>5. QED BY <1>1, <1>2, <1>3, <1>4 DEF Selected

LEMMA WorkStays ==
  ASSUME Stays, \A e : e \in Fresh' => e \in Fresh, feed' = feed,
         NEW w, WorkOK(w), work' = w
  PROVE  WorkOK(work)'
<1>1. Limit' = Limit
  BY WorldStays
<1>2. \A m : Traced(w, m)' <=> Traced(w, m)
  BY TracedStays
<1>3. Selected(w) => Selected(w)'
  BY SelectedStays
<1>4. \A N : AreClosed(N, w.roots, w.known, w.found) => AreClosed(N, w.roots, w.known, w.found)'
  <2>1. ASSUME NEW N, NEW P, NEW S, NEW found, AreClosed(N, P, S, found)
        PROVE  AreClosed(N, P, S, found)'
    BY <2>1, ClosedStays
  <2>2. QED BY <2>1
<1>5. pow' = pow /\ held' = held
  BY DEF Stays
<1>6. WorkOK(w)'
  BY <1>1, <1>2, <1>3, <1>4, <1>5 DEF WorkOK, Works
<1>7. QED BY <1>6

LEMMA StoppedStays ==
  ASSUME WorldOK, Stays, work' = NoWork
  PROVE  WorkOK(work)'
<1>1. WorkOK(NoWork)
  BY NoWorkOK
<1>2. /\ NoWork.at = "none" /\ NoWork.round = 0 /\ NoWork.asked = {} /\ NoWork.activity = {}
  BY DEF NoWork
<1>3. Limit' = Limit
  BY WorldStays
<1> DEFINE w == NoWork
<1>4. w.at = "none" /\ WorkOK(w)
  BY <1>1, <1>2
<1> HIDE DEF w
<1>5. WorkOK(w)'
  BY <1>3, <1>4 DEF WorkOK, Works
<1>6. QED BY <1>5 DEF w

LEMMA ManifestChanges ==
  ASSUME ContentsInv, ChangeActions \/ GrowOld \/ UNCHANGED contentsVars
  PROVE  ContentsInv'
<1>1. Stays /\ feed' = feed /\ work' = work
  BY DEF ChangeActions, GrowOld, contentsVars, world, Stays
<1>2. since' \in Nat /\ since' >= since
  BY DEF ChangeActions, GrowOld, contentsVars, ContentsInv, FeedOK
<1>3. \A e : e \in Fresh' => e \in Fresh
  <2>1. since \in Nat /\ \A e \in Events : e \in Nat
    BY EventsAreNumbers DEF ContentsInv, FeedOK
  <2>2. QED BY <1>2, <2>1 DEF Fresh
<1>4. FeedOK'
  <2>1. \A s : SnapshotOK(s)' <=> SnapshotOK(s)
    BY <1>1, SnapshotStays
  <2>2. WorldOK'
    BY <1>1, WorldStays DEF ContentsInv, FeedOK
  <2>3. PICK s : s = feed
    OBVIOUS
  <2>4. s \in Snapshots /\ SnapshotOK(s) /\ s.seen \subseteq s.events /\ feed' = s
    BY <1>1, <2>3 DEF ContentsInv, FeedOK
  <2>5. SnapshotOK(feed)' /\ Snapshots' = Snapshots
    BY <2>1, <2>4 DEF Snapshots, Threads
  <2>6. QED BY <1>2, <2>2, <2>4, <2>5 DEF FeedOK
<1>5. WorkOK(work)'
  <2>1. PICK w : w = work
    OBVIOUS
  <2>2. WorkOK(w) /\ work' = w
    BY <1>1, <2>1 DEF ContentsInv
  <2>3. QED BY <1>1, <1>3, <2>2, WorkStays
<1>6. QED BY <1>4, <1>5 DEF ContentsInv

\* A step of a refresh leaves everything but the work as it is.
LEMMA FetchStays ==
  ASSUME ContentsInv, Stays, since' = since, feed' = feed
  PROVE  FeedOK' /\ \A e : e \in Fresh' => e \in Fresh
<1>1. \A e : e \in Fresh' => e \in Fresh
  BY DEF Fresh
<1>2. \A s : SnapshotOK(s)' <=> SnapshotOK(s)
  BY SnapshotStays
<1>3. WorldOK'
  BY WorldStays DEF ContentsInv, FeedOK
<1>4. PICK s : s = feed
  OBVIOUS
<1>5. s \in Snapshots /\ SnapshotOK(s) /\ s.seen \subseteq s.events /\ feed' = s
  BY <1>4 DEF ContentsInv, FeedOK
<1>6. SnapshotOK(feed)' /\ Snapshots' = Snapshots
  BY <1>2, <1>5 DEF Snapshots, Threads
<1>7. since' \in Nat
  BY DEF ContentsInv, FeedOK
<1>8. QED BY <1>1, <1>3, <1>5, <1>6, <1>7 DEF FeedOK

LEMMA Fails ==
  ASSUME ContentsInv, Fail
  PROVE  ContentsInv'
<1>1. Stays /\ since' = since /\ feed' = feed /\ work' = NoWork
  BY DEF Fail, FetchStep, world, Stays
<1>2. FeedOK'
  BY <1>1, FetchStays
<1>3. WorkOK(work)'
  BY <1>1, StoppedStays DEF ContentsInv, FeedOK
<1>4. QED BY <1>2, <1>3 DEF ContentsInv

LEMMA Commits ==
  ASSUME ContentsInv, Commit
  PROVE  ContentsInv'
<1>1. Stays /\ since' = since /\ feed' = work.next /\ work' = NoWork /\ work.at = "fetched"
  BY DEF Commit, world, Stays
<1>2. PICK s : s = work.next
  OBVIOUS
<1>3. s \in Snapshots /\ SnapshotOK(s) /\ s.seen \subseteq s.events /\ feed' = s
  BY <1>1, <1>2 DEF ContentsInv, WorkOK, Works, Selected
<1>4. SnapshotOK(s)' <=> SnapshotOK(s)
  BY <1>1, SnapshotStays
<1>5. WorldOK'
  BY <1>1, WorldStays DEF ContentsInv, FeedOK
<1>6. SnapshotOK(feed)' /\ Snapshots' = Snapshots
  BY <1>3, <1>4 DEF Snapshots, Threads
<1>7. since' \in Nat
  BY <1>1 DEF ContentsInv, FeedOK
<1>8. FeedOK'
  BY <1>3, <1>5, <1>6, <1>7 DEF FeedOK
<1>9. WorkOK(work)'
  BY <1>1, StoppedStays DEF ContentsInv, FeedOK
<1>10. QED BY <1>8, <1>9 DEF ContentsInv

----------------------------------------------------------------------------
(* The steps of a refresh *)

LEMMA Starts ==
  ASSUME ContentsInv, Start
  PROVE  ContentsInv'
<1>1. Stays /\ since' = since /\ feed' = feed
  BY DEF Start, world, Stays
<1>2. FeedOK' /\ \A e : e \in Fresh' => e \in Fresh
  BY <1>1, FetchStays
<1>3. PICK got \in Answers("pow", Fresh) :
        work' = [NoWork EXCEPT !.at = "resolving", !.cached = Cached,
                               !.activity = got, !.known = got,
                               !.whole = Whole("pow", Fresh, got)]
  BY DEF Start
<1>4. PICK b : b = Whole("pow", Fresh, got)
  OBVIOUS
<1>5. PICK c : c = Cached
  OBVIOUS
<1>6. b \in BOOLEAN /\ c \in SUBSET Events /\ got \in SUBSET Events
  <2>1. got \in SUBSET Events
    BY DEF Answers, ContentsInv, FeedOK, WorldOK
  <2>2. c \in SUBSET Events
    BY <1>5 DEF Cached, ContentsInv, FeedOK, Snapshots
  <2>3. work.whole \in BOOLEAN
    BY DEF ContentsInv, WorkOK, Works
  <2>4. QED BY <1>4, <2>1, <2>2, <2>3 DEF Whole
<1> DEFINE m == [NoWork EXCEPT !.at = "resolving", !.cached = c, !.activity = got,
                               !.known = got, !.whole = b]
<1>7. work' = m
  BY <1>3, <1>4, <1>5
<1>8. NoWork \in Works
  BY NoWorkOK DEF WorkOK, ContentsInv, FeedOK
<1>9. /\ m \in Works /\ m.at = "resolving" /\ m.cached = c /\ m.activity = got /\ m.known = got
      /\ m.round = NoWork.round /\ m.asked = NoWork.asked
  BY <1>6, <1>8 DEF Works
<1>10. NoWork.round = 0 /\ NoWork.asked = {}
  BY DEF NoWork
<1> HIDE DEF m
<1>11. Traced(m, 0)
  <2>1. ASSUME NEW e \in m.activity \cap pow, NEW n \in 0..0, NEW p, NEW r, IsChain(p, n, e, r)
        PROVE  r \in m.known
    <3>1. n = 0 /\ p[0] = e /\ p[n] = r
      BY <2>1 DEF IsChain
    <3>2. r = e
      BY <3>1
    <3>3. QED BY <1>9, <3>2
  <2>2. QED BY <2>1 DEF Traced
<1>12. WorkOK(m)
  <2>1. 0 <= Limit /\ Cardinality({}) >= 0
    BY LimitIs, FS_EmptySet DEF ContentsInv, FeedOK
  <2>2. feed.events \cap (Fresh \cup feed.posts) \subseteq m.cached
    BY <1>5, <1>9 DEF Cached
  <2>3. QED BY <1>9, <1>10, <1>11, <2>1, <2>2 DEF WorkOK
<1>13. PICK w : w = m
  OBVIOUS
<1>14. WorkOK(work)'
  BY <1>1, <1>2, <1>7, <1>12, <1>13, WorkStays
<1>15. QED BY <1>2, <1>14 DEF ContentsInv

\* A prefix of a chain is one.
LEMMA ChainStarts ==
  ASSUME NEW n \in Nat, NEW p, NEW e, NEW r, IsChain(p, n, e, r), NEW k \in 0..n
  PROVE  \E q : IsChain(q, k, e, p[k]) /\ \A i \in 0..k : q[i] = p[i]
<1> DEFINE q == [i \in 0..k |-> p[i]]
<1>1. /\ p \in [0..n -> Events] /\ p[0] = e
      /\ \A i \in 0..(n - 1) : ~Note(p[i]) /\ p[i + 1] = shape.up[p[i]]
  BY DEF IsChain
<1>2. q \in [0..k -> Events]
  BY <1>1
<1>3. \A i \in 0..k : q[i] = p[i]
  OBVIOUS
<1> HIDE DEF q
<1>4. q[0] = e /\ q[k] = p[k]
  BY <1>1, <1>3
<1>5. ASSUME NEW i \in 0..(k - 1) PROVE ~Note(q[i]) /\ q[i + 1] = shape.up[q[i]]
  <2>1. i \in 0..(n - 1) /\ i \in 0..k /\ i + 1 \in 0..k
    OBVIOUS
  <2>2. q[i] = p[i] /\ q[i + 1] = p[i + 1]
    BY <1>3, <2>1
  <2>3. QED BY <1>1, <2>1, <2>2
<1>6. IsChain(q, k, e, p[k])
  BY <1>2, <1>4, <1>5 DEF IsChain
<1>7. QED BY <1>3, <1>6

\* What is one link above what is known is known, or is missing now.
LEMMA NextLink ==
  ASSUME WorldOK, WorkOK(work), work.at = "resolving", work.whole,
         NEW e \in work.activity \cap pow, NEW n \in 0..Limit, NEW p, NEW r, IsChain(p, n, e, r),
         r \in work.activity \cup held["thread"],
         \A i \in 1..(n - 1) : p[i] \in work.known
  PROVE  r \in work.known \/ r \in Missing
<1>1. /\ work.activity \subseteq work.known /\ work.asked \cap held["thread"] \subseteq work.known
      /\ work.activity \in SUBSET Events
  BY DEF WorkOK, Works
<1>2. SUFFICES ASSUME r \notin work.known PROVE r \in Missing
  OBVIOUS
<1>3. n # 0 /\ e \in Events
  BY <1>1, <1>2 DEF IsChain
<1>4. Reached(e, work.known) = r
  BY <1>2, <1>3, ClimbFollows
<1>5. r \in NextMissing(e, work.known) /\ e \in Qualifying
  BY <1>2, <1>4 DEF NextMissing, Qualifying
<1>6. r \notin work.asked
  BY <1>1, <1>2
<1>7. QED BY <1>5, <1>6 DEF Missing

LEMMA AskedGrows ==
  ASSUME NEW A \in SUBSET Events, NEW M \in SUBSET Events, M # {}, M \cap A = {}
  PROVE  Cardinality(A \cup M) >= Cardinality(A) + 1
<1>1. PICK x \in M : x \notin A
  OBVIOUS
<1>2. IsFiniteSet(A) /\ IsFiniteSet(A \cup M)
  BY EventsAreNumbers, FS_Subset
<1>3. IsFiniteSet(A \cup {x}) /\ Cardinality(A \cup {x}) = Cardinality(A) + 1
  BY <1>1, <1>2, FS_AddElement
<1>4. A \cup {x} \subseteq A \cup M
  BY <1>1
<1>5. Cardinality(A \cup {x}) <= Cardinality(A \cup M)
  BY <1>2, <1>4, FS_Subset
<1>6. Cardinality(A) \in Nat /\ Cardinality(A \cup M) \in Nat
  BY <1>2, FS_CardinalityType
<1>7. QED BY <1>3, <1>5, <1>6

LEMMA MissingIs ==
  ASSUME ContentsInv
  PROVE  Missing \in SUBSET Events /\ Missing \cap work.asked = {}
<1>1. work.activity \in SUBSET Events
  BY DEF ContentsInv, WorkOK, Works
<1>2. ASSUME NEW e \in Qualifying PROVE Reached(e, work.known) \in Events
  <2>1. e \in Events /\ WorldOK
    BY <1>1, <1>2 DEF Qualifying, ContentsInv, FeedOK
  <2>2. PICK q : IsClimb(q, e, work.known) /\ Reached(e, work.known) = q[Limit]
    BY <2>1, Climbs
  <2>3. Limit \in 0..Limit
    BY <2>1, LimitIs
  <2>4. QED BY <2>2, <2>3 DEF IsClimb
<1>3. Missing \in SUBSET Events
  BY <1>2 DEF Missing, NextMissing
<1>4. QED BY <1>3 DEF Missing

LEMMA Resolves ==
  ASSUME ContentsInv, Resolve
  PROVE  ContentsInv'
<1>1. Stays /\ since' = since /\ feed' = feed
  BY DEF Resolve, FetchStep, world, Stays
<1>2. FeedOK' /\ \A e : e \in Fresh' => e \in Fresh
  BY <1>1, FetchStays
<1>3. PICK mi : mi = Missing
  OBVIOUS
<1>4. /\ work.at = "resolving" /\ mi # {} /\ work.round < Limit
      /\ mi \in SUBSET Events /\ mi \cap work.asked = {}
  BY <1>3, MissingIs DEF Resolve, Unresolved
<1>5. PICK got \in Answers("thread", mi) :
        work' = [work EXCEPT !.known = @ \cup got, !.asked = @ \cup mi,
                             !.round = @ + 1, !.whole = Whole("thread", mi, got)]
  BY <1>3 DEF Resolve
<1>6. PICK b : b = Whole("thread", mi, got)
  OBVIOUS
<1>7. work \in Works /\ WorldOK /\ Limit \in Nat
  BY LimitIs DEF ContentsInv, WorkOK, FeedOK
<1>8. b \in BOOLEAN /\ got \in SUBSET Events
      /\ (b => work.whole /\ got = held["thread"] \cap mi)
  <2>1. got \in SUBSET Events
    BY <1>4 DEF Answers
  <2>2. work.whole \in BOOLEAN
    BY <1>7 DEF Works
  <2>3. QED BY <1>6, <2>1, <2>2 DEF Whole
<1>9. PICK k, a, n : k = work.known \cup got /\ a = work.asked \cup mi /\ n = work.round + 1
  OBVIOUS
<1> DEFINE m == [work EXCEPT !.known = k, !.asked = a, !.round = n, !.whole = b]
<1>10. work' = m
  BY <1>5, <1>6, <1>9
<1>11. k \in SUBSET Events /\ a \in SUBSET Events /\ n \in Nat
  BY <1>4, <1>7, <1>8, <1>9 DEF Works
<1>12. /\ m \in Works /\ m.at = work.at /\ m.cached = work.cached /\ m.activity = work.activity
       /\ m.known = k /\ m.asked = a /\ m.round = n /\ m.whole = b
  BY <1>7, <1>8, <1>11 DEF Works
<1> HIDE DEF m
<1>13. n <= Limit /\ Cardinality(a) >= n
  <2>1. Cardinality(a) >= Cardinality(work.asked) + 1
    BY <1>4, <1>7, <1>9, AskedGrows DEF Works
  <2>2. Cardinality(work.asked) >= work.round /\ work.round \in Nat
    BY <1>7 DEF ContentsInv, WorkOK, Works
  <2>3. Cardinality(a) \in Nat /\ Cardinality(work.asked) \in Nat
    BY <1>7, <1>11, EventsAreNumbers, FS_Subset, FS_CardinalityType DEF Works
  <2>4. QED BY <1>4, <1>7, <1>9, <2>1, <2>2, <2>3
<1>14. ASSUME b PROVE a \cap held["thread"] \subseteq k /\ Traced(m, n)
  <2>1. work.whole /\ got = held["thread"] \cap mi /\ WorkOK(work)
    BY <1>8, <1>14 DEF ContentsInv
  <2>2. work.asked \cap held["thread"] \subseteq work.known /\ Traced(work, work.round)
    BY <1>4, <2>1 DEF WorkOK
  <2>3. ASSUME NEW e \in work.activity \cap pow, NEW j \in 0..n, NEW p, NEW r,
               IsChain(p, j, e, r), \A i \in 0..j : p[i] \in work.activity \cup held["thread"]
        PROVE  r \in k
    <3>1. j \in Nat /\ j \in 0..Limit /\ j \in 0..j /\ \A i \in 1..(j - 1) : i \in 0..work.round
          /\ i \in 0..j
      BY <1>7, <1>9, <1>13 DEF Works
    <3>2. ASSUME NEW i \in 1..(j - 1) PROVE p[i] \in work.known
      <4>1. PICK z : z = p[i]
        OBVIOUS
      <4>2. \E q : IsChain(q, i, e, p[i]) /\ \A h \in 0..i : q[h] = p[h]
        BY <2>3, <3>1, ChainStarts
      <4>3. PICK q : IsChain(q, i, e, z) /\ \A h \in 0..i : q[h] = p[h]
        BY <4>1, <4>2
      <4>4. \A h \in 0..i : h \in 0..j
        OBVIOUS
      <4>5. \A h \in 0..i : q[h] \in work.activity \cup held["thread"]
        BY <2>3, <4>3, <4>4
      <4>6. z \in work.known
        BY <2>2, <2>3, <3>1, <4>3, <4>5 DEF Traced
      <4>7. QED BY <4>1, <4>6
    <3>3. r \in work.activity \cup held["thread"]
      BY <2>3, <3>1 DEF IsChain
    <3>4. r \in work.known \/ r \in Missing
      BY <1>4, <1>7, <2>1, <2>3, <3>1, <3>2, <3>3, NextLink
    <3>5. work.activity \subseteq work.known
      BY <2>1 DEF WorkOK
    <3>6. QED BY <1>3, <1>9, <2>1, <3>3, <3>4, <3>5
  <2>4. Traced(m, n)
    BY <1>12, <2>3 DEF Traced
  <2>5. QED BY <1>9, <2>1, <2>2, <2>4
<1>15. WorkOK(m)
  <2>1. WorkOK(work)
    BY DEF ContentsInv
  <2>2. work.activity \subseteq k /\ feed.events \cap (Fresh \cup feed.posts) \subseteq work.cached
    BY <1>4, <1>9, <2>1 DEF WorkOK
  <2>3. QED BY <1>4, <1>12, <1>13, <1>14, <2>2 DEF WorkOK
<1>16. PICK w : w = m
  OBVIOUS
<1>17. WorkOK(work)'
  BY <1>1, <1>2, <1>10, <1>15, <1>16, WorkStays
<1>18. QED BY <1>2, <1>17 DEF ContentsInv

\* When the search for roots ends, nothing that leads up from the activity within
\* reach is missing.
LEMMA RootsTraced ==
  ASSUME ContentsInv, work.at = "resolving", ~Unresolved, work.whole
  PROVE  Traced(work, Limit)
<1>1. /\ WorldOK /\ WorkOK(work) /\ Limit \in Nat /\ work.round \in Nat
      /\ work.round <= Limit /\ Traced(work, work.round)
  BY LimitIs DEF ContentsInv, FeedOK, WorkOK, Works
<1>2. CASE work.round = Limit
  BY <1>1, <1>2
<1>3. CASE work.round # Limit
  <2>1. Missing = {}
    BY <1>1, <1>3 DEF Unresolved
  <2>2. ASSUME NEW e \in work.activity \cap pow, NEW n \in 0..Limit, NEW p, NEW r,
               IsChain(p, n, e, r), \A i \in 0..n : p[i] \in work.activity \cup held["thread"]
        PROVE  r \in work.known
    <3> DEFINE good == {k \in 0..n : \A i \in 0..k : p[i] \in work.known}
    <3>1. n \in Nat /\ n <= Limit /\ p[0] = e /\ p[n] = r
      BY <1>1, <2>2 DEF IsChain
    <3>2. 0 \in good
      BY <1>1, <3>1 DEF WorkOK
    <3>3. ASSUME NEW k \in 0..(n - 1), k \in good PROVE k + 1 \in good
      <4>1. k + 1 \in 0..n /\ k + 1 \in 0..Limit /\ \A i \in 1..((k + 1) - 1) : i \in 0..k
        BY <1>1, <3>1
      <4>2. PICK z : z = p[k + 1]
        OBVIOUS
      <4>3. PICK j : j = k + 1
        OBVIOUS
      <4>4. PICK q : IsChain(q, j, e, z) /\ \A h \in 0..j : q[h] = p[h]
        <5>1. \E q : IsChain(q, j, e, p[j]) /\ \A h \in 0..j : q[h] = p[h]
          BY <2>2, <3>1, <4>1, <4>3, ChainStarts
        <5>2. QED BY <4>2, <4>3, <5>1
      <4>5. \A i \in 1..(j - 1) : q[i] \in work.known
        <5>1. \A i \in 1..(j - 1) : i \in 0..k /\ i \in 0..j
          BY <4>3
        <5>2. \A i \in 0..k : p[i] \in work.known
          BY <3>3
        <5>3. QED BY <4>4, <5>1, <5>2
      <4>6. z \in work.activity \cup held["thread"]
        BY <2>2, <4>1, <4>2
      <4>7. j \in 0..Limit
        BY <4>1, <4>3
      <4>8. z \in work.known \/ z \in Missing
        BY <1>1, <2>2, <4>4, <4>5, <4>6, <4>7, NextLink
      <4>9. p[k + 1] \in work.known
        BY <2>1, <4>2, <4>8
      <4>10. \A i \in 0..(k + 1) : i \in 0..k \/ i = k + 1
        BY <3>1
      <4>11. QED BY <3>3, <4>1, <4>9, <4>10
    <3>4. n \in good
      <4>1. n \in 0..n
        BY <3>1
      <4> HIDE DEF good
      <4>2. QED BY <3>1, <3>2, <3>3, <4>1, UpTo
    <3>5. QED BY <3>1, <3>4
  <2>3. QED BY <2>2 DEF Traced
<1>4. QED BY <1>2, <1>3

LEMMA TracedMore ==
  ASSUME NEW w, NEW m, NEW v, Traced(w, m), v.activity = w.activity, w.known \subseteq v.known
  PROVE  Traced(v, m)
BY DEF Traced

LEMMA RootRefIs ==
  ASSUME WorldOK, NEW e \in Events, NEW known
  PROVE  RootRef(e, known) \in Events
<1>1. PICK q : IsClimb(q, e, known) /\ Reached(e, known) = q[Limit]
  BY Climbs
<1>2. Limit \in 0..Limit
  BY LimitIs
<1>3. Reached(e, known) \in Events /\ shape.up[e] \in Events
  BY <1>1, <1>2, UpOf DEF IsClimb
<1>4. QED BY <1>3 DEF RootRef

LEMMA FetchesRoots ==
  ASSUME ContentsInv, FetchRoots
  PROVE  ContentsInv'
<1>1. Stays /\ since' = since /\ feed' = feed
  BY DEF FetchRoots, FetchStep, world, Stays
<1>2. FeedOK' /\ \A e : e \in Fresh' => e \in Fresh
  BY <1>1, FetchStays
<1>3. PICK roots : roots = RootRefs(work.known)
  OBVIOUS
<1>4. PICK got \in Answers("thread", roots \ work.known) :
        work' = [work EXCEPT !.at = "closing", !.known = @ \cup got, !.roots = roots,
                             !.whole = Whole("thread", roots \ work.known, got)]
  BY <1>3 DEF FetchRoots
<1>5. PICK k, b : k = work.known \cup got /\ b = Whole("thread", roots \ work.known, got)
  OBVIOUS
<1>6. work \in Works /\ WorldOK /\ WorkOK(work) /\ work.at = "resolving" /\ ~Unresolved
  BY DEF ContentsInv, WorkOK, FeedOK, FetchRoots
<1>7. k \in SUBSET Events /\ roots \in SUBSET Events /\ b \in BOOLEAN /\ (b => work.whole)
  <2>1. roots \in SUBSET Events
    <3>1. Qualifying \in SUBSET Events
      BY <1>6 DEF Qualifying, Works
    <3>2. \A e \in Qualifying : RootRef(e, work.known) \in Events
      BY <1>6, <3>1, RootRefIs
    <3>3. QED BY <1>3, <3>2 DEF RootRefs
  <2>2. got \in SUBSET Events
    BY <2>1 DEF Answers
  <2>3. work.whole \in BOOLEAN /\ work.known \in SUBSET Events
    BY <1>6 DEF Works
  <2>4. QED BY <1>5, <2>1, <2>2, <2>3 DEF Whole
<1> DEFINE m == [work EXCEPT !.at = "closing", !.known = k, !.roots = roots, !.whole = b]
<1>8. work' = m
  BY <1>4, <1>5
<1>9. /\ m \in Works /\ m.at = "closing" /\ m.cached = work.cached /\ m.activity = work.activity
      /\ m.known = k /\ m.asked = work.asked /\ m.round = work.round /\ m.whole = b
  BY <1>6, <1>7 DEF Works
<1> HIDE DEF m
<1>10. b => Traced(m, Limit)
  <2>1. SUFFICES ASSUME b PROVE Traced(m, Limit)
    OBVIOUS
  <2>2. Traced(work, Limit)
    BY <1>6, <1>7, <2>1, RootsTraced
  <2>3. work.known \subseteq k
    BY <1>5
  <2>4. PICK v : v = work
    OBVIOUS
  <2>5. QED BY <1>9, <2>2, <2>3, <2>4, TracedMore
<1>11. WorkOK(m)
  <2>1. /\ work.activity \subseteq k /\ feed.events \cap (Fresh \cup feed.posts) \subseteq work.cached
        /\ work.round <= Limit /\ Cardinality(work.asked) >= work.round
    BY <1>5, <1>6 DEF WorkOK
  <2>2. QED BY <1>9, <1>10, <2>1 DEF WorkOK
<1>12. PICK w : w = m
  OBVIOUS
<1>13. WorkOK(work)'
  BY <1>1, <1>2, <1>8, <1>11, <1>12, WorkStays
<1>14. QED BY <1>2, <1>13 DEF ContentsInv

LEMMA FetchesReplies ==
  ASSUME ContentsInv, FetchReplies
  PROVE  ContentsInv'
<1>1. Stays /\ since' = since /\ feed' = feed
  BY DEF FetchReplies, FetchStep, world, Stays
<1>2. FeedOK' /\ \A e : e \in Fresh' => e \in Fresh
  BY <1>1, FetchStays
<1>3. PICK replies : replies = ReplyClosure(work.roots, work.known, depth)
  OBVIOUS
<1>4. PICK d \in 0..depth :
        work' = [work EXCEPT !.at = "filtering",
                             !.found = work.known \cup ReplyClosure(work.roots, work.known, d),
                             !.whole = @ /\ ReplyClosure(work.roots, work.known, d) = replies]
  BY <1>3 DEF FetchReplies
<1>4a. PICK got : got = ReplyClosure(work.roots, work.known, d)
  OBVIOUS
<1>5. PICK f, b : f = work.known \cup got /\ b = (work.whole /\ got = replies)
  OBVIOUS
<1>6. work \in Works /\ WorldOK /\ WorkOK(work) /\ work.at = "closing"
  BY DEF ContentsInv, WorkOK, FeedOK, FetchReplies
<1>7. PICK N : AreClosed(N, work.roots, work.known, replies) /\ got \in SUBSET Events
  <2>1. work.roots \in SUBSET Events
    BY <1>6 DEF Works
  <2>2. QED BY <1>3, <1>4a, <1>6, <2>1, ClosureFinds
<1>8. f \in SUBSET Events /\ b \in BOOLEAN
  BY <1>5, <1>6, <1>7 DEF Works
<1> DEFINE m == [work EXCEPT !.at = "filtering", !.found = f, !.whole = b]
<1>9. work' = m
  BY <1>4, <1>4a, <1>5
<1>10. /\ m \in Works /\ m.at = "filtering" /\ m.cached = work.cached
       /\ m.activity = work.activity /\ m.known = work.known /\ m.asked = work.asked
       /\ m.round = work.round /\ m.whole = b /\ m.found = f /\ m.roots = work.roots
  BY <1>6, <1>8 DEF Works
<1> HIDE DEF m
<1>11. b => Traced(m, Limit)
  <2>1. PICK v : v = work
    OBVIOUS
  <2>2. b => Traced(v, Limit)
    BY <1>5, <1>6, <2>1 DEF WorkOK
  <2>3. QED BY <1>10, <2>1, <2>2, TracedMore
<1>12. b => AreClosed(N, m.roots, m.known, m.found)
  <2>1. b => replies \subseteq f
    BY <1>5
  <2>2. QED BY <1>7, <1>10, <2>1 DEF AreClosed
<1>13. WorkOK(m)
  <2>1. /\ work.activity \subseteq work.known /\ work.known \subseteq f
        /\ feed.events \cap (Fresh \cup feed.posts) \subseteq work.cached
        /\ work.round <= Limit /\ Cardinality(work.asked) >= work.round
    BY <1>5, <1>6 DEF WorkOK
  <2>2. QED BY <1>10, <1>11, <1>12, <2>1 DEF WorkOK
<1>14. PICK w : w = m
  OBVIOUS
<1>15. WorkOK(work)'
  BY <1>1, <1>2, <1>9, <1>13, <1>14, WorkStays
<1>16. QED BY <1>2, <1>15 DEF ContentsInv

\* What processFeedEvents makes of the visible events.
Selection(nx, vis, seen) ==
  /\ SnapshotOK(nx) /\ nx.events \subseteq vis
  /\ \A e \in vis \cap Fresh \cap pow \cap seen, r \in vis :
       Note(r) /\ Leads(e, r, vis) => r \in nx.posts
  /\ \A p \in nx.posts :
       /\ IsThread(nx.replies[p], p, vis)
       /\ \E e \in {p} \cup nx.replies[p] :
            e \in pow \cap seen \cap Fresh /\ Leads(e, p, nx.events)

LEMMA SelectionIs ==
  ASSUME WorldOK, NEW vis \in SUBSET Events, Seen \in SUBSET Events,
         NEW nx, NEW P, NEW R, P = Posts(vis), R = [p \in P |-> ThreadReplies(p, vis)],
         nx = [posts |-> P, replies |-> R, seen |-> Seen, events |-> Bootstrap(P, R)]
  PROVE  nx \in Snapshots /\ nx.seen = Seen /\ Selection(nx, vis, Seen)
<1>1. P \subseteq vis /\ \A p \in P : Note(p)
  BY DEF Posts
<1>2. \A p \in P : IsThread(ThreadReplies(p, vis), p, vis)
  BY ThreadRepliesAre
<1>3. DOMAIN R = P /\ \A p \in P : IsThread(R[p], p, vis)
  BY <1>2
<1>4. \A p \in P : p \notin R[p] /\ R[p] \subseteq vis
  BY <1>1, <1>3, RootIsNoReply
<1>5. R \in [P -> SUBSET Events]
  <2>1. \A p \in P : ThreadReplies(p, vis) \in SUBSET Events
    BY <1>4
  <2>2. QED BY <2>1
<1>6. R \in Threads /\ P \in SUBSET Events
  BY <1>1, <1>5 DEF Threads
<1>7. PICK ev : ev = Bootstrap(P, R)
  OBVIOUS
<1>8. ev \subseteq vis /\ P \subseteq ev /\ \A p \in P : R[p] \subseteq ev
  BY <1>1, <1>4, <1>7 DEF Bootstrap
<1>9. PICK sn : sn = Seen
  OBVIOUS
<1>10. nx = [posts |-> P, replies |-> R, seen |-> sn, events |-> ev]
  BY <1>7, <1>9
<1>11. nx \in Snapshots /\ nx.posts = P /\ nx.replies = R /\ nx.seen = sn /\ nx.events = ev
  <2>1. ev \in SUBSET Events /\ sn \in SUBSET Events
    BY <1>8, <1>9
  <2>2. QED BY <1>6, <1>10, <2>1 DEF Snapshots
<1>12. SnapshotOK(nx)
  BY <1>1, <1>3, <1>4, <1>8, <1>11 DEF SnapshotOK
<1>13. ASSUME NEW e \in vis \cap Fresh \cap pow \cap Seen, NEW r \in vis,
              Note(r), Leads(e, r, vis)
       PROVE  r \in P
  <2>1. RootRef(e, vis) = r
    BY <1>13, RootFound
  <2>2. QED BY <1>13, <2>1 DEF Posts
<1>14. ASSUME NEW p \in P
       PROVE  \E e \in {p} \cup R[p] : e \in pow \cap Seen \cap Fresh /\ Leads(e, p, ev)
  <2>1. PICK e \in vis \cap Fresh \cap pow \cap Seen : p = RootRef(e, vis)
    BY DEF Posts
  <2>2. Leads(e, p, vis)
    BY <2>1, RootRefLeads
  <2>3. PICK n \in 0..Limit : \E q : IsChain(q, n, e, p) /\ Through(q, n, vis)
    BY <2>2, LeadsIs
  <2>3a. PICK q : IsChain(q, n, e, p) /\ Through(q, n, vis)
    BY <2>3
  <2>4. n \in Nat
    BY LimitIs
  <2>5. PICK T : T = R[p]
    OBVIOUS
  <2>6. Through(q, n, T)
    BY <1>3, <2>3a, <2>4, <2>5, ChainInThread
  <2>7. e \in {p} \cup T
    <3>1. q[0] = e /\ q[n] = p
      BY <2>3a DEF IsChain
    <3>2. CASE n = 0
      BY <3>1, <3>2
    <3>3. CASE n # 0
      <4>1. 0 \in 0..(n - 1)
        BY <2>4, <3>3
      <4>2. QED BY <2>6, <3>1, <4>1 DEF Through
    <3>4. QED BY <3>2, <3>3
  <2>8. Leads(e, p, T)
    BY <2>3a, <2>6, LeadsIs
  <2>9. T \subseteq ev
    BY <1>8, <2>5
  <2>10. Leads(e, p, ev)
    BY <2>8, <2>9, LeadsMore
  <2>11. QED BY <2>1, <2>5, <2>7, <2>10
<1>15. QED BY <1>3, <1>8, <1>9, <1>11, <1>12, <1>13, <1>14 DEF Selection

LEMMA Selects ==
  ASSUME ContentsInv, Select
  PROVE  ContentsInv'
<1>1. Stays /\ since' = since /\ feed' = feed
  BY DEF Select, FetchStep, world, Stays
<1>2. FeedOK' /\ \A e : e \in Fresh' => e \in Fresh
  BY <1>1, FetchStays
<1>3. work \in Works /\ WorldOK /\ WorkOK(work) /\ work.at = "filtering"
  BY DEF ContentsInv, WorkOK, FeedOK, Select
<1>4. PICK h, vis : h = Hidden /\ vis = Visible
  OBVIOUS
<1>5. h \in SUBSET Events /\ vis \in SUBSET Events /\ vis = (work.cached \cup work.found) \ h
  <2>1. work.cached \in SUBSET Events /\ work.found \in SUBSET Events
    BY <1>3 DEF Works
  <2>2. QED BY <1>4, <2>1 DEF Hidden, Visible
<1>6. Seen \in SUBSET Events
  BY <1>3 DEF Seen, Works, ContentsInv, FeedOK, Snapshots
<1>7. PICK P, R : P = Posts(vis) /\ R = [p \in P |-> ThreadReplies(p, vis)]
  OBVIOUS
<1>8. PICK nx : nx = [posts |-> P, replies |-> R, seen |-> Seen, events |-> Bootstrap(P, R)]
  OBVIOUS
<1>9. nx \in Snapshots /\ nx.seen = Seen /\ Selection(nx, vis, Seen)
  BY <1>3, <1>5, <1>6, <1>7, <1>8, SelectionIs
<1>9a. PICK fr : fr = Fresh /\ fr \in SUBSET Events
  BY DEF Fresh
<1> DEFINE m == [work EXCEPT !.at = "referring", !.hidden = h, !.fresh = fr, !.visible = vis,
                            !.next = nx]
<1>10. work' = m
  BY <1>4, <1>7, <1>8, <1>9a DEF Select
<1>11. /\ m \in Works /\ m.at = "referring" /\ m.cached = work.cached
       /\ m.activity = work.activity /\ m.known = work.known /\ m.asked = work.asked
       /\ m.round = work.round /\ m.whole = work.whole /\ m.found = work.found
       /\ m.roots = work.roots /\ m.hidden = h /\ m.visible = vis /\ m.next = nx
       /\ m.fresh = fr
  BY <1>3, <1>5, <1>9, <1>9a DEF Works
<1> HIDE DEF m
<1>12. Selected(m)
  <2>1. Seen = feed.seen \cup work.activity
    BY DEF Seen
  <2>2. PICK S : S = Seen
    OBVIOUS
  <2>3. /\ SnapshotOK(nx) /\ nx.events \subseteq vis
        /\ \A e \in vis \cap Fresh \cap pow \cap S, r \in vis :
             Note(r) /\ Leads(e, r, vis) => r \in nx.posts
        /\ \A p \in nx.posts :
             /\ IsThread(nx.replies[p], p, vis)
             /\ \E e \in {p} \cup nx.replies[p] :
                  e \in pow \cap S \cap Fresh /\ Leads(e, p, nx.events)
    <3>1. Selection(nx, vis, S)
      BY <1>9, <2>2
    <3>2. QED BY <3>1 DEF Selection
  <2>4. nx.events \cap h = {}
    BY <1>5, <2>3
  <2>5. \A p \in nx.posts :
          /\ IsThread(nx.replies[p], p, vis)
          /\ \E e \in {p} \cup nx.replies[p] :
               e \in pow \cap nx.seen \cap fr /\ Leads(e, p, nx.events)
    BY <1>9, <1>9a, <2>2, <2>3
  <2>6. \A e \in vis \cap Fresh \cap pow \cap (feed.seen \cup work.activity), r \in vis :
          Note(r) /\ Leads(e, r, vis) => r \in nx.posts
    BY <2>1, <2>2, <2>3
  <2>7. m.visible = (m.cached \cup m.found) \ m.hidden
    BY <1>5, <1>11
  <2>8. \A e \in m.visible \cap Fresh \cap pow \cap (feed.seen \cup m.activity), r \in m.visible :
          Note(r) /\ Leads(e, r, m.visible) => r \in m.next.posts
    BY <1>11, <2>6
  <2>9. SnapshotOK(m.next) /\ m.next.events \cap m.hidden = {}
    BY <1>11, <2>3, <2>4
  <2>10. \A p \in m.next.posts :
           /\ IsThread(m.next.replies[p], p, m.visible)
           /\ \E e \in {p} \cup m.next.replies[p] :
                e \in pow \cap m.next.seen \cap m.fresh /\ Leads(e, p, m.next.events)
    BY <1>11, <2>5
  <2>11. QED BY <2>7, <2>8, <2>9, <2>10 DEF Selected
<1>13. m.whole => Traced(m, Limit)
  <2>1. PICK v : v = work
    OBVIOUS
  <2>2. v.whole => Traced(v, Limit)
    BY <1>3, <2>1 DEF WorkOK
  <2>3. QED BY <1>11, <2>1, <2>2, TracedMore
<1>14. WorkOK(m)
  <2>1. /\ work.activity \subseteq work.known /\ work.known \subseteq work.found
        /\ feed.events \cap (Fresh \cup feed.posts) \subseteq work.cached
        /\ work.round <= Limit /\ Cardinality(work.asked) >= work.round
        /\ work.whole => \E N : AreClosed(N, work.roots, work.known, work.found)
    BY <1>3 DEF WorkOK
  <2>2. m.whole => \E N : AreClosed(N, m.roots, m.known, m.found)
    BY <1>11, <2>1
  <2>3. QED BY <1>11, <1>12, <1>13, <2>1, <2>2 DEF WorkOK
<1>15. PICK w : w = m
  OBVIOUS
<1>16. WorkOK(work)'
  BY <1>1, <1>2, <1>10, <1>14, <1>15, WorkStays
<1>17. QED BY <1>2, <1>16 DEF ContentsInv

LEMMA Refers ==
  ASSUME ContentsInv, Refer
  PROVE  ContentsInv'
<1>1. Stays /\ since' = since /\ feed' = feed
  BY DEF Refer, FetchStep, world, Stays
<1>2. FeedOK' /\ \A e : e \in Fresh' => e \in Fresh
  BY <1>1, FetchStays
<1>3. /\ work \in Works /\ WorldOK /\ WorkOK(work) /\ work.at = "referring"
      /\ work.next \in Snapshots
  BY DEF ContentsInv, WorkOK, FeedOK, Refer, Works
<1>4. PICK got \in Answers("thread", Quoted) :
        \E d \in 0..depth :
          LET replies == ReplyClosure(got, work.visible, d)
              events == work.next.events \cup Shown(got \cup replies)
          IN  work' = [work EXCEPT !.at = "fetched", !.next.events = events,
                                   !.next.seen = @ \cap events]
  BY Zenon DEF Refer
<1>4a. PICK d \in 0..depth :
         LET replies == ReplyClosure(got, work.visible, d)
             events == work.next.events \cup Shown(got \cup replies)
         IN  work' = [work EXCEPT !.at = "fetched", !.next.events = events,
                                  !.next.seen = @ \cap events]
  BY <1>4, Zenon
<1>4b. PICK replies : replies = ReplyClosure(got, work.visible, d)
  OBVIOUS
<1>5. PICK ev : ev = work.next.events \cup Shown(got \cup replies)
  OBVIOUS
<1>6. ev \in SUBSET Events /\ work.next.events \subseteq ev
      /\ (work.next.events \cap work.hidden = {} => ev \cap work.hidden = {})
  <2>1. got \in SUBSET Events
    BY <1>3 DEF Answers, WorldOK
  <2>2. replies \in SUBSET Events
    BY <1>3, <1>4b, <2>1, ClosureFinds
  <2>3. QED BY <1>3, <1>5, <2>1, <2>2 DEF Snapshots, Shown
<1>7. PICK sn : sn = work.next.seen \cap ev
  OBVIOUS
<1> DEFINE nx == [work.next EXCEPT !.events = ev, !.seen = sn]
<1>8. /\ nx \in Snapshots /\ nx.posts = work.next.posts /\ nx.replies = work.next.replies
      /\ nx.events = ev /\ nx.seen = sn
  <2>1. sn \in SUBSET Events
    BY <1>6, <1>7
  <2>2. QED BY <1>3, <1>6, <2>1 DEF Snapshots
<1> DEFINE m == [work EXCEPT !.at = "fetched", !.next = nx]
<1>9. work' = m
  <2>1. work' = [work EXCEPT !.at = "fetched", !.next.events = ev, !.next.seen = @ \cap ev]
    BY <1>4a, <1>4b, <1>5
  <2>2. QED BY <1>3, <1>7, <2>1 DEF Works, Snapshots
<1> HIDE DEF nx
<1>10. /\ m \in Works /\ m.at = "fetched" /\ m.cached = work.cached
       /\ m.activity = work.activity /\ m.known = work.known /\ m.asked = work.asked
       /\ m.round = work.round /\ m.whole = work.whole /\ m.found = work.found
       /\ m.roots = work.roots /\ m.hidden = work.hidden /\ m.visible = work.visible
       /\ m.next = nx /\ m.fresh = work.fresh
  BY <1>3, <1>8 DEF Works
<1> HIDE DEF m
<1>11. /\ SnapshotOK(work.next) /\ work.next.events \cap work.hidden = {}
       /\ work.visible = (work.cached \cup work.found) \ work.hidden
       /\ \A e \in work.visible \cap Fresh \cap pow \cap (feed.seen \cup work.activity),
            r \in work.visible :
            Note(r) /\ Leads(e, r, work.visible) => r \in work.next.posts
       /\ \A p \in work.next.posts :
            /\ IsThread(work.next.replies[p], p, work.visible)
            /\ \E e \in {p} \cup work.next.replies[p] :
                 e \in pow \cap work.next.seen \cap work.fresh /\ Leads(e, p, work.next.events)
  BY <1>3 DEF WorkOK, Selected
<1>12. SnapshotOK(nx) /\ nx.events \cap work.hidden = {} /\ nx.seen \subseteq nx.events
  BY <1>6, <1>7, <1>8, <1>11 DEF SnapshotOK
<1>13. ASSUME NEW p \in nx.posts
       PROVE  \E e \in {p} \cup nx.replies[p] :
                e \in pow \cap nx.seen \cap work.fresh /\ Leads(e, p, nx.events)
  <2>1. PICK e \in {p} \cup work.next.replies[p] :
          e \in pow \cap work.next.seen \cap work.fresh /\ Leads(e, p, work.next.events)
    BY <1>8, <1>11
  <2>2. e \in work.next.events
    BY <1>8, <1>11, <2>1 DEF SnapshotOK
  <2>3. PICK old : old = work.next.events
    OBVIOUS
  <2>4. Leads(e, p, ev)
    BY <1>6, <2>1, <2>3, LeadsMore
  <2>5. QED BY <1>6, <1>7, <1>8, <2>1, <2>2, <2>4
<1>14. Selected(m)
  BY <1>8, <1>10, <1>11, <1>12, <1>13 DEF Selected
<1>15. m.whole => Traced(m, Limit)
  <2>1. PICK v : v = work
    OBVIOUS
  <2>2. v.whole => Traced(v, Limit)
    BY <1>3, <2>1 DEF WorkOK
  <2>3. QED BY <1>10, <2>1, <2>2, TracedMore
<1>16. WorkOK(m)
  <2>1. /\ work.activity \subseteq work.known /\ work.known \subseteq work.found
        /\ feed.events \cap (Fresh \cup feed.posts) \subseteq work.cached
        /\ work.round <= Limit /\ Cardinality(work.asked) >= work.round
        /\ work.whole => \E N : AreClosed(N, work.roots, work.known, work.found)
    BY <1>3 DEF WorkOK
  <2>2. m.whole => \E N : AreClosed(N, m.roots, m.known, m.found)
    BY <1>10, <2>1
  <2>3. QED BY <1>10, <1>12, <1>14, <1>15, <2>1, <2>2 DEF WorkOK
<1>17. PICK w : w = m
  OBVIOUS
<1>18. WorkOK(work)'
  BY <1>1, <1>2, <1>9, <1>16, <1>17, WorkStays
<1>19. QED BY <1>2, <1>18 DEF ContentsInv

LEMMA ContentsStep ==
  ASSUME ContentsInv, [ContentsNext]_contentsVars
  PROVE  ContentsInv'
BY ManifestChanges, Starts, Resolves, FetchesRoots, FetchesReplies, Selects, Refers, Commits, Fails
   DEF ContentsNext

LEMMA ContentsInvariant == ContentsSpec => []ContentsInv
<1>1. ContentsInv /\ [ContentsNext]_contentsVars => ContentsInv'
  BY ContentsStep
<1>2. QED BY ContentsInitially, <1>1, PTL DEF ContentsSpec

----------------------------------------------------------------------------
(* What a refresh promises *)

\* A chain over what the relays have and moderators leave is visible in the end.
LEMMA TracedIsVisible ==
  ASSUME ContentsInv, work.at = "fetched", work.whole,
         NEW e \in work.activity \cap pow, NEW n \in 0..Limit, NEW p, NEW r, IsChain(p, n, e, r),
         NEW S, S = (work.activity \cup held["thread"]) \ work.hidden,
         Through(p, n, S), r \in S
  PROVE  e \in work.visible /\ r \in work.visible /\ Through(p, n, work.visible)
<1>1. /\ Traced(work, Limit) /\ work.known \subseteq work.found
      /\ work.visible = (work.cached \cup work.found) \ work.hidden
  BY DEF ContentsInv, WorkOK, Selected
<1>2. n \in Nat /\ Limit \in Nat
  BY LimitIs DEF ContentsInv, FeedOK
<1>3. p[0] = e /\ p[n] = r
  BY DEF IsChain
<1>4. \A i \in 0..n : p[i] \in S
  <2>1. \A i \in 0..n : i \in 0..(n - 1) \/ i = n
    BY <1>2
  <2>2. QED BY <1>3, <2>1 DEF Through
<1>5. ASSUME NEW k \in 0..n PROVE p[k] \in work.visible
  <2>1. PICK z : z = p[k]
    OBVIOUS
  <2>2. \E q : IsChain(q, k, e, p[k]) /\ \A i \in 0..k : q[i] = p[i]
    BY <1>2, ChainStarts
  <2>3. PICK q : IsChain(q, k, e, z) /\ \A i \in 0..k : q[i] = p[i]
    BY <2>1, <2>2
  <2>4. k \in 0..Limit /\ \A i \in 0..k : i \in 0..n
    BY <1>2
  <2>5. \A i \in 0..k : q[i] \in work.activity \cup held["thread"]
    BY <1>4, <2>3, <2>4
  <2>6. z \in work.known
    BY <1>1, <2>3, <2>4, <2>5 DEF Traced
  <2>7. z \notin work.hidden
    BY <1>4, <2>1
  <2>8. QED BY <1>1, <2>1, <2>6, <2>7
<1>6. 0 \in 0..n /\ n \in 0..n /\ \A i \in 0..(n - 1) : i \in 0..n
  BY <1>2
<1>7. QED BY <1>3, <1>5, <1>6 DEF Through

LEMMA RootIsPosted ==
  ASSUME ContentsInv, work.at = "fetched", work.whole,
         NEW e \in Qualifying \cap Fresh, NEW r \in Events,
         NEW S, S = (work.activity \cup held["thread"]) \ work.hidden,
         Leads(e, r, S), Note(r), r \in S
  PROVE  r \in work.next.posts
<1>1. e \in work.activity \cap pow
  BY DEF Qualifying
<1>2. PICK n \in 0..Limit : \E p : IsChain(p, n, e, r) /\ Through(p, n, S)
  BY LeadsIs
<1>2a. PICK p : IsChain(p, n, e, r) /\ Through(p, n, S)
  BY <1>2
<1>3. e \in work.visible /\ r \in work.visible /\ Through(p, n, work.visible)
  BY <1>1, <1>2a, TracedIsVisible
<1>4. Leads(e, r, work.visible)
  <2>1. PICK V : V = work.visible
    OBVIOUS
  <2>2. Leads(e, r, V)
    BY <1>2a, <1>3, <2>1, LeadsIs
  <2>3. QED BY <2>1, <2>2
<1>5. Selected(work)
  BY DEF ContentsInv, WorkOK
<1>6. QED BY <1>1, <1>3, <1>4, <1>5 DEF Selected

LEMMA ThreadIsCounted ==
  ASSUME ContentsInv, work.at = "fetched", work.whole, NEW p \in work.next.posts \cap work.roots
  PROVE  \A d \in 1..depth : Below(p)[d] \subseteq work.next.replies[p]
<1>1. /\ WorldOK /\ Selected(work) /\ work \in Works /\ work.known \subseteq work.found
      /\ \E N : AreClosed(N, work.roots, work.known, work.found)
  BY DEF ContentsInv, FeedOK, WorkOK
<1>2. PICK roots, found, visible, T :
        roots = work.roots /\ found = work.found /\ visible = work.visible
        /\ T = work.next.replies[p]
  OBVIOUS
<1>3. PICK N : AreClosed(N, roots, work.known, found)
  BY <1>1, <1>2
<1>4. found \in SUBSET Events /\ p \in Events /\ p \in roots /\ work.known \subseteq found
  BY <1>1, <1>2 DEF Works
<1>5. found \ work.hidden \subseteq visible /\ IsThread(T, p, visible)
  BY <1>1, <1>2 DEF Selected
<1>6. \A d \in 1..depth : Below(p)[d] \subseteq T
  BY <1>1, <1>3, <1>4, <1>5, BelowIsFetched
<1>7. QED BY <1>2, <1>6

LEMMA PostIsCarried ==
  ASSUME ContentsInv, work.at = "fetched", NEW p \in feed.posts, NEW e \in feed.events,
         NEW kept, kept = ((Fresh \cup {p}) \cap feed.events) \ work.hidden,
         e \in kept \cap Fresh \cap pow \cap feed.seen, p \in kept, Leads(e, p, kept)
  PROVE  p \in work.next.posts
<1>1. /\ feed.events \cap (Fresh \cup feed.posts) \subseteq work.cached
      /\ Selected(work) /\ Note(p)
  BY DEF ContentsInv, WorkOK, FeedOK, SnapshotOK
<1>2. kept \subseteq work.visible
  BY <1>1 DEF Selected
<1>3. PICK V : V = work.visible
  OBVIOUS
<1>4. Leads(e, p, V)
  BY <1>2, <1>3, LeadsMore
<1>5. QED BY <1>1, <1>2, <1>3, <1>4 DEF Selected

\* Every snapshot is one of root notes, each with replies of its own events, and
\* the loop that looks for roots ends within its rounds, each with a question that
\* was not asked before.
THEOREM ContentsTypesHold == ContentsSpec => []ContentsTypeOK
<1>1. ContentsInv => ContentsTypeOK
  BY DEF ContentsInv, FeedOK, WorkOK, SnapshotOK, ContentsTypeOK
<1>2. QED BY <1>1, ContentsInvariant, PTL

\* What is shown is decided by the moderators and the proof of work: a refresh
\* stores nothing that the manifest it read hides, and no post without work that
\* leads to it over what is stored, by an event that was seen on a PoW relay and
\* was fresh when processFeedEvents selected the posts.
THEOREM PostsAlwaysBacked == ContentsSpec => PostsAreBacked
<1>1. ASSUME ContentsInv, Commit
      PROVE  /\ feed'.events \cap work.hidden = {}
             /\ \A p \in feed'.posts : \E e \in {p} \cup feed'.replies[p] :
                  e \in pow \cap feed'.seen \cap work.fresh /\ Leads(e, p, feed'.events)
  <2>1. Selected(work) /\ feed' = work.next
    BY <1>1 DEF Commit, ContentsInv, WorkOK
  <2>2. QED BY <2>1 DEF Selected
<1>2. ContentsInv /\ [ContentsNext]_contentsVars =>
        [Commit => /\ feed'.events \cap work.hidden = {}
                   /\ \A p \in feed'.posts : \E e \in {p} \cup feed'.replies[p] :
                        /\ e \in pow \cap feed'.seen \cap work.fresh
                        /\ Leads(e, p, feed'.events)]_contentsVars
  BY <1>1
<1>3. QED BY <1>2, ContentsInvariant, PTL DEF ContentsSpec, PostsAreBacked

LEMMA RootsAlwaysFound == ContentsSpec => RootsAreFound
<1>1. ASSUME ContentsInv, Commit, work.whole
      PROVE  \A e \in Qualifying \cap Fresh, r \in Events :
               LET there == (work.activity \cup held["thread"]) \ work.hidden
               IN  Leads(e, r, there) /\ Note(r) /\ r \in there => r \in feed'.posts
  <2>1. work.at = "fetched" /\ feed' = work.next
    BY <1>1 DEF Commit
  <2>2. PICK S : S = (work.activity \cup held["thread"]) \ work.hidden
    OBVIOUS
  <2>3. ASSUME NEW e \in Qualifying \cap Fresh, NEW r \in Events,
               Leads(e, r, S), Note(r), r \in S
        PROVE  r \in feed'.posts
    BY <1>1, <2>1, <2>2, <2>3, RootIsPosted
  <2>4. QED BY <2>2, <2>3
<1>2. ContentsInv /\ [ContentsNext]_contentsVars =>
        [Commit /\ work.whole =>
           \A e \in Qualifying \cap Fresh, r \in Events :
             LET there == (work.activity \cup held["thread"]) \ work.hidden
             IN  Leads(e, r, there) /\ Note(r) /\ r \in there
                   => r \in feed'.posts]_contentsVars
  BY <1>1
<1>3. QED BY <1>2, ContentsInvariant, PTL DEF ContentsSpec, RootsAreFound

LEMMA ThreadsAlwaysWhole == ContentsSpec => ThreadsAreWhole
<1>1. ASSUME ContentsInv, Commit, work.whole
      PROVE  \A p \in feed'.posts \cap work.roots :
               \A d \in 1..depth : Below(p)[d] \subseteq feed'.replies[p]
  <2>1. work.at = "fetched" /\ feed' = work.next
    BY <1>1 DEF Commit
  <2>2. QED BY <1>1, <2>1, ThreadIsCounted
<1>2. ContentsInv /\ [ContentsNext]_contentsVars =>
        [Commit /\ work.whole =>
           \A p \in feed'.posts \cap work.roots :
             \A d \in 1..depth : Below(p)[d] \subseteq feed'.replies[p]]_contentsVars
  BY <1>1
<1>3. QED BY <1>2, ContentsInvariant, PTL DEF ContentsSpec, ThreadsAreWhole

LEMMA PostsAlwaysCarried == ContentsSpec => PostsAreCarried
<1>1. ASSUME ContentsInv, Commit
      PROVE  \A p \in feed.posts, e \in feed.events :
               LET kept == ((Fresh \cup {p}) \cap feed.events) \ work.hidden
               IN  /\ e \in kept \cap Fresh \cap pow \cap feed.seen
                   /\ p \in kept /\ Leads(e, p, kept)
                   => p \in feed'.posts
  <2>1. work.at = "fetched" /\ feed' = work.next
    BY <1>1 DEF Commit
  <2>2. ASSUME NEW p \in feed.posts, NEW e \in feed.events, NEW kept,
               kept = ((Fresh \cup {p}) \cap feed.events) \ work.hidden,
               e \in kept \cap Fresh \cap pow \cap feed.seen, p \in kept, Leads(e, p, kept)
        PROVE  p \in feed'.posts
    BY <1>1, <2>1, <2>2, PostIsCarried
  <2>3. QED BY <2>2
<1>2. ContentsInv /\ [ContentsNext]_contentsVars =>
        [Commit =>
           \A p \in feed.posts, e \in feed.events :
             LET kept == ((Fresh \cup {p}) \cap feed.events) \ work.hidden
             IN  /\ e \in kept \cap Fresh \cap pow \cap feed.seen
                 /\ p \in kept /\ Leads(e, p, kept)
                 => p \in feed'.posts]_contentsVars
  BY <1>1
<1>3. QED BY <1>2, ContentsInvariant, PTL DEF ContentsSpec, PostsAreCarried

\* Nothing that the feed should show is missing from it: the post that activity
\* leads to when the relays answer, the replies that they have to a post, and
\* the posts of the snapshot before that may stay.
THEOREM FeedAlwaysComplete == ContentsSpec => FeedIsComplete
BY RootsAlwaysFound, ThreadsAlwaysWhole, PostsAlwaysCarried DEF FeedIsComplete
=============================================================================

---------------------------- MODULE FeedContents ----------------------------
(***************************************************************************)
(* What a refresh of the feed snapshot finds and selects (fetch and the    *)
(* functions it calls in web/src/feed-snapshot-service.ts) and which of it *)
(* moderators hide (isEventModerated in web/src/moderation.ts).  Sharing,  *)
(* cancelling and storing refreshes is the subject of FeedRefresh: here    *)
(* one follows the other, and a refresh that fails changes nothing.        *)
(*                                                                         *)
(* Events are 1..Cardinality(Events), in the order of their creation; one  *)
(* refers to earlier ones only, as ids are hashes.  The reference that     *)
(* directRootRefCandidate takes, the tag marked as root or the first one,  *)
(* is up[e], or e itself for an event without e tags.  The PoW relays and  *)
(* the thread relays are one relay each; a relay that does not answer a    *)
(* query in time adds nothing.  The limits of a query and of a snapshot    *)
(* (30 roots, 12 replies each) are not reached, and the order of posts,    *)
(* profiles and the relays hinted at by tags are left out.                 *)
(***************************************************************************)
EXTENDS Integers, FiniteSets

CONSTANTS
  Events,      \* ids of kind 1 events
  Shapes,      \* the threads considered: what each event refers to and quotes
  Actions,     \* moderation actions: what each blocks and with what reach
  Depths,      \* values of replyFetchDepth
  MaxChanges,  \* bound on changes of the moderation store
  MaxAge,      \* bound on the events that grow too old
  MaxRefreshes \* bound on refreshes

ContentsAssumption ==
  /\ IsFiniteSet(Events) /\ Events = 1..Cardinality(Events)
  /\ \A s \in Shapes :
       /\ s.refs \in [Events -> SUBSET Events] /\ s.up \in [Events -> Events]
       /\ s.quotes \in [Events -> SUBSET Events]
       /\ \A e \in Events : /\ s.refs[e] \subseteq 1..(e - 1)
                            /\ s.up[e] \in IF s.refs[e] = {} THEN {e} ELSE s.refs[e]
  /\ Actions \subseteq [id : Events, thread : BOOLEAN]
  /\ Depths \cup {MaxChanges, MaxAge, MaxRefreshes} \subseteq Nat

ASSUME ContentsAssumption

VARIABLES
  depth,      \* replyFetchDepth
  shape,      \* what the events refer to
  pow,        \* events with at least minPow leading zeros
  held,       \* relay -> the events it has
  actions,    \* moderation.json
  since,      \* events up to this one are older than ageHours
  feed,       \* the snapshot: posts, the replies counted for each, events, and those
              \* of them that were seen on a PoW relay
  work,       \* the refresh under way
  changes, refreshes

contentsVars == <<depth, shape, pow, held, actions, since, feed, work, changes, refreshes>>
world == <<depth, shape, pow, held>>

Note(e) == shape.refs[e] = {}
Fresh == {e \in Events : e > since}

NoSnapshot == [posts |-> {}, replies |-> <<>>, events |-> {}, seen |-> {}]
NoWork == [at |-> "none", cached |-> {}, activity |-> {}, known |-> {}, asked |-> {}, round |-> 0,
           roots |-> {}, found |-> {}, hidden |-> {}, fresh |-> {}, visible |-> {},
           next |-> NoSnapshot, whole |-> TRUE]

ContentsInit ==
  /\ depth \in Depths
  /\ shape \in Shapes
  /\ pow \in SUBSET Events
  /\ held \in [{"pow", "thread"} -> SUBSET Events]
  /\ actions = {}
  /\ since = 0
  /\ feed = NoSnapshot
  /\ work = NoWork
  /\ changes = 0 /\ refreshes = 0

\* Operators named Faulty... are plausible mistakes in the definition that
\* follows them; no other definition uses them.

----------------------------------------------------------------------------
(* Threads *)

Limit == depth + 1

\* How far the loop of traceRootRefFromKnownEvents gets: to a root note, to an
\* event that is not known, or as many links up as it may follow.
Reached(e, known) ==
  LET climb[n \in 1..Limit] ==
        IF n = 1 THEN shape.up[e]
        ELSE IF climb[n - 1] \in known THEN shape.up[climb[n - 1]] ELSE climb[n - 1]
  IN  climb[Limit]

RootRef(e, known) ==
  LET r == Reached(e, known) IN IF r \in known /\ Note(r) THEN r ELSE shape.up[e]

NextMissing(e, known) == {Reached(e, known)} \ known

\* fetchReplyClosure: replies to the parents, then to what was new of those,
\* for depth rounds, of which some are answered in time.
RepliesOf(parents) ==
  {e \in held["thread"] \cap Fresh : shape.refs[e] \cap parents # {}}

FaultyReplyClosure(parents, known, answered) == RepliesOf(parents) \ known
ReplyClosure(parents, known, answered) ==
  LET level[d \in 0..depth] ==
        IF d = 0 THEN [new |-> parents, all |-> {}]
        ELSE LET new == RepliesOf(level[d - 1].new) \ (known \cup level[d - 1].all)
             IN  [new |-> new, all |-> level[d - 1].all \cup new]
  IN  level[answered].all

\* collectThreadReplies: breadth first from the root, each reply once.
ThreadReplies(root, known) ==
  LET level[d \in 0..Cardinality(Events)] ==
        IF d = 0 THEN {}
        ELSE {e \in known : shape.refs[e] \cap ({root} \cup level[d - 1]) # {}}
  IN  level[Cardinality(Events)]

----------------------------------------------------------------------------
(* Moderation *)

\* isEventModerated: a thread action hides the root and what refers to it.
Hidden == {e \in Events : \E a \in actions : e = a.id \/ (a.thread /\ a.id \in shape.refs[e])}

\* createAction and deleteAction, one at a time.
ChangeActions ==
  /\ changes < MaxChanges /\ changes' = changes + 1
  /\ \E a \in Actions : actions' = IF a \in actions THEN actions \ {a} ELSE actions \cup {a}
  /\ UNCHANGED <<world, since, feed, work, refreshes>>

GrowOld ==
  /\ since < MaxAge /\ since' = since + 1
  /\ UNCHANGED <<world, actions, feed, work, changes, refreshes>>

----------------------------------------------------------------------------
(* fetchGlobalFeedEvents *)

\* The answer of a relay to a query it has these events for: all or none.
Answers(relay, wanted) == {held[relay] \cap wanted, {}}
Whole(relay, wanted, got) == work.whole /\ got = held[relay] \cap wanted

FetchStep == UNCHANGED <<world, actions, since, feed, changes, refreshes>>

Qualifying == work.activity \cap pow
RootRefs(known) == {RootRef(e, known) : e \in Qualifying}

\* cachedEventsForRefresh: what the snapshot holds, less the replies and the
\* quoted events that have grown too old.
Cached == feed.events \cap (Fresh \cup feed.posts)

Start ==
  /\ work.at = "none" /\ refreshes < MaxRefreshes
  /\ refreshes' = refreshes + 1
  /\ \E got \in Answers("pow", Fresh) :
       work' = [NoWork EXCEPT !.at = "resolving", !.cached = Cached,
                              !.activity = got, !.known = got,
                              !.whole = Whole("pow", Fresh, got)]
  /\ UNCHANGED <<world, actions, since, feed, changes>>

FaultyMissing == UNION {NextMissing(e, work.known) : e \in Qualifying}
Missing == (UNION {NextMissing(e, work.known) : e \in Qualifying}) \ work.asked
Unresolved == Missing # {} /\ work.round < Limit

Resolve ==
  /\ work.at = "resolving" /\ Unresolved
  /\ \E got \in Answers("thread", Missing) :
       work' = [work EXCEPT !.known = @ \cup got, !.asked = @ \cup Missing,
                            !.round = @ + 1, !.whole = Whole("thread", Missing, got)]
  /\ FetchStep

\* Roots that are still unknown are asked for once more.
FetchRoots ==
  /\ work.at = "resolving" /\ ~Unresolved
  /\ LET roots == RootRefs(work.known) IN
     \E got \in Answers("thread", roots \ work.known) :
       work' = [work EXCEPT !.at = "closing", !.known = @ \cup got, !.roots = roots,
                            !.whole = Whole("thread", roots \ work.known, got)]
  /\ FetchStep

\* A relay that falls silent within the closure ends it there: what came in the
\* rounds before is kept.
FetchReplies ==
  /\ work.at = "closing"
  /\ LET replies(answered) == ReplyClosure(work.roots, work.known, answered) IN
     \E answered \in 0..depth :
       work' = [work EXCEPT !.at = "filtering", !.found = work.known \cup replies(answered),
                            !.whole = @ /\ replies(answered) = replies(depth)]
  /\ FetchStep

----------------------------------------------------------------------------
(* processFeedEvents and the referenced events *)

\* cachedEventsForRefresh
Seen == feed.seen \cup work.activity

FaultyPosts(visible) ==
  {r \in {RootRef(e, visible) : e \in visible \cap pow \cap Seen} : r \in visible /\ Note(r)}

\* Activity counts while it is fresh, also what was carried over.
Posts(visible) ==
  {r \in {RootRef(e, visible) : e \in visible \cap Fresh \cap pow \cap Seen} :
     r \in visible /\ Note(r)}

Visible == (work.cached \cup work.found) \ Hidden

\* What is stored of the posts: they and their replies.
Bootstrap(posts, replies) == posts \cup UNION {replies[p] : p \in posts}

\* The manifest is read and the events it leaves are turned into posts.
Select ==
  /\ work.at = "filtering"
  /\ LET posts == Posts(Visible)
         replies == [p \in posts |-> ThreadReplies(p, Visible)]
     IN  work' = [work EXCEPT
           !.at = "referring", !.hidden = Hidden, !.fresh = Fresh, !.visible = Visible,
           !.next = [posts |-> posts, replies |-> replies, seen |-> Seen,
                     events |-> Bootstrap(posts, replies)]]
  /\ FetchStep

\* What the posts quote and is not shown is fetched, with its replies, and
\* filtered with the manifest read before.
FaultyShown(events) == events
Shown(events) == events \ work.hidden

Quoted == (UNION {shape.quotes[p] : p \in work.next.posts}) \ work.visible

Refer ==
  /\ work.at = "referring"
  /\ \E got \in Answers("thread", Quoted) :
     \E answered \in 0..depth :
       LET replies == ReplyClosure(got, work.visible, answered)
           events == work.next.events \cup Shown(got \cup replies)
       IN  work' = [work EXCEPT !.at = "fetched", !.next.events = events,
                                !.next.seen = @ \cap events]
  /\ FetchStep

Commit ==
  /\ work.at = "fetched"
  /\ feed' = work.next
  /\ work' = NoWork
  /\ UNCHANGED <<world, actions, since, changes, refreshes>>

\* A query or the store fails, or the refresh is cancelled.
Fail ==
  /\ work.at # "none"
  /\ work' = NoWork
  /\ FetchStep

ContentsNext ==
  \/ ChangeActions \/ GrowOld
  \/ Start \/ Resolve \/ FetchRoots \/ FetchReplies \/ Select \/ Refer \/ Commit \/ Fail

ContentsSpec == ContentsInit /\ [][ContentsNext]_contentsVars

----------------------------------------------------------------------------
(* Properties *)

\* How many links lead up from an event to another one.
Leads(e, r, through) ==
  \E n \in 0..Limit : \E p \in [0..n -> Events] :
    /\ p[0] = e /\ p[n] = r
    /\ \A i \in 0..(n - 1) : p[i] \in through /\ ~Note(p[i]) /\ p[i + 1] = shape.up[p[i]]

\* Posts are root notes among the events of their snapshot, each with the
\* replies it counts; a refresh asks for no event's parents twice and goes as
\* many rounds as it may.
ContentsTypeOK ==
  /\ feed.posts \subseteq feed.events /\ \A p \in feed.posts : Note(p)
  /\ DOMAIN feed.replies = feed.posts
  /\ \A p \in feed.posts : feed.replies[p] \subseteq feed.events \ {p}
  /\ feed.seen \subseteq feed.events
  /\ work.round <= Limit /\ Cardinality(work.asked) >= work.round

\* Moderators and the proof of work decide what is shown: nothing that the
\* manifest hides is in a new snapshot, as a post, a reply that counts or a
\* quoted event, and every post has work among what is shown, itself or a reply
\* that leads to it over shown events only, by an event that was seen on a PoW
\* relay and was still fresh when the posts were selected: neither a root nor a
\* reply that was carried over keeps a post once it has grown too old.
PostsAreBacked ==
  [][Commit =>
       /\ feed'.events \cap work.hidden = {}
       /\ \A p \in feed'.posts : \E e \in {p} \cup feed'.replies[p] :
            /\ e \in pow \cap feed'.seen \cap work.fresh
            /\ Leads(e, p, feed'.events)]_contentsVars

\* Activity is not lost for want of its root: when the relays answer, a post
\* that is at most depth + 1 links above an event with work is shown, although
\* no relay of the activity has it, unless it or an event between is hidden.
RootsAreFound ==
  [][Commit /\ work.whole =>
       \A e \in Qualifying \cap Fresh, r \in Events :
         LET there == (work.activity \cup held["thread"]) \ work.hidden
         IN  Leads(e, r, there) /\ Note(r) /\ r \in there => r \in feed'.posts]_contentsVars

\* What the relays have, down to depth links below a post, of what answers it
\* or an answer that was not known from the activity.
Below(p) ==
  LET level[d \in 0..depth] ==
        IF d = 0 THEN {p}
        ELSE RepliesOf(level[d - 1] \ (IF d = 1 THEN {} ELSE work.known)) \ work.hidden
  IN  level

\* Threads are complete for depth rounds: a reply that the thread relays have
\* is counted for the post.  The exception is what answers a reply that was
\* known from the activity: fetchReplyClosure does not ask for those.
ThreadsAreWhole ==
  [][Commit /\ work.whole =>
       \A p \in feed'.posts \cap work.roots :
         \A d \in 1..depth : Below(p)[d] \subseteq feed'.replies[p]]_contentsVars

\* Silent relays do not empty the feed: a post stays as long as an event with
\* work that its snapshot holds is fresh and leads to it over fresh events,
\* however old the post is, and no moderator hides it.
PostsAreCarried ==
  [][Commit =>
       \A p \in feed.posts, e \in feed.events :
         LET kept == ((Fresh \cup {p}) \cap feed.events) \ work.hidden
         IN  /\ e \in kept \cap Fresh \cap pow \cap feed.seen
             /\ p \in kept /\ Leads(e, p, kept)
             => p \in feed'.posts]_contentsVars

\* The feed has what it should: nothing that the relays would show, or that it
\* has shown and may keep, is missing.
FeedIsComplete == RootsAreFound /\ ThreadsAreWhole /\ PostsAreCarried
=============================================================================

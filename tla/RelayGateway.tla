---------------------------- MODULE RelayGateway ----------------------------
(***************************************************************************)
(* One process of the server as its clients see it: the gateway that joins *)
(* each client's WebSocket to one of its own to the relay backend          *)
(* (web/src/relay-gateway.ts), and the shutdown that a signal begins       *)
(* (web/src/server-shutdown.ts and the "close" hooks in web/server.ts).    *)
(*                                                                         *)
(* The frames of a client are numbered in the order it sends them.  What   *)
(* the backend answers is passed on unchanged and left out, as are the     *)
(* counters of /api/status other than activeClients.  Clients, the backend *)
(* and the sockets of both (ws) are external.                              *)
(***************************************************************************)
EXTENDS Integers, Sequences, FiniteSets, SequencesExt

CONSTANTS
  Clients,     \* WebSocket clients of the gateway
  MaxFrames    \* bound on the frames of one client

ASSUME GatewayAssumption == IsFiniteSet(Clients) /\ MaxFrames \in Nat

VARIABLES
  link,           \* client -> its sockets and its frames
  activeClients,  \* stats.activeClients
  http,           \* a plain HTTP request is under way
  server          \* the process, and its force timer

gatewayVars == <<link, activeClients, http, server>>

\* client and backend are the readyState of the two sockets; frames counts
\* the client's frames, told holds those the gateway answered itself.
NoLink == [client |-> "none", backend |-> "none", frames |-> 0,
           queued |-> <<>>, forwarded |-> <<>>, told |-> {}]

Started == /\ link' = [c \in Clients |-> NoLink]
           /\ activeClients' = 0
           /\ http' = FALSE
           /\ server' = [at |-> "up", timer |-> FALSE]

GatewayInit ==
  /\ link = [c \in Clients |-> NoLink] /\ activeClients = 0 /\ http = FALSE
  /\ \E at \in {"up", "exited"} : server = [at |-> at, timer |-> FALSE]

Connected(c) == link[c].client \in {"open", "closing"}

\* Operators named Faulty... are plausible mistakes in the definition that
\* follows them; no other definition uses them.

----------------------------------------------------------------------------
(* The gateway *)

Connect(c) ==
  /\ server.at = "up" /\ link[c].client = "none"
  /\ link' = [link EXCEPT ![c].client = "open", ![c].backend = "connecting"]
  /\ activeClients' = activeClients + 1
  /\ UNCHANGED <<http, server>>

\* The frames that waited are sent, in the order in which they came.
BackendOpens(c) ==
  /\ link[c].backend = "connecting"
  /\ link' = [link EXCEPT ![c].backend = "open", ![c].queued = <<>>,
                          ![c].forwarded = @ \o link[c].queued]
  /\ UNCHANGED <<activeClients, http, server>>

\* A frame that is malformed, or an EVENT without its proof of work, is
\* answered here; others go to the backend, wait for it, or are answered with
\* a notice when it is gone.
FaultyRouted(l, n) ==
  IF l.backend = "open" THEN [l EXCEPT !.forwarded = Append(@, n)]
  ELSE [l EXCEPT !.queued = Append(@, n)]
Routed(l, n) ==
  IF l.backend = "open" THEN [l EXCEPT !.forwarded = Append(@, n)]
  ELSE IF l.backend = "connecting" THEN [l EXCEPT !.queued = Append(@, n)]
  ELSE [l EXCEPT !.told = @ \cup {n}]

Frame(c, acceptable) ==
  /\ link[c].client = "open" /\ link[c].frames < MaxFrames
  /\ LET n == link[c].frames + 1
         l == [link[c] EXCEPT !.frames = n]
     IN link' = [link EXCEPT ![c] = IF acceptable THEN Routed(l, n)
                                    ELSE [l EXCEPT !.told = @ \cup {n}]]
  /\ UNCHANGED <<activeClients, http, server>>

\* The backend goes away.  Once its socket is closed the client's is.
BackendDrops(c) ==
  /\ link[c].backend = "open"
  /\ link' = [link EXCEPT ![c].backend = "closing"]
  /\ UNCHANGED <<activeClients, http, server>>

ClosedWith(l) == IF l.client = "open" THEN "closing" ELSE l.client
BackendClosed(c) ==
  /\ link[c].backend \in {"closing", "connecting"}
  /\ link' = [link EXCEPT ![c].backend = "closed", ![c].client = ClosedWith(link[c])]
  /\ UNCHANGED <<activeClients, http, server>>

\* The client's "close" event.
Released(l) ==
  [l EXCEPT !.client = "gone",
            !.backend = IF @ \in {"open", "connecting"} THEN "closing" ELSE @]
ClientGone(c) ==
  /\ link' = [link EXCEPT ![c] = Released(@)]
  /\ activeClients' = IF activeClients > 0 THEN activeClients - 1 ELSE 0
  /\ UNCHANGED <<http, server>>

ClientLeaves(c) == link[c].client = "open" /\ ClientGone(c)
ClientClosed(c) == link[c].client = "closing" /\ ClientGone(c)

----------------------------------------------------------------------------
(* Plain HTTP and the end of the process *)

Request ==
  /\ server.at = "up" /\ ~http /\ http' = TRUE
  /\ UNCHANGED <<link, activeClients, server>>
Respond ==
  /\ http /\ http' = FALSE
  /\ UNCHANGED <<link, activeClients, server>>

Terminated == [c \in Clients |-> [link[c] EXCEPT !.client = ClosedWith(link[c])]]

\* The first signal: clients are terminated, nothing new is accepted, and the
\* force timer is set.
BeginShutdown ==
  /\ server.at = "up"
  /\ server' = [at |-> "stopping", timer |-> TRUE]
  /\ link' = Terminated
  /\ UNCHANGED <<activeClients, http>>

Forced == http' = FALSE        \* closeAllConnections
ForceShutdown ==
  /\ server.at = "stopping" /\ server.timer
  /\ server' = [server EXCEPT !.timer = FALSE]
  /\ link' = Terminated
  /\ Forced
  /\ UNCHANGED activeClients

\* The HTTP server's "close" event, when its last connection is gone: the
\* ledger, media moderation and the feed's schedule are closed.
ServerClosed ==
  /\ server.at = "stopping" /\ ~http /\ \A c \in Clients : ~Connected(c)
  /\ server' = [at |-> "closed", timer |-> FALSE]
  /\ UNCHANGED <<link, activeClients, http>>

\* The process ends by itself when no socket holds it.
Exit ==
  /\ server.at = "closed" /\ \A c \in Clients : link[c].backend \in {"none", "closed"}
  /\ server' = [server EXCEPT !.at = "exited"]
  /\ UNCHANGED <<link, activeClients, http>>

GatewayNext ==
  \/ \E c \in Clients :
       \/ Connect(c) \/ BackendOpens(c) \/ BackendDrops(c) \/ BackendClosed(c)
       \/ ClientLeaves(c) \/ ClientClosed(c)
       \/ \E acceptable \in BOOLEAN : Frame(c, acceptable)
  \/ Request \/ Respond

ShutdownNext == ForceShutdown \/ ServerClosed \/ Exit

\* Timers fire and sockets that are being closed get closed: ws destroys one
\* whose peer does not answer the closing handshake.
Closing == \E c \in Clients :
  ClientClosed(c) \/ (link[c].backend = "closing" /\ BackendClosed(c))

----------------------------------------------------------------------------
(* Properties *)

GatewayTypeOK ==
  /\ \A c \in Clients :
       /\ link[c].client \in {"none", "open", "closing", "gone"}
       /\ link[c].backend \in {"none", "connecting", "open", "closing", "closed"}
       /\ link[c].told \subseteq 1..link[c].frames /\ link[c].frames <= MaxFrames
  /\ server.at \in {"up", "stopping", "closed", "exited"}
  /\ http \in BOOLEAN /\ server.timer \in BOOLEAN

Increasing(s) == \A i, j \in DOMAIN s : i < j => s[i] < s[j]

\* The backend gets a client's frames in the order in which they were sent and
\* each at most once; as long as the client is connected, each frame was
\* forwarded, waits for a backend that is still connecting, or was answered by
\* the gateway itself: none is left in a queue that nobody will empty.
FramesArriveOrAreAnswered ==
  \A c \in Clients :
    LET l == link[c] way == l.forwarded \o l.queued IN
    /\ Increasing(way) /\ Range(way) \cap l.told = {}
    /\ l.client = "open" =>
         /\ Range(way) \cup l.told = 1..l.frames
         /\ l.queued # <<>> => l.backend = "connecting"

\* The backend's connections are those of the clients that are counted: none
\* outlives its client, and activeClients, which several events of one client
\* change, is the number of clients.
ConnectionsAreCounted ==
  /\ activeClients = Cardinality({c \in Clients : Connected(c)})
  /\ \A c \in Clients : link[c].backend \in {"connecting", "open"} => Connected(c)
=============================================================================

-------------------------- MODULE DeploymentProofs --------------------------
(***************************************************************************)
(* Proofs about RelayGateway and Deployment, for any clients, frames,      *)
(* revisions and versions, and for any number of runs of the script: no    *)
(* frame of a connected client is left behind, a deployment that is killed *)
(* anywhere can be undone, and one that reports success is served.         *)
(*                                                                         *)
(* The gateway's argument is about one link at a time, LinkOK; only the    *)
(* count of clients relates them.  The script's argument is what each of   *)
(* its stages may assume of the files and the app, which holds because     *)
(* runs do not overlap.                                                    *)
(***************************************************************************)
EXTENDS Deployment, FiniteSetTheorems, SequenceTheorems, TLAPS

----------------------------------------------------------------------------
(* Frames *)

\* Sequences are compared by what they hold.
LEMMA RangeIn ==
  ASSUME NEW S, NEW s \in Seq(S)
  PROVE  Range(s) = {s[i] : i \in 1..Len(s)} /\ Range(s) \subseteq S
BY DEF Range

\* A later frame goes behind the others.
LEMMA AppendLater ==
  ASSUME NEW S \in SUBSET Nat, NEW s \in Seq(S), NEW n \in S,
         Increasing(s), \A m \in Range(s) : m < n
  PROVE  /\ Append(s, n) \in Seq(S)
         /\ Increasing(Append(s, n))
         /\ Range(Append(s, n)) = Range(s) \cup {n}
<1> DEFINE t == Append(s, n)
<1>1. /\ t \in Seq(S) /\ Len(t) = Len(s) + 1 /\ Len(s) \in Nat
      /\ \A i \in 1..Len(s) : t[i] = s[i]
      /\ t[Len(s) + 1] = n
  BY AppendProperties
<1> HIDE DEF t
<1>2. DOMAIN t = 1..(Len(s) + 1) /\ DOMAIN s = 1..Len(s)
  BY <1>1
<1>3. ASSUME NEW i \in DOMAIN t, NEW j \in DOMAIN t, i < j PROVE t[i] < t[j]
  <2>1. i \in 1..Len(s) /\ t[i] = s[i]
    BY <1>1, <1>2, <1>3
  <2>2. CASE j \in 1..Len(s)
    <3>1. s[i] < s[j]
      BY <1>2, <1>3, <2>1, <2>2 DEF Increasing
    <3>2. QED BY <1>1, <2>1, <2>2, <3>1
  <2>3. CASE j = Len(s) + 1
    <3>1. s[i] < n
      BY <1>2, <2>1 DEF Range
    <3>2. QED BY <1>1, <2>1, <2>3, <3>1
  <2>4. QED BY <1>1, <1>2, <2>2, <2>3
<1>4. Increasing(t)
  BY <1>3 DEF Increasing
<1>5. Range(t) = Range(s) \cup {n}
  <2>1. ASSUME NEW m \in Range(t) PROVE m \in Range(s) \cup {n}
    <3>1. PICK i \in 1..(Len(s) + 1) : m = t[i]
      BY <1>2 DEF Range
    <3>2. QED BY <1>1, <1>2, <3>1 DEF Range
  <2>2. ASSUME NEW m \in Range(s) PROVE m \in Range(t)
    <3>1. PICK i \in 1..Len(s) : m = s[i]
      BY <1>2 DEF Range
    <3>2. QED BY <1>1, <1>2, <3>1 DEF Range
  <2>3. n \in Range(t)
    BY <1>1, <1>2 DEF Range
  <2>4. QED BY <2>1, <2>2, <2>3
<1>6. QED BY <1>1, <1>4, <1>5 DEF t

LEMMA AppendBehind ==
  ASSUME NEW S, NEW s \in Seq(S), NEW t \in Seq(S), NEW n \in S
  PROVE  s \o Append(t, n) = Append(s \o t, n)
<1> DEFINE u == <<n>>
<1>1. u \in Seq(S)
  OBVIOUS
<1>2. Append(t, n) = t \o u /\ s \o t \in Seq(S)
  BY <1>1, AppendIsConcat, ConcatProperties
<1>3. Append(s \o t, n) = (s \o t) \o u
  BY <1>1, <1>2, AppendIsConcat
<1> HIDE DEF u
<1>4. (s \o t) \o u = s \o (t \o u)
  BY ConcatAssociative
<1>5. QED BY <1>2, <1>3, <1>4

Numbers == 1..MaxFrames
Way(l) == l.forwarded \o l.queued

Links == [client : {"none", "open", "closing", "gone"},
          backend : {"none", "connecting", "open", "closing", "closed"},
          frames : 0..MaxFrames, queued : Seq(Numbers), forwarded : Seq(Numbers),
          told : SUBSET Numbers]

LinkOK(l) ==
  /\ l \in Links
  /\ l.told \subseteq 1..l.frames /\ Range(Way(l)) \subseteq 1..l.frames
  /\ Increasing(Way(l)) /\ Range(Way(l)) \cap l.told = {}
  /\ l.client = "none" => l = NoLink
  /\ l.client = "open" =>
       /\ Range(Way(l)) \cup l.told = 1..l.frames
       /\ l.queued # <<>> => l.backend = "connecting"
  /\ l.backend \in {"connecting", "open"} => l.client \in {"open", "closing"}

\* What the frames of a link need when only its sockets change.
LEMMA SocketsChange ==
  ASSUME NEW l \in Links, LinkOK(l), NEW m \in Links, l.client # "none", m.client # "none",
         m.frames = l.frames, m.told = l.told, Way(m) = Way(l),
         m.client = "open" =>
           l.client = "open" /\ (m.queued # <<>> => m.backend = "connecting"),
         m.backend \in {"connecting", "open"} => m.client \in {"open", "closing"}
  PROVE  LinkOK(m)
BY DEF LinkOK

LEMMA FreshLink == LinkOK(NoLink)
<1>1. NoLink \in Links
  <2>1. <<>> \in Seq(Numbers) /\ 0 \in 0..MaxFrames
    BY GatewayAssumption
  <2>2. QED BY <2>1 DEF NoLink, Links
<1>2. Way(NoLink) = <<>>
  BY DEF Way, NoLink
<1>3. Range(<<>>) = {} /\ Increasing(<<>>)
  BY DEF Range, Increasing
<1>4. QED BY <1>1, <1>2, <1>3 DEF LinkOK, NoLink

LEMMA WayIsSeq ==
  ASSUME NEW l \in Links
  PROVE  Way(l) \in Seq(Numbers) /\ l.forwarded \in Seq(Numbers) /\ l.queued \in Seq(Numbers)
BY ConcatProperties DEF Links, Way

LEMMA ConnectKeeps ==
  ASSUME NEW l \in Links, LinkOK(l), l.client = "none"
  PROVE  LinkOK([l EXCEPT !.client = "open", !.backend = "connecting"])
<1> DEFINE m == [l EXCEPT !.client = "open", !.backend = "connecting"]
<1>1. l \in Links /\ l.frames = 0 /\ l.queued = <<>> /\ l.forwarded = <<>> /\ l.told = {}
  BY DEF LinkOK, NoLink
<1>2. /\ m \in Links /\ m.client = "open" /\ m.backend = "connecting"
      /\ m.frames = l.frames /\ m.queued = l.queued
      /\ m.forwarded = l.forwarded /\ m.told = l.told
  BY <1>1 DEF Links
<1> HIDE DEF m
<1>3. Way(m) = <<>>
  BY <1>1, <1>2 DEF Way
<1>4. Range(<<>>) = {} /\ Increasing(<<>>) /\ 1..0 = {}
  BY DEF Range, Increasing
<1>5. LinkOK(m)
  BY <1>1, <1>2, <1>3, <1>4 DEF LinkOK
<1>6. QED BY <1>5 DEF m

LEMMA BackendOpensKeeps ==
  ASSUME NEW l \in Links, LinkOK(l), l.backend = "connecting"
  PROVE  LinkOK([l EXCEPT !.backend = "open", !.queued = <<>>,
                          !.forwarded = @ \o l.queued])
<1> DEFINE w == l.forwarded \o l.queued
           e == <<>>
           m == [l EXCEPT !.backend = "open", !.queued = e, !.forwarded = w]
<1>1. l \in Links /\ w \in Seq(Numbers) /\ e \in Seq(Numbers) /\ w = Way(l)
  BY WayIsSeq DEF Way
<1>2. w \o e = w
  BY <1>1, ConcatEmptySeq
<1> HIDE DEF w, e
<1>3. /\ m \in Links /\ m.client = l.client /\ m.backend = "open"
      /\ m.frames = l.frames /\ m.queued = e /\ m.forwarded = w /\ m.told = l.told
  BY <1>1 DEF Links
<1>4. l.client \in {"open", "closing"}
  BY DEF LinkOK
<1> HIDE DEF m
<1>5. Way(m) = Way(l)
  BY <1>1, <1>2, <1>3 DEF Way
<1>6. LinkOK(m)
  BY <1>3, <1>4, <1>5, SocketsChange DEF e
<1>7. QED BY <1>6 DEF m, w, e

\* Which sockets of a link may change while its frames stay.
LEMMA SocketsKeep ==
  ASSUME NEW l \in Links, LinkOK(l), l.client # "none",
         NEW client \in {"open", "closing", "gone"},
         NEW backend \in {"none", "connecting", "open", "closing", "closed"},
         client = "open" => l.client = "open" /\ (backend = "connecting" \/ l.queued = <<>>),
         backend \in {"connecting", "open"} => client \in {"open", "closing"}
  PROVE  LinkOK([l EXCEPT !.client = client, !.backend = backend])
<1> DEFINE m == [l EXCEPT !.client = client, !.backend = backend]
<1>1. l \in Links
  BY DEF LinkOK
<1>2. /\ m \in Links /\ m.client = client /\ m.backend = backend /\ m.queued = l.queued
      /\ m.forwarded = l.forwarded /\ m.frames = l.frames /\ m.told = l.told
  BY <1>1 DEF Links
<1> HIDE DEF m
<1>3. Way(m) = Way(l)
  BY <1>2 DEF Way
<1>4. LinkOK(m)
  BY <1>1, <1>2, <1>3, SocketsChange
<1>5. QED BY <1>4 DEF m

LEMMA BackendDropsKeeps ==
  ASSUME NEW l \in Links, LinkOK(l), l.backend = "open"
  PROVE  LinkOK([l EXCEPT !.backend = "closing"])
<1>1. l \in Links /\ l.client \in {"open", "closing"}
  BY DEF LinkOK
<1>2. l.client = "open" => l.queued = <<>>
  BY DEF LinkOK
<1>3. [l EXCEPT !.backend = "closing"] = [l EXCEPT !.client = l.client, !.backend = "closing"]
  BY <1>1 DEF Links
<1>4. QED BY <1>1, <1>2, <1>3, SocketsKeep

LEMMA BackendClosedKeeps ==
  ASSUME NEW l \in Links, LinkOK(l), l.backend \in {"closing", "connecting"}
  PROVE  LinkOK([l EXCEPT !.backend = "closed", !.client = ClosedWith(l)])
<1>1. l \in Links /\ l.client \in {"open", "closing", "gone"}
  BY DEF LinkOK, Links, NoLink
<1>2. ClosedWith(l) \in {"closing", "gone"}
  BY <1>1 DEF ClosedWith
<1>3. [l EXCEPT !.backend = "closed", !.client = ClosedWith(l)]
        = [l EXCEPT !.client = ClosedWith(l), !.backend = "closed"]
  BY <1>1 DEF Links
<1>4. QED BY <1>1, <1>2, <1>3, SocketsKeep

LEMMA ReleasedKeeps ==
  ASSUME NEW l \in Links, LinkOK(l), l.client \in {"open", "closing"}
  PROVE  LinkOK(Released(l)) /\ Released(l).client = "gone"
<1>1. l \in Links
  BY DEF LinkOK
<1> DEFINE b == IF l.backend \in {"open", "connecting"} THEN "closing" ELSE l.backend
<1>2. b \in {"none", "connecting", "open", "closing", "closed"} \ {"connecting", "open"}
  BY <1>1 DEF Links
<1>3. Released(l) = [l EXCEPT !.client = "gone", !.backend = b]
  BY <1>1 DEF Links, Released
<1> HIDE DEF b
<1>4. Released(l).client = "gone"
  BY <1>1, <1>3 DEF Links
<1>5. LinkOK([l EXCEPT !.client = "gone", !.backend = b])
  <2>1. b \in {"none", "connecting", "open", "closing", "closed"}
        /\ b \notin {"connecting", "open"} /\ l.client # "none"
    BY <1>2
  <2>2. QED BY <2>1, SocketsKeep
<1>6. QED BY <1>3, <1>4, <1>5

LEMMA TerminatedKeeps ==
  ASSUME NEW l \in Links, LinkOK(l)
  PROVE  LinkOK([l EXCEPT !.client = ClosedWith(l)])
<1>1. l \in Links
  BY DEF LinkOK
<1>2. CASE l.client = "open"
  <2>1. ClosedWith(l) = "closing"
    BY <1>2 DEF ClosedWith
  <2>2. [l EXCEPT !.client = "closing"] = [l EXCEPT !.client = "closing", !.backend = l.backend]
    BY <1>1 DEF Links
  <2>3. l.backend \in {"none", "connecting", "open", "closing", "closed"}
    BY <1>1 DEF Links
  <2>4. QED BY <1>1, <1>2, <2>1, <2>2, <2>3, SocketsKeep
<1>3. CASE l.client # "open"
  <2>1. [l EXCEPT !.client = ClosedWith(l)] = l
    BY <1>1, <1>3 DEF Links, ClosedWith
  <2>2. QED BY <2>1
<1>4. QED BY <1>2, <1>3

\* A frame that comes while the client is connected: it waits, is forwarded or
\* is answered, as acceptable and the backend's state have it.
LEMMA FrameKeeps ==
  ASSUME NEW l \in Links, LinkOK(l), l.client = "open", l.frames < MaxFrames,
         NEW acceptable \in BOOLEAN
  PROVE  LET n == l.frames + 1
             k == [l EXCEPT !.frames = n]
         IN  LinkOK(IF acceptable THEN Routed(k, n) ELSE [k EXCEPT !.told = @ \cup {n}])
<1> DEFINE n == l.frames + 1
           k == [l EXCEPT !.frames = n]
           m == IF acceptable THEN Routed(k, n) ELSE [k EXCEPT !.told = @ \cup {n}]
<1> SUFFICES LinkOK(m)
  OBVIOUS
<1>1. /\ n \in Numbers /\ l.frames \in Nat /\ 1..n = (1..l.frames) \cup {n}
      /\ Numbers \in SUBSET Nat /\ n \in 0..MaxFrames /\ \A j \in 1..l.frames : j < n
  BY GatewayAssumption DEF Links, Numbers
<1>2. /\ Way(l) \in Seq(Numbers) /\ l.forwarded \in Seq(Numbers)
      /\ l.queued \in Seq(Numbers) /\ l.told \subseteq Numbers
  BY WayIsSeq DEF Links
<1>3. /\ l.told \subseteq 1..l.frames /\ Range(Way(l)) \subseteq 1..l.frames
      /\ Increasing(Way(l)) /\ Range(Way(l)) \cap l.told = {}
      /\ Range(Way(l)) \cup l.told = 1..l.frames
      /\ l.queued # <<>> => l.backend = "connecting"
      /\ l.backend \in {"connecting", "open"} => l.client \in {"open", "closing"}
  BY DEF LinkOK
<1>4. /\ Append(Way(l), n) \in Seq(Numbers) /\ Increasing(Append(Way(l), n))
      /\ Range(Append(Way(l), n)) = Range(Way(l)) \cup {n}
  BY <1>1, <1>2, <1>3, AppendLater
<1>5. k = [client |-> l.client, backend |-> l.backend, frames |-> n,
           queued |-> l.queued, forwarded |-> l.forwarded, told |-> l.told]
  BY DEF Links
<1>6. k.told = l.told /\ k.backend = l.backend /\ k.queued = l.queued
      /\ k.forwarded = l.forwarded
  BY <1>5
<1>7. l.client \in {"none", "open", "closing", "gone"}
      /\ l.backend \in {"none", "connecting", "open", "closing", "closed"}
  BY DEF Links
<1>8. CASE acceptable /\ l.backend = "open"
  <2>1. l.queued = <<>>
    BY <1>3, <1>8
  <2>2. Way(l) = l.forwarded
    BY <1>2, <2>1, ConcatEmptySeq DEF Way
  <2>3. m = [client |-> l.client, backend |-> l.backend, frames |-> n,
             queued |-> l.queued, forwarded |-> Append(l.forwarded, n), told |-> l.told]
    BY <1>5, <1>8 DEF Routed
  <2> HIDE DEF m, k
  <2>4. m \in Links
    BY <1>1, <1>2, <1>4, <1>7, <2>2, <2>3 DEF Links
  <2>5. Way(m) = Append(Way(l), n)
    <3>1. Append(l.forwarded, n) \o <<>> = Append(l.forwarded, n)
      BY <1>4, <2>2, ConcatEmptySeq
    <3>2. QED BY <2>1, <2>2, <2>3, <3>1 DEF Way
  <2>6. /\ m.client = "open" /\ m.backend = "open" /\ m.frames = n
        /\ m.queued = <<>> /\ m.told = l.told
    BY <1>8, <2>1, <2>3
  <2> HIDE DEF n
  <2>7. LinkOK(m)
    BY <1>1, <1>3, <1>4, <2>4, <2>5, <2>6 DEF LinkOK
  <2>8. QED BY <2>7
<1>9. CASE acceptable /\ l.backend = "connecting"
  <2>1. m = [client |-> l.client, backend |-> l.backend, frames |-> n,
             queued |-> Append(l.queued, n), forwarded |-> l.forwarded, told |-> l.told]
    BY <1>5, <1>9 DEF Routed
  <2>2. Append(l.queued, n) \in Seq(Numbers)
    BY <1>1, <1>2, AppendProperties
  <2> HIDE DEF m, k
  <2>3. m \in Links
    BY <1>1, <1>2, <1>7, <2>1, <2>2 DEF Links
  <2>4. Way(m) = Append(Way(l), n)
    <3>1. Way(m) = l.forwarded \o Append(l.queued, n)
      BY <2>1 DEF Way
    <3> HIDE DEF n
    <3>2. ASSUME NEW s \in Seq(Numbers), NEW q \in Seq(Numbers)
          PROVE  s \o Append(q, n) = Append(s \o q, n)
      BY <1>1, AppendBehind
    <3>3. QED BY <1>2, <3>1, <3>2 DEF Way
  <2>5. m.client = "open" /\ m.backend = "connecting" /\ m.frames = n /\ m.told = l.told
    BY <1>9, <2>1
  <2> HIDE DEF n
  <2>6. LinkOK(m)
    BY <1>1, <1>3, <1>4, <2>3, <2>4, <2>5 DEF LinkOK
  <2>7. QED BY <2>6
<1>10. CASE ~acceptable \/ l.backend \notin {"open", "connecting"}
  <2>1. m = [client |-> l.client, backend |-> l.backend, frames |-> n,
             queued |-> l.queued, forwarded |-> l.forwarded, told |-> l.told \cup {n}]
    BY <1>5, <1>10 DEF Routed
  <2>2. l.told \cup {n} \subseteq Numbers
    BY <1>1, <1>2
  <2> HIDE DEF m, k
  <2>3. m \in Links
    BY <1>1, <1>2, <1>7, <2>1, <2>2 DEF Links
  <2>4. Way(m) = Way(l)
    BY <2>1 DEF Way
  <2>5. /\ m.client = "open" /\ m.backend = l.backend /\ m.frames = n
        /\ m.queued = l.queued /\ m.told = l.told \cup {n}
    BY <2>1
  <2>6. n \notin 1..l.frames
    BY <1>1
  <2> HIDE DEF n
  <2>7. m.told \subseteq 1..m.frames /\ Range(Way(m)) \subseteq 1..m.frames
        /\ Range(Way(m)) \cap m.told = {}
    BY <1>1, <1>3, <2>4, <2>5, <2>6, Zenon
  <2>8. Range(Way(m)) \cup m.told = 1..m.frames
    BY <1>1, <1>3, <2>4, <2>5, Zenon
  <2>9. LinkOK(m)
    BY <1>3, <2>3, <2>4, <2>5, <2>7, <2>8 DEF LinkOK
  <2>10. QED BY <2>9
<1>11. QED
  <2> HIDE DEF m
  <2>1. QED BY <1>8, <1>9, <1>10

----------------------------------------------------------------------------
(* The gateway *)

Present == {c \in Clients : Connected(c)}
ServerStates == [at : {"up", "stopping", "closed", "exited"}, timer : BOOLEAN]

GatewayInv ==
  /\ link \in [Clients -> Links] /\ \A c \in Clients : LinkOK(link[c])
  /\ activeClients = Cardinality(Present)
  /\ http \in BOOLEAN /\ server \in ServerStates

LEMMA PresentIsFinite == IsFiniteSet(Present) /\ IsFiniteSet(Present')
BY GatewayAssumption, FS_Subset DEF Present

\* What a step that changes one link keeps.
LEMMA OneLink ==
  ASSUME GatewayInv, NEW c \in Clients, NEW m, LinkOK(m), link' = [link EXCEPT ![c] = m]
  PROVE  /\ link' \in [Clients -> Links] /\ \A d \in Clients : LinkOK(link'[d])
         /\ link'[c] = m /\ \A d \in Clients \ {c} : link'[d] = link[d]
<1>1. link'[c] = m /\ \A d \in Clients \ {c} : link'[d] = link[d]
  BY DEF GatewayInv
<1>2. m \in Links
  BY DEF LinkOK
<1>3. link' \in [Clients -> Links]
  BY <1>2 DEF GatewayInv
<1>4. \A d \in Clients : LinkOK(link'[d])
  <2>1. \A d \in Clients \ {c} : LinkOK(link'[d])
    BY <1>1, Zenon DEF GatewayInv
  <2>2. LinkOK(link'[c])
    BY <1>1
  <2>3. QED BY <2>1, <2>2
<1>5. QED BY <1>1, <1>3, <1>4

\* A link changes and its client stays, or stays away.
LEMMA LinkStep ==
  ASSUME GatewayInv, NEW c \in Clients, NEW m, LinkOK(m), link' = [link EXCEPT ![c] = m],
         m.client \in {"open", "closing"} <=> Connected(c),
         UNCHANGED <<activeClients, http, server>>
  PROVE  GatewayInv'
<1>1. /\ link' \in [Clients -> Links] /\ \A d \in Clients : LinkOK(link'[d])
      /\ link'[c] = m /\ \A d \in Clients \ {c} : link'[d] = link[d]
  BY OneLink
<1>2. Present' = Present
  BY <1>1 DEF Present, Connected
<1>3. QED BY <1>1, <1>2 DEF GatewayInv

LEMMA LinkType ==
  ASSUME GatewayInv, NEW c \in Clients
  PROVE  link[c] \in Links /\ LinkOK(link[c]) /\ link \in [Clients -> Links]
BY DEF GatewayInv

LEMMA ConnectStep ==
  ASSUME GatewayInv, NEW c \in Clients, Connect(c)
  PROVE  GatewayInv'
<1> DEFINE m == [link[c] EXCEPT !.client = "open", !.backend = "connecting"]
<1>1. LinkOK(m) /\ link' = [link EXCEPT ![c] = m]
  BY LinkType, ConnectKeeps DEF Connect
<1>2. m.client = "open"
  BY LinkType DEF Links
<1> HIDE DEF m
<1>3. /\ link' \in [Clients -> Links] /\ \A d \in Clients : LinkOK(link'[d])
      /\ link'[c] = m /\ \A d \in Clients \ {c} : link'[d] = link[d]
  BY <1>1, OneLink
<1>4. c \notin Present /\ Present' = Present \cup {c}
  BY <1>2, <1>3 DEF Present, Connected, Connect
<1>5. Cardinality(Present') = Cardinality(Present) + 1
  BY <1>4, PresentIsFinite, FS_AddElement
<1>6. QED BY <1>3, <1>5 DEF GatewayInv, Connect

LEMMA BackendOpensStep ==
  ASSUME GatewayInv, NEW c \in Clients, BackendOpens(c)
  PROVE  GatewayInv'
<1> DEFINE m == [link[c] EXCEPT !.backend = "open", !.queued = <<>>,
                                !.forwarded = @ \o link[c].queued]
<1>1. LinkOK(m)
  BY LinkType, BackendOpensKeeps DEF BackendOpens
<1>2. link' = [link EXCEPT ![c] = m]
  BY LinkType DEF BackendOpens
<1>3. m.client = link[c].client
  BY LinkType DEF Links
<1> HIDE DEF m
<1>4. QED BY <1>1, <1>2, <1>3, LinkStep DEF Connected, BackendOpens

LEMMA FrameStep ==
  ASSUME GatewayInv, NEW c \in Clients, NEW acceptable \in BOOLEAN, Frame(c, acceptable)
  PROVE  GatewayInv'
<1> DEFINE n == link[c].frames + 1
           k == [link[c] EXCEPT !.frames = n]
           m == IF acceptable THEN Routed(k, n) ELSE [k EXCEPT !.told = @ \cup {n}]
<1>1. LinkOK(m)
  BY LinkType, FrameKeeps DEF Frame
<1>2. link' = [link EXCEPT ![c] = m]
  BY DEF Frame
<1>3. m.client = link[c].client
  BY LinkType DEF Links, Routed
<1> HIDE DEF m
<1>4. QED BY <1>1, <1>2, <1>3, LinkStep DEF Connected, Frame

LEMMA BackendDropsStep ==
  ASSUME GatewayInv, NEW c \in Clients, BackendDrops(c)
  PROVE  GatewayInv'
<1> DEFINE m == [link[c] EXCEPT !.backend = "closing"]
<1>1. LinkOK(m) /\ link' = [link EXCEPT ![c] = m]
  BY LinkType, BackendDropsKeeps DEF BackendDrops
<1>2. m.client = link[c].client
  BY LinkType DEF Links
<1> HIDE DEF m
<1>3. QED BY <1>1, <1>2, LinkStep DEF Connected, BackendDrops

LEMMA BackendClosedStep ==
  ASSUME GatewayInv, NEW c \in Clients, BackendClosed(c)
  PROVE  GatewayInv'
<1> DEFINE m == [link[c] EXCEPT !.backend = "closed", !.client = ClosedWith(link[c])]
<1>1. LinkOK(m) /\ link' = [link EXCEPT ![c] = m]
  BY LinkType, BackendClosedKeeps DEF BackendClosed
<1>2. m.client = ClosedWith(link[c])
  BY LinkType DEF Links
<1> HIDE DEF m
<1>3. m.client \in {"open", "closing"} <=> Connected(c)
  BY <1>2 DEF ClosedWith, Connected
<1>4. QED BY <1>1, <1>3, LinkStep DEF BackendClosed

LEMMA ClientGoneStep ==
  ASSUME GatewayInv, NEW c \in Clients, Connected(c), ClientGone(c)
  PROVE  GatewayInv'
<1>1. LinkOK(Released(link[c])) /\ Released(link[c]).client = "gone"
  BY LinkType, ReleasedKeeps DEF Connected
<1>2. /\ link' \in [Clients -> Links] /\ \A d \in Clients : LinkOK(link'[d])
      /\ link'[c] = Released(link[c]) /\ \A d \in Clients \ {c} : link'[d] = link[d]
  BY <1>1, OneLink DEF ClientGone
<1>3. c \in Present /\ Present' = Present \ {c}
  BY <1>1, <1>2 DEF Present, Connected
<1>4. /\ Cardinality(Present') = Cardinality(Present) - 1
      /\ Cardinality(Present) \in Nat /\ Cardinality(Present) # 0
  BY <1>3, PresentIsFinite, FS_RemoveElement, FS_CardinalityType, FS_EmptySet
<1>5. activeClients' = Cardinality(Present')
  BY <1>4 DEF ClientGone, GatewayInv
<1>6. QED BY <1>2, <1>5 DEF GatewayInv, ClientGone

\* Terminating the clients does not disconnect them yet.
LEMMA TerminatedStep ==
  ASSUME GatewayInv, link' = Terminated, UNCHANGED activeClients,
         http' \in BOOLEAN, server' \in ServerStates
  PROVE  GatewayInv'
<1>1. ASSUME NEW c \in Clients
      PROVE  /\ link'[c] \in Links /\ LinkOK(link'[c])
             /\ link'[c].client \in {"open", "closing"} <=> Connected(c)
  <2> DEFINE m == [link[c] EXCEPT !.client = ClosedWith(link[c])]
  <2>1. LinkOK(m) /\ link'[c] = m
    BY LinkType, TerminatedKeeps DEF Terminated
  <2>2. m.client = ClosedWith(link[c])
    BY LinkType DEF Links
  <2> HIDE DEF m
  <2>3. m.client \in {"open", "closing"} <=> Connected(c)
    BY <2>2 DEF ClosedWith, Connected
  <2>4. m \in Links
    BY <2>1 DEF LinkOK
  <2>5. QED BY <2>1, <2>3, <2>4
<1>2. link' \in [Clients -> Links]
  <2>1. link' = [c \in Clients |-> link'[c]]
    BY DEF Terminated
  <2>2. QED BY <1>1, <2>1
<1>3. Present' = Present
  BY <1>1 DEF Present, Connected
<1>4. QED BY <1>1, <1>2, <1>3 DEF GatewayInv

LEMMA NoneConnected ==
  ASSUME \A c \in Clients : link[c] = NoLink
  PROVE  Cardinality(Present) = 0
<1>1. Present = {}
  BY DEF Present, Connected, NoLink
<1>2. QED BY <1>1, FS_EmptySet

LEMMA GatewayInitially == GatewayInit => GatewayInv
<1> SUFFICES ASSUME GatewayInit PROVE GatewayInv
  OBVIOUS
<1>1. NoLink \in Links
  BY FreshLink DEF LinkOK
<1>2. \A c \in Clients : link[c] = NoLink
  BY DEF GatewayInit
<1>3. Cardinality(Present) = 0
  BY <1>2, NoneConnected
<1>4. server \in ServerStates
  BY DEF GatewayInit, ServerStates
<1>5. QED BY <1>1, <1>2, <1>3, <1>4, FreshLink DEF GatewayInit, GatewayInv

\* A new process has no clients yet.
LEMMA StartedStep == Started => GatewayInv'
<1> SUFFICES ASSUME Started PROVE GatewayInv'
  OBVIOUS
<1>1. NoLink \in Links
  BY FreshLink DEF LinkOK
<1>2. \A c \in Clients : link'[c] = NoLink
  BY DEF Started
<1>3. Cardinality(Present') = 0
  <2>1. Present' = {}
    BY <1>2 DEF Present, Connected, NoLink
  <2>2. QED BY <2>1, FS_EmptySet
<1>4. server' \in ServerStates
  BY DEF Started, ServerStates
<1>5. QED BY <1>1, <1>2, <1>3, <1>4, FreshLink DEF Started, GatewayInv

LEMMA GatewayStep ==
  ASSUME GatewayInv, GatewayNext \/ ShutdownNext \/ BeginShutdown
  PROVE  GatewayInv'
<1>1. ASSUME NEW c \in Clients, Connect(c) PROVE GatewayInv'
  BY <1>1, ConnectStep
<1>2. ASSUME NEW c \in Clients, BackendOpens(c) PROVE GatewayInv'
  BY <1>2, BackendOpensStep
<1>3. ASSUME NEW c \in Clients, BackendDrops(c) PROVE GatewayInv'
  BY <1>3, BackendDropsStep
<1>4. ASSUME NEW c \in Clients, BackendClosed(c) PROVE GatewayInv'
  BY <1>4, BackendClosedStep
<1>5. ASSUME NEW c \in Clients, ClientLeaves(c) \/ ClientClosed(c) PROVE GatewayInv'
  <2>1. Connected(c) /\ ClientGone(c)
    BY <1>5 DEF ClientLeaves, ClientClosed, Connected
  <2>2. QED BY <2>1, ClientGoneStep
<1>6. ASSUME NEW c \in Clients, NEW acceptable \in BOOLEAN, Frame(c, acceptable)
      PROVE  GatewayInv'
  BY <1>6, FrameStep
<1>7. ASSUME UNCHANGED <<link, activeClients>>, http' \in BOOLEAN, server' \in ServerStates
      PROVE  GatewayInv'
  <2>1. Present' = Present
    BY <1>7 DEF Present, Connected
  <2>2. QED BY <1>7, <2>1 DEF GatewayInv
<1>8. CASE Request \/ Respond
  <2>1. UNCHANGED <<link, activeClients, server>> /\ http' \in BOOLEAN
    BY <1>8 DEF Request, Respond
  <2>2. QED BY <1>7, <2>1 DEF GatewayInv
<1>9. CASE ServerClosed \/ Exit
  <2>1. server \in ServerStates /\ http \in BOOLEAN
    BY DEF GatewayInv
  <2>2. UNCHANGED <<link, activeClients, http>>
    BY <1>9 DEF ServerClosed, Exit
  <2>3. server' \in ServerStates
    <3>1. [at |-> "closed", timer |-> FALSE] \in ServerStates
      BY DEF ServerStates
    <3>2. [server EXCEPT !.at = "exited"] \in ServerStates
      BY <2>1 DEF ServerStates
    <3>3. QED BY <1>9, <3>1, <3>2 DEF ServerClosed, Exit
  <2>4. QED BY <1>7, <2>1, <2>2, <2>3
<1>10. CASE BeginShutdown
  <2>1. server' \in ServerStates
    BY <1>10 DEF BeginShutdown, ServerStates
  <2>2. QED BY <1>10, <2>1, TerminatedStep DEF BeginShutdown, GatewayInv
<1>11. CASE ForceShutdown
  <2>1. server' \in ServerStates
    BY <1>11 DEF ForceShutdown, ServerStates, GatewayInv
  <2>2. http' \in BOOLEAN
    BY <1>11 DEF ForceShutdown, Forced
  <2>3. QED BY <1>11, <2>1, <2>2, TerminatedStep DEF ForceShutdown
<1>12. QED
  BY <1>1, <1>2, <1>3, <1>4, <1>5, <1>6, <1>8, <1>9, <1>10, <1>11
     DEF GatewayNext, ShutdownNext

LEMMA GatewayStays == GatewayInv /\ UNCHANGED gatewayVars => GatewayInv'
<1> SUFFICES ASSUME GatewayInv, UNCHANGED gatewayVars PROVE GatewayInv'
  OBVIOUS
<1>1. Present' = Present
  BY DEF gatewayVars, Present, Connected
<1>2. QED BY <1>1 DEF gatewayVars, GatewayInv

LEMMA GatewayTypes == GatewayInv => GatewayTypeOK
<1> SUFFICES ASSUME GatewayInv PROVE GatewayTypeOK
  OBVIOUS
<1>1. ASSUME NEW c \in Clients
      PROVE  /\ link[c].client \in {"none", "open", "closing", "gone"}
             /\ link[c].backend \in {"none", "connecting", "open", "closing", "closed"}
             /\ link[c].told \subseteq 1..link[c].frames /\ link[c].frames <= MaxFrames
  <2>1. link[c] \in Links /\ LinkOK(link[c])
    BY DEF GatewayInv
  <2>2. link[c].told \subseteq 1..link[c].frames
    BY <2>1 DEF LinkOK
  <2>3. QED BY <2>1, <2>2, GatewayAssumption DEF Links
<1>2. server.at \in {"up", "stopping", "closed", "exited"} /\ server.timer \in BOOLEAN
  BY DEF GatewayInv, ServerStates
<1>3. QED BY <1>1, <1>2 DEF GatewayTypeOK, GatewayInv

LEMMA GatewayCounts == GatewayInv => ConnectionsAreCounted
<1> SUFFICES ASSUME GatewayInv PROVE ConnectionsAreCounted
  OBVIOUS
<1>1. \A c \in Clients : link[c].backend \in {"connecting", "open"} => Connected(c)
  BY DEF GatewayInv, LinkOK, Connected
<1>2. activeClients = Cardinality({c \in Clients : Connected(c)})
  BY DEF GatewayInv, Present
<1>3. QED BY <1>1, <1>2 DEF ConnectionsAreCounted

LEMMA GatewayDelivers == GatewayInv => FramesArriveOrAreAnswered
<1> SUFFICES ASSUME GatewayInv, NEW c \in Clients
             PROVE  LET l == link[c] way == l.forwarded \o l.queued IN
                    /\ Increasing(way) /\ Range(way) \cap l.told = {}
                    /\ l.client = "open" =>
                         /\ Range(way) \cup l.told = 1..l.frames
                         /\ l.queued # <<>> => l.backend = "connecting"
  BY DEF FramesArriveOrAreAnswered
<1>1. LinkOK(link[c])
  BY DEF GatewayInv
<1>2. QED BY <1>1 DEF LinkOK, Way

----------------------------------------------------------------------------
(* The script *)

Packages == Revisions \cup {Absent}
Composes == [image : Packages, version : {"none"} \cup {VersionOf[r] : r \in Revisions},
             relays : Packages, settings : {"own", "set", "none"}]
FileStates == [compose : Composes, manifest : Packages, torn : {{}}]
AppStates == [state : {"not-installed", "running", "restarting"}, started : Composes]
Stages == {"none", "fetch", "copy", "read", "install", "update", "compose",
           "rename compose", "manifest", "rename manifest", "restart", "ready", "smoke",
           "failed", "completed"}
Runs == [at : Stages, job : Revisions, dry : BOOLEAN, package : Revisions,
         changed : BOOLEAN]

DeployTypes ==
  /\ staging \in BOOLEAN /\ origin \in Revisions /\ appStore \in Packages
  /\ files \in FileStates /\ app \in AppStates /\ run \in Runs /\ runs \in 0..MaxRuns

\* What a stage of the script may assume of the files and of the app.
StagesHold ==
  /\ appStore = Absent => staging
  /\ app.state = "not-installed" => app.started = NoFiles.compose
  /\ run.at \in {"compose", "rename compose"} => files \in backups
  /\ run.at \in {"manifest", "rename manifest"} => files.compose = Target
  /\ run.at \in {"restart", "ready", "smoke"} => files = Updated
  /\ run.at = "ready" /\ app.state = "running" => app.started = files.compose
  /\ run.at = "smoke" => app.state = "running" /\ app.started = files.compose

DeployInv == DeployTypes /\ StartedIsRestorable /\ StagesHold

LEMMA ZeroIsRevision == 0 \in Revisions /\ 0 \in Packages
BY DeploymentAssumption DEF Revisions, Packages

LEMMA PackagedType ==
  ASSUME NEW r \in Revisions
  PROVE  Packaged(r) \in FileStates
<1> DEFINE compose == [image |-> r, version |-> VersionOf[r], relays |-> r, settings |-> "own"]
<1>1. compose \in Composes
  BY DEF Composes, Packages
<1> HIDE DEF compose
<1>2. [compose |-> compose, manifest |-> r, torn |-> {}] \in FileStates
  BY <1>1 DEF FileStates, Packages
<1>3. QED BY <1>2 DEF Packaged, compose

LEMMA NoFilesType == NoFiles \in FileStates /\ NoFiles.compose \in Composes
<1> DEFINE compose == [image |-> Absent, version |-> "none", relays |-> Absent,
                       settings |-> "none"]
<1>1. compose \in Composes
  BY DEF Composes, Packages
<1> HIDE DEF compose
<1>2. [compose |-> compose, manifest |-> Absent, torn |-> {}] \in FileStates
  BY <1>1 DEF FileStates, Packages
<1>3. NoFiles = [compose |-> compose, manifest |-> Absent, torn |-> {}]
  BY DEF NoFiles, compose
<1>4. QED BY <1>1, <1>2, <1>3

LEMMA TargetType ==
  ASSUME run \in Runs
  PROVE  Target \in Composes /\ Updated \in FileStates
<1>1. run.job \in Revisions /\ run.package \in Revisions
  BY DEF Runs
<1>2. Target \in Composes
  BY <1>1 DEF Target, Composes, Packages
<1>3. Updated \in FileStates
  BY <1>1, <1>2 DEF Updated, FileStates, Packages
<1>4. QED BY <1>2, <1>3

LEMMA DeployInitially == Init => DeployInv
<1> SUFFICES ASSUME Init PROVE DeployInv
  OBVIOUS
<1>1. NoRun \in Runs /\ run = NoRun /\ run.at = "none"
  BY ZeroIsRevision DEF Init, NoRun, Runs, Stages
<1>2. runs \in 0..MaxRuns
  BY DeploymentAssumption DEF Init
<1>3. staging \in BOOLEAN /\ origin = 0 /\ appStore = 0 /\ 0 # Absent
  BY DEF Init, Absent
<1>4. CASE server.at = "up"
  <2>1. files = Packaged(0) /\ app = [state |-> "running", started |-> files.compose]
    BY <1>4 DEF Init
  <2>2. files \in FileStates /\ files.compose \in Composes
    BY <2>1, PackagedType, ZeroIsRevision DEF FileStates
  <2>3. app \in AppStates /\ app.state = "running" /\ app.started = files.compose
    BY <2>1, <2>2 DEF AppStates
  <2>4. DeployTypes
    BY <1>1, <1>2, <1>3, <2>2, <2>3, ZeroIsRevision DEF DeployTypes
  <2>5. StagesHold
    BY <1>1, <1>3, <2>3 DEF StagesHold
  <2>6. StartedIsRestorable
    BY <2>3 DEF StartedIsRestorable
  <2>7. QED BY <2>4, <2>5, <2>6 DEF DeployInv
<1>5. CASE server.at # "up"
  <2>1. files = NoFiles /\ app = [state |-> "not-installed", started |-> NoFiles.compose]
    BY <1>5 DEF Init
  <2>2. files \in FileStates
    BY <2>1, NoFilesType
  <2>3. app \in AppStates /\ app.state = "not-installed" /\ app.started = NoFiles.compose
    BY <2>1, NoFilesType DEF AppStates
  <2>4. DeployTypes
    BY <1>1, <1>2, <1>3, <2>2, <2>3, ZeroIsRevision DEF DeployTypes
  <2>5. StagesHold
    BY <1>1, <1>3, <2>3 DEF StagesHold
  <2>6. StartedIsRestorable
    BY <2>3 DEF StartedIsRestorable
  <2>7. QED BY <2>4, <2>5, <2>6 DEF DeployInv
<1>6. QED BY <1>4, <1>5

\* The script goes on to another stage.
LEMMA GotoStage ==
  ASSUME run \in Runs, NEW s \in Stages, Goto(s)
  PROVE  /\ run' \in Runs /\ run'.at = s /\ Target' = Target /\ Updated' = Updated
         /\ run'.job = run.job /\ run'.dry = run.dry /\ run'.package = run.package
<1>1. run' = [run EXCEPT !.at = s]
  BY DEF Goto
<1>2. /\ run' \in Runs /\ run'.at = s /\ run'.job = run.job /\ run'.dry = run.dry
      /\ run'.package = run.package
  BY <1>1 DEF Runs
<1>3. Target' = Target
  BY <1>2 DEF Target
<1>4. QED BY <1>2, <1>3 DEF Updated

\* Nothing but the stage changes, to one that assumes nothing.
LEMMA FreeStage ==
  ASSUME DeployInv, NEW s \in {"failed", "completed", "install", "update", "read"}, Goto(s),
         UNCHANGED <<staging, origin, appStore, files, backups, app, runs>>
  PROVE  DeployInv'
<1>1. run \in Runs /\ s \in Stages
  BY DEF DeployInv, DeployTypes, Stages
<1>2. run' \in Runs /\ run'.at = s
  BY <1>1, GotoStage
<1>3. DeployTypes'
  BY <1>2 DEF DeployInv, DeployTypes
<1>4. StagesHold'
  BY <1>2 DEF DeployInv, StagesHold
<1>5. StartedIsRestorable'
  BY DEF DeployInv, StartedIsRestorable
<1>6. QED BY <1>3, <1>4, <1>5 DEF DeployInv

LEMMA PushStep ==
  ASSUME DeployInv, Push
  PROVE  DeployInv'
<1>1. origin' \in Revisions
  BY DeploymentAssumption DEF Push, DeployInv, DeployTypes, Revisions
<1>2. Target' = Target
  BY DEF Push, Target
<1>3. Updated' = Updated
  BY <1>2 DEF Push, Updated
<1>4. DeployTypes'
  BY <1>1 DEF Push, DeployInv, DeployTypes
<1>5. StagesHold'
  BY <1>2, <1>3 DEF Push, DeployInv, StagesHold
<1>6. StartedIsRestorable'
  BY DEF Push, DeployInv, StartedIsRestorable
<1>7. QED BY <1>4, <1>5, <1>6 DEF DeployInv

LEMMA StartStep ==
  ASSUME DeployInv, NEW job \in 1..origin, NEW dry \in BOOLEAN, Start(job, dry)
  PROVE  DeployInv'
<1>1. job \in Revisions
  BY DeploymentAssumption DEF DeployInv, DeployTypes, Revisions
<1>2. run' = [at |-> "fetch", job |-> job, dry |-> dry, package |-> 0, changed |-> FALSE]
  BY DEF Start, NoRun
<1>3. run' \in Runs /\ run'.at = "fetch"
  BY <1>1, <1>2, ZeroIsRevision DEF Runs, Stages
<1>4. runs' \in 0..MaxRuns
  BY DeploymentAssumption DEF Start, DeployInv, DeployTypes
<1>5. DeployTypes'
  BY <1>3, <1>4 DEF Start, DeployInv, DeployTypes
<1>6. StagesHold'
  BY <1>3 DEF Start, DeployInv, StagesHold
<1>7. StartedIsRestorable'
  BY DEF Start, DeployInv, StartedIsRestorable
<1>8. QED BY <1>5, <1>6, <1>7 DEF DeployInv

LEMMA FetchStep ==
  ASSUME DeployInv, FastForward \/ RemovePackage \/ CopyPackage
  PROVE  DeployInv'
<1>1. run \in Runs /\ "read" \in Stages /\ "copy" \in Stages
  BY DEF DeployInv, DeployTypes, Stages
<1>2. run' \in Runs /\ run'.at \in {"read", "copy"}
  <2>1. CASE Goto("read")
    BY <1>1, <2>1, GotoStage
  <2>2. CASE Goto("copy")
    BY <1>1, <2>2, GotoStage
  <2>3. QED BY <2>1, <2>2 DEF FastForward, RemovePackage, CopyPackage
<1>3. appStore' \in Packages /\ (appStore' = Absent => staging)
  <2>1. run.job \in Revisions /\ origin \in Revisions /\ Revisions \subseteq Packages
    BY <1>1 DEF Runs, DeployInv, DeployTypes, Packages
  <2>2. \A r \in Revisions : r # Absent
    BY DeploymentAssumption DEF Revisions, Absent
  <2>3. Absent \in Packages /\ appStore \in Packages
    BY DEF Packages, DeployInv, DeployTypes
  <2>4. CASE FastForward
    BY <2>1, <2>2, <2>4 DEF FastForward
  <2>5. CASE RemovePackage
    BY <2>3, <2>5 DEF RemovePackage
  <2>6. CASE CopyPackage
    BY <2>1, <2>2, <2>6 DEF CopyPackage
  <2>7. QED BY <2>4, <2>5, <2>6
<1>4. UNCHANGED <<staging, origin, files, backups, app, runs>>
  BY DEF FastForward, RemovePackage, CopyPackage
<1>5. DeployTypes'
  BY <1>2, <1>3, <1>4 DEF DeployInv, DeployTypes
<1>6. StagesHold'
  BY <1>2, <1>3, <1>4 DEF DeployInv, StagesHold
<1>7. StartedIsRestorable'
  BY <1>4 DEF DeployInv, StartedIsRestorable
<1>8. QED BY <1>5, <1>6, <1>7 DEF DeployInv

LEMMA ReadPackageStep ==
  ASSUME DeployInv, ReadPackage
  PROVE  DeployInv'
<1> DEFINE p == IF staging THEN run.job ELSE appStore
           s == IF p \in Mismatched /\ ~staging THEN "failed" ELSE "install"
<1>1. run \in Runs /\ appStore \in Packages /\ (appStore = Absent => staging)
  BY DEF DeployInv, DeployTypes, StagesHold
<1>2. p \in Revisions
  BY <1>1 DEF Runs, Packages
<1>3. s \in {"failed", "install"}
  OBVIOUS
<1>4. run' = [run EXCEPT !.package = p, !.at = s]
  BY DEF ReadPackage
<1> HIDE DEF p, s
<1>5. run' \in Runs /\ run'.at = s
  BY <1>1, <1>2, <1>3, <1>4 DEF Runs, Stages
<1>6. UNCHANGED <<staging, origin, appStore, files, backups, app, runs>>
  BY DEF ReadPackage
<1>7. DeployTypes'
  BY <1>5, <1>6 DEF DeployInv, DeployTypes
<1>8. StagesHold'
  BY <1>3, <1>5, <1>6 DEF DeployInv, StagesHold
<1>9. StartedIsRestorable'
  BY <1>6 DEF DeployInv, StartedIsRestorable
<1>10. QED BY <1>7, <1>8, <1>9 DEF DeployInv

LEMMA EnsureInstalledStep ==
  ASSUME DeployInv, EnsureInstalled
  PROVE  DeployInv'
<1>1. CASE Goto("update") /\ UNCHANGED <<files, app>>
  BY <1>1, FreeStage DEF EnsureInstalled
<1>2. CASE Goto("completed") /\ UNCHANGED <<files, app>>
  BY <1>2, FreeStage DEF EnsureInstalled
<1>3. CASE /\ app.state = "not-installed" /\ appStore # Absent
           /\ files' = Packaged(appStore) /\ app' = [app EXCEPT !.state = "restarting"]
           /\ Goto("update")
  <2>1. /\ run \in Runs /\ "update" \in Stages /\ app \in AppStates
        /\ appStore \in Packages
    BY DEF DeployInv, DeployTypes, Stages
  <2>2. run' \in Runs /\ run'.at = "update"
    BY <1>3, <2>1, GotoStage
  <2>3. files' \in FileStates
    BY <1>3, <2>1, PackagedType DEF Packages
  <2>4. app' \in AppStates /\ app'.state = "restarting" /\ app'.started = app.started
    BY <1>3, <2>1 DEF AppStates
  <2>5. app.started = NoFiles.compose
    BY <1>3 DEF DeployInv, StagesHold
  <2>6. UNCHANGED <<staging, origin, appStore, backups, runs>>
    BY DEF EnsureInstalled
  <2>7. DeployTypes'
    BY <2>2, <2>3, <2>4, <2>6 DEF DeployInv, DeployTypes
  <2>8. StagesHold'
    BY <2>2, <2>4, <2>6 DEF DeployInv, StagesHold
  <2>9. StartedIsRestorable'
    BY <2>4, <2>5 DEF StartedIsRestorable
  <2>10. QED BY <2>7, <2>8, <2>9 DEF DeployInv
<1>4. QED BY <1>1, <1>2, <1>3 DEF EnsureInstalled

\* More backups restore what fewer do.
LEMMA PrepareStep ==
  ASSUME DeployInv, Prepare
  PROVE  DeployInv'
<1>1. CASE run.dry
  <2>1. Goto("completed") /\ UNCHANGED backups
    BY <1>1 DEF Prepare
  <2>2. QED BY <2>1, FreeStage DEF Prepare
<1>2. CASE ~run.dry
  <2> DEFINE c == Target # files.compose
             s == IF Target # files.compose THEN "compose" ELSE "manifest"
  <2>1. run' = [run EXCEPT !.changed = c, !.at = s] /\ backups' = backups \cup {files}
    BY <1>2 DEF Prepare, Backup
  <2>2. run \in Runs /\ c \in BOOLEAN /\ s \in {"compose", "manifest"}
    BY DEF DeployInv, DeployTypes
  <2>3. s = "manifest" => files.compose = Target
    OBVIOUS
  <2> HIDE DEF c, s
  <2>4. run' \in Runs /\ run'.at = s /\ run'.job = run.job /\ run'.package = run.package
    BY <2>1, <2>2 DEF Runs, Stages
  <2>5. Target' = Target
    BY <2>4 DEF Target
  <2>6. UNCHANGED <<staging, origin, appStore, files, app, runs>>
    BY DEF Prepare
  <2>7. DeployTypes'
    BY <2>4, <2>6 DEF DeployInv, DeployTypes
  <2>8. StagesHold'
    BY <2>1, <2>2, <2>3, <2>4, <2>5, <2>6 DEF DeployInv, StagesHold
  <2>9. StartedIsRestorable'
    BY <2>1, <2>6 DEF DeployInv, StartedIsRestorable
  <2>10. QED BY <2>7, <2>8, <2>9 DEF DeployInv
<1>3. QED BY <1>1, <1>2

LEMMA WriteStep ==
  ASSUME DeployInv, WriteCompose \/ WriteManifest
  PROVE  DeployInv'
<1>1. run \in Runs /\ {"rename compose", "rename manifest"} \subseteq Stages
  BY DEF DeployInv, DeployTypes, Stages
<1>2. UNCHANGED <<staging, origin, appStore, files, backups, app, runs>>
  BY DEF WriteCompose, WriteManifest, Write, WriteContent
<1>3. /\ run' \in Runs /\ Target' = Target
      /\ \/ run.at = "compose" /\ run'.at = "rename compose"
         \/ run.at = "manifest" /\ run'.at = "rename manifest"
  <2>1. CASE run.at = "compose" /\ Goto("rename compose")
    BY <1>1, <2>1, GotoStage
  <2>2. CASE run.at = "manifest" /\ Goto("rename manifest")
    BY <1>1, <2>2, GotoStage
  <2>3. QED BY <2>1, <2>2 DEF WriteCompose, WriteManifest, Write, At
<1>4. DeployTypes'
  BY <1>2, <1>3 DEF DeployInv, DeployTypes
<1>5. StagesHold'
  BY <1>2, <1>3 DEF DeployInv, StagesHold
<1>6. StartedIsRestorable'
  BY <1>2 DEF DeployInv, StartedIsRestorable
<1>7. QED BY <1>4, <1>5, <1>6 DEF DeployInv

\* The old compose file is in a backup when the new one takes its place.
LEMMA RenameComposeStep ==
  ASSUME DeployInv, RenameCompose
  PROVE  DeployInv'
<1>1. run \in Runs /\ files \in FileStates /\ "manifest" \in Stages /\ Goto("manifest")
  BY DEF DeployInv, DeployTypes, Stages, RenameCompose, Rename
<1>2. run' \in Runs /\ run'.at = "manifest" /\ Target' = Target
  BY <1>1, GotoStage
<1>3. Target \in Composes /\ Updated.compose = Target
  BY <1>1, TargetType DEF Updated
<1>4. files' \in FileStates /\ files'.compose = Target
  <2>1. files' = [files EXCEPT !.compose = Target, !.torn = @ \ {"compose"}]
    BY <1>3 DEF RenameCompose, Rename
  <2>2. files.torn \ {"compose"} = {}
    BY <1>1 DEF FileStates
  <2> DEFINE e == files.torn \ {"compose"}
  <2>3. files' = [files EXCEPT !.compose = Target, !.torn = e] /\ e = {}
    BY <2>1, <2>2
  <2> HIDE DEF e
  <2>4. QED BY <1>1, <1>3, <2>3 DEF FileStates
<1>5. UNCHANGED <<staging, origin, appStore, backups, app, runs>>
  BY DEF RenameCompose, Rename
<1>6. files \in backups
  BY DEF DeployInv, StagesHold, RenameCompose, At
<1>7. DeployTypes'
  BY <1>2, <1>4, <1>5 DEF DeployInv, DeployTypes
<1>8. StagesHold'
  BY <1>2, <1>4, <1>5 DEF DeployInv, StagesHold
<1>9. StartedIsRestorable'
  BY <1>5, <1>6 DEF DeployInv, StartedIsRestorable
<1>10. QED BY <1>7, <1>8, <1>9 DEF DeployInv

LEMMA RenameManifestStep ==
  ASSUME DeployInv, RenameManifest
  PROVE  DeployInv'
<1>1. run \in Runs /\ files \in FileStates /\ "restart" \in Stages /\ Goto("restart")
  BY DEF DeployInv, DeployTypes, Stages, RenameManifest, Rename
<1>2. run' \in Runs /\ run'.at = "restart" /\ Target' = Target /\ Updated' = Updated
  BY <1>1, GotoStage
<1>3. /\ Updated.manifest = run.package /\ run.package \in Packages
      /\ Updated = [compose |-> Target, manifest |-> run.package, torn |-> {}]
  BY <1>1 DEF Updated, Runs, Packages
<1>4. files.compose = Target
  BY DEF DeployInv, StagesHold, RenameManifest, At
<1>5. files' = Updated
  <2>1. files' = [files EXCEPT !.manifest = run.package, !.torn = @ \ {"manifest"}]
    BY <1>3 DEF RenameManifest, Rename
  <2>2. files.torn \ {"manifest"} = {}
    BY <1>1 DEF FileStates
  <2> DEFINE e == files.torn \ {"manifest"}
  <2>3. files' = [files EXCEPT !.manifest = run.package, !.torn = e] /\ e = {}
    BY <2>1, <2>2
  <2> HIDE DEF e
  <2>4. /\ files' \in FileStates /\ files'.compose = files.compose
        /\ files'.manifest = run.package
    BY <1>1, <1>3, <2>3 DEF FileStates
  <2>5. files' = [compose |-> files'.compose, manifest |-> files'.manifest, torn |-> {}]
    BY <2>4 DEF FileStates
  <2>6. QED BY <1>3, <1>4, <2>4, <2>5
<1>6. files' \in FileStates /\ files'.compose = files.compose
  BY <1>1, <1>3, <1>4, <1>5, TargetType
<1>7. UNCHANGED <<staging, origin, appStore, backups, app, runs>>
  BY DEF RenameManifest, Rename
<1>8. DeployTypes'
  BY <1>2, <1>6, <1>7 DEF DeployInv, DeployTypes
<1>9. StagesHold'
  BY <1>2, <1>5, <1>7 DEF DeployInv, StagesHold
<1>10. StartedIsRestorable'
  BY <1>6, <1>7 DEF DeployInv, StartedIsRestorable
<1>11. QED BY <1>8, <1>9, <1>10 DEF DeployInv

LEMMA RestartAppStep ==
  ASSUME DeployInv, RestartApp
  PROVE  DeployInv'
<1>1. run \in Runs /\ app \in AppStates /\ "ready" \in Stages /\ Goto("ready")
  BY DEF DeployInv, DeployTypes, Stages, RestartApp
<1>2. run' \in Runs /\ run'.at = "ready" /\ Updated' = Updated
  BY <1>1, GotoStage
<1>3. app' = [app EXCEPT !.state = "restarting"]
  BY DEF RestartApp, MustRestart
<1>4. app' \in AppStates /\ app'.state = "restarting" /\ app'.started = app.started
  BY <1>1, <1>3 DEF AppStates
<1>5. UNCHANGED <<staging, origin, appStore, files, backups, runs>>
  BY DEF RestartApp
<1>6. DeployTypes'
  BY <1>2, <1>4, <1>5 DEF DeployInv, DeployTypes
<1>7. StagesHold'
  BY <1>2, <1>4, <1>5 DEF DeployInv, StagesHold, RestartApp, At
<1>8. StartedIsRestorable'
  BY <1>4, <1>5 DEF DeployInv, StartedIsRestorable
<1>9. QED BY <1>6, <1>7, <1>8 DEF DeployInv

LEMMA ReadyStep ==
  ASSUME DeployInv, Ready
  PROVE  DeployInv'
<1>1. run \in Runs /\ "smoke" \in Stages /\ Goto("smoke")
  BY DEF DeployInv, DeployTypes, Stages, Ready
<1>2. run' \in Runs /\ run'.at = "smoke" /\ Updated' = Updated
  BY <1>1, GotoStage
<1>3. UNCHANGED <<staging, origin, appStore, files, backups, app, runs>>
      /\ run.at = "ready" /\ app.state = "running"
  BY DEF Ready, At
<1>4. DeployTypes'
  BY <1>2, <1>3 DEF DeployInv, DeployTypes
<1>5. StagesHold'
  BY <1>2, <1>3 DEF DeployInv, StagesHold
<1>6. StartedIsRestorable'
  BY <1>3 DEF DeployInv, StartedIsRestorable
<1>7. QED BY <1>4, <1>5, <1>6 DEF DeployInv

LEMMA EndStep ==
  ASSUME DeployInv, Smoke \/ Fails
  PROVE  DeployInv'
BY FreeStage DEF Smoke, Fails

\* What the app runs is what is installed.
LEMMA StartAppStep ==
  ASSUME DeployInv, StartApp
  PROVE  DeployInv'
<1>1. UNCHANGED <<staging, origin, appStore, files, backups, run, runs>>
      /\ app.state = "restarting"
      /\ app' = [state |-> "running", started |-> files.compose]
  BY DEF StartApp
<1>2. app' \in AppStates /\ app'.state = "running" /\ app'.started = files'.compose
  <2>1. files.compose \in Composes
    BY DEF DeployInv, DeployTypes, FileStates
  <2>2. QED BY <1>1, <2>1 DEF AppStates
<1>3. Target' = Target /\ Updated' = Updated
  BY <1>1 DEF Target, Updated
<1>4. DeployTypes'
  BY <1>1, <1>2 DEF DeployInv, DeployTypes
<1>5. StagesHold'
  BY <1>1, <1>2, <1>3 DEF DeployInv, StagesHold
<1>6. StartedIsRestorable'
  BY <1>2 DEF StartedIsRestorable
<1>7. QED BY <1>4, <1>5, <1>6 DEF DeployInv

LEMMA DeployStays == DeployInv /\ UNCHANGED deployVars => DeployInv'
<1> SUFFICES ASSUME DeployInv, UNCHANGED deployVars PROVE DeployInv'
  OBVIOUS
<1>1. UNCHANGED <<staging, origin, appStore, files, backups, app, run, runs>>
  BY DEF deployVars
<1>2. Target' = Target /\ Updated' = Updated
  BY <1>1 DEF Target, Updated
<1>3. DeployTypes'
  BY <1>1 DEF DeployInv, DeployTypes
<1>4. StagesHold'
  BY <1>1, <1>2 DEF DeployInv, StagesHold
<1>5. StartedIsRestorable'
  BY <1>1 DEF DeployInv, StartedIsRestorable
<1>6. QED BY <1>3, <1>4, <1>5 DEF DeployInv

----------------------------------------------------------------------------
(* The theorems *)

Inv == GatewayInv /\ DeployInv

LEMMA ScriptLeavesGateway ==
  ASSUME Push \/ (\E job \in 1..origin, dry \in BOOLEAN : Start(job, dry)) \/ Proceed \/ Fails
  PROVE  UNCHANGED gatewayVars
<1>1. CASE Push \/ (\E job \in 1..origin, dry \in BOOLEAN : Start(job, dry)) \/ Fails
  BY <1>1 DEF Push, Start, Fails
<1>2. CASE FastForward \/ RemovePackage \/ CopyPackage \/ ReadPackage \/ EnsureInstalled
  BY <1>2 DEF FastForward, RemovePackage, CopyPackage, ReadPackage, EnsureInstalled
<1>3. CASE \/ Prepare \/ WriteCompose \/ RenameCompose \/ WriteManifest \/ RenameManifest
           \/ RestartApp \/ Ready \/ Smoke
  BY <1>3 DEF Prepare, WriteCompose, RenameCompose, WriteManifest, RenameManifest,
              Write, Rename, RestartApp, Ready, Smoke
<1>4. QED BY <1>1, <1>2, <1>3 DEF Proceed

LEMMA InvInitially == Init => Inv
BY GatewayInitially, DeployInitially DEF Inv, Init

LEMMA InvStep == Inv /\ [Next]_vars => Inv'
<1> SUFFICES ASSUME Inv, [Next]_vars PROVE Inv'
  OBVIOUS
<1>1. GatewayInv /\ DeployInv
  BY DEF Inv
<1>2. ASSUME Push \/ (\E job \in 1..origin, dry \in BOOLEAN : Start(job, dry)) \/ Proceed
             \/ Fails
      PROVE  Inv'
  <2>1. GatewayInv'
    BY <1>1, <1>2, ScriptLeavesGateway, GatewayStays
  <2>2. DeployInv'
    BY <1>1, <1>2, PushStep, StartStep, FetchStep, ReadPackageStep, EnsureInstalledStep,
       PrepareStep, WriteStep, RenameComposeStep, RenameManifestStep, RestartAppStep,
       ReadyStep, EndStep
       DEF Proceed
  <2>3. QED BY <2>1, <2>2 DEF Inv
<1>3. CASE StopApp
  <2>1. GatewayInv'
    BY <1>1, <1>3, GatewayStep DEF StopApp
  <2>2. DeployInv'
    BY <1>1, <1>3, DeployStays DEF StopApp
  <2>3. QED BY <2>1, <2>2 DEF Inv
<1>4. CASE StartApp
  <2>1. GatewayInv'
    BY <1>4, StartedStep DEF StartApp
  <2>2. DeployInv'
    BY <1>1, <1>4, StartAppStep
  <2>3. QED BY <2>1, <2>2 DEF Inv
<1>5. CASE (GatewayNext \/ ShutdownNext) /\ UNCHANGED deployVars
  <2>1. GatewayInv'
    BY <1>1, <1>5, GatewayStep
  <2>2. DeployInv'
    BY <1>1, <1>5, DeployStays
  <2>3. QED BY <2>1, <2>2 DEF Inv
<1>6. CASE UNCHANGED vars
  <2>1. UNCHANGED deployVars /\ UNCHANGED gatewayVars
    BY <1>6 DEF vars
  <2>2. QED BY <1>1, <2>1, DeployStays, GatewayStays DEF Inv
<1>7. QED BY <1>2, <1>3, <1>4, <1>5, <1>6 DEF Next

LEMMA InvAlways == Spec => []Inv
<1>1. Init => Inv
  BY InvInitially
<1>2. Inv /\ [Next]_vars => Inv'
  BY InvStep
<1>3. QED BY <1>1, <1>2, PTL DEF Spec

\* Every variable has its type, the clients that are counted are those that
\* are connected, and the installed files are whole wherever a run of the
\* script is killed.
THEOREM DeploymentTypesHold == Spec => []DeploymentTypeOK
<1>1. Inv => DeploymentTypeOK
  <2> SUFFICES ASSUME Inv PROVE DeploymentTypeOK
    OBVIOUS
  <2>1. GatewayTypeOK /\ ConnectionsAreCounted
    BY GatewayTypes, GatewayCounts DEF Inv
  <2>2. /\ origin \in Revisions /\ appStore \in Packages /\ files \in FileStates
        /\ app \in AppStates /\ run \in Runs /\ runs \in 0..MaxRuns
    BY DEF Inv, DeployInv, DeployTypes
  <2>3. files.torn = {}
    BY <2>2 DEF FileStates
  <2>4. app.state \in {"not-installed", "running", "restarting"}
    BY <2>2 DEF AppStates
  <2>5. run.job \in Revisions /\ run.package \in Revisions
    BY <2>2 DEF Runs
  <2>6. runs <= MaxRuns
    BY <2>2, DeploymentAssumption
  <2>7. QED BY <2>1, <2>2, <2>3, <2>4, <2>5, <2>6 DEF DeploymentTypeOK, Packages
<1>2. QED BY <1>1, InvAlways, PTL

\* The gateway hands a client's frames on in order and once, and leaves none of
\* a connected client in a queue that nobody empties, whatever the order in
\* which the two sockets open and close and a shutdown begins.
THEOREM FramesAlwaysArrive == Spec => []FramesArriveOrAreAnswered
<1>1. Inv => FramesArriveOrAreAnswered
  BY GatewayDelivers DEF Inv
<1>2. QED BY <1>1, InvAlways, PTL

\* What the app was last started from is installed or in a backup, wherever any
\* number of runs of the script are killed.
THEOREM StartedAlwaysRestorable == Spec => []StartedIsRestorable
<1>1. Inv => StartedIsRestorable
  BY DEF Inv, DeployInv
<1>2. QED BY <1>1, InvAlways, PTL

\* A run that reports success has its image served by a process started from
\* the files that the run has left.
THEOREM CompletedAlwaysServed == Spec => CompletedIsServed
<1> DEFINE Served == /\ app.started = files.compose /\ files = Updated
                     /\ app.started.image = run.job
           Kept == ~run.dry /\ ~At("completed") /\ run'.at = "completed" => Served
<1>1. Inv /\ [Next]_vars => [Kept]_vars
  <2> SUFFICES ASSUME Inv, Next, ~run.dry, ~At("completed"), run'.at = "completed"
               PROVE  Served
    OBVIOUS
  <2>1. run \in Runs
    BY DEF Inv, DeployInv, DeployTypes
  <2>2. Smoke
    <3>1. ASSUME NEW s \in Stages, Goto(s) PROVE s = "completed"
      BY <2>1, <3>1, GotoStage
    <3>2. run' # run
      BY DEF At
    <3>3. ASSUME NEW job, NEW dry, Start(job, dry) PROVE FALSE
      BY <3>3 DEF Start, NoRun
    <3>4. ~ReadPackage
      <4> SUFFICES ASSUME ReadPackage PROVE FALSE
        OBVIOUS
      <4>1. DeployInv
        BY DEF Inv
      <4>2. run'.at \in {"failed", "install"}
        BY <2>1 DEF ReadPackage, Runs
      <4>3. QED BY <4>2
    <3>5. ~Prepare
      <4> SUFFICES ASSUME Prepare PROVE FALSE
        OBVIOUS
      <4>1. run'.at \in {"compose", "manifest"}
        BY <2>1 DEF Prepare, Runs
      <4>2. QED BY <4>1
    <3>6. /\ {"read", "copy", "update", "rename compose", "rename manifest", "manifest",
              "restart", "ready", "smoke", "failed"} \subseteq Stages
          /\ "completed" \notin {"read", "copy", "update", "rename compose", "rename manifest",
                                 "manifest", "restart", "ready", "smoke", "failed"}
      BY DEF Stages
    <3>7. ~(FastForward \/ RemovePackage \/ CopyPackage \/ EnsureInstalled \/ Fails)
      BY <3>1, <3>6 DEF FastForward, RemovePackage, CopyPackage, EnsureInstalled, Fails
    <3>8. ~(WriteCompose \/ RenameCompose \/ WriteManifest \/ RenameManifest \/ RestartApp
            \/ Ready)
      BY <3>1, <3>6 DEF WriteCompose, RenameCompose, WriteManifest, RenameManifest, Write,
                        Rename, RestartApp, Ready
    <3>9. ~(Push \/ StopApp \/ StartApp \/ UNCHANGED deployVars)
      BY <3>2 DEF Push, StopApp, StartApp, deployVars
    <3>10. QED BY <3>3, <3>4, <3>5, <3>7, <3>8, <3>9 DEF Next, Proceed
  <2>3. files = Updated /\ app.started = files.compose
    BY <2>2 DEF Smoke, At, Inv, DeployInv, StagesHold
  <2>4. files.compose.image = run.job
    BY <2>3 DEF Updated, Target
  <2>5. QED BY <2>3, <2>4
<1>2. QED
  <2>1. Spec => [][Kept]_vars
    BY <1>1, InvAlways, PTL DEF Spec
  <2>2. QED BY <2>1 DEF CompletedIsServed, Kept, Served

=============================================================================

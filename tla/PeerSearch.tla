----------------------------- MODULE PeerSearch -----------------------------
(***************************************************************************)
(* The distributed peer search (src/signal/peer_search.rs) and the parts   *)
(* of SignalServer::handle_message it runs in (src/signal/server.rs).      *)
(*                                                                         *)
(* `tasks` holds the packets on the wire (stage "sent") and the running    *)
(* handlers (one tokio task per received packet), each with the stage it   *)
(* has reached: handlers of one server interleave at every await, and the  *)
(* tasks spawned for the packets of one connection run in any order.       *)
(* Identical packets on the same connection are merged.                    *)
(***************************************************************************)
EXTENDS SignalNet

CONSTANTS
  MaxHops,      \* max_hops of a new search (3 in PeerAPI::search_peer)
  Searches,     \* the searches issued: a set of <<connection, target>>
  Attached,     \* connections that are open and labelled initially
  Opening,      \* connections that may open, and send more packets, during the run
  Closing       \* connections that may fail during the run

ASSUME SearchAssumption ==
  /\ MaxHops \in Nat
  /\ Searches \subseteq Conn \X Peers
  /\ \A q \in Searches : Owner[q[1]] \in Peers
  /\ Attached \subseteq Conn
  /\ Opening \subseteq Conn
  /\ Closing \subseteq Conn

VARIABLES
  tasks,        \* packets on the wire and running handlers
  searched,     \* the searches already issued
  cache,        \* cache[s]: unexpired targets of search_cache of server s
  delivered     \* search responses that reached a peer: [to, pkt]

vars == <<label, isSignal, tasks, searched, cache, delivered>>

-----------------------------------------------------------------------------
(* Packets *)

Info(c) ==
  [kind |-> "info", stage |-> "sent", conn |-> c, key |-> Owner[c]]

Request(c, initiator, target, hops, path) ==
  [kind |-> "request", stage |-> "sent", conn |-> c, key |-> initiator,
   initiator |-> initiator, target |-> target, hops |-> hops, path |-> path]

\* dir is "down" from the accepting server to the owner of the connection and
\* "up" from a SignalClient to the accepting server; `by` is the server that
\* signed the packet.
Response(c, dir, key, to, nodes, initiator, target, path) ==
  [kind |-> "response", stage |-> "sent", conn |-> c, dir |-> dir, key |-> key, by |-> key,
   to |-> to, nodes |-> nodes, initiator |-> initiator, target |-> target, path |-> path]

\* Variant with a bug: the response is addressed to the peer searched for.
AnswerTarget(s, r, c) ==
  LET path == Append(r.path, s)
  IN  Response(c, "down", s, r.target, path, r.initiator, r.target, path)

\* The response a server s builds for request r and sends on connection c.
Answer(s, r, c) ==
  LET path == Append(r.path, s)
  IN  Response(c, "down", s, r.initiator, path, r.initiator, r.target, path)

\* The response m passed on by server s towards node `to`.
Relay(s, m, c, dir, to) ==
  Response(c, dir, s, to, m.path, m.initiator, m.target, m.path)

\* The copies of packet m that auto_send_packet writes for outcome o.  A
\* SignalClient signs what it sends with the key of its own server and leaves
\* peer_key as it is.
Copies(m, o) ==
  {[m EXCEPT !.stage = "sent", !.conn = c, !.dir = "down", !.nodes = o.nodes] : c \in o.down}
  \cup
  {[m EXCEPT !.stage = "sent", !.conn = c, !.dir = "up", !.nodes = o.nodes, !.by = Owner[c]] :
     c \in {d \in o.up : label[d] # Closed}}

Replace(t, new) == tasks' = (tasks \ {t}) \cup new

Advance(t, stage) == Replace(t, {[t EXCEPT !.stage = stage]})

-----------------------------------------------------------------------------
(* Connections *)

Init ==
  /\ label = [c \in Conn |-> IF c \in Attached THEN Owner[c] ELSE Closed]
  /\ isSignal = [c \in Conn |-> c \in Attached /\ Owner[c] \in Servers]
  /\ tasks = {}
  /\ searched = {}
  /\ cache = [s \in Servers |-> {}]
  /\ delivered = {}

\* A client connects: its record enters the peer list without a key, and the
\* client sends its info packet.
AddPeer(c) ==
  /\ c \in Opening
  /\ label[c] = Closed
  /\ label' = [label EXCEPT ![c] = NoKey]
  /\ isSignal' = [isSignal EXCEPT ![c] = FALSE]
  /\ tasks' = tasks \cup {Info(c)}
  /\ UNCHANGED <<searched, cache, delivered>>

\* The connection fails: packets not yet received may be lost with it,
\* handlers that run go on.
RemovePeer(c) ==
  /\ c \in Closing
  /\ label[c] # Closed
  /\ label' = [label EXCEPT ![c] = Closed]
  /\ \E lost \in SUBSET {t \in tasks : t.conn = c /\ t.stage = "sent"} :
       tasks' = tasks \ lost
  /\ UNCHANGED <<isSignal, searched, cache, delivered>>

\* A client sends another packet under its own key (its info packet after a
\* reconnection, a metadata sync, ...).
Announce(c) ==
  /\ c \in Opening
  /\ label[c] # Closed
  /\ tasks' = tasks \cup {Info(c)}
  /\ UNCHANGED <<label, isSignal, searched, cache, delivered>>

\* Variant with a bug: a response relabels the connection it is sent down on.
SetPeerKeyAnyWay(t) ==
  /\ t.stage = "sent"
  /\ label' = [label EXCEPT ![t.conn] = IF @ = Closed THEN Closed ELSE t.key]
  /\ Advance(t, "received")
  /\ UNCHANGED <<isSignal, searched, cache, delivered>>

\* A received packet relabels its connection before it is looked at.
SetPeerKey(t) ==
  /\ t.stage = "sent"
  /\ t.kind = "response" => t.dir = "up"
  /\ label' = [label EXCEPT ![t.conn] = IF @ = Closed THEN Closed ELSE t.key]
  /\ Advance(t, "received")
  /\ UNCHANGED <<isSignal, searched, cache, delivered>>

\* The handler asks the client for its fragments first: auto_send_packet panics
\* while any record of the list has no key, and the rest of the handler, which
\* stores the flag, is lost with it.
HandleInfo(t) ==
  /\ t.kind = "info" /\ t.stage = "received"
  /\ isSignal' = IF Labelled(At[t.conn], NoKey) # {} THEN isSignal
                 ELSE [isSignal EXCEPT ![t.conn] = Owner[t.conn] \in Servers]
  /\ Replace(t, {})
  /\ UNCHANGED <<label, searched, cache, delivered>>

-----------------------------------------------------------------------------
(* Requests: PeerSearchManager::handle_search_request *)

\* PeerAPI::search_peer
SearchPeer(c, target) ==
  /\ <<c, target>> \in Searches \ searched
  /\ label[c] # Closed
  /\ searched' = searched \cup {<<c, target>>}
  /\ tasks' = tasks \cup {Request(c, Owner[c], target, MaxHops, <<Owner[c]>>)}
  /\ UNCHANGED <<label, isSignal, cache, delivered>>

\* An unexpired cache entry is answered if the initiator is attached here;
\* otherwise the handler goes on as if there were none.
LookupCache(t) ==
  LET s    == At[t.conn]
      back == Labelled(s, t.initiator)
  IN  /\ t.kind = "request" /\ t.stage = "received"
      /\ IF t.target \in cache[s] /\ back # {}
         THEN \E c \in back : Replace(t, {Answer(s, t, c)})
         ELSE Advance(t, "scan")
      /\ UNCHANGED <<label, isSignal, searched, cache, delivered>>

\* Is the target one of the local peers?  If so the answer is cached.
ScanPeers(t) ==
  LET s     == At[t.conn]
      found == Labelled(s, t.target) # {}
  IN  /\ t.kind = "request" /\ t.stage = "scan"
      /\ cache' = [cache EXCEPT ![s] = IF found THEN @ \cup {t.target} ELSE @]
      /\ Advance(t, IF found THEN "found" ELSE "forward")
      /\ UNCHANGED <<label, isSignal, searched, delivered>>

\* The target was found: answer if the initiator is attached here, otherwise
\* fall through to forwarding the request.
ReplyToInitiator(t) ==
  LET s    == At[t.conn]
      back == Labelled(s, t.initiator)
  IN  /\ t.kind = "request" /\ t.stage = "found"
      /\ IF back # {}
         THEN \E c \in back : Replace(t, {Answer(s, t, c)})
         ELSE Advance(t, "forward")
      /\ UNCHANGED <<label, isSignal, searched, cache, delivered>>

\* Variants with a bug: the server leaves itself off the path, passes on the
\* packet as it came, or signs the request with its own key.
ForwardOffPath(t) ==
  LET s == At[t.conn]
  IN  /\ t.kind = "request" /\ t.stage = "forward"
      /\ Replace(t, IF t.hops > 0
                    THEN {Request(c, t.initiator, t.target, t.hops - 1, t.path) :
                            c \in {d \in ConnectedServers(s) : label[d] # Closed}}
                    ELSE {})
      /\ UNCHANGED <<label, isSignal, searched, cache, delivered>>

ForwardUnchanged(t) ==
  LET s == At[t.conn]
  IN  /\ t.kind = "request" /\ t.stage = "forward"
      /\ Replace(t, {[t EXCEPT !.stage = "sent", !.conn = c] :
                       c \in {d \in ConnectedServers(s) : label[d] # Closed}})
      /\ UNCHANGED <<label, isSignal, searched, cache, delivered>>

ForwardOwnKey(t) ==
  LET s == At[t.conn]
  IN  /\ t.kind = "request" /\ t.stage = "forward"
      /\ Replace(t, IF t.hops > 0
                    THEN {[Request(c, t.initiator, t.target, t.hops - 1, Append(t.path, s))
                             EXCEPT !.key = s] :
                            c \in {d \in ConnectedServers(s) : label[d] # Closed}}
                    ELSE {})
      /\ UNCHANGED <<label, isSignal, searched, cache, delivered>>

\* The request goes to every connected server, one hop less, with this server
\* on its path and the INITIATOR's key as its peer_key.
ForwardRequest(t) ==
  LET s == At[t.conn]
  IN  /\ t.kind = "request" /\ t.stage = "forward"
      /\ Replace(t, IF t.hops > 0
                    THEN {Request(c, t.initiator, t.target, t.hops - 1, Append(t.path, s)) :
                            c \in {d \in ConnectedServers(s) : label[d] # Closed}}
                    ELSE {})
      /\ UNCHANGED <<label, isSignal, searched, cache, delivered>>

\* A cached answer expires (300 s).
Expire(s, target) ==
  /\ target \in cache[s]
  /\ cache' = [cache EXCEPT ![s] = @ \ {target}]
  /\ UNCHANGED <<label, isSignal, tasks, searched, delivered>>

-----------------------------------------------------------------------------
(* Responses: PeerSearchManager::handle_search_response *)

\* The position of s on the path of m; 0 when it is not there.
Position(s, m) == SelectInSeq(m.path, LAMBDA u : u = s)

\* Variant with a bug: a relay in the middle of the path does not look for the
\* previous node among its own peers.
ForwardedUp(s, m) ==
  LET i    == Position(s, m)
      back == Labelled(s, m.initiator)
      up   == {c \in ConnectedServers(s) : label[c] # Closed}
  IN  IF i = 0 THEN {{}}
      ELSE IF i = Len(m.path)
      THEN IF back = {} THEN {{}}
           ELSE {{Relay(s, m, c, "down", m.initiator)} : c \in back}
      ELSE IF up # {} THEN {{Relay(s, m, c, "up", m.path[i - 1])} : c \in up}
      ELSE {{}}

\* What server s sends when it handles response m.
Forwarded(s, m) ==
  LET i    == Position(s, m)
      prev == m.path[i - 1]
      back == Labelled(s, m.initiator)
      next == Labelled(s, prev)
      up   == {c \in ConnectedServers(s) : label[c] # Closed}
  IN  IF i = 0 THEN {{}}
      ELSE IF i = Len(m.path)
      THEN IF back = {} THEN {{}}
           ELSE {{Relay(s, m, c, "down", m.initiator)} : c \in back}
      ELSE IF next # {} THEN {{Relay(s, m, c, "down", prev)} : c \in next}
      ELSE IF up # {} THEN {{Relay(s, m, c, "up", prev)} : c \in up}
      ELSE {{}}

\* On an accepted connection, inside handle_message; the SIGNAL branch of that
\* handler then passes on the packet itself unless it is addressed to s.
HandleResponse(t) ==
  LET s == At[t.conn]
  IN  /\ t.kind = "response" /\ t.stage = "received"
      /\ \E out \in Forwarded(s, t) :
           Replace(t, out \cup (IF t.to = s THEN {} ELSE {[t EXCEPT !.stage = "route"]}))
      /\ UNCHANGED <<label, isSignal, searched, cache, delivered>>

RouteResponse(t) ==
  LET s        == At[t.conn]
      outcomes == AutoSend(s, t.to, t.key, t.nodes)
  IN  /\ t.kind = "response" /\ t.stage = "route"
      /\ \/ outcomes = {} /\ Replace(t, {})
         \/ \E o \in outcomes : Replace(t, Copies(t, o))
      /\ UNCHANGED <<label, isSignal, searched, cache, delivered>>

\* Variant with a bug: a server keeps a response that arrives at its SignalClient.
ReceiveAndKeep(t) ==
  /\ t.kind = "response" /\ t.stage = "sent" /\ t.dir = "down"
  /\ delivered' = delivered \cup {[to |-> Owner[t.conn], pkt |-> t]}
  /\ Replace(t, {})
  /\ UNCHANGED <<label, isSignal, searched, cache>>

\* At the client end of a connection: a server, which verifies nothing, handles
\* the response in its SignalClient loop; a peer has its answer if the signature
\* is that of the packet's key.
ReceiveResponse(t) ==
  LET n == Owner[t.conn]
  IN  /\ t.kind = "response" /\ t.stage = "sent" /\ t.dir = "down"
      /\ n \in Peers => t.by = t.key
      /\ IF n \in Servers
         THEN /\ \E out \in Forwarded(n, t) : Replace(t, out)
              /\ UNCHANGED delivered
         ELSE /\ delivered' = delivered \cup {[to |-> n, pkt |-> t]}
              /\ Replace(t, {})
      /\ UNCHANGED <<label, isSignal, searched, cache>>

\* A peer takes a packet that it cannot verify for a lost connection: it opens a
\* new one, or is out of attempts; what else was on the old one may be lost.
RejectResponse(t) ==
  LET c == t.conn
  IN  /\ t.kind = "response" /\ t.stage = "sent" /\ t.dir = "down"
      /\ Owner[c] \in Peers /\ t.by # t.key
      /\ \E lost \in SUBSET {u \in tasks : u.conn = c /\ u.stage = "sent"},
            again \in BOOLEAN :
           /\ label' = [label EXCEPT ![c] = IF @ = Closed \/ ~again THEN Closed ELSE NoKey]
           /\ tasks' = (tasks \ (lost \cup {t}))
                         \cup (IF label'[c] = NoKey THEN {Info(c)} ELSE {})
      /\ isSignal' = [isSignal EXCEPT ![c] = FALSE]
      /\ UNCHANGED <<searched, cache, delivered>>

-----------------------------------------------------------------------------
Handler(t) ==
  \/ SetPeerKey(t)
  \/ HandleInfo(t)
  \/ LookupCache(t)
  \/ ScanPeers(t)
  \/ ReplyToInitiator(t)
  \/ ForwardRequest(t)
  \/ HandleResponse(t)
  \/ RouteResponse(t)
  \/ ReceiveResponse(t)
  \/ RejectResponse(t)

Environment ==
  \/ \E c \in Conn : AddPeer(c) \/ RemovePeer(c) \/ Announce(c)
  \/ \E q \in Searches : SearchPeer(q[1], q[2])
  \/ \E s \in Servers, target \in Peers : Expire(s, target)

Next == Environment \/ \E t \in tasks : Handler(t)

Spec == Init /\ [][Next]_vars

\* Every runnable tokio task is polled again: no kind of packet is starved.
Run(kind) == \E t \in tasks : t.kind = kind /\ Handler(t)

Fairness == WF_vars(Run("info")) /\ WF_vars(Run("request")) /\ WF_vars(Run("response"))

FairSpec == Spec /\ Fairness

-----------------------------------------------------------------------------
(* Properties *)

RequestTask ==
  [kind : {"request"}, stage : {"sent", "received", "scan", "found", "forward"},
   conn : Conn, key : Nodes, initiator : Peers, target : Peers,
   hops : 0 .. MaxHops, path : Seq(Nodes)]

ResponseTask ==
  [kind : {"response"}, stage : {"sent", "received", "route"}, conn : Conn,
   dir : {"up", "down"}, key : Nodes, by : Nodes, to : Nodes, nodes : Seq(Nodes),
   initiator : Peers, target : Peers, path : Seq(Nodes)]

InfoTask == [kind : {"info"}, stage : {"sent", "received"}, conn : Conn, key : Nodes]

\* Every variable has its type.
TypeOK ==
  /\ label \in [Conn -> Nodes \cup {NoKey, Closed}]
  /\ isSignal \in [Conn -> BOOLEAN]
  /\ \A t \in tasks : t \in InfoTask \cup RequestTask \cup ResponseTask
  /\ searched \subseteq Searches
  /\ cache \in [Servers -> SUBSET Peers]
  /\ \A d \in delivered : d.to \in Peers /\ d.pkt \in ResponseTask

\* A path that starts at the initiator, goes through servers only and follows
\* connections from client to server: the way back exists hop by hop.
PathFrom(initiator, path) ==
  /\ Len(path) > 0
  /\ path[1] = initiator
  /\ \A i \in 2 .. Len(path) : path[i] \in Servers
  /\ IsWalk(path)

\* A request carries the path from the initiator to the node that sent it
\* (packets.rs:155), on the initiator's key, and its hops left and its path
\* together never exceed the budget it started with: however handlers
\* interleave, a flood cannot run longer than max_hops.
RequestFollowsPath ==
  \A t \in tasks : t.kind = "request" =>
    /\ PathFrom(t.initiator, t.path)
    /\ Last(t.path) = Owner[t.conn]
    /\ t.key = t.initiator
    /\ t.hops + Len(t.path) = MaxHops + 1

\* A response carries a path of at least the initiator and the finder, of
\* bounded length, that its relays can retrace: the node it is addressed to
\* is on it.  A relay that is on the path is never its first node, so that
\* `path[my_index - 1]` is always there.
ResponseFollowsPath ==
  \A t \in tasks : t.kind = "response" =>
    /\ PathFrom(t.initiator, t.path)
    /\ Len(t.path) \in 2 .. MaxHops + 2
    /\ Contains(t.path, t.to)
    /\ \A s \in Servers : Position(s, t) # 1

\* An answer only ever reaches the peer that searched, although servers route
\* it by labels that other peers' relayed packets overwrite.
DeliveredToInitiator ==
  \A d \in delivered : d.to = d.pkt.initiator

\* The label of a peer's own connection is never another node's key: only the
\* connections between servers are relabelled with foreign keys.
PeerLabels ==
  \A c \in Conn : Owner[c] \in Peers => label[c] \in {Owner[c], NoKey, Closed}

\* Every flood of requests dies out, on any topology.
FloodEnds ==
  []<>(\A t \in tasks : t.kind # "request")

\* Every response is eventually delivered or dropped.
ResponsesSettle ==
  []<>(\A t \in tasks : t.kind # "response")

\* Every search is eventually answered.
Answered ==
  \A q \in Searches :
    q \in searched ~>
      \E d \in delivered : d.to = Owner[q[1]] /\ d.pkt.target = q[2]
=============================================================================

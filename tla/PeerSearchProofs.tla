-------------------------- MODULE PeerSearchProofs --------------------------
(***************************************************************************)
(* Proofs that the safety properties of PeerSearch hold for every network, *)
(* every set of searches and every max_hops.                               *)
(*                                                                         *)
(* The inductive invariant speaks of one task at a time: what a packet     *)
(* carries depends on the handler that built it and on the labels it read, *)
(* never on other packets.  Two facts about labels carry it: the record of *)
(* a peer's own connection is only ever labelled with that peer's key, and *)
(* the flag is_signal_server is only ever set on a server's connection.    *)
(***************************************************************************)
EXTENDS PeerSearch, TLAPS, SequenceTheorems, WellFoundedInduction

-----------------------------------------------------------------------------
(* The inductive invariant *)

RequestOK(t) ==
  /\ PathFrom(t.initiator, t.path)
  /\ Last(t.path) = Owner[t.conn]
  /\ t.key = t.initiator
  /\ t.hops + Len(t.path) = MaxHops + 1

\* The only peer a response can be routed to by its path, its node list or its
\* recipient is the initiator.
ResponseOK(t) ==
  /\ PathFrom(t.initiator, t.path)
  /\ Len(t.path) \in 2 .. MaxHops + 2
  /\ Contains(t.path, t.to)
  /\ \A i \in 1 .. Len(t.nodes) : t.nodes[i] \in Servers \cup {t.initiator}
  /\ t.dir = "up" => Owner[t.conn] \in Servers
  /\ t.dir = "down" /\ Owner[t.conn] \in Peers => Owner[t.conn] = t.initiator

GoodTask(t) ==
  \/ t \in InfoTask /\ t.key = Owner[t.conn]
  \/ t \in RequestTask /\ RequestOK(t)
  \/ t \in ResponseTask /\ ResponseOK(t)

LabelsOK ==
  /\ label \in [Conn -> Nodes \cup {NoKey, Closed}]
  /\ PeerLabels

FlagsOK ==
  /\ isSignal \in [Conn -> BOOLEAN]
  /\ \A c \in Conn : isSignal[c] => Owner[c] \in Servers

TasksOK == \A t \in tasks : GoodTask(t)

DeliveredOK ==
  \A d \in delivered : d.to \in Peers /\ d.pkt \in ResponseTask /\ d.to = d.pkt.initiator

IInv ==
  /\ LabelsOK
  /\ FlagsOK
  /\ TasksOK
  /\ DeliveredOK
  /\ searched \subseteq Searches
  /\ cache \in [Servers -> SUBSET Peers]

-----------------------------------------------------------------------------
(* Paths *)

LEMMA NetFacts ==
  /\ \A c \in Conn : At[c] \in Servers /\ Owner[c] \in Nodes
  /\ \A c \in Conn : Owner[c] \in Servers <=> Owner[c] \notin Peers
  /\ NoKey \notin Nodes /\ Closed \notin Nodes
BY NetAssumption DEF NetAssumption, Nodes

\* A server appended to a path it accepts a connection from continues the path.
LEMMA PathAppend ==
  ASSUME NEW i \in Peers, NEW p \in Seq(Nodes), PathFrom(i, p),
         NEW c \in Conn, Last(p) = Owner[c]
  PROVE  LET q == Append(p, At[c])
         IN  /\ q \in Seq(Nodes)
             /\ PathFrom(i, q)
             /\ Len(q) = Len(p) + 1
             /\ Last(q) = At[c]
<1> DEFINE q == Append(p, At[c])
<1>1. At[c] \in Servers /\ At[c] \in Nodes
  BY NetFacts DEF Nodes
<1>2. /\ q \in Seq(Nodes) /\ Len(q) = Len(p) + 1 /\ Len(p) \in Nat
      /\ \A j \in 1 .. Len(p) : q[j] = p[j]
      /\ q[Len(p) + 1] = At[c]
  BY <1>1, AppendProperties, LenProperties
<1>3. Linked(p[Len(p)], At[c])
  BY DEF Linked, Last
<1>4. PathFrom(i, q)
  <2>1. Len(q) > 0 /\ q[1] = i
    BY <1>2 DEF PathFrom
  <2>2. \A j \in 2 .. Len(q) : q[j] \in Servers
    BY <1>1, <1>2 DEF PathFrom
  <2>3. \A j \in 1 .. Len(q) - 1 : Linked(q[j], q[j + 1])
    <3> TAKE j \in 1 .. Len(q) - 1
    <3>1. CASE j = Len(p)
      BY <3>1, <1>2, <1>3
    <3>2. CASE j # Len(p)
      <4>1. j \in 1 .. Len(p) - 1 /\ q[j] = p[j] /\ q[j + 1] = p[j + 1]
        BY <3>2, <1>2
      <4> QED  BY <4>1 DEF PathFrom, IsWalk
    <3> QED  BY <3>1, <3>2
  <2> QED  BY <2>1, <2>2, <2>3 DEF PathFrom, IsWalk
<1> QED  BY <1>2, <1>4 DEF Last

\* The only peer on a path is its initiator.
LEMMA PathPeer ==
  ASSUME NEW i \in Peers, NEW p \in Seq(Nodes), PathFrom(i, p)
  PROVE  \A j \in 1 .. Len(p) : p[j] \in Servers \cup {i} /\ (j > 1 => p[j] \in Servers)
BY LenProperties DEF PathFrom

LEMMA MinOfNats ==
  ASSUME NEW I, I \subseteq Nat, I # {}
  PROVE  Min(I) \in I
<1>1. PICK x \in I : \A y \in I : ~(<<y, x>> \in OpToRel(<, Nat))
  BY WFMin, NatLessThanWellFounded, Zenon
<1>2. ASSUME NEW y \in I
      PROVE  x =< y
  <2>1. CASE y < x
    <3>1. <<y, x>> \in Nat \X Nat /\ <<y, x>>[1] < <<y, x>>[2]
      BY <2>1
    <3> QED  BY <1>1, <3>1 DEF OpToRel
  <2> QED  BY <2>1
<1> QED  BY <1>2 DEF Min

\* The position of a server on a path is an index of it, and never the first.
LEMMA PositionFacts ==
  ASSUME NEW s \in Servers, NEW m, m.initiator \in Peers, m.path \in Seq(Nodes),
         PathFrom(m.initiator, m.path)
  PROVE  /\ Position(s, m) \in 0 .. Len(m.path)
         /\ Position(s, m) # 1
         /\ Position(s, m) # 0 => m.path[Position(s, m)] = s
<1> DEFINE I == {j \in 1 .. Len(m.path) : m.path[j] = s}
<1>1. Position(s, m) = IF I # {} THEN Min(I) ELSE 0
  BY DEF Position, SelectInSeq
<1>2. Len(m.path) \in Nat
  BY LenProperties
<1>3. CASE I = {}
  BY <1>1, <1>2, <1>3
<1>4. CASE I # {}
  <2>1. Min(I) \in I
    <3>1. I \subseteq Nat
      BY <1>2
    <3> HIDE DEF I
    <3> QED  BY <1>4, <3>1, MinOfNats
  <2>2. s # m.initiator /\ m.path[1] = m.initiator
    BY NetAssumption DEF NetAssumption, PathFrom
  <2>3. Position(s, m) = Min(I)
    BY <1>1, <1>4
  <2>4. Min(I) \in 1 .. Len(m.path) /\ m.path[Min(I)] = s
    BY <2>1
  <2> HIDE DEF I
  <2> QED  BY <2>2, <2>3, <2>4, <1>2
<1> QED  BY <1>3, <1>4

-----------------------------------------------------------------------------
(* What the handlers send *)

LEMMA Kinds ==
  /\ \A t \in InfoTask : t.kind = "info" /\ t.conn \in Conn
  /\ \A t \in RequestTask : t.kind = "request" /\ t.conn \in Conn
  /\ \A t \in ResponseTask : t.kind = "response" /\ t.conn \in Conn
BY DEF InfoTask, RequestTask, ResponseTask

LEMMA KindOf ==
  ASSUME NEW t, GoodTask(t)
  PROVE  /\ t.conn \in Conn
         /\ t.kind = "info" => t \in InfoTask /\ t.key = Owner[t.conn]
         /\ t.kind = "request" => t \in RequestTask /\ RequestOK(t)
         /\ t.kind = "response" => t \in ResponseTask /\ ResponseOK(t)
BY Kinds DEF GoodTask

\* Only the owner's own key leads to a peer's connection.
LEMMA LabelledPeer ==
  ASSUME LabelsOK, NEW s, NEW k \in Nodes, NEW c \in Labelled(s, k)
  PROVE  c \in Conn /\ At[c] = s /\ (Owner[c] \in Peers => Owner[c] = k)
BY NetFacts DEF LabelsOK, PeerLabels, Labelled, AcceptedBy

LEMMA AnswerGood ==
  ASSUME LabelsOK, NEW t \in RequestTask, RequestOK(t),
         NEW c \in Labelled(At[t.conn], t.initiator)
  PROVE  GoodTask(Answer(At[t.conn], t, c))
<1> DEFINE s == At[t.conn]
           path == Append(t.path, s)
           m == Answer(s, t, c)
<1>1. /\ t.conn \in Conn /\ t.initiator \in Peers /\ t.initiator \in Nodes
      /\ t.target \in Peers /\ t.path \in Seq(Nodes) /\ t.hops \in 0 .. MaxHops
      /\ s \in Servers /\ s \in Nodes
  BY NetFacts DEF RequestTask, Nodes
<1>2. /\ path \in Seq(Nodes) /\ PathFrom(t.initiator, path)
      /\ Len(path) = Len(t.path) + 1
  BY <1>1, PathAppend DEF RequestOK
<1>3. c \in Conn /\ (Owner[c] \in Peers => Owner[c] = t.initiator)
  BY <1>1, LabelledPeer
<1>4. m \in ResponseTask
  BY <1>1, <1>2, <1>3 DEF Answer, Response, ResponseTask
<1>5. Len(path) \in 2 .. MaxHops + 2
  BY <1>1, <1>2, LenProperties, SearchAssumption DEF RequestOK, PathFrom, SearchAssumption
<1>6. Contains(path, t.initiator)
  BY <1>2, <1>5, SearchAssumption DEF Contains, PathFrom, SearchAssumption
<1>7. \A i \in 1 .. Len(path) : path[i] \in Servers \cup {t.initiator}
  BY <1>1, <1>2, PathPeer
<1>8. ResponseOK(m)
  BY <1>2, <1>3, <1>5, <1>6, <1>7 DEF ResponseOK, Answer, Response
<1> QED  BY <1>4, <1>8 DEF GoodTask

LEMMA RelayGood ==
  ASSUME NEW s \in Servers, NEW m \in ResponseTask, ResponseOK(m),
         NEW c \in Conn, NEW dir \in {"up", "down"}, NEW to \in Nodes,
         Contains(m.path, to),
         dir = "up" => Owner[c] \in Servers,
         dir = "down" /\ Owner[c] \in Peers => Owner[c] = m.initiator
  PROVE  GoodTask(Relay(s, m, c, dir, to))
<1> DEFINE x == Relay(s, m, c, dir, to)
<1>1. /\ m.initiator \in Peers /\ m.target \in Peers /\ m.path \in Seq(Nodes)
      /\ s \in Nodes
  BY DEF ResponseTask, Nodes
<1>2. x \in ResponseTask
  BY <1>1 DEF Relay, Response, ResponseTask
<1>3. \A i \in 1 .. Len(m.path) : m.path[i] \in Servers \cup {m.initiator}
  BY <1>1, PathPeer DEF ResponseOK
<1>4. ResponseOK(x)
  BY <1>3 DEF Relay, Response, ResponseOK
<1> QED  BY <1>2, <1>4 DEF GoodTask

LEMMA ForwardedGood ==
  ASSUME LabelsOK, NEW s \in Servers, NEW m \in ResponseTask, ResponseOK(m),
         NEW out \in Forwarded(s, m), NEW x \in out
  PROVE  GoodTask(x)
<1> DEFINE i == Position(s, m)
           prev == m.path[i - 1]
           up == {c \in ConnectedServers(s) : label[c] # Closed}
<1>1. /\ m.initiator \in Peers /\ m.initiator \in Nodes /\ m.path \in Seq(Nodes)
      /\ PathFrom(m.initiator, m.path) /\ Len(m.path) \in Nat /\ Len(m.path) > 0
  BY LenProperties DEF ResponseTask, ResponseOK, PathFrom, Nodes
<1>2. i \in 0 .. Len(m.path) /\ i # 1
  BY <1>1, PositionFacts
<1>3. i # 0
  BY DEF Forwarded
<1>4. /\ prev \in Nodes /\ Contains(m.path, prev)
      /\ (prev \in Peers => prev = m.initiator)
  <2>1. i - 1 \in 1 .. Len(m.path)
    BY <1>1, <1>2, <1>3
  <2>2. prev \in Servers \cup {m.initiator}
    BY <1>1, <2>1, PathPeer
  <2> QED  BY <1>1, <2>1, <2>2, NetAssumption DEF Contains, NetAssumption, Nodes
<1>5. Contains(m.path, m.initiator)
  BY <1>1 DEF Contains, PathFrom
<1>6. \/ \E c \in Labelled(s, m.initiator) : x = Relay(s, m, c, "down", m.initiator)
      \/ \E c \in Labelled(s, prev) : x = Relay(s, m, c, "down", prev)
      \/ \E c \in up : x = Relay(s, m, c, "up", prev)
  BY <1>3 DEF Forwarded
<1>7. ASSUME NEW c \in Labelled(s, m.initiator), x = Relay(s, m, c, "down", m.initiator)
      PROVE  GoodTask(x)
  BY <1>1, <1>5, <1>7, LabelledPeer, RelayGood
<1>8. ASSUME NEW c \in Labelled(s, prev), x = Relay(s, m, c, "down", prev)
      PROVE  GoodTask(x)
  BY <1>4, <1>8, LabelledPeer, RelayGood
<1>9. ASSUME NEW c \in up, x = Relay(s, m, c, "up", prev)
      PROVE  GoodTask(x)
  BY <1>4, <1>9, RelayGood DEF ConnectedServers
<1> QED  BY <1>6, <1>7, <1>8, <1>9

\* A node list names no peer but the initiator i.
NodesFor(i, nodes) ==
  nodes \in Seq(Nodes) /\ \A j \in 1 .. Len(nodes) : nodes[j] \in Servers \cup {i}

\* Whatever auto_send_packet writes reaches no peer but i.
OutcomeFor(s, i, o) ==
  /\ o.down \subseteq Conn
  /\ \A c \in o.down : Owner[c] \in Peers => Owner[c] = i
  /\ o.up \subseteq ConnectedServers(s)
  /\ NodesFor(i, o.nodes)

LEMMA NodesForAppend ==
  ASSUME NEW i \in Peers, NEW s \in Servers, NEW nodes, NodesFor(i, nodes)
  PROVE  NodesFor(i, Append(nodes, s))
<1>1. s \in Nodes
  BY DEF Nodes
<1> QED  BY <1>1, AppendProperties, LenProperties DEF NodesFor

LEMMA NodesForFront ==
  ASSUME NEW i \in Peers, NEW nodes, NodesFor(i, nodes), nodes # <<>>
  PROVE  NodesFor(i, Front(nodes))
<1>1. nodes \in Seq(Nodes) /\ Len(nodes) \in Nat /\ Len(nodes) - 1 \in Int
  BY LenProperties DEF NodesFor
<1>2. \A j \in 1 .. Len(nodes) - 1 : nodes[j] \in Nodes
  BY <1>1, ElementOfSeq
<1>3. /\ Front(nodes) \in Seq(Nodes)
      /\ Len(Front(nodes)) = IF 1 <= Len(nodes) - 1 THEN Len(nodes) - 1 ELSE 0
      /\ \A j \in 1 .. Len(nodes) - 1 : Front(nodes)[j] = nodes[j]
  BY <1>1, <1>2, SubSeqProperties DEF Front
<1> QED  BY <1>1, <1>3 DEF NodesFor

LEMMA DefaultRouteOK ==
  ASSUME LabelsOK, FlagsOK, NEW s \in Servers, NEW i \in Peers, NEW to \in Servers \cup {i},
         NEW from, NEW nodes, NodesFor(i, nodes), NEW o \in DefaultRoute(s, to, from, nodes)
  PROVE  OutcomeFor(s, i, o)
<1> DEFINE hit == {c \in AcceptedBy(s) : label[c] # Closed /\ (label[c] = to \/ isSignal[c])}
<1>1. NodesFor(i, Append(nodes, s))
  BY NodesForAppend
<1>2. hit \subseteq Conn /\ \A c \in hit : Owner[c] \in Peers => Owner[c] = i
  BY NetAssumption
     DEF AcceptedBy, LabelsOK, FlagsOK, PeerLabels, NetAssumption, Nodes
<1>3. o.down \subseteq hit /\ o.up \subseteq ConnectedServers(s) /\ o.nodes = Append(nodes, s)
  BY DEF DefaultRoute, Outcome
<1> QED  BY <1>1, <1>2, <1>3 DEF OutcomeFor

LEMMA AutoSendOK ==
  ASSUME LabelsOK, FlagsOK, NEW s \in Servers, NEW i \in Peers, NEW to \in Servers \cup {i},
         NEW from, NEW nodes, NodesFor(i, nodes), NEW o \in AutoSend(s, to, from, nodes)
  PROVE  OutcomeFor(s, i, o)
<1> DEFINE last == Last(nodes)
           down == Labelled(s, last)
           up   == {c \in ConnectedServers(s) : At[c] = last}
<1>1. CASE o \in DefaultRoute(s, to, from, nodes)
  BY <1>1, DefaultRouteOK
<1>2. CASE nodes # <<>> /\ o \in DefaultRoute(s, to, from, Front(nodes))
  BY <1>2, NodesForFront, DefaultRouteOK
<1>3. CASE nodes # <<>> /\ \E c \in down : o = Outcome({c}, {}, nodes)
  <2>1. PICK c \in down : o = Outcome({c}, {}, nodes)
    BY <1>3
  <2>2. last \in Servers \cup {i} /\ last \in Nodes
    BY <1>3, LenProperties, EmptySeq DEF NodesFor, Last, Nodes
  <2>3. c \in Conn /\ (Owner[c] \in Peers => Owner[c] = i)
    BY <2>2, LabelledPeer, NetAssumption DEF NetAssumption
  <2> QED  BY <2>1, <2>3 DEF OutcomeFor, Outcome
<1>4. CASE \E c \in up : o = Outcome({}, {c}, nodes)
  BY <1>4 DEF OutcomeFor, Outcome
<1>5. \/ o \in DefaultRoute(s, to, from, nodes)
      \/ nodes # <<>> /\ o \in DefaultRoute(s, to, from, Front(nodes))
      \/ nodes # <<>> /\ \E c \in down : o = Outcome({c}, {}, nodes)
      \/ \E c \in up : o = Outcome({}, {c}, nodes)
  BY DEF AutoSend
<1> QED  BY <1>1, <1>2, <1>3, <1>4, <1>5

LEMMA CopiesGood ==
  ASSUME LabelsOK, FlagsOK, NEW s \in Servers, NEW m \in ResponseTask, ResponseOK(m),
         NEW o \in AutoSend(s, m.to, m.key, m.nodes), NEW x \in Copies(m, o)
  PROVE  GoodTask(x)
<1>1. /\ m.initiator \in Peers /\ m.path \in Seq(Nodes) /\ m.nodes \in Seq(Nodes)
      /\ NodesFor(m.initiator, m.nodes)
  BY DEF ResponseTask, ResponseOK, NodesFor
<1>2. m.to \in Servers \cup {m.initiator}
  BY <1>1, PathPeer DEF ResponseOK, Contains
<1>3. OutcomeFor(s, m.initiator, o)
  BY <1>1, <1>2, AutoSendOK
<1>4. \/ \E c \in o.down : x = [m EXCEPT !.stage = "sent", !.conn = c, !.dir = "down", !.nodes = o.nodes]
      \/ \E c \in o.up : x = [m EXCEPT !.stage = "sent", !.conn = c, !.dir = "up", !.nodes = o.nodes, !.by = Owner[c]]
  BY DEF Copies
<1>5. ASSUME NEW c \in Conn, NEW dir \in {"up", "down"}, NEW by \in Nodes,
             dir = "up" => Owner[c] \in Servers,
             dir = "down" /\ Owner[c] \in Peers => Owner[c] = m.initiator,
             x = [m EXCEPT !.stage = "sent", !.conn = c, !.dir = dir, !.nodes = o.nodes, !.by = by]
      PROVE  GoodTask(x)
  <2>1. x \in ResponseTask
    BY <1>3, <1>5 DEF ResponseTask, OutcomeFor, NodesFor
  <2>2. /\ x.initiator = m.initiator /\ x.path = m.path /\ x.to = m.to
        /\ x.nodes = o.nodes /\ x.conn = c /\ x.dir = dir
    BY <1>5 DEF ResponseTask
  <2>3. ResponseOK(x)
    BY <1>3, <1>5, <2>2 DEF ResponseOK, OutcomeFor, NodesFor
  <2> QED  BY <2>1, <2>3 DEF GoodTask
<1>6. CASE \E c \in o.down : x = [m EXCEPT !.stage = "sent", !.conn = c, !.dir = "down", !.nodes = o.nodes]
  <2>1. PICK c \in o.down : x = [m EXCEPT !.stage = "sent", !.conn = c, !.dir = "down", !.nodes = o.nodes]
    BY <1>6
  <2>2. m.by \in Nodes /\ c \in Conn /\ (Owner[c] \in Peers => Owner[c] = m.initiator)
    BY <1>3 DEF ResponseTask, OutcomeFor
  <2>3. x = [m EXCEPT !.stage = "sent", !.conn = c, !.dir = "down", !.nodes = o.nodes, !.by = m.by]
    BY <2>1 DEF ResponseTask
  <2> QED  BY <1>5, <2>2, <2>3
<1>7. CASE \E c \in o.up : x = [m EXCEPT !.stage = "sent", !.conn = c, !.dir = "up", !.nodes = o.nodes, !.by = Owner[c]]
  <2>1. PICK c \in o.up : x = [m EXCEPT !.stage = "sent", !.conn = c, !.dir = "up", !.nodes = o.nodes, !.by = Owner[c]]
    BY <1>7
  <2>2. c \in Conn /\ Owner[c] \in Servers /\ Owner[c] \in Nodes
    BY <1>3 DEF OutcomeFor, ConnectedServers, Nodes
  <2> QED  BY <1>5, <2>1, <2>2
<1> QED  BY <1>4, <1>6, <1>7

\* A stage says nothing about what a task carries.
LEMMA StageGood ==
  ASSUME NEW t, GoodTask(t), NEW stage,
         t.kind = "info" => stage = "received",
         t.kind = "request" => stage \in {"received", "scan", "found", "forward"},
         t.kind = "response" => stage \in {"received", "route"}
  PROVE  GoodTask([t EXCEPT !.stage = stage])
<1> DEFINE u == [t EXCEPT !.stage = stage]
<1>1. CASE t \in InfoTask /\ t.key = Owner[t.conn]
  <2>1. u \in InfoTask /\ u.key = t.key /\ u.conn = t.conn
    BY <1>1 DEF InfoTask
  <2> QED  BY <1>1, <2>1 DEF GoodTask
<1>2. CASE t \in RequestTask /\ RequestOK(t)
  <2>1. /\ u \in RequestTask /\ u.key = t.key /\ u.conn = t.conn /\ u.path = t.path
        /\ u.initiator = t.initiator /\ u.hops = t.hops
    BY <1>2 DEF RequestTask
  <2> QED  BY <1>2, <2>1 DEF GoodTask, RequestOK
<1>3. CASE t \in ResponseTask /\ ResponseOK(t)
  <2>1. /\ u \in ResponseTask /\ u.conn = t.conn /\ u.path = t.path /\ u.dir = t.dir
        /\ u.initiator = t.initiator /\ u.to = t.to /\ u.nodes = t.nodes
    BY <1>3 DEF ResponseTask
  <2> QED  BY <1>3, <2>1 DEF GoodTask, ResponseOK
<1> QED  BY <1>1, <1>2, <1>3 DEF GoodTask

LEMMA InfoGood == \A c \in Conn : GoodTask(Info(c))
BY NetFacts DEF Info, InfoTask, GoodTask

\* PeerAPI::search_peer starts a path, forwarding continues it.
LEMMA NewRequestGood ==
  ASSUME NEW c \in Conn, NEW target, <<c, target>> \in Searches
  PROVE  GoodTask(Request(c, Owner[c], target, MaxHops, <<Owner[c]>>))
<1> DEFINE r == Request(c, Owner[c], target, MaxHops, <<Owner[c]>>)
           path == <<Owner[c]>>
<1>1. Owner[c] \in Peers /\ Owner[c] \in Nodes /\ target \in Peers /\ MaxHops \in Nat
  BY SearchAssumption DEF SearchAssumption, Nodes
<1>2. path \in Seq(Nodes) /\ Len(path) = 1 /\ path[1] = Owner[c]
  BY <1>1
<1>3. r \in RequestTask
  BY <1>1, <1>2 DEF Request, RequestTask
<1>4. PathFrom(Owner[c], path)
  BY <1>2 DEF PathFrom, IsWalk
<1>5. RequestOK(r)
  BY <1>1, <1>2, <1>4 DEF Request, RequestOK, Last
<1> QED  BY <1>3, <1>5 DEF GoodTask

LEMMA ForwardedRequestGood ==
  ASSUME NEW t \in RequestTask, RequestOK(t), t.hops > 0,
         NEW c \in ConnectedServers(At[t.conn])
  PROVE  GoodTask(Request(c, t.initiator, t.target, t.hops - 1, Append(t.path, At[t.conn])))
<1> DEFINE path == Append(t.path, At[t.conn])
           r == Request(c, t.initiator, t.target, t.hops - 1, path)
<1>1. /\ t.conn \in Conn /\ t.initiator \in Peers /\ t.initiator \in Nodes
      /\ t.target \in Peers /\ t.path \in Seq(Nodes) /\ t.hops \in 0 .. MaxHops
      /\ c \in Conn /\ Owner[c] = At[t.conn]
  BY DEF RequestTask, ConnectedServers, Nodes
<1>2. /\ path \in Seq(Nodes) /\ PathFrom(t.initiator, path)
      /\ Len(path) = Len(t.path) + 1 /\ Last(path) = At[t.conn]
  BY <1>1, PathAppend DEF RequestOK
<1>3. r \in RequestTask
  BY <1>1, <1>2, SearchAssumption DEF Request, RequestTask, SearchAssumption
<1>4. r.hops + Len(r.path) = MaxHops + 1
  BY <1>1, <1>2, LenProperties, SearchAssumption DEF Request, RequestOK, SearchAssumption
<1>5. RequestOK(r)
  BY <1>1, <1>2, <1>4 DEF Request, RequestOK
<1> QED  BY <1>3, <1>5 DEF GoodTask

\* A packet may label the connection it arrives on with its key.
LEMMA KeyFits ==
  ASSUME NEW t, GoodTask(t), t.kind = "response" => t.dir = "up"
  PROVE  t.key \in Nodes /\ (Owner[t.conn] \in Peers => t.key = Owner[t.conn])
<1>1. CASE t \in InfoTask /\ t.key = Owner[t.conn]
  BY <1>1 DEF InfoTask
<1>2. CASE t \in RequestTask /\ RequestOK(t)
  <2>1. t.initiator \in Peers /\ t.path \in Seq(Nodes) /\ PathFrom(t.initiator, t.path)
        /\ t.key = t.initiator /\ Last(t.path) = Owner[t.conn]
    BY <1>2 DEF RequestTask, RequestOK
  <2>2. Len(t.path) \in 1 .. Len(t.path)
    BY <2>1, LenProperties DEF PathFrom
  <2>3. Owner[t.conn] \in Servers \cup {t.initiator}
    BY <2>1, <2>2, PathPeer DEF Last
  <2> QED  BY <2>1, <2>3, NetAssumption DEF NetAssumption, Nodes
<1>3. CASE t \in ResponseTask /\ ResponseOK(t)
  <2>1. t.kind = "response" /\ t.key \in Nodes
    BY <1>3 DEF ResponseTask
  <2> QED  BY <1>3, <2>1, NetAssumption DEF ResponseOK, NetAssumption
<1> QED  BY <1>1, <1>2, <1>3 DEF GoodTask

-----------------------------------------------------------------------------
(* The invariant holds initially and every step preserves it *)

LEMMA InitIInv == Init => IInv
<1> SUFFICES ASSUME Init PROVE IInv
  OBVIOUS
<1>1. LabelsOK
  BY NetFacts DEF Init, LabelsOK, PeerLabels
<1>2. FlagsOK
  BY DEF Init, FlagsOK
<1> QED  BY <1>1, <1>2 DEF Init, IInv, TasksOK, DeliveredOK

\* A handler that only exchanges its task for good ones.
LEMMA ReplaceGood ==
  ASSUME IInv, NEW t \in tasks, NEW new, Replace(t, new), \A x \in new : GoodTask(x)
  PROVE  TasksOK'
BY DEF IInv, TasksOK, Replace

LEMMA AdvanceGood ==
  ASSUME IInv, NEW t \in tasks, NEW stage, Advance(t, stage),
         t.kind = "info" => stage = "received",
         t.kind = "request" => stage \in {"received", "scan", "found", "forward"},
         t.kind = "response" => stage \in {"received", "route"}
  PROVE  TasksOK'
<1>1. GoodTask([t EXCEPT !.stage = stage])
  BY StageGood DEF IInv, TasksOK
<1> QED  BY <1>1, ReplaceGood DEF Advance

LEMMA EnvironmentStep ==
  ASSUME IInv, Environment
  PROVE  IInv'
<1>1. ASSUME NEW c \in Conn, AddPeer(c)
      PROVE  IInv'
  <2>1. LabelsOK'
    BY <1>1 DEF AddPeer, IInv, LabelsOK, PeerLabels
  <2>2. FlagsOK'
    BY <1>1 DEF AddPeer, IInv, FlagsOK
  <2>3. TasksOK'
    BY <1>1, InfoGood DEF AddPeer, IInv, TasksOK
  <2> QED  BY <1>1, <2>1, <2>2, <2>3 DEF AddPeer, IInv, DeliveredOK
<1>2. ASSUME NEW c \in Conn, RemovePeer(c)
      PROVE  IInv'
  <2>1. LabelsOK'
    BY <1>2 DEF RemovePeer, IInv, LabelsOK, PeerLabels
  <2>2. TasksOK'
    BY <1>2 DEF RemovePeer, IInv, TasksOK
  <2> QED  BY <1>2, <2>1, <2>2 DEF RemovePeer, IInv, FlagsOK, DeliveredOK
<1>3. ASSUME NEW c \in Conn, Announce(c)
      PROVE  IInv'
  <2>1. TasksOK'
    BY <1>3, InfoGood DEF Announce, IInv, TasksOK
  <2> QED  BY <1>3, <2>1 DEF Announce, IInv, LabelsOK, PeerLabels, FlagsOK, DeliveredOK
<1>4. ASSUME NEW q \in Searches, SearchPeer(q[1], q[2])
      PROVE  IInv'
  <2>1. q[1] \in Conn /\ <<q[1], q[2]>> \in Searches
    BY SearchAssumption DEF SearchAssumption
  <2>2. TasksOK'
    BY <1>4, <2>1, NewRequestGood DEF SearchPeer, IInv, TasksOK
  <2> QED  BY <1>4, <2>1, <2>2 DEF SearchPeer, IInv, LabelsOK, PeerLabels, FlagsOK, DeliveredOK
<1>5. ASSUME NEW s \in Servers, NEW target \in Peers, Expire(s, target)
      PROVE  IInv'
  BY <1>5 DEF Expire, IInv, LabelsOK, PeerLabels, FlagsOK, TasksOK, DeliveredOK
<1> QED  BY <1>1, <1>2, <1>3, <1>4, <1>5 DEF Environment

LEMMA RelabelStep ==
  ASSUME IInv, NEW t \in tasks, SetPeerKey(t) \/ HandleInfo(t)
  PROVE  IInv'
<1>1. GoodTask(t) /\ t.conn \in Conn
  BY KindOf DEF IInv, TasksOK
<1>2. CASE SetPeerKey(t)
  <2>1. t.key \in Nodes /\ (Owner[t.conn] \in Peers => t.key = Owner[t.conn])
    BY <1>1, <1>2, KeyFits DEF SetPeerKey
  <2>2. LabelsOK'
    BY <1>1, <1>2, <2>1 DEF SetPeerKey, IInv, LabelsOK, PeerLabels
  <2>3. TasksOK'
    BY <1>2, AdvanceGood DEF SetPeerKey
  <2> QED  BY <1>2, <2>2, <2>3 DEF SetPeerKey, IInv, FlagsOK, DeliveredOK
<1>3. CASE HandleInfo(t)
  <2>1. FlagsOK'
    BY <1>1, <1>3 DEF HandleInfo, IInv, FlagsOK
  <2>2. TasksOK'
    BY <1>3, ReplaceGood DEF HandleInfo
  <2> QED  BY <1>3, <2>1, <2>2 DEF HandleInfo, IInv, LabelsOK, PeerLabels, DeliveredOK
<1> QED  BY <1>2, <1>3

LEMMA RequestStep ==
  ASSUME IInv, NEW t \in tasks,
         \/ LookupCache(t) \/ ScanPeers(t) \/ ReplyToInitiator(t) \/ ForwardRequest(t)
  PROVE  IInv'
<1> DEFINE s == At[t.conn]
           back == Labelled(s, t.initiator)
<1>1. t.kind = "request"
  BY DEF LookupCache, ScanPeers, ReplyToInitiator, ForwardRequest
<1>2. /\ t \in RequestTask /\ RequestOK(t) /\ LabelsOK
      /\ s \in Servers /\ t.target \in Peers
  BY <1>1, KindOf, NetFacts DEF IInv, TasksOK, RequestTask
<1>3. \A c \in back : GoodTask(Answer(s, t, c))
  BY <1>2, AnswerGood
<1>4. ASSUME NEW c \in back, Replace(t, {Answer(s, t, c)})
      PROVE  TasksOK'
  BY <1>3, <1>4, ReplaceGood
<1>5. CASE LookupCache(t)
  <2>1. CASE t.target \in cache[s] /\ back # {}
    BY <1>4, <1>5, <2>1 DEF LookupCache, IInv, LabelsOK, PeerLabels, FlagsOK, DeliveredOK
  <2>2. CASE ~(t.target \in cache[s] /\ back # {})
    <3>1. Advance(t, "scan")
      BY <1>5, <2>2 DEF LookupCache
    <3>2. TasksOK'
      BY <1>1, <3>1, AdvanceGood
    <3> QED  BY <1>5, <3>2 DEF LookupCache, IInv, LabelsOK, PeerLabels, FlagsOK, DeliveredOK
  <2> QED  BY <2>1, <2>2
<1>6. CASE ScanPeers(t)
  <2>1. Advance(t, "found") \/ Advance(t, "forward")
    BY <1>6 DEF ScanPeers
  <2>2. TasksOK'
    BY <1>1, <2>1, AdvanceGood
  <2>3. cache' \in [Servers -> SUBSET Peers]
    BY <1>2, <1>6 DEF ScanPeers, IInv
  <2> QED  BY <1>6, <2>2, <2>3 DEF ScanPeers, IInv, LabelsOK, PeerLabels, FlagsOK, DeliveredOK
<1>7. CASE ReplyToInitiator(t)
  <2>1. CASE back # {}
    BY <1>4, <1>7, <2>1 DEF ReplyToInitiator, IInv, LabelsOK, PeerLabels, FlagsOK, DeliveredOK
  <2>2. CASE back = {}
    <3>1. Advance(t, "forward")
      BY <1>7, <2>2 DEF ReplyToInitiator
    <3>2. TasksOK'
      BY <1>1, <3>1, AdvanceGood
    <3> QED  BY <1>7, <3>2 DEF ReplyToInitiator, IInv, LabelsOK, PeerLabels, FlagsOK, DeliveredOK
  <2> QED  BY <2>1, <2>2
<1>8. CASE ForwardRequest(t)
  <2> DEFINE sent == {Request(c, t.initiator, t.target, t.hops - 1, Append(t.path, s)) :
                        c \in {d \in ConnectedServers(s) : label[d] # Closed}}
  <2>1. Replace(t, IF t.hops > 0 THEN sent ELSE {})
    BY <1>8 DEF ForwardRequest
  <2>2. t.hops > 0 => \A x \in sent : GoodTask(x)
    BY <1>2, ForwardedRequestGood
  <2>3. TasksOK'
    <3> HIDE DEF sent
    <3> QED  BY <2>1, <2>2, ReplaceGood
  <2> QED  BY <1>8, <2>3 DEF ForwardRequest, IInv, LabelsOK, PeerLabels, FlagsOK, DeliveredOK
<1> QED  BY <1>5, <1>6, <1>7, <1>8

LEMMA ResponseStep ==
  ASSUME IInv, NEW t \in tasks, HandleResponse(t) \/ RouteResponse(t) \/ ReceiveResponse(t)
  PROVE  IInv'
<1> DEFINE s == At[t.conn]
           n == Owner[t.conn]
<1>1. t.kind = "response"
  BY DEF HandleResponse, RouteResponse, ReceiveResponse
<1>2. /\ GoodTask(t) /\ t \in ResponseTask /\ ResponseOK(t) /\ LabelsOK /\ FlagsOK
      /\ s \in Servers /\ n \in Nodes /\ t.conn \in Conn
  BY <1>1, KindOf, NetFacts DEF IInv, TasksOK, ResponseTask
<1>3. CASE HandleResponse(t)
  <2>1. GoodTask([t EXCEPT !.stage = "route"])
    BY <1>1, <1>2, StageGood
  <2>2. PICK out \in Forwarded(s, t) :
          Replace(t, out \cup (IF t.to = s THEN {} ELSE {[t EXCEPT !.stage = "route"]}))
    BY <1>3 DEF HandleResponse
  <2>3. \A x \in out : GoodTask(x)
    BY <1>2, ForwardedGood
  <2>4. TasksOK'
    BY <2>1, <2>2, <2>3, ReplaceGood
  <2> QED  BY <1>3, <2>4 DEF HandleResponse, IInv, LabelsOK, PeerLabels, FlagsOK, DeliveredOK
<1>4. CASE RouteResponse(t)
  <2>1. Replace(t, {}) \/ \E o \in AutoSend(s, t.to, t.key, t.nodes) : Replace(t, Copies(t, o))
    BY <1>4 DEF RouteResponse
  <2>2. \A o \in AutoSend(s, t.to, t.key, t.nodes) : \A x \in Copies(t, o) : GoodTask(x)
    BY <1>2, CopiesGood
  <2>3. TasksOK'
    BY <2>1, <2>2, ReplaceGood
  <2> QED  BY <1>4, <2>3 DEF RouteResponse, IInv, LabelsOK, PeerLabels, FlagsOK, DeliveredOK
<1>5. CASE ReceiveResponse(t)
  <2>1. CASE n \in Servers
    <3>1. PICK out \in Forwarded(n, t) : Replace(t, out)
      BY <1>5, <2>1 DEF ReceiveResponse
    <3>2. \A x \in out : GoodTask(x)
      BY <1>2, <2>1, ForwardedGood
    <3>3. TasksOK'
      BY <3>1, <3>2, ReplaceGood
    <3> QED  BY <1>5, <2>1, <3>3 DEF ReceiveResponse, IInv, LabelsOK, PeerLabels, FlagsOK, DeliveredOK
  <2>2. CASE n \notin Servers
    <3>1. n \in Peers /\ t.dir = "down" /\ n = t.initiator
      BY <1>2, <1>5, <2>2, NetFacts DEF ReceiveResponse, ResponseOK, Nodes
    <3>2. delivered' = delivered \cup {[to |-> n, pkt |-> t]} /\ Replace(t, {})
      BY <1>5, <2>2 DEF ReceiveResponse
    <3>3. TasksOK'
      BY <3>2, ReplaceGood
    <3>4. DeliveredOK'
      BY <1>2, <3>1, <3>2 DEF IInv, DeliveredOK
    <3> QED  BY <1>5, <3>3, <3>4 DEF ReceiveResponse, IInv, LabelsOK, PeerLabels, FlagsOK
  <2> QED  BY <2>1, <2>2
<1> QED  BY <1>3, <1>4, <1>5

\* A rejected answer changes labels like a failure and a reconnection do.
LEMMA RejectStep ==
  ASSUME IInv, NEW t \in tasks, RejectResponse(t)
  PROVE  IInv'
<1> DEFINE c == t.conn
<1>1. c \in Conn /\ Owner[c] \in Peers
  BY KindOf DEF RejectResponse, IInv, TasksOK, ResponseTask
<1>2. PICK lost \in SUBSET {u \in tasks : u.conn = c /\ u.stage = "sent"}, again \in BOOLEAN :
        /\ label' = [label EXCEPT ![c] = IF @ = Closed \/ ~again THEN Closed ELSE NoKey]
        /\ tasks' = (tasks \ (lost \cup {t})) \cup (IF label'[c] = NoKey THEN {Info(c)} ELSE {})
  BY DEF RejectResponse
<1>3. LabelsOK'
  BY <1>1, <1>2 DEF IInv, LabelsOK, PeerLabels
<1>4. FlagsOK'
  BY <1>1 DEF RejectResponse, IInv, FlagsOK
<1>5. TasksOK'
  BY <1>1, <1>2, InfoGood DEF IInv, TasksOK
<1> QED  BY <1>3, <1>4, <1>5 DEF RejectResponse, IInv, DeliveredOK

LEMMA NextIInv == IInv /\ [Next]_vars => IInv'
<1> SUFFICES ASSUME IInv, [Next]_vars PROVE IInv'
  OBVIOUS
<1>1. CASE UNCHANGED vars
  BY <1>1 DEF vars, IInv, LabelsOK, PeerLabels, FlagsOK, TasksOK, DeliveredOK
<1>2. CASE Environment
  BY <1>2, EnvironmentStep
<1>3. ASSUME NEW t \in tasks, Handler(t)
      PROVE  IInv'
  BY <1>3, RelabelStep, RequestStep, ResponseStep, RejectStep DEF Handler
<1> QED  BY <1>1, <1>2, <1>3 DEF Next

THEOREM Invariance == Spec => []IInv
BY InitIInv, NextIInv, PTL DEF Spec

-----------------------------------------------------------------------------
(* The properties *)

\* Every variable has its type: the relays never compute a position off the
\* path of a response, whatever the network looks like.
THEOREM TypeCorrect == Spec => []TypeOK
<1>1. IInv => TypeOK
  <2> SUFFICES ASSUME IInv PROVE TypeOK
    OBVIOUS
  <2>1. \A t \in tasks : t \in InfoTask \cup RequestTask \cup ResponseTask
    BY DEF IInv, TasksOK, GoodTask
  <2> QED  BY <2>1 DEF IInv, LabelsOK, FlagsOK, DeliveredOK, TypeOK
<1> QED  BY <1>1, Invariance, PTL

\* Requests carry the walk from their initiator and stay within max_hops
\* (handle_search_request): floods of any network are bounded.
THEOREM RequestsFollowPath == Spec => []RequestFollowsPath
<1>1. IInv => RequestFollowsPath
  BY KindOf DEF IInv, TasksOK, RequestFollowsPath, RequestOK
<1> QED  BY <1>1, Invariance, PTL

\* Responses carry a path that can be retraced, and no relay on it looks for
\* the node before the first (handle_search_response).
THEOREM ResponsesFollowPath == Spec => []ResponseFollowsPath
<1>1. IInv => ResponseFollowsPath
  <2> SUFFICES ASSUME IInv, NEW t \in tasks, t.kind = "response"
               PROVE  /\ PathFrom(t.initiator, t.path)
                      /\ Len(t.path) \in 2 .. MaxHops + 2
                      /\ Contains(t.path, t.to)
                      /\ \A s \in Servers : Position(s, t) # 1
    BY DEF ResponseFollowsPath
  <2>1. t \in ResponseTask /\ ResponseOK(t)
    BY KindOf DEF IInv, TasksOK
  <2>2. \A s \in Servers : Position(s, t) # 1
    BY <2>1, PositionFacts DEF ResponseTask, ResponseOK
  <2> QED  BY <2>1, <2>2 DEF ResponseOK
<1> QED  BY <1>1, Invariance, PTL

\* Answers reach no peer but the one that searched, in any network: relabelled
\* connections between servers never lead a response to a stranger.
THEOREM AnswersReachInitiator == Spec => []DeliveredToInitiator
<1>1. IInv => DeliveredToInitiator
  BY DEF IInv, DeliveredOK, DeliveredToInitiator
<1> QED  BY <1>1, Invariance, PTL

\* Whatever packets relayed for others do to the links between servers, the
\* record of a peer's own connection is never taken for another node's.
THEOREM LabelsOfPeers == Spec => []PeerLabels
<1>1. IInv => PeerLabels
  BY DEF IInv, LabelsOK
<1> QED  BY <1>1, Invariance, PTL
=============================================================================

----------------------------- MODULE SignalNet -----------------------------
(***************************************************************************)
(* The connection layer of the signal servers (src/signal/server.rs,       *)
(* src/signal/peer.rs, src/signal/client.rs).                              *)
(*                                                                         *)
(* Every TCP connection has a client end (its Owner: a peer, or a signal   *)
(* server acting through a SignalClient) and an accepting server (At).     *)
(* The accepting server keeps one Peer record per connection; the field of *)
(* that record everything else depends on is peer_key, here label[c]: it   *)
(* starts as None and is overwritten by the peer_key of EVERY packet that  *)
(* arrives on the connection.  The list a server searches when it looks    *)
(* for a node is the set of its accepted connections; its accept order is  *)
(* abstracted (a search that stops at the first match picks any match).    *)
(***************************************************************************)
EXTENDS Naturals, Sequences, SequencesExt

CONSTANTS
  Servers,      \* public keys of the signal servers
  Peers,        \* public keys of the peers
  Conn,         \* identifiers of TCP connections
  At,           \* At[c]: the server that accepted c
  Owner,        \* Owner[c]: the node that opened c
  NoKey,        \* peer_key = None: nothing has been received on c yet
  Closed        \* c is not in its server's peer list

ASSUME NetAssumption ==
  /\ Servers \cap Peers = {}
  /\ NoKey \notin Servers \cup Peers
  /\ Closed \notin Servers \cup Peers
  /\ Closed # NoKey
  /\ At \in [Conn -> Servers]
  /\ Owner \in [Conn -> Servers \cup Peers]

VARIABLES
  label,        \* label[c]: peer_key of the Peer record, NoKey or Closed
  isSignal      \* isSignal[c]: the is_signal_server flag of the Peer record

Nodes == Servers \cup Peers

AcceptedBy(s) == {c \in Conn : At[c] = s}

\* The SignalClients in connected_servers of s.
ConnectedServers(s) == {c \in Conn : Owner[c] = s}

\* The entries of the peer list of s that carry key k.
Labelled(s, k) == {c \in AcceptedBy(s) : label[c] = k}

Linked(a, b) == \E c \in Conn : Owner[c] = a /\ At[c] = b

\* Consecutive nodes of a path are joined by a connection, client end first.
IsWalk(path) == \A i \in 1 .. Len(path) - 1 : Linked(path[i], path[i + 1])

(***************************************************************************)
(* SignalServer::auto_send_packet for a packet that has a recipient other  *)
(* than s.  The result is the set of possible outcomes: the accepted       *)
(* connections written to (down), the SignalClients written to (up) and    *)
(* the node list the packets leave with.                                   *)
(***************************************************************************)
Outcome(down, up, nodes) == [down |-> down, up |-> up, nodes |-> nodes]

\* Variant with a bug: every open connection gets the packet.
DefaultRouteFloods(s, to, from, nodes) ==
  {Outcome({c \in AcceptedBy(s) : label[c] # Closed}, {}, Append(nodes, s))}

\* Lines 1020-1055.  `peer_key.unwrap()` panics at the first record without a
\* key: the records before it have been written to, nothing else is.
DefaultRoute(s, to, from, nodes) ==
  LET hit  == {c \in AcceptedBy(s) : label[c] # Closed /\ (label[c] = to \/ isSignal[c])}
      path == Append(nodes, s)
  IN  IF from = to THEN {}
      ELSE IF Labelled(s, NoKey) # {}
           THEN {Outcome(sent, {}, path) : sent \in SUBSET (hit \ Labelled(s, NoKey))}
           ELSE {Outcome(hit, IF hit = {} THEN {c \in ConnectedServers(s) : At[c] # from}
                              ELSE {}, path)}

\* Lines 959-1017: a packet whose recipient is on its node list is sent to the
\* last node of the list; if that is s itself the node is popped first.
AutoSend(s, to, from, nodes) ==
  LET last == Last(nodes)
      down == Labelled(s, last)
      up   == {c \in ConnectedServers(s) : At[c] = last}
  IN  IF nodes = <<>> \/ ~Contains(nodes, to) THEN DefaultRoute(s, to, from, nodes)
      ELSE IF last = s THEN DefaultRoute(s, to, from, Front(nodes))
      ELSE IF down # {} THEN {Outcome({c}, {}, nodes) : c \in down}
      ELSE IF up # {} THEN {Outcome({}, {c}, nodes) : c \in up}
      ELSE DefaultRoute(s, to, from, nodes)
=============================================================================

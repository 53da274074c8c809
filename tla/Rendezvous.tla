----------------------------- MODULE Rendezvous -----------------------------
(***************************************************************************)
(* The first half of the UDP rendezvous: a peer asks its signal server to  *)
(* announce a tunnel to another peer, which opens one in return            *)
(* (src/peer/peer_api.rs, src/signal/server.rs, src/connection.rs,         *)
(* src/manager/StunManager.rs).                                            *)
(*                                                                         *)
(* A signature covers the whole packet but its node list, its uuid         *)
(* included; `over` is the uuid the signature was made over.  What follows *)
(* an accepted announcement (the answer, connect_peers, the UDP handshake) *)
(* is reached through SendWaitConnection only and is not modelled, nor is  *)
(* a peer that connects to itself.                                         *)
(***************************************************************************)
EXTENDS Naturals, Sequences

CONSTANTS
  Peers,        \* peers with a connection to the signal server (model values)
  MaxConnects,  \* bound: connect_to_peer calls in a run
  MaxAttempts   \* max_reconnect_attempts of a connection

VARIABLES
  tunnels,      \* tunnels[p]: the peers p has a tunnel for
  toServer,     \* packets in the hands of the server's message tasks
  openTunnels,  \* openTunnels[p]: what the Peer record of p holds
  toPeer,       \* toPeer[p]: packets written to the connection of p
  attempts,     \* attempts[p]: reconnect_attempts
  listening,    \* the peers whose reading task runs
  asked         \* the calls of connect_to_peer so far, oldest first

vars == <<tunnels, toServer, openTunnels, toPeer, attempts, listening, asked>>

Pairs == {pq \in Peers \X Peers : pq[1] # pq[2]}

\* wait_connection: a tunnel of `from` for `for`.
Wait(from, for, uuid, over) == [from |-> from, for |-> for, uuid |-> uuid, over |-> over]

Verified(pkt) == pkt.over = pkt.uuid

Init ==
  /\ tunnels = [p \in Peers |-> {}]
  /\ toServer = {}
  /\ openTunnels = [p \in Peers |-> {}]
  /\ toPeer = [p \in Peers |-> <<>>]
  /\ attempts = [p \in Peers |-> 0]
  /\ listening = Peers
  /\ asked = <<>>

-----------------------------------------------------------------------------
ConnectToPeer(p, q) ==
  LET uuid == Len(asked) + 1 IN
  /\ uuid <= MaxConnects
  /\ asked' = Append(asked, <<p, q>>)
  /\ tunnels' = [tunnels EXCEPT ![p] = @ \cup {q}]
  /\ toServer' = toServer \cup {Wait(p, q, uuid, uuid)}
  /\ UNCHANGED <<openTunnels, toPeer, attempts, listening>>

\* add_open_tunnel, and the wait_connection branch of handle_message: it looks
\* for a tunnel of the target for the target, finds none, and writes a new
\* packet with the old signature and the key of the sender for a uuid.
PeerReady(pkt) ==
  /\ pkt \in toServer
  /\ toServer' = toServer \ {pkt}
  /\ openTunnels' = [openTunnels EXCEPT ![pkt.from] = @ \cup {pkt.for}]
  /\ pkt.for \notin openTunnels[pkt.for]
  /\ toPeer' = [toPeer EXCEPT ![pkt.for] =
                  Append(@, Wait(pkt.from, pkt.for, pkt.from, pkt.over))]
  /\ UNCHANGED <<tunnels, attempts, listening, asked>>

Arrived(q) == q \in listening /\ toPeer[q] # <<>>

\* receive_message accepts the packet and send_wait_connection opens a tunnel.
SendWaitConnection(q) ==
  /\ Arrived(q) /\ Verified(Head(toPeer[q]))
  /\ tunnels' = [tunnels EXCEPT ![q] = @ \cup {Head(toPeer[q]).from}]
  /\ toPeer' = [toPeer EXCEPT ![q] = Tail(@)]
  /\ UNCHANGED <<toServer, openTunnels, attempts, listening, asked>>

\* receive_message rejects the packet, which get_response takes for the loss of
\* the connection: it reconnects, on a socket where nothing is on its way and
\* with a new Peer record at the server, or has used up the attempts and stops.
\* Reconnecting in detail: module Reconnect.
VerificationFails(q) ==
  /\ Arrived(q) /\ ~Verified(Head(toPeer[q]))
  /\ toPeer' = [toPeer EXCEPT ![q] = <<>>]
  /\ IF attempts[q] < MaxAttempts
     THEN /\ attempts' = [attempts EXCEPT ![q] = @ + 1]
          /\ openTunnels' = [openTunnels EXCEPT ![q] = {}]
          /\ UNCHANGED listening
     ELSE /\ listening' = listening \ {q}
          /\ UNCHANGED <<attempts, openTunnels>>
  /\ UNCHANGED <<tunnels, toServer, asked>>

-----------------------------------------------------------------------------
Next ==
  \/ \E pq \in Pairs : ConnectToPeer(pq[1], pq[2])
  \/ \E pkt \in toServer : PeerReady(pkt)
  \/ \E q \in Peers : SendWaitConnection(q) \/ VerificationFails(q)

\* Message tasks and reading tasks run; connect_to_peer is called at will.
Fairness ==
  /\ WF_vars(\E pkt \in toServer : PeerReady(pkt))
  /\ \A q \in Peers : WF_vars(SendWaitConnection(q) \/ VerificationFails(q))

FairSpec == Init /\ [][Next]_vars /\ Fairness

\* A client "creates P2P tunnels" and "handles incoming connections"
\* (README.md:145-146): a peer that is asked for a tunnel opens one.
OpensTunnel ==
  \A pq \in Pairs :
    (\E i \in DOMAIN asked : asked[i] = pq) ~> pq[1] \in tunnels[pq[2]]
=============================================================================

----------------------------- MODULE Reconnect -----------------------------
(***************************************************************************)
(* A peer's connection to its signal server (src/connection.rs) and the    *)
(* task of ConnectionManager::add_connection that reads from it.           *)
(*                                                                         *)
(* One task reads packets in a loop that ends with the first error; other  *)
(* tasks send.  Whoever sees the connection fail reconnects, one at a      *)
(* time (the reconnect_attempts lock), and replaces the halves of the      *)
(* socket, for which the reading task must not be reading.                 *)
(***************************************************************************)
EXTENDS Naturals, FiniteSets

CONSTANTS
  Senders,      \* tasks that call send_packet
  MaxAttempts,  \* max_reconnect_attempts (10)
  MaxFaults,    \* bound: faults of the network in a run
  NoTask

Reader == "reader"

ASSUME ReconnectAssumption ==
  /\ IsFiniteSet(Senders)
  /\ Reader \notin Senders /\ NoTask \notin Senders \cup {Reader}
  /\ MaxAttempts \in Nat \ {0}
  /\ MaxFaults \in Nat

Tasks == Senders \cup {Reader}

VARIABLES
  up,           \* the server accepts connections
  socket,       \* the socket of the Connection: alive or not
  fresh,        \* the socket handle_connection_loss has opened, not yet stored
  pc,           \* what each task does
  again,        \* the reader is in the second half of get_response
  holder,       \* the task in handle_connection_loss
  attempts,     \* reconnect_attempts; before that, the attempts of establish_connection
  faults,       \* faults so far: lost sockets, unreadable packets
  refused       \* connects that failed

vars == <<up, socket, fresh, pc, again, holder, attempts, faults, refused>>

Goto(t, l) == pc' = [pc EXCEPT ![t] = l]

Init ==
  /\ up \in BOOLEAN
  /\ socket = "none" /\ fresh = "none"
  /\ pc = [t \in Tasks |-> IF t = Reader THEN "establish" ELSE "off"]
  /\ again = FALSE
  /\ holder = NoTask
  /\ attempts = 0 /\ faults = 0 /\ refused = 0

-----------------------------------------------------------------------------
(* establish_connection *)

\* Variant with a bug: the attempts of the start are not given back.
EstablishKeepsAttempts ==
  /\ pc[Reader] = "establish" /\ up
  /\ socket' = "alive"
  /\ pc' = [t \in Tasks |-> IF t = Reader THEN "ask" ELSE "idle"]
  /\ UNCHANGED <<up, fresh, again, holder, attempts, faults, refused>>

Establish ==
  /\ pc[Reader] = "establish" /\ up
  /\ socket' = "alive"
  /\ attempts' = 0
  /\ pc' = [t \in Tasks |-> IF t = Reader THEN "ask" ELSE "idle"]
  /\ UNCHANGED <<up, fresh, again, holder, faults, refused>>

\* The last failure makes `expect` panic: the peer does not start.
EstablishFails ==
  /\ pc[Reader] = "establish" /\ ~up
  /\ attempts' = attempts + 1
  /\ Goto(Reader, IF attempts' < MaxAttempts THEN "establish" ELSE "panicked")
  /\ UNCHANGED <<up, socket, fresh, again, holder, faults, refused>>

-----------------------------------------------------------------------------
(* The reading task: get_response, answered by process_messages *)

\* process_messages takes the GetResponse message and the reader lock.
Ask ==
  /\ pc[Reader] = "ask"
  /\ Goto(Reader, "receive")
  /\ UNCHANGED <<up, socket, fresh, again, holder, attempts, faults, refused>>

\* A packet arrives and is handed on; the loop calls get_response again.
Receive ==
  /\ pc[Reader] = "receive" /\ socket = "alive"
  /\ again' = FALSE
  /\ Goto(Reader, "ask")
  /\ UNCHANGED <<up, socket, fresh, holder, attempts, faults, refused>>

\* Variant with a bug: the first error ends the loop.
ReceiveFailsForGood ==
  /\ pc[Reader] = "receive"
  /\ \/ socket = "dead" /\ UNCHANGED faults
     \/ socket = "alive" /\ faults < MaxFaults /\ faults' = faults + 1
  /\ Goto(Reader, "stopped")
  /\ UNCHANGED <<up, socket, fresh, again, holder, attempts, refused>>

\* receive_message fails and the answer channel is dropped: the first time
\* that is taken for the loss of the connection, the second time the error
\* ends the loop for good.
ReceiveFails ==
  /\ pc[Reader] = "receive"
  /\ \/ socket = "dead" /\ UNCHANGED faults
     \/ \* a packet that cannot be parsed or verified
        socket = "alive" /\ faults < MaxFaults /\ faults' = faults + 1
  /\ Goto(Reader, IF again THEN "stopped" ELSE "lost")
  /\ UNCHANGED <<up, socket, fresh, again, holder, attempts, refused>>

-----------------------------------------------------------------------------
(* send_packet *)

\* A write to a dead socket may be accepted by the kernel and lost.
Send(s) ==
  /\ pc[s] = "idle"
  /\ socket = "dead"
  /\ Goto(s, "lost")
  /\ UNCHANGED <<up, socket, fresh, again, holder, attempts, faults, refused>>

-----------------------------------------------------------------------------
(* handle_connection_loss *)

\* The function returns: after success the reader asks once more and the
\* sender writes its packet; after an error the reader's loop ends and the
\* sender's caller has the error.
Return(t, ok) ==
  /\ holder' = NoTask
  /\ again' = IF t = Reader THEN ok ELSE again
  /\ Goto(t, IF t = Reader THEN IF ok THEN "ask" ELSE "stopped" ELSE "idle")

\* Variant with a bug: the attempts are counted but not limited.
EnterUnlimited(t) ==
  /\ pc[t] = "lost" /\ holder = NoTask
  /\ attempts' = attempts + 1
  /\ holder' = t
  /\ Goto(t, "connect")
  /\ UNCHANGED <<up, socket, fresh, again, faults, refused>>

\* The attempts lock is taken, and held to the end.
Enter(t) ==
  /\ pc[t] = "lost" /\ holder = NoTask
  /\ IF attempts >= MaxAttempts
     THEN Return(t, FALSE) /\ UNCHANGED attempts
     ELSE /\ attempts' = attempts + 1
          /\ holder' = t
          /\ Goto(t, "connect")
          /\ UNCHANGED again
  /\ UNCHANGED <<up, socket, fresh, faults, refused>>

Connect(t) ==
  /\ pc[t] = "connect"
  /\ IF up
     THEN /\ fresh' = "alive"
          /\ Goto(t, "store")
          /\ UNCHANGED <<again, holder, refused>>
     ELSE /\ refused' = refused + 1
          /\ Return(t, FALSE)
          /\ UNCHANGED fresh
  /\ UNCHANGED <<up, socket, attempts, faults>>

\* Variant with a bug: the reading task keeps the reader lock after an error.
StoreWhileLost(t) ==
  /\ pc[t] = "store" /\ pc[Reader] \notin {"receive", "lost"}
  /\ socket' = fresh
  /\ fresh' = "none"
  /\ Goto(t, "info")
  /\ UNCHANGED <<up, again, holder, attempts, faults, refused>>

\* The halves are replaced under the reader lock, which process_messages
\* holds for as long as it waits for a packet.
Store(t) ==
  /\ pc[t] = "store" /\ pc[Reader] # "receive"
  /\ socket' = fresh
  /\ fresh' = "none"
  /\ Goto(t, "info")
  /\ UNCHANGED <<up, again, holder, attempts, faults, refused>>

\* The info packet; on a socket that is dead again the write may fail.
SendInfo(t) ==
  /\ pc[t] = "info"
  /\ \/ Return(t, TRUE)
     \/ socket = "dead" /\ Return(t, FALSE)
  /\ UNCHANGED <<up, socket, fresh, attempts, faults, refused>>

-----------------------------------------------------------------------------
(* The network *)

Killed(s) == IF s = "alive" THEN "dead" ELSE s

SocketLost ==
  /\ faults < MaxFaults
  /\ \/ socket = "alive" /\ socket' = "dead" /\ UNCHANGED fresh
     \/ fresh = "alive" /\ fresh' = "dead" /\ UNCHANGED socket
  /\ faults' = faults + 1
  /\ UNCHANGED <<up, pc, again, holder, attempts, refused>>

ServerStops ==
  /\ up /\ faults < MaxFaults
  /\ up' = FALSE
  /\ socket' = Killed(socket) /\ fresh' = Killed(fresh)
  /\ faults' = faults + 1
  /\ UNCHANGED <<pc, again, holder, attempts, refused>>

ServerStarts ==
  /\ ~up
  /\ up' = TRUE
  /\ UNCHANGED <<socket, fresh, pc, again, holder, attempts, faults, refused>>

-----------------------------------------------------------------------------
HandleLoss(t) == Enter(t) \/ Connect(t) \/ Store(t) \/ SendInfo(t)

Next ==
  \/ Establish \/ EstablishFails
  \/ Ask \/ Receive \/ ReceiveFails
  \/ \E s \in Senders : Send(s)
  \/ \E t \in Tasks : HandleLoss(t)
  \/ SocketLost \/ ServerStops \/ ServerStarts

Spec == Init /\ [][Next]_vars

\* tokio polls every runnable task and its locks are fair; nothing is assumed
\* of packets, faults or of when tasks send.
Fairness ==
  /\ WF_vars(Establish \/ EstablishFails)
  /\ WF_vars(Ask)
  /\ WF_vars(socket = "dead" /\ ReceiveFails)
  /\ \A t \in Tasks :
       SF_vars(Enter(t)) /\ WF_vars(Connect(t)) /\ WF_vars(Store(t)) /\ WF_vars(SendInfo(t))

FairSpec == Spec /\ Fairness

-----------------------------------------------------------------------------
(* Properties *)

Stage ==
  {"establish", "panicked", "off", "idle", "ask", "receive", "stopped", "lost", "connect",
   "store", "info"}

\* Every variable has its type.
TypeOK ==
  /\ up \in BOOLEAN /\ again \in BOOLEAN
  /\ socket \in {"none", "alive", "dead"} /\ fresh \in {"none", "alive", "dead"}
  /\ pc \in [Tasks -> Stage]
  /\ holder \in Tasks \cup {NoTask}
  /\ attempts \in 0 .. MaxAttempts
  /\ faults \in 0 .. MaxFaults
  /\ refused \in Nat

\* One fault costs every task at most one of the attempts that are never given
\* back: a reader and n senders may use up n + 1 for a single lost socket.
FaultCost ==
  pc[Reader] # "establish" /\ pc[Reader] # "panicked" =>
    attempts <= Cardinality(Tasks) * faults + refused

\* One fault never makes a peer deaf while its server accepts connections: it
\* stops listening only after a refused connect, a second fault, or when earlier
\* reconnections have used up the attempts.
SingleFaultSurvived ==
  pc[Reader] = "stopped" => refused > 0 \/ attempts = MaxAttempts \/ faults >= 2

\* The reading task never hangs: again and again it waits on a live socket, or
\* it has ended, although the lock it needs may be held by a sender that needs
\* the reader lock.
ReaderProgress ==
  []<>(\/ pc[Reader] \in {"stopped", "panicked"}
       \/ pc[Reader] = "receive" /\ socket = "alive")
=============================================================================

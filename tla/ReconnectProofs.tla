-------------------------- MODULE ReconnectProofs --------------------------
(***************************************************************************)
(* Proofs about Reconnect, for every finite number of sending tasks, every  *)
(* number of attempts and of faults.                                       *)
(*                                                                         *)
(* Attempts are never given back, and any task may use them up, so that    *)
(* the invariant has to say who can still reconnect without another fault: *)
(* Owing.  Each step but a fault or a refused connect moves a task out of  *)
(* that set whenever it counts an attempt.                                 *)
(***************************************************************************)
EXTENDS Reconnect, TLAPS, FiniteSetTheorems

Started == pc[Reader] \notin {"establish", "panicked"}

\* One task at a time is in handle_connection_loss, and only there is there a
\* second socket.
Control ==
  /\ \A t \in Tasks : pc[t] \in {"connect", "store", "info"} <=> holder = t
  /\ \A t \in Tasks : pc[t] = "store" => fresh # "none"
  /\ fresh # "none" => holder \in Tasks /\ pc[holder] = "store"
  /\ \A s \in Senders : pc[s] \in {"off", "idle", "lost", "connect", "store", "info"}
  /\ pc[Reader] \notin {"off", "idle"}
  /\ Started => socket # "none"
  /\ ~Started => /\ socket = "none" /\ fresh = "none"
                 /\ \A s \in Senders : pc[s] = "off"
  /\ pc[Reader] = "establish" => attempts < MaxAttempts

\* Tasks that may count one more attempt though nothing fails any more.
Owing ==
  {t \in Tasks : \/ pc[t] = "lost"
                 \/ fresh = "dead"
                 \/ socket = "dead" /\ pc[t] \notin {"connect", "store"}}

Budget ==
  Started => attempts + Cardinality(Owing) <= Cardinality(Tasks) * faults + refused

\* Without a fault nobody reconnects; after one, a new socket stays alive.
FirstFault ==
  /\ faults = 0 => /\ socket # "dead" /\ ~again /\ pc[Reader] # "stopped"
                   /\ \A t \in Tasks : pc[t] \notin {"lost", "connect", "store", "info"}
  /\ faults < 2 => /\ fresh # "dead"
                   /\ again => socket # "dead"
                   /\ \A t \in Tasks : pc[t] = "info" => socket # "dead"

IInv == TypeOK /\ Control /\ Budget /\ FirstFault /\ SingleFaultSurvived

-----------------------------------------------------------------------------
LEMMA TaskFacts ==
  /\ IsFiniteSet(Tasks) /\ Cardinality(Tasks) \in Nat
  /\ Reader \in Tasks /\ Reader \notin Senders /\ NoTask \notin Tasks
  /\ \A t \in Tasks : t \in Senders \/ t = Reader
BY ReconnectAssumption, FS_AddElement, FS_CardinalityType DEF ReconnectAssumption, Tasks

\* No more tasks than there are owe an attempt, and fewer when one has paid.
LEMMA OwingFacts ==
  ASSUME NEW M \in SUBSET Tasks
  PROVE  /\ Cardinality(M) \in Nat
         /\ Cardinality(M) <= Cardinality(Tasks)
         /\ \A N \in SUBSET M : Cardinality(N) <= Cardinality(M)
         /\ \A N \in SUBSET M : \A t \in M \ N : Cardinality(N) + 1 <= Cardinality(M)
         /\ \A N, t : N \subseteq M \cup {t} /\ N \subseteq Tasks
                        => Cardinality(N) <= Cardinality(M) + 1
<1>1. IsFiniteSet(M) /\ Cardinality(M) \in Nat /\ Cardinality(M) <= Cardinality(Tasks)
  BY TaskFacts, FS_Subset, FS_CardinalityType
<1>2. \A N \in SUBSET M : Cardinality(N) \in Nat /\ Cardinality(N) <= Cardinality(M)
  BY <1>1, FS_Subset, FS_CardinalityType
<1>3. ASSUME NEW N \in SUBSET M, NEW t \in M \ N
      PROVE  Cardinality(N) + 1 <= Cardinality(M)
  <2>1. IsFiniteSet(M \ {t}) /\ Cardinality(M \ {t}) = Cardinality(M) - 1
    BY <1>1, FS_RemoveElement
  <2>2. N \in SUBSET (M \ {t})
    OBVIOUS
  <2>3. Cardinality(N) <= Cardinality(M \ {t})
    BY <2>1, <2>2, FS_Subset
  <2> QED  BY <1>1, <1>2, <2>1, <2>3
<1>4. ASSUME NEW N, NEW t, N \subseteq M \cup {t}, N \subseteq Tasks
      PROVE  Cardinality(N) <= Cardinality(M) + 1
  <2>1. IsFiniteSet(M \cup {t}) /\ Cardinality(M \cup {t}) \in {Cardinality(M), Cardinality(M) + 1}
    BY <1>1, FS_AddElement
  <2>2. Cardinality(N) <= Cardinality(M \cup {t})
    BY <1>4, <2>1, N \in SUBSET (M \cup {t}), FS_Subset
  <2>3. IsFiniteSet(N) /\ Cardinality(N) \in Nat
    BY <1>4, TaskFacts, FS_Subset, FS_CardinalityType
  <2> QED  BY <1>1, <2>1, <2>2, <2>3
<1> QED  BY <1>1, <1>2, <1>3, <1>4

\* A fault pays for one attempt of every task.
LEMMA FaultPays ==
  ASSUME IInv, Started', Started, UNCHANGED <<attempts, refused>>, faults' = faults + 1
  PROVE  Budget'
<1> DEFINE K == Cardinality(Tasks)
<1>1. Owing \in SUBSET Tasks /\ Owing' \in SUBSET Tasks
  BY DEF Owing
<1>2. Cardinality(Owing) \in Nat /\ Cardinality(Owing') \in Nat /\ Cardinality(Owing') <= K
  BY <1>1, OwingFacts
<1>3. attempts \in Nat /\ faults \in Nat /\ refused \in Nat /\ K \in Nat
  BY TaskFacts, ReconnectAssumption DEF IInv, TypeOK, ReconnectAssumption
<1>4. K * (faults + 1) = K * faults + K /\ K * faults \in Nat
  BY <1>3
<1>5. attempts <= K * faults + refused
  <2>1. attempts + Cardinality(Owing) <= K * faults + refused
    BY DEF IInv, Budget
  <2> HIDE DEF K
  <2> QED  BY <2>1, <1>2, <1>3, <1>4
<1>6. attempts + Cardinality(Owing') <= K * (faults + 1) + refused
  <2> HIDE DEF K
  <2> QED  BY <1>2, <1>3, <1>4, <1>5
<1> QED  BY <1>6 DEF Budget

\* A step that counts no attempt and lets nobody owe one keeps the budget.
LEMMA BudgetKept ==
  ASSUME IInv, Started, UNCHANGED <<attempts, faults, refused>>, Owing' \subseteq Owing
  PROVE  Budget'
<1>1. Owing \in SUBSET Tasks /\ Owing' \in SUBSET Owing
  BY DEF Owing
<1>2. /\ Cardinality(Owing) \in Nat /\ Cardinality(Owing') \in Nat
      /\ Cardinality(Owing') <= Cardinality(Owing)
  BY <1>1, OwingFacts
<1>3. attempts \in Nat /\ faults \in Nat /\ refused \in Nat /\ Cardinality(Tasks) * faults \in Nat
  BY TaskFacts, ReconnectAssumption DEF IInv, TypeOK, ReconnectAssumption
<1>4. attempts + Cardinality(Owing) <= Cardinality(Tasks) * faults + refused
  BY DEF IInv, Budget
<1>5. attempts + Cardinality(Owing') <= Cardinality(Tasks) * faults + refused
  BY <1>2, <1>3, <1>4
<1> QED  BY <1>5 DEF Budget

-----------------------------------------------------------------------------
LEMMA InitIInv == Init => IInv
<1> SUFFICES ASSUME Init PROVE IInv
  OBVIOUS
<1> USE TaskFacts DEF Init
<1>1. MaxAttempts > 0 /\ MaxAttempts \in Nat /\ MaxFaults \in Nat
  BY ReconnectAssumption DEF ReconnectAssumption
<1>2. TypeOK
  <2>1. pc \in [Tasks -> Stage]
    BY DEF Stage
  <2>2. attempts \in 0 .. MaxAttempts /\ faults \in 0 .. MaxFaults /\ refused \in Nat
    BY <1>1
  <2> QED  BY <2>1, <2>2 DEF TypeOK
<1>3. Control
  BY <1>1 DEF Control, Started, Tasks
<1> QED  BY <1>2, <1>3 DEF IInv, Budget, FirstFault, SingleFaultSurvived, Started

LEMMA EstablishStep ==
  ASSUME IInv, Establish \/ EstablishFails
  PROVE  IInv'
<1> USE TaskFacts DEF IInv
<1>1. MaxAttempts \in Nat \ {0} /\ attempts < MaxAttempts /\ pc[Reader] = "establish"
  BY ReconnectAssumption DEF ReconnectAssumption, Control, Establish, EstablishFails
<1>2. TypeOK'
  BY <1>1 DEF TypeOK, Stage, Establish, EstablishFails, Goto
<1>3. Control'
  BY <1>1 DEF TypeOK, Control, Started, Tasks, Establish, EstablishFails, Goto
<1>4. Budget'
  <2>1. CASE EstablishFails
    BY <2>1, <1>1 DEF EstablishFails, Goto, TypeOK, Budget, Started
  <2>2. CASE Establish
    <3>1. Owing' = {}
      BY <2>2, <1>1 DEF Owing, Establish, Control, Started, TypeOK, Tasks
    <3>2. Cardinality(Owing') = 0
      BY <3>1, FS_EmptySet
    <3>3. attempts' = 0 /\ faults' \in Nat /\ refused' \in Nat
      BY <2>2, ReconnectAssumption DEF Establish, TypeOK, ReconnectAssumption
    <3>4. Cardinality(Tasks) * faults' \in Nat
      BY <3>3
    <3> QED  BY <3>2, <3>3, <3>4 DEF Budget
  <2> QED  BY <2>1, <2>2
<1>5. FirstFault'
  BY <1>1 DEF FirstFault, TypeOK, Control, Started, Establish, EstablishFails, Goto, Tasks
<1>6. SingleFaultSurvived'
  BY <1>1 DEF SingleFaultSurvived, TypeOK, Establish, EstablishFails, Goto
<1> QED  BY <1>2, <1>3, <1>4, <1>5, <1>6

LEMMA Moved ==
  ASSUME TypeOK, NEW t \in Tasks, NEW l \in Stage, Goto(t, l)
  PROVE  /\ pc' \in [Tasks -> Stage]
         /\ pc'[t] = l
         /\ \A u \in Tasks \ {t} : pc'[u] = pc[u]
BY DEF TypeOK, Goto

LEMMA Numbers ==
  ASSUME TypeOK
  PROVE  /\ MaxAttempts \in Nat /\ MaxFaults \in Nat
         /\ attempts \in Nat /\ attempts <= MaxAttempts
         /\ faults \in Nat /\ faults <= MaxFaults
         /\ refused \in Nat
BY ReconnectAssumption DEF TypeOK, ReconnectAssumption

\* The reading task and the senders notice a fault, or nothing.
LEMMA ReadAndSendStep ==
  ASSUME IInv, Ask \/ Receive \/ ReceiveFails \/ \E s \in Senders : Send(s)
  PROVE  IInv'
<1> USE TaskFacts DEF IInv
<1>1. PICK t \in Tasks, l \in {"receive", "ask", "stopped", "lost"} :
        /\ Goto(t, l)
        /\ t # Reader => l = "lost" /\ pc[t] = "idle" /\ socket = "dead" /\ faults' = faults
        /\ t = Reader => /\ pc[t] \in {"ask", "receive"}
                         /\ l = "stopped" => again
                         /\ l \in {"lost", "stopped"} => socket = "dead" \/ faults' = faults + 1
        /\ faults' = faults \/ (faults < MaxFaults /\ faults' = faults + 1)
        /\ again' \in BOOLEAN /\ (again' => again)
        /\ UNCHANGED <<up, socket, fresh, holder, attempts, refused>>
  <2>1. again \in BOOLEAN
    BY DEF TypeOK
  <2>2. CASE Ask
    BY <2>1, <2>2, "receive" \in {"receive", "ask", "stopped", "lost"} DEF Ask
  <2>3. CASE Receive
    BY <2>1, <2>3, "ask" \in {"receive", "ask", "stopped", "lost"} DEF Receive
  <2>4. CASE ReceiveFails
    <3> DEFINE l == IF again THEN "stopped" ELSE "lost"
    <3>1. /\ l \in {"receive", "ask", "stopped", "lost"} /\ l # "receive" /\ l # "ask"
          /\ l = "stopped" => again
      OBVIOUS
    <3>2. /\ pc[Reader] = "receive" /\ Goto(Reader, l)
          /\ socket = "dead" \/ faults' = faults + 1
          /\ faults' = faults \/ (faults < MaxFaults /\ faults' = faults + 1)
          /\ UNCHANGED <<up, socket, fresh, again, holder, attempts, refused>>
      BY <2>4 DEF ReceiveFails
    <3> HIDE DEF l
    <3> QED  BY <2>1, <3>1, <3>2
  <2>5. ASSUME NEW s \in Senders, Send(s)
        PROVE  s \in Tasks /\ s # Reader /\ pc[s] = "idle" /\ socket = "dead" /\ Goto(s, "lost")
               /\ UNCHANGED <<up, socket, fresh, again, holder, attempts, faults, refused>>
    BY <2>5 DEF Send, Tasks
  <2>6. CASE \E s \in Senders : Send(s)
    BY <2>1, <2>5, <2>6, "lost" \in {"receive", "ask", "stopped", "lost"}
  <2> QED  BY <2>2, <2>3, <2>4, <2>6
<1>2. l \in Stage
  BY DEF Stage
<1>3. pc' \in [Tasks -> Stage] /\ pc'[t] = l /\ \A u \in Tasks \ {t} : pc'[u] = pc[u]
  BY <1>1, <1>2, Moved
<1>4. TypeOK'
  BY <1>1, <1>3, Numbers DEF TypeOK
<1>5. Started /\ Started'
  BY <1>1, <1>3 DEF Started, Control
<1>6. Control'
  BY <1>1, <1>3, <1>5 DEF Control, Tasks
<1>7. Budget'
  <2>1. CASE faults' = faults
    <3>1. Owing' \subseteq Owing
      BY <1>1, <1>3, <2>1, Numbers DEF Owing
    <3> QED  BY <1>1, <1>5, <2>1, <3>1, BudgetKept
  <2>2. CASE faults' = faults + 1
    BY <1>1, <1>5, <2>2, FaultPays
  <2> QED  BY <1>1, <2>1, <2>2
<1>8. FirstFault'
  BY <1>1, <1>3, Numbers DEF FirstFault
<1>9. SingleFaultSurvived'
  BY <1>1, <1>3, Numbers DEF SingleFaultSurvived, FirstFault
<1> QED  BY <1>4, <1>6, <1>7, <1>8, <1>9

LEMMA NetworkStep ==
  ASSUME IInv, SocketLost \/ ServerStops \/ ServerStarts
  PROVE  IInv'
<1> USE TaskFacts DEF IInv
<1>1. /\ UNCHANGED <<pc, again, holder, attempts, refused>>
      /\ up' \in BOOLEAN
      /\ \/ UNCHANGED <<socket, fresh, faults>>
         \/ /\ faults < MaxFaults /\ faults' = faults + 1
            /\ socket' \in {socket, "dead"} /\ fresh' \in {fresh, "dead"}
            /\ socket = "none" => socket' = "none"
            /\ fresh' = "none" <=> fresh = "none"
  BY DEF SocketLost, ServerStops, ServerStarts, Killed, TypeOK
<1>2. TypeOK'
  BY <1>1, Numbers DEF TypeOK
<1>3. Control'
  BY <1>1 DEF TypeOK, Control, Started
<1>4. Budget'
  <2>1. CASE Started
    <3>1. CASE faults' = faults + 1
      BY <1>1, <2>1, <3>1, FaultPays DEF Started
    <3>2. CASE UNCHANGED <<socket, fresh, faults>>
      BY <1>1, <2>1, <3>2, BudgetKept DEF Owing
    <3> QED  BY <1>1, <3>1, <3>2
  <2>2. CASE ~Started
    BY <1>1, <2>2 DEF Budget, Started
  <2> QED  BY <2>1, <2>2
<1>5. FirstFault'
  BY <1>1, Numbers DEF FirstFault, TypeOK, Control
<1>6. SingleFaultSurvived'
  BY <1>1, Numbers DEF SingleFaultSurvived
<1> QED  BY <1>2, <1>3, <1>4, <1>5, <1>6

LEMMA EnterStep ==
  ASSUME IInv, NEW t \in Tasks, Enter(t)
  PROVE  IInv'
<1> USE TaskFacts DEF IInv
<1> DEFINE l == IF attempts < MaxAttempts THEN "connect"
                ELSE IF t = Reader THEN "stopped" ELSE "idle"
<1>1. /\ Goto(t, l)
      /\ pc[t] = "lost" /\ holder = NoTask /\ fresh = "none"
      /\ l = "connect" => /\ attempts < MaxAttempts /\ attempts' = attempts + 1
                          /\ holder' = t
      /\ l # "connect" => /\ attempts >= MaxAttempts /\ attempts' = attempts
                          /\ holder' = NoTask
      /\ again' \in BOOLEAN /\ (again' => again)
      /\ UNCHANGED <<up, socket, fresh, faults, refused>>
  <2>1. /\ pc[t] = "lost" /\ holder = NoTask /\ fresh = "none" /\ again \in BOOLEAN
        /\ UNCHANGED <<up, socket, fresh, faults, refused>>
    BY DEF Enter, Control, TypeOK
  <2>2. CASE attempts < MaxAttempts
    <3>1. ~(attempts >= MaxAttempts)
      BY <2>2, Numbers
    <3> QED  BY <2>1, <2>2, <3>1 DEF Enter
  <2>3. CASE ~(attempts < MaxAttempts)
    <3>1. attempts >= MaxAttempts
      BY <2>3, Numbers
    <3>2. /\ Goto(t, l) /\ holder' = NoTask /\ attempts' = attempts
          /\ again' = IF t = Reader THEN FALSE ELSE again
      BY <2>3, <3>1 DEF Enter, Return
    <3>3. again' \in BOOLEAN /\ (again' => again)
      BY <2>1, <3>2
    <3> QED  BY <2>1, <2>3, <3>1, <3>2, <3>3
  <2> QED  BY <2>2, <2>3
<1>2. /\ l \in Stage /\ l \in {"connect", "idle", "stopped"}
      /\ l = "idle" => t # Reader
      /\ l = "stopped" => t = Reader
  BY DEF Stage
<1> HIDE DEF l
<1>3. pc' \in [Tasks -> Stage] /\ pc'[t] = l /\ \A u \in Tasks \ {t} : pc'[u] = pc[u]
  BY <1>1, <1>2, Moved
<1>4. TypeOK'
  BY <1>1, <1>2, <1>3, Numbers DEF TypeOK
<1>5. Started /\ Started'
  BY <1>1, <1>2, <1>3 DEF Started, Control
<1>6. Control'
  BY <1>1, <1>2, <1>3, <1>5, Numbers DEF Control, Started, Tasks
<1>7. Budget'
  <2>1. CASE l # "connect"
    <3>1. Owing' \subseteq Owing
      BY <1>1, <1>2, <1>3, <2>1 DEF Owing
    <3> QED  BY <1>1, <1>5, <2>1, <3>1, BudgetKept
  <2>2. CASE l = "connect"
    <3>1. Owing \in SUBSET Tasks /\ Owing' \in SUBSET Owing /\ t \in Owing \ Owing'
      BY <1>1, <1>2, <1>3, <2>2 DEF Owing
    <3>2. /\ Cardinality(Owing') + 1 <= Cardinality(Owing)
          /\ Cardinality(Owing) \in Nat /\ Cardinality(Owing') \in Nat
      BY <3>1, OwingFacts
    <3>3. attempts \in Nat /\ refused \in Nat /\ Cardinality(Tasks) * faults \in Nat
      BY Numbers
    <3>4. attempts + Cardinality(Owing) <= Cardinality(Tasks) * faults + refused
      BY <1>5 DEF Budget
    <3>5. attempts' + Cardinality(Owing') <= Cardinality(Tasks) * faults + refused
      BY <1>1, <2>2, <3>2, <3>3, <3>4
    <3> QED  BY <1>1, <3>5 DEF Budget
  <2> QED  BY <2>1, <2>2
<1>8. FirstFault'
  BY <1>1, <1>2, <1>3, Numbers DEF FirstFault
<1>9. SingleFaultSurvived'
  BY <1>1, <1>2, <1>3, Numbers DEF SingleFaultSurvived, FirstFault
<1> QED  BY <1>4, <1>6, <1>7, <1>8, <1>9

\* A refused connect hands the attempt of its task back to those who owe one.
LEMMA ConnectStep ==
  ASSUME IInv, NEW t \in Tasks, Connect(t)
  PROVE  IInv'
<1> USE TaskFacts DEF IInv
<1> DEFINE l == IF up THEN "store" ELSE IF t = Reader THEN "stopped" ELSE "idle"
<1>1. /\ Goto(t, l)
      /\ pc[t] = "connect" /\ holder = t /\ fresh = "none"
      /\ l = "store" => fresh' = "alive" /\ holder' = t /\ refused' = refused
      /\ l # "store" => fresh' = "none" /\ holder' = NoTask /\ refused' = refused + 1
      /\ again' \in BOOLEAN /\ (again' => again)
      /\ UNCHANGED <<up, socket, attempts, faults>>
  <2>1. /\ pc[t] = "connect" /\ holder = t /\ fresh = "none" /\ again \in BOOLEAN
        /\ UNCHANGED <<up, socket, attempts, faults>>
    BY DEF Connect, Control, TypeOK
  <2>2. CASE up
    BY <2>1, <2>2 DEF Connect
  <2>3. CASE ~up
    <3>1. /\ Goto(t, l) /\ holder' = NoTask /\ refused' = refused + 1 /\ fresh' = fresh
          /\ again' = IF t = Reader THEN FALSE ELSE again
      BY <2>3 DEF Connect, Return
    <3>2. again' \in BOOLEAN /\ (again' => again)
      BY <2>1, <3>1
    <3> QED  BY <2>1, <2>3, <3>1, <3>2
  <2> QED  BY <2>2, <2>3
<1>2. /\ l \in Stage /\ l \in {"store", "idle", "stopped"}
      /\ l = "idle" => t # Reader
      /\ l = "stopped" => t = Reader
  BY DEF Stage
<1> HIDE DEF l
<1>3. pc' \in [Tasks -> Stage] /\ pc'[t] = l /\ \A u \in Tasks \ {t} : pc'[u] = pc[u]
  BY <1>1, <1>2, Moved
<1>4. TypeOK'
  BY <1>1, <1>2, <1>3, Numbers DEF TypeOK
<1>5. Started /\ Started'
  BY <1>1, <1>2, <1>3 DEF Started, Control
<1>6. Control'
  BY <1>1, <1>2, <1>3, <1>5, Numbers DEF Control, Started, Tasks
<1>7. Budget'
  <2>1. CASE l = "store"
    <3>1. Owing' \subseteq Owing
      BY <1>1, <1>3, <2>1 DEF Owing
    <3> QED  BY <1>1, <1>5, <2>1, <3>1, BudgetKept
  <2>2. CASE l # "store"
    <3>1. Owing \in SUBSET Tasks /\ Owing' \subseteq Owing \cup {t} /\ Owing' \subseteq Tasks
      BY <1>1, <1>2, <1>3, <2>2 DEF Owing
    <3>2. /\ Cardinality(Owing') <= Cardinality(Owing) + 1
          /\ Cardinality(Owing) \in Nat /\ Cardinality(Owing') \in Nat
      BY <3>1, OwingFacts
    <3>3. attempts \in Nat /\ refused \in Nat /\ Cardinality(Tasks) * faults \in Nat
      BY Numbers
    <3>4. attempts + Cardinality(Owing) <= Cardinality(Tasks) * faults + refused
      BY <1>5 DEF Budget
    <3>5. attempts + Cardinality(Owing') <= Cardinality(Tasks) * faults + (refused + 1)
      BY <3>2, <3>3, <3>4
    <3> QED  BY <1>1, <2>2, <3>5 DEF Budget
  <2> QED  BY <2>1, <2>2
<1>8. FirstFault'
  BY <1>1, <1>2, <1>3, Numbers DEF FirstFault
<1>9. SingleFaultSurvived'
  BY <1>1, <1>2, <1>3, Numbers DEF SingleFaultSurvived, FirstFault
<1> QED  BY <1>4, <1>6, <1>7, <1>8, <1>9

\* The new socket clears what everybody owed for the old one, if it is alive.
LEMMA StoreStep ==
  ASSUME IInv, NEW t \in Tasks, Store(t)
  PROVE  IInv'
<1> USE TaskFacts DEF IInv
<1>1. /\ Goto(t, "info")
      /\ pc[t] = "store" /\ holder = t
      /\ fresh \in {"alive", "dead"} /\ socket' = fresh /\ fresh' = "none"
      /\ UNCHANGED <<up, again, holder, attempts, faults, refused>>
  BY DEF Store, Control, TypeOK
<1>2. "info" \in Stage
  BY DEF Stage
<1>3. pc' \in [Tasks -> Stage] /\ pc'[t] = "info" /\ \A u \in Tasks \ {t} : pc'[u] = pc[u]
  BY <1>1, <1>2, Moved
<1>4. TypeOK'
  BY <1>1, <1>3, Numbers DEF TypeOK
<1>5. Started /\ Started'
  BY <1>1, <1>3 DEF Started, Control
<1>6. Control'
  BY <1>1, <1>3, <1>5, Numbers DEF Control, Started, Tasks
<1>7. Budget'
  <2>1. Owing' \subseteq Owing
    BY <1>1, <1>3 DEF Owing
  <2> QED  BY <1>1, <1>5, <2>1, BudgetKept
<1>8. FirstFault'
  BY <1>1, <1>3, Numbers DEF FirstFault
<1>9. SingleFaultSurvived'
  BY <1>1, <1>3, Numbers DEF SingleFaultSurvived
<1> QED  BY <1>4, <1>6, <1>7, <1>8, <1>9

LEMMA SendInfoStep ==
  ASSUME IInv, NEW t \in Tasks, SendInfo(t)
  PROVE  IInv'
<1> USE TaskFacts DEF IInv
<1>1. PICK ok \in BOOLEAN :
        /\ Return(t, ok)
        /\ ~ok => socket = "dead"
        /\ pc[t] = "info" /\ holder = t /\ fresh = "none"
        /\ UNCHANGED <<up, socket, fresh, attempts, faults, refused>>
  BY DEF SendInfo, Control, TypeOK
<1> DEFINE l == IF t = Reader THEN IF ok THEN "ask" ELSE "stopped" ELSE "idle"
<1>2. /\ l \in Stage /\ l \in {"ask", "idle", "stopped"}
      /\ l = "idle" <=> t # Reader
      /\ l = "stopped" => ~ok
  BY DEF Stage
<1>3. /\ Goto(t, l) /\ holder' = NoTask
      /\ again' = IF t = Reader THEN ok ELSE again
  BY <1>1 DEF Return
<1>4. again' \in BOOLEAN /\ (again' => ok \/ again) /\ (again' /\ ~again => t = Reader /\ ok)
  BY <1>3 DEF TypeOK
<1> HIDE DEF l
<1>5. pc' \in [Tasks -> Stage] /\ pc'[t] = l /\ \A u \in Tasks \ {t} : pc'[u] = pc[u]
  BY <1>2, <1>3, Moved
<1>6. TypeOK'
  BY <1>1, <1>3, <1>4, <1>5, Numbers DEF TypeOK
<1>7. Started /\ Started'
  BY <1>1, <1>2, <1>5 DEF Started, Control
<1>8. Control'
  BY <1>1, <1>2, <1>3, <1>5, <1>7, Numbers DEF Control, Started, Tasks
<1>9. Budget'
  <2>1. Owing' \subseteq Owing
    BY <1>1, <1>2, <1>5 DEF Owing
  <2> QED  BY <1>1, <1>7, <2>1, BudgetKept
<1>10. FirstFault'
  BY <1>1, <1>2, <1>4, <1>5, Numbers DEF FirstFault
<1>11. SingleFaultSurvived'
  BY <1>1, <1>2, <1>5, Numbers DEF SingleFaultSurvived, FirstFault
<1> QED  BY <1>6, <1>8, <1>9, <1>10, <1>11

LEMMA NextIInv == IInv /\ [Next]_vars => IInv'
<1> SUFFICES ASSUME IInv, [Next]_vars PROVE IInv'
  OBVIOUS
<1>1. CASE Establish \/ EstablishFails
  BY <1>1, EstablishStep
<1>2. CASE Ask \/ Receive \/ ReceiveFails \/ \E s \in Senders : Send(s)
  BY <1>2, ReadAndSendStep
<1>3. CASE \E t \in Tasks : HandleLoss(t)
  BY <1>3, EnterStep, ConnectStep, StoreStep, SendInfoStep DEF HandleLoss
<1>4. CASE SocketLost \/ ServerStops \/ ServerStarts
  BY <1>4, NetworkStep
<1>5. CASE UNCHANGED vars
  BY <1>5 DEF vars, IInv, TypeOK, Control, Started, Budget, Owing, FirstFault,
              SingleFaultSurvived
<1> QED  BY <1>1, <1>2, <1>3, <1>4, <1>5 DEF Next

-----------------------------------------------------------------------------
\* The inductive invariant: one task reconnects at a time, attempts are covered
\* by faults and refused connects, and the first fault leaves no trace but them.
THEOREM Invariance == Spec => []IInv
<1>1. Init => IInv
  BY InitIInv
<1>2. IInv /\ [Next]_vars => IInv'
  BY NextIInv
<1> QED  BY <1>1, <1>2, PTL DEF Spec

\* The variables keep their types, and reconnect_attempts never exceeds
\* max_reconnect_attempts, whoever counts it.
THEOREM TypeCorrect == Spec => []TypeOK
<1>1. IInv => TypeOK
  BY DEF IInv
<1> QED  BY <1>1, Invariance, PTL

\* A fault costs each task at most one attempt that is never given back, with any
\* number of tasks that send.
THEOREM FaultsBounded == Spec => []FaultCost
<1>1. IInv => FaultCost
  <2> SUFFICES ASSUME IInv, Started PROVE attempts <= Cardinality(Tasks) * faults + refused
    BY DEF FaultCost, Started
  <2>1. attempts + Cardinality(Owing) <= Cardinality(Tasks) * faults + refused
    BY DEF IInv, Budget
  <2>2. Owing \in SUBSET Tasks
    BY DEF Owing
  <2>3. Cardinality(Owing) \in Nat
    BY <2>2, OwingFacts
  <2>4. attempts \in Nat /\ refused \in Nat /\ Cardinality(Tasks) * faults \in Nat
    BY TaskFacts, Numbers DEF IInv
  <2> QED  BY <2>1, <2>3, <2>4
<1> QED  BY <1>1, Invariance, PTL

\* The peer goes on listening after its first fault while its server accepts
\* connections and attempts remain, whatever its sending tasks do meanwhile.
THEOREM FirstFaultSurvived == Spec => []SingleFaultSurvived
<1>1. IInv => SingleFaultSurvived
  BY DEF IInv
<1> QED  BY <1>1, Invariance, PTL
=============================================================================

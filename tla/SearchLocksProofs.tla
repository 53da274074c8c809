------------------------- MODULE SearchLocksProofs -------------------------
(***************************************************************************)
(* Proofs about SearchLocks: types, and the ways in which the handlers of  *)
(* a signal server can stop each other, for any tasks and connections.     *)
(***************************************************************************)
EXTENDS SearchLocks, SequenceTheorems, TLAPS

USE LocksAssumption

ListStages == Walk \cup Hit \cup Scan \cup Fill \cup Reply

\* A write guard is alone.
Exclusive ==
  \A t, u \in Tasks, l \in Locks :
    Writes(t, l) /\ u # t => ~Reads(u, l) /\ ~Writes(u, l)

\* A task is at a stage of what it does.
StagesOf(do) ==
  CASE do = "add_peer"     -> {"add", "adding", "end"}
    [] do = "remove_peer"  -> {"leave", "leaving", "remove", "removing", "end"}
    [] do = "set_peer_key" -> {"label", "labelling", "end"}
    [] do = "walk"         -> {"walk", "end"} \cup Walk
    [] do = "search"       ->
         {"lookup", "looking", "hit", "scan", "end"} \cup Hit \cup Scan \cup Fill \cup Reply

AtOwnStage == \A t \in Tasks : pc[t] \in StagesOf(Job(t).do)

\* While a search holds the key of its target the key does not change.
TargetKept ==
  \A t \in Tasks : pc[t] \in Fill \cup Reply => label[OuterKey(t)] = Job(t).key

\* The connections accepted up to the n-th.
Early(n) == {load.list[m] : m \in 1 .. n}

\* The initiator of t stays in the list before every connection that has the key of
\* the target, and a search that looks for it has not passed it.
FirstOK(t, n) ==
  /\ label[load.list[n]] = Job(t).from
  /\ \A d \in Early(n) : label[d] # Job(t).key
  /\ \E k \in 1 .. Len(list) :
       /\ list[k] = load.list[n]
       /\ \A m \in 1 .. k : list[m] \in Early(n)
       /\ pc[t] \in Reply => inner[t] <= k

InitiatorFirst ==
  \A t \in Searching : \A n \in 1 .. Len(load.list) : InitiatorAt(t, n) => FirstOK(t, n)

IInv == TypeOK /\ Exclusive /\ AtOwnStage /\ TargetKept /\ InitiatorFirst

-----------------------------------------------------------------------------
(* Stages *)

LEMMA JobType ==
  ASSUME TypeOK, NEW t \in Tasks
  PROVE  /\ Job(t) \in [do : Jobs, conn : Conn, key : Keys, from : Keys]
         /\ Job(t).do \in Jobs /\ Job(t).conn \in Conn
         /\ Job(t).key \in Keys /\ Job(t).from \in Keys
<1>1. load \in LoadType
  BY DEF TypeOK
<1>2. load.job \in [Tasks -> [do : Jobs, conn : Conn, key : Keys, from : Keys]]
  BY <1>1 DEF LoadType
<1> QED
  BY <1>2 DEF Job

\* What a grant leads to, await by await.
LEMMA GrantedStages ==
  ASSUME NEW s \in Awaits
  PROVE  /\ Granted(s) \in Stages \ Awaits
         /\ s = "add" => Granted(s) = "adding"
         /\ s = "leave" => Granted(s) = "leaving"
         /\ s = "remove" => Granted(s) = "removing"
         /\ s = "label" => Granted(s) = "labelling"
         /\ s = "walk" => Granted(s) = "walking"
         /\ s = "walk_key" => Granted(s) = "walk_compare"
         /\ s = "lookup" => Granted(s) = "looking"
         /\ s = "hit" => Granted(s) = "hitting"
         /\ s = "hit_key" => Granted(s) = "hit_compare"
         /\ s = "scan" => Granted(s) = "scanning"
         /\ s = "scan_key" => Granted(s) = "scan_compare"
         /\ s = "fill" => Granted(s) = "filling"
         /\ s = "reply_key" => Granted(s) = "reply_compare"
  BY DEF Granted, Awaits, WriteAwaits, ReadAwaits, Stages, Walk, Hit, Scan, Fill, Reply

\* The lock an await asks for.
LEMMA WantsTable ==
  ASSUME NEW t \in Tasks
  PROVE  /\ pc[t] \in {"add", "remove", "walk", "hit", "scan"} => Wants(t) = "peers"
         /\ pc[t] \in {"lookup", "fill"} => Wants(t) = "cache"
         /\ pc[t] \in {"leave", "label"} => Wants(t) = Job(t).conn
         /\ pc[t] \in {"walk_key", "hit_key", "scan_key"} => Wants(t) = OuterKey(t)
         /\ pc[t] = "reply_key" => Wants(t) = InnerKey(t)
  BY DEF Wants

LEMMA KeysAreConnections ==
  ASSUME TypeOK, NEW t \in Tasks
  PROVE  /\ pc[t] \in AtOuterKey \cup {"walk_key", "hit_key", "scan_key"} => OuterKey(t) \in Conn
         /\ pc[t] \in {"reply_key", "reply_compare"} => InnerKey(t) \in Conn
  BY DEF TypeOK, OuterKey, InnerKey

LEMMA WantsLock ==
  ASSUME TypeOK, NEW t \in Tasks, pc[t] \in Awaits
  PROVE  Wants(t) \in Locks
  BY WantsTable, KeysAreConnections, JobType DEF Awaits, WriteAwaits, ReadAwaits, Locks

\* A step of one task that keeps the list and asks for nothing leaves what the
\* others hold and ask for.
LEMMA OthersKeep ==
  ASSUME NEW u \in Tasks, load' = load, list' = list,
         pc'[u] = pc[u], outer'[u] = outer[u], inner'[u] = inner[u]
  PROVE  /\ \A l : Reads(u, l)' <=> Reads(u, l)
         /\ \A l : Writes(u, l)' <=> Writes(u, l)
         /\ Wants(u)' = Wants(u)
         /\ OuterKey(u)' = OuterKey(u) /\ InnerKey(u)' = InnerKey(u) /\ Job(u)' = Job(u)
<1>1. OuterKey(u)' = OuterKey(u) /\ InnerKey(u)' = InnerKey(u) /\ Job(u)' = Job(u)
  BY DEF OuterKey, InnerKey, Job
<1>2. ASSUME NEW l PROVE (Reads(u, l)' <=> Reads(u, l)) /\ (Writes(u, l)' <=> Writes(u, l))
  BY <1>1 DEF Reads, Writes
<1>3. Wants(u)' = Wants(u)
  BY <1>1 DEF Wants
<1> QED
  BY <1>1, <1>2, <1>3

-----------------------------------------------------------------------------
(* Types and exclusion *)

PositionsOK ==
  \A t \in Tasks :
    /\ pc[t] \in AtOuterKey \cup {"walk_key", "hit_key", "scan_key"} => outer[t] <= Len(list)
    /\ pc[t] \in {"reply_key", "reply_compare"} => inner[t] <= Len(list)

QueuesOK ==
  \A l \in Locks : \A n \in 1 .. Len(queue[l]) :
    /\ pc[queue[l][n]] \in Awaits /\ Wants(queue[l][n]) = l
    /\ \A m \in 1 .. Len(queue[l]) : queue[l][m] = queue[l][n] => m = n

\* A task that runs is in no queue, so a step of it that keeps the list and drops
\* guards, or none, keeps types and exclusion.
LEMMA RunKeeps ==
  ASSUME TypeOK, Exclusive, NEW t \in Tasks, NEW s \in Stages,
         NEW o \in Nat \ {0}, NEW i \in Nat \ {0},
         pc[t] \notin Awaits,
         load' = load, list' = list, queue' = queue,
         pc' = [pc EXCEPT ![t] = s],
         outer' = [outer EXCEPT ![t] = o], inner' = [inner EXCEPT ![t] = i],
         label' \in [Conn -> Keys \cup {NoKey}], cached' \subseteq Keys,
         s \in AtOuterKey \cup {"walk_key", "hit_key", "scan_key"} => o <= Len(list),
         s \in {"reply_key", "reply_compare"} => i <= Len(list),
         \A l \in Locks : (Reads(t, l)' => Reads(t, l)) /\ (Writes(t, l)' => Writes(t, l))
  PROVE  TypeOK' /\ Exclusive'
<1>1. /\ pc \in [Tasks -> Stages] /\ outer \in [Tasks -> Nat \ {0}] /\ inner \in [Tasks -> Nat \ {0}]
      /\ queue \in [Locks -> Seq(Tasks)] /\ PositionsOK /\ QueuesOK
      /\ load \in Loads /\ list \in Seq(Conn)
  BY DEF TypeOK, PositionsOK, QueuesOK
<1>2. \A u \in Tasks \ {t} : pc'[u] = pc[u] /\ outer'[u] = outer[u] /\ inner'[u] = inner[u]
  BY <1>1
<1>3. pc'[t] = s /\ outer'[t] = o /\ inner'[t] = i
  BY <1>1
<1>4. PositionsOK'
  BY <1>1, <1>2, <1>3 DEF PositionsOK
<1>5. QueuesOK'
  <2> SUFFICES ASSUME NEW l \in Locks, NEW n \in 1 .. Len(queue[l])
               PROVE  pc'[queue[l][n]] \in Awaits /\ Wants(queue[l][n])' = l
    BY <1>1 DEF QueuesOK
  <2>1. queue[l][n] \in Tasks
    BY <1>1
  <2>2. queue[l][n] # t
    BY <1>1 DEF QueuesOK
  <2> QED
    BY <1>1, <1>2, <2>1, <2>2, OthersKeep DEF QueuesOK
<1>6. TypeOK'
  <2>1. /\ load' \in Loads /\ pc' \in [Tasks -> Stages] /\ outer' \in [Tasks -> Nat \ {0}]
        /\ inner' \in [Tasks -> Nat \ {0}] /\ queue' \in [Locks -> Seq(Tasks)] /\ list' \in Seq(Conn)
    BY <1>1
  <2> QED
    BY <2>1, <1>4, <1>5 DEF TypeOK, PositionsOK, QueuesOK
<1>7. Exclusive'
  <2>1. \A u \in Tasks, l \in Locks : (Reads(u, l)' => Reads(u, l)) /\ (Writes(u, l)' => Writes(u, l))
    BY <1>2, OthersKeep
  <2> QED
    BY <2>1 DEF Exclusive
<1> QED
  BY <1>6, <1>7

\* Only the writer of the list is at work on it.
LEMMA WriterAlone ==
  ASSUME TypeOK, Exclusive, NEW t \in Tasks, pc[t] \in {"adding", "removing"}
  PROVE  \A u \in Tasks \ {t} : pc[u] \notin ListStages
<1>1. Writes(t, "peers")
  BY DEF Writes
<1>2. \A u \in Tasks : pc[u] \in ListStages => Reads(u, "peers")
  BY DEF Reads, ListStages
<1> QED
  BY <1>1, <1>2 DEF Exclusive, Locks

\* When the list changes nobody is inside a loop over it.
LEMMA ListChanges ==
  ASSUME TypeOK, Exclusive, NEW t \in Tasks, pc[t] \in {"adding", "removing"},
         list' \in Seq(Conn), pc' = [pc EXCEPT ![t] = "end"],
         UNCHANGED <<load, outer, inner, queue, label, cached>>
  PROVE  TypeOK' /\ Exclusive'
<1>1. /\ pc \in [Tasks -> Stages] /\ queue \in [Locks -> Seq(Tasks)] /\ PositionsOK /\ QueuesOK
  BY DEF TypeOK, PositionsOK, QueuesOK
<1>2. \A u \in Tasks \ {t} : pc'[u] = pc[u] /\ pc[u] \notin ListStages
  BY <1>1, WriterAlone
<1>3. pc'[t] = "end"
  BY <1>1
<1>4. \A u \in Tasks : pc'[u] \notin ListStages
  BY <1>2, <1>3 DEF ListStages, Walk, Hit, Scan, Fill, Reply
<1>5. AtOuterKey \cup {"walk_key", "hit_key", "scan_key", "reply_key", "reply_compare"} \subseteq ListStages
  BY DEF AtOuterKey, ListStages, Walk, Hit, Scan, Fill, Reply
<1>6. PositionsOK'
  BY <1>4, <1>5 DEF PositionsOK
<1>7. \A u \in Tasks \ {t} : pc[u] \in Awaits => Wants(u)' = Wants(u)
  <2> SUFFICES ASSUME NEW u \in Tasks \ {t}, pc[u] \in Awaits PROVE Wants(u)' = Wants(u)
    OBVIOUS
  <2>1. pc[u] \in {"add", "remove", "walk", "hit", "scan", "lookup", "leave", "label"}
    BY <1>2 DEF ListStages, Walk, Hit, Scan, Fill, Reply, Awaits, WriteAwaits, ReadAwaits
  <2>2. Job(u)' = Job(u) /\ pc'[u] = pc[u]
    BY <1>2 DEF Job
  <2> QED
    BY <2>1, <2>2 DEF Wants
<1>8. QueuesOK'
  <2> SUFFICES ASSUME NEW l \in Locks, NEW n \in 1 .. Len(queue[l])
               PROVE  pc'[queue[l][n]] \in Awaits /\ Wants(queue[l][n])' = l
    BY <1>1 DEF QueuesOK
  <2>1. queue[l][n] \in Tasks
    BY <1>1
  <2>2. queue[l][n] # t
    BY <1>1 DEF QueuesOK, Awaits, WriteAwaits, ReadAwaits
  <2> QED
    BY <1>1, <1>2, <1>7, <2>1, <2>2 DEF QueuesOK
<1>9. TypeOK'
  <2>1. pc' \in [Tasks -> Stages]
    BY <1>1 DEF Stages
  <2> QED
    BY <2>1, <1>6, <1>8 DEF TypeOK, PositionsOK, QueuesOK
<1>10. Exclusive'
  <2>1. \A l \in Locks : ~Reads(t, l)' /\ ~Writes(t, l)'
    BY <1>3 DEF Reads, Writes, Walk, Hit, Scan, Fill, Reply, AtOuterKey
  <2>2. ASSUME NEW u \in Tasks \ {t}, NEW l \in Locks
        PROVE  (Reads(u, l)' => Reads(u, l)) /\ (Writes(u, l)' => Writes(u, l))
    <3>1. Job(u)' = Job(u) /\ pc'[u] = pc[u]
      BY <1>2 DEF Job
    <3> QED
      BY <3>1, <1>4, <1>5 DEF Reads, Writes
  <2> QED
    BY <2>1, <2>2 DEF Exclusive
<1> QED
  BY <1>9, <1>10

\* A task asks for a lock once, behind those that have asked before.
LEMMA RequestKeeps ==
  ASSUME TypeOK, Exclusive, NEW t \in Tasks, Request(t)
  PROVE  TypeOK' /\ Exclusive'
<1> DEFINE w == Wants(t)
<1>1. /\ pc \in [Tasks -> Stages] /\ queue \in [Locks -> Seq(Tasks)] /\ QueuesOK /\ PositionsOK
      /\ w \in Locks /\ pc[t] \in Awaits /\ ~Queued(t, w)
  BY WantsLock DEF TypeOK, QueuesOK, PositionsOK, Request
<1>2. /\ queue' = [queue EXCEPT ![w] = Append(@, t)]
      /\ UNCHANGED <<load, pc, outer, inner, list, label, cached>>
  BY DEF Request
<1>3. \A u \in Tasks : Wants(u)' = Wants(u) /\ \A l : (Reads(u, l)' <=> Reads(u, l)) /\ (Writes(u, l)' <=> Writes(u, l))
  BY <1>2, OthersKeep
<1>4. queue' \in [Locks -> Seq(Tasks)]
  <2>1. Append(queue[w], t) \in Seq(Tasks)
    BY <1>1, AppendProperties
  <2> QED
    BY <1>1, <1>2, <2>1
<1>5. QueuesOK'
  <2> SUFFICES ASSUME NEW l \in Locks, NEW n \in 1 .. Len(queue'[l])
               PROVE  /\ pc[queue'[l][n]] \in Awaits /\ Wants(queue'[l][n]) = l
                      /\ \A m \in 1 .. Len(queue'[l]) : queue'[l][m] = queue'[l][n] => m = n
    BY <1>2, <1>3, <1>4 DEF QueuesOK
  <2>1. CASE l # w
    BY <2>1, <1>1, <1>2 DEF QueuesOK
  <2>2. CASE l = w
    <3> DEFINE q == queue[w]
    <3>1. q \in Seq(Tasks) /\ queue'[w] = Append(q, t)
      BY <1>1, <1>2
    <3>2. /\ Len(Append(q, t)) = Len(q) + 1 /\ Append(q, t)[Len(q) + 1] = t
          /\ \A m \in 1 .. Len(q) : Append(q, t)[m] = q[m]
      BY <3>1, AppendProperties
    <3>3. \A m \in 1 .. Len(q) : q[m] # t /\ pc[q[m]] \in Awaits /\ Wants(q[m]) = w
      BY <1>1 DEF QueuesOK, Queued
    <3>4. \A m, k \in 1 .. Len(q) : q[m] = q[k] => m = k
      BY <1>1 DEF QueuesOK
    <3>5. Len(q) \in Nat
      BY <3>1
    <3>6. n \in 1 .. Len(q) \/ n = Len(q) + 1
      BY <2>2, <3>1, <3>2, <3>5
    <3>7. pc[Append(q, t)[n]] \in Awaits /\ Wants(Append(q, t)[n]) = w
      BY <1>1, <3>2, <3>3, <3>6
    <3>8. ASSUME NEW m \in 1 .. Len(Append(q, t)), Append(q, t)[m] = Append(q, t)[n] PROVE m = n
      <4>1. m \in 1 .. Len(q) \/ m = Len(q) + 1
        BY <3>2, <3>5
      <4> HIDE DEF q
      <4> QED
        BY <4>1, <3>2, <3>3, <3>4, <3>6, <3>8
    <3> HIDE DEF q, w
    <3> QED
      BY <2>2, <3>1, <3>7, <3>8
  <2> QED
    BY <2>1, <2>2
<1>6. TypeOK'
  BY <1>1, <1>2, <1>4, <1>5 DEF TypeOK, PositionsOK, QueuesOK
<1>7. Exclusive'
  BY <1>3 DEF Exclusive
<1> QED
  BY <1>6, <1>7

\* What the task at the head of a queue holds after the grant: what it held, and
\* the lock it asked for.
LEMMA GrantAdds ==
  ASSUME TypeOK, NEW t \in Tasks, pc[t] \in Awaits, pc' = [pc EXCEPT ![t] = Granted(pc[t])],
         UNCHANGED <<load, outer, inner, list>>, NEW l
  PROVE  /\ Reads(t, l)' => Reads(t, l) \/ (l = Wants(t) /\ pc[t] \in ReadAwaits)
         /\ Writes(t, l)' => l = Wants(t) /\ pc[t] \in WriteAwaits
<1>1. pc'[t] = Granted(pc[t])
  BY DEF TypeOK
<1>2. Job(t)' = Job(t) /\ OuterKey(t)' = OuterKey(t) /\ InnerKey(t)' = InnerKey(t)
  BY DEF Job, OuterKey, InnerKey
<1>3. CASE pc[t] \in {"add", "remove", "walk", "hit", "scan"}
  BY <1>1, <1>2, <1>3, GrantedStages, WantsTable
     DEF Reads, Writes, WriteAwaits, ReadAwaits, AtOuterKey, Walk, Hit, Scan, Fill, Reply
<1>4. CASE pc[t] \in {"lookup", "fill", "leave", "label"}
  BY <1>1, <1>2, <1>4, GrantedStages, WantsTable
     DEF Reads, Writes, WriteAwaits, ReadAwaits, AtOuterKey, Walk, Hit, Scan, Fill, Reply
<1>5. CASE pc[t] \in {"walk_key", "hit_key", "scan_key", "reply_key"}
  BY <1>1, <1>2, <1>5, GrantedStages, WantsTable
     DEF Reads, Writes, WriteAwaits, ReadAwaits, AtOuterKey, Walk, Hit, Scan, Fill, Reply
<1> QED
  BY <1>3, <1>4, <1>5 DEF Awaits, WriteAwaits, ReadAwaits

LEMMA GrantKeeps ==
  ASSUME TypeOK, Exclusive, NEW l \in Locks, Grant(l)
  PROVE  TypeOK' /\ Exclusive'
<1>1. /\ pc \in [Tasks -> Stages] /\ queue \in [Locks -> Seq(Tasks)] /\ QueuesOK /\ PositionsOK
      /\ queue[l] \in Seq(Tasks) /\ queue[l] # <<>>
  BY DEF TypeOK, QueuesOK, PositionsOK, Grant, Grantable
<1>2. /\ Head(queue[l]) \in Tasks /\ Head(queue[l]) = queue[l][1]
      /\ 1 \in 1 .. Len(queue[l]) /\ Len(queue[l]) \in Nat
      /\ Tail(queue[l]) \in Seq(Tasks) /\ Len(Tail(queue[l])) = Len(queue[l]) - 1
      /\ \A n \in 1 .. Len(Tail(queue[l])) : Tail(queue[l])[n] = queue[l][n + 1]
  BY <1>1, HeadTailProperties
<1>t. PICK t \in Tasks : t = Head(queue[l])
  BY <1>2
<1>3. pc[t] \in Awaits /\ Wants(t) = l /\ t = queue[l][1]
  BY <1>1, <1>2, <1>t DEF QueuesOK
<1>4. /\ pc' = [pc EXCEPT ![t] = Granted(pc[t])] /\ queue' = [queue EXCEPT ![l] = Tail(queue[l])]
      /\ UNCHANGED <<load, outer, inner, list, label, cached>>
      /\ \A u \in Tasks : ~Writes(u, l)
      /\ pc[t] \in WriteAwaits => \A u \in Tasks : ~Reads(u, l)
  BY <1>t DEF Grant, Grantable
<1>5. Granted(pc[t]) \in Stages \ Awaits
  BY <1>3, GrantedStages
<1>6. /\ pc'[t] = Granted(pc[t])
      /\ \A u \in Tasks \ {t} : pc'[u] = pc[u] /\ Wants(u)' = Wants(u)
           /\ \A m : (Reads(u, m)' <=> Reads(u, m)) /\ (Writes(u, m)' <=> Writes(u, m))
  <2>1. pc'[t] = Granted(pc[t]) /\ \A u \in Tasks \ {t} : pc'[u] = pc[u]
    BY <1>1, <1>2, <1>4
  <2> QED
    BY <2>1, <1>4, OthersKeep
<1>7. PositionsOK'
  <2>1. /\ pc'[t] \in AtOuterKey \cup {"walk_key", "hit_key", "scan_key"} =>
             pc[t] \in AtOuterKey \cup {"walk_key", "hit_key", "scan_key"}
        /\ pc'[t] \in {"reply_key", "reply_compare"} => pc[t] = "reply_key"
    BY <1>3, <1>6, GrantedStages DEF AtOuterKey, Fill, Reply, Awaits, WriteAwaits, ReadAwaits
  <2> QED
    BY <2>1, <1>1, <1>2, <1>4, <1>6 DEF PositionsOK
<1>8. queue' \in [Locks -> Seq(Tasks)]
  BY <1>1, <1>2, <1>4
<1>9. QueuesOK'
  <2>1. ASSUME NEW m \in Locks, NEW n \in 1 .. Len(queue'[m])
        PROVE  /\ queue'[m][n] \in Tasks /\ queue'[m][n] # t
               /\ pc[queue'[m][n]] \in Awaits /\ Wants(queue'[m][n]) = m
               /\ \A k \in 1 .. Len(queue'[m]) : queue'[m][k] = queue'[m][n] => k = n
    <3>1. queue'[m][n] \in Tasks
      BY <1>8
    <3>2. CASE m # l
      BY <3>1, <3>2, <1>1, <1>3, <1>4 DEF QueuesOK
    <3>3. CASE m = l
      <4>1. queue'[m] = Tail(queue[l])
        BY <3>3, <1>1, <1>4
      <4>2. \A k \in 1 .. Len(queue'[m]) : k + 1 \in 1 .. Len(queue[l]) /\ queue'[m][k] = queue[l][k + 1]
        BY <4>1, <1>2
      <4>3. \A k, j \in 1 .. Len(queue[l]) : queue[l][k] = queue[l][j] => k = j
        BY <1>1 DEF QueuesOK
      <4>4. ASSUME NEW k \in 1 .. Len(queue'[m]) PROVE queue'[m][k] = queue'[m][n] => k = n
        <5>1. queue'[m][k] = queue'[m][n] => k + 1 = n + 1
          BY <4>2, <4>3
        <5> QED
          BY <5>1, <4>1, <1>2
      <4>5. queue'[m][n] # t
        <5>1. queue'[m][n] = t => n + 1 = 1
          BY <4>2, <4>3, <1>2, <1>3
        <5> QED
          BY <5>1, <4>1, <1>2
      <4> QED
        BY <3>1, <3>3, <4>2, <4>4, <4>5, <1>1 DEF QueuesOK
    <3> QED
      BY <3>2, <3>3
  <2> QED
    BY <2>1, <1>6 DEF QueuesOK
<1>10. TypeOK'
  <2>1. pc' \in [Tasks -> Stages]
    BY <1>1, <1>4, <1>5
  <2> QED
    BY <2>1, <1>4, <1>7, <1>8, <1>9 DEF TypeOK, PositionsOK, QueuesOK
<1>11. Exclusive'
  <2>1. ASSUME NEW m
        PROVE  /\ Reads(t, m)' => Reads(t, m) \/ m = l
               /\ Writes(t, m)' => m = l /\ pc[t] \in WriteAwaits
    <3>1. /\ Reads(t, m)' => Reads(t, m) \/ (m = Wants(t) /\ pc[t] \in ReadAwaits)
          /\ Writes(t, m)' => m = Wants(t) /\ pc[t] \in WriteAwaits
      BY <1>2, <1>3, <1>4, GrantAdds
    <3> QED
      BY <3>1, <1>3
  <2>2. \A m \in Locks : Writes(t, m)' => \A u \in Tasks \ {t} : ~Reads(u, m)' /\ ~Writes(u, m)'
    BY <2>1, <1>4, <1>6
  <2>3. \A m \in Locks : \A u \in Tasks \ {t} : Writes(u, m)' => ~Reads(t, m)' /\ ~Writes(t, m)'
    BY <2>1, <1>2, <1>4, <1>6 DEF Exclusive
  <2>4. \A m \in Locks : \A u, v \in Tasks \ {t} : Writes(u, m)' /\ u # v => ~Reads(v, m)' /\ ~Writes(v, m)'
    BY <1>6 DEF Exclusive
  <2>5. ASSUME NEW u \in Tasks, NEW v \in Tasks, NEW m \in Locks, Writes(u, m)', v # u
        PROVE  ~Reads(v, m)' /\ ~Writes(v, m)'
    <3>1. CASE u = t
      BY <3>1, <2>2, <2>5
    <3>2. CASE v = t
      BY <3>2, <2>3, <2>5
    <3>3. CASE u # t /\ v # t
      BY <3>3, <2>4, <2>5
    <3> QED
      BY <3>1, <3>2, <3>3
  <2> QED
    BY <2>5 DEF Exclusive
<1> QED
  BY <1>10, <1>11

-----------------------------------------------------------------------------
(* What tasks do with their guards *)

\* What follows the removed element moves up.
LEMMA RemoveAtProperties ==
  ASSUME NEW S, NEW s \in Seq(S), NEW r \in 1 .. Len(s)
  PROVE  /\ RemoveAt(s, r) \in Seq(S) /\ Len(RemoveAt(s, r)) = Len(s) - 1
         /\ \A m \in 1 .. r - 1 : RemoveAt(s, r)[m] = s[m]
         /\ \A m \in r .. Len(s) - 1 : RemoveAt(s, r)[m] = s[m + 1]
<1> DEFINE a == SubSeq(s, 1, r - 1)
           b == SubSeq(s, r + 1, Len(s))
           L == Len(s)
<1>1. L \in Nat /\ r \in Nat /\ 1 <= r /\ r <= L
  OBVIOUS
<1>2. a \in Seq(S) /\ Len(a) = r - 1 /\ \A m \in 1 .. r - 1 : a[m] = s[m]
  <2>1. \A m \in 1 .. r - 1 : s[m] \in S
    OBVIOUS
  <2>2. /\ a \in Seq(S) /\ Len(a) = IF 1 <= r - 1 THEN (r - 1) - 1 + 1 ELSE 0
        /\ \A m \in 1 .. (r - 1) - 1 + 1 : a[m] = s[1 + m - 1]
    BY <2>1, SubSeqProperties
  <2>3. \A m \in 1 .. r - 1 : m \in 1 .. (r - 1) - 1 + 1 /\ 1 + m - 1 = m
    BY <1>1
  <2> HIDE DEF a
  <2> QED
    BY <2>2, <2>3, <1>1
<1>3. b \in Seq(S) /\ Len(b) = L - r /\ \A m \in 1 .. L - r : b[m] = s[r + m]
  <2>1. \A m \in r + 1 .. L : s[m] \in S
    OBVIOUS
  <2>2. /\ b \in Seq(S) /\ Len(b) = IF r + 1 <= L THEN L - (r + 1) + 1 ELSE 0
        /\ \A m \in 1 .. L - (r + 1) + 1 : b[m] = s[(r + 1) + m - 1]
    BY <2>1, SubSeqProperties
  <2> HIDE DEF b, L
  <2>3. \A m \in 1 .. L - r : m \in 1 .. L - (r + 1) + 1 /\ (r + 1) + m - 1 = r + m
    BY <1>1
  <2> QED
    BY <2>2, <2>3, <1>1
<1> HIDE DEF a, b
<1>4. RemoveAt(s, r) = a \o b
  BY DEF RemoveAt, a, b
<1> HIDE DEF L
<1>5. /\ a \o b \in Seq(S) /\ Len(a \o b) = L - 1
      /\ \A m \in 1 .. L - 1 : (a \o b)[m] = IF m <= r - 1 THEN a[m] ELSE b[m - (r - 1)]
  <2>1. /\ a \o b \in Seq(S) /\ Len(a \o b) = Len(a) + Len(b)
        /\ \A m \in 1 .. Len(a) + Len(b) : (a \o b)[m] = IF m <= Len(a) THEN a[m] ELSE b[m - Len(a)]
    BY <1>2, <1>3, ConcatProperties
  <2>2. Len(a) + Len(b) = L - 1
    BY <1>1, <1>2, <1>3
  <2> QED
    BY <2>1, <2>2, <1>2
<1>6. ASSUME NEW m \in 1 .. r - 1 PROVE (a \o b)[m] = s[m]
  BY <1>1, <1>2, <1>5
<1>7. ASSUME NEW m \in r .. L - 1 PROVE (a \o b)[m] = s[m + 1]
  <2>1. m \in 1 .. L - 1 /\ ~(m <= r - 1) /\ m - (r - 1) \in 1 .. L - r /\ r + (m - (r - 1)) = m + 1
    BY <1>1
  <2> QED
    BY <2>1, <1>3, <1>5
<1> QED
  BY <1>4, <1>5, <1>6, <1>7 DEF L

LEMMA ListHandlersKeep ==
  ASSUME TypeOK, Exclusive, NEW t \in Tasks, AddPeer(t) \/ RemovePeer(t)
  PROVE  TypeOK' /\ Exclusive'
<1>1. list \in Seq(Conn) /\ Job(t).conn \in Conn
  BY JobType DEF TypeOK
<1>2. list' \in Seq(Conn)
  <2>1. CASE AddPeer(t)
    BY <1>1, <2>1, AppendProperties DEF AddPeer
  <2>2. \A n \in 1 .. Len(list) : RemoveAt(list, n) \in Seq(Conn)
    BY <1>1, RemoveAtProperties
  <2>3. CASE RemovePeer(t)
    BY <1>1, <2>2, <2>3 DEF RemovePeer
  <2> QED
    BY <2>1, <2>3
<1>3. CASE AddPeer(t)
  <2>1. /\ pc[t] \in {"adding", "removing"} /\ pc' = [pc EXCEPT ![t] = "end"]
        /\ UNCHANGED <<load, outer, inner, queue, label, cached>>
    BY <1>3 DEF AddPeer, Goto
  <2> QED
    BY <1>2, <2>1, ListChanges
<1>4. CASE RemovePeer(t)
  <2>1. /\ pc[t] \in {"adding", "removing"} /\ pc' = [pc EXCEPT ![t] = "end"]
        /\ UNCHANGED <<load, outer, inner, queue, label, cached>>
    BY <1>4 DEF RemovePeer, Goto
  <2> QED
    BY <1>2, <2>1, ListChanges
<1> QED
  BY <1>3, <1>4

LEMMA SetPeerKeyKeeps ==
  ASSUME TypeOK, Exclusive, NEW t \in Tasks, SetPeerKey(t) \/ CloneKey(t)
  PROVE  TypeOK' /\ Exclusive'
<1>1. /\ Job(t).conn \in Conn /\ Job(t).key \in Keys /\ pc \in [Tasks -> Stages]
      /\ outer \in [Tasks -> Nat \ {0}] /\ inner \in [Tasks -> Nat \ {0}] /\ label \in [Conn -> Keys \cup {NoKey}]
      /\ cached \subseteq Keys
  BY JobType DEF TypeOK
<1>2. outer = [outer EXCEPT ![t] = outer[t]] /\ inner = [inner EXCEPT ![t] = inner[t]]
  BY <1>1
<1>3. outer[t] \in Nat \ {0} /\ inner[t] \in Nat \ {0}
  BY <1>1
<1> DEFINE s == IF SetPeerKey(t) THEN "end" ELSE "remove"
<1>4. /\ pc[t] \in {"labelling", "leaving"} /\ pc' = [pc EXCEPT ![t] = s] /\ s \in {"end", "remove"}
      /\ UNCHANGED <<load, outer, inner, queue, list>>
      /\ label' \in [Conn -> Keys \cup {NoKey}] /\ cached' \subseteq Keys
  <2>1. CASE SetPeerKey(t)
    BY <1>1, <2>1 DEF SetPeerKey, Goto
  <2>2. CASE ~SetPeerKey(t) /\ CloneKey(t)
    BY <1>1, <2>2 DEF CloneKey, Goto
  <2> QED
    BY <2>1, <2>2
<1> HIDE DEF s
<1>5. pc'[t] = s
  BY <1>1, <1>4
<1>6. \A l \in Locks : (Reads(t, l)' => Reads(t, l)) /\ (Writes(t, l)' => Writes(t, l))
  BY <1>4, <1>5 DEF Reads, Writes, AtOuterKey, Walk, Hit, Scan, Fill, Reply
<1>7. /\ s \in Stages /\ pc[t] \notin Awaits
      /\ s \notin AtOuterKey \cup {"walk_key", "hit_key", "scan_key", "reply_key", "reply_compare"}
  BY <1>4 DEF Stages, Awaits, WriteAwaits, ReadAwaits, AtOuterKey, Fill, Reply
<1> QED
  BY <1>2, <1>3, <1>4, <1>6, <1>7, RunKeeps

-----------------------------------------------------------------------------
(* The loops: steps of tasks that keep the list and every key *)

LoopStep(t) ==
  \/ Iterate(t, "walking", "walk_key", "end") \/ CompareWalk(t)
  \/ Lookup(t) \/ Iterate(t, "hitting", "hit_key", "scan") \/ CompareHit(t)
  \/ Iterate(t, "scanning", "scan_key", "end") \/ CompareScan(t)
  \/ FillCache(t) \/ IterateReply(t) \/ CompareReply(t)

Moves(t, s, o, i) ==
  /\ pc' = [pc EXCEPT ![t] = s]
  /\ outer' = [outer EXCEPT ![t] = o] /\ inner' = [inner EXCEPT ![t] = i]
  /\ UNCHANGED <<load, queue, list, label>>
  /\ cached' \subseteq Keys

\* A task at stage p goes on at stage s without an await: it stays in its handler and
\* gets no guard it did not have.
Follows(p, s) ==
  /\ p \in Stages \ Awaits /\ s \in Stages
  /\ \A do \in Jobs : p \in StagesOf(do) => s \in StagesOf(do)
  /\ s \notin {"adding", "removing", "labelling", "filling", "leaving", "reply_compare"}
  /\ s \in ListStages => p \in ListStages
  /\ s \in AtOuterKey => p \in AtOuterKey
  /\ s \in {"looking", "hit"} \cup Hit => p \in {"looking", "hit"} \cup Hit

\* Where the loops of a task are after its step.
Positions(t, s, o, i) ==
  /\ o \in Nat \ {0} /\ i \in Nat \ {0}
  /\ s \in AtOuterKey => o = outer[t]
  /\ s \in {"walk_key", "hit_key", "scan_key"} => o <= Len(list)
  /\ s = "reply_key" => i <= Len(list)
  /\ s \in Fill \cup Reply => pc[t] \in Fill \cup Reply \/ label[OuterKey(t)] = Job(t).key
  /\ s \in Reply => \/ i = 1
                    \/ pc[t] \in Reply /\ i = inner[t]
                    \/ pc[t] = "reply_compare" /\ i = inner[t] + 1 /\ label[InnerKey(t)] # Job(t).from

LEMMA StageOrder ==
  /\ Follows("walking", "walk_key") /\ Follows("walking", "end")
  /\ Follows("walk_compare", "walking") /\ Follows("walk_compare", "end")
  /\ Follows("looking", "hit") /\ Follows("looking", "scan")
  /\ Follows("hitting", "hit_key") /\ Follows("hitting", "scan")
  /\ Follows("hit_compare", "hitting") /\ Follows("hit_compare", "end")
  /\ Follows("scanning", "scan_key") /\ Follows("scanning", "end")
  /\ Follows("scan_compare", "scanning") /\ Follows("scan_compare", "fill")
  /\ Follows("filling", "replying")
  /\ Follows("replying", "reply_key") /\ Follows("replying", "scanning")
  /\ Follows("reply_compare", "replying") /\ Follows("reply_compare", "end")
<1> USE DEF Follows, Jobs, Stages, Awaits, WriteAwaits, ReadAwaits, StagesOf, ListStages, AtOuterKey,
            Walk, Hit, Scan, Fill, Reply
<1>1. /\ Follows("walking", "walk_key") /\ Follows("walking", "end")
      /\ Follows("walk_compare", "walking") /\ Follows("walk_compare", "end")
  OBVIOUS
<1>2. /\ Follows("looking", "hit") /\ Follows("looking", "scan")
      /\ Follows("hitting", "hit_key") /\ Follows("hitting", "scan")
      /\ Follows("hit_compare", "hitting") /\ Follows("hit_compare", "end")
  OBVIOUS
<1>3. /\ Follows("scanning", "scan_key") /\ Follows("scanning", "end")
      /\ Follows("scan_compare", "scanning") /\ Follows("scan_compare", "fill")
  OBVIOUS
<1>4. /\ Follows("filling", "replying")
      /\ Follows("replying", "reply_key") /\ Follows("replying", "scanning")
      /\ Follows("reply_compare", "replying") /\ Follows("reply_compare", "end")
  OBVIOUS
<1> HIDE DEF Follows
<1> QED
  BY <1>1, <1>2, <1>3, <1>4

LEMMA LeaveMoves ==
  ASSUME TypeOK, NEW t \in Tasks, NEW s, Leave(t, s)
  PROVE  Moves(t, s, outer[t], inner[t])
<1>1. outer = [outer EXCEPT ![t] = outer[t]] /\ inner = [inner EXCEPT ![t] = inner[t]]
  BY DEF TypeOK
<1> QED
  BY <1>1 DEF Moves, Leave, Goto, TypeOK

LEMMA ContinueMoves ==
  ASSUME TypeOK, NEW t \in Tasks, NEW s, Continue(t, s)
  PROVE  Moves(t, s, outer[t] + 1, inner[t])
<1>1. inner = [inner EXCEPT ![t] = inner[t]]
  BY DEF TypeOK
<1> QED
  BY <1>1 DEF Moves, Continue, Goto, TypeOK

\* A loop goes to the next key or ends.
LEMMA IterateMoves ==
  ASSUME TypeOK, NEW t \in Tasks, NEW loop, NEW key, NEW stop, Iterate(t, loop, key, stop)
  PROVE  /\ pc[t] = loop
         /\ \/ outer[t] <= Len(list) /\ Moves(t, key, outer[t], inner[t])
            \/ Moves(t, stop, 1, inner[t])
<1>1. outer = [outer EXCEPT ![t] = outer[t]] /\ inner = [inner EXCEPT ![t] = inner[t]]
  BY DEF TypeOK
<1> QED
  BY <1>1 DEF Moves, Iterate, Goto, TypeOK

\* Every step of a loop has this form.
LEMMA LoopMoves ==
  ASSUME TypeOK, NEW t \in Tasks, LoopStep(t)
  PROVE  \E s, o, i : Moves(t, s, o, i) /\ Follows(pc[t], s) /\ Positions(t, s, o, i)
<1> DEFINE o == outer[t]
           i == inner[t]
           P(s, x, y) == Moves(t, s, x, y) /\ Follows(pc[t], s) /\ Positions(t, s, x, y)
<1>0. o \in Nat \ {0} /\ i \in Nat \ {0}
  BY DEF TypeOK
<1> HIDE DEF o, i
<1> USE StageOrder, <1>0 DEF Positions, AtOuterKey, Fill, Reply
<1>1. CASE Iterate(t, "walking", "walk_key", "end")
  <2>1. P("walk_key", o, i) \/ P("end", 1, i)
    BY <1>1, IterateMoves DEF o, i
  <2> QED
    BY <2>1
<1>2. CASE CompareWalk(t)
  <2>1. P("walking", o + 1, i) \/ P("end", o, i)
    BY <1>2, LeaveMoves, ContinueMoves DEF o, i, CompareWalk
  <2> QED
    BY <2>1
<1>3. CASE Lookup(t)
  <2>1. P("hit", o, i) \/ P("scan", o, i)
    BY <1>3, LeaveMoves DEF o, i, Lookup
  <2> QED
    BY <2>1
<1>4. CASE Iterate(t, "hitting", "hit_key", "scan")
  <2>1. P("hit_key", o, i) \/ P("scan", 1, i)
    BY <1>4, IterateMoves DEF o, i
  <2> QED
    BY <2>1
<1>5. CASE CompareHit(t)
  <2>1. P("hitting", o + 1, i) \/ P("end", o, i)
    BY <1>5, LeaveMoves, ContinueMoves DEF o, i, CompareHit
  <2> QED
    BY <2>1
<1>6. CASE Iterate(t, "scanning", "scan_key", "end")
  <2>1. P("scan_key", o, i) \/ P("end", 1, i)
    BY <1>6, IterateMoves DEF o, i
  <2> QED
    BY <2>1
<1>7. CASE CompareScan(t)
  <2>1. P("scanning", o + 1, i) \/ P("fill", o, i)
    BY <1>7, LeaveMoves, ContinueMoves DEF o, i, CompareScan
  <2> QED
    BY <2>1
<1>8. CASE FillCache(t)
  <2>1. P("replying", o, 1)
    <3>1. outer = [outer EXCEPT ![t] = outer[t]] /\ Job(t).key \in Keys /\ cached \subseteq Keys
      BY JobType DEF TypeOK
    <3> QED
      BY <3>1, <1>8 DEF o, FillCache, Moves, Goto
  <2> QED
    BY <2>1
<1>9. CASE IterateReply(t)
  <2>1. P("reply_key", o, i) \/ P("scanning", o + 1, i)
    BY <1>9, LeaveMoves, ContinueMoves DEF o, i, IterateReply
  <2> QED
    BY <2>1
<1>10. CASE CompareReply(t)
  <2>1. P("replying", o, i + 1) \/ P("end", o, i)
    <3>1. outer = [outer EXCEPT ![t] = outer[t]] /\ cached \subseteq Keys
      BY DEF TypeOK
    <3> QED
      BY <3>1, <1>10, LeaveMoves DEF o, i, CompareReply, Moves, Goto
  <2> QED
    BY <2>1
<1> QED
  BY <1>1, <1>2, <1>3, <1>4, <1>5, <1>6, <1>7, <1>8, <1>9, <1>10 DEF LoopStep

LEMMA LoopKeeps ==
  ASSUME TypeOK, Exclusive, NEW t \in Tasks, LoopStep(t)
  PROVE  TypeOK' /\ Exclusive'
<1>1. PICK s, o, i : Moves(t, s, o, i) /\ Follows(pc[t], s) /\ Positions(t, s, o, i)
  BY LoopMoves
<1>2. /\ pc'[t] = s /\ outer'[t] = o /\ inner'[t] = i /\ list' = list /\ load' = load
      /\ label' \in [Conn -> Keys \cup {NoKey}] /\ pc[t] \notin Awaits /\ s \in Stages
  BY <1>1 DEF Moves, Follows, TypeOK
<1>3. \A l \in Locks : (Reads(t, l)' => Reads(t, l)) /\ (Writes(t, l)' => Writes(t, l))
  <2> SUFFICES ASSUME NEW l \in Locks
               PROVE  (Reads(t, l)' => Reads(t, l)) /\ (Writes(t, l)' => Writes(t, l))
    OBVIOUS
  <2>1. Job(t)' = Job(t) /\ (s \in AtOuterKey => OuterKey(t)' = OuterKey(t))
    BY <1>1, <1>2 DEF Job, OuterKey, Positions
  <2> QED
    BY <1>1, <1>2, <2>1 DEF Follows, Reads, Writes, ListStages
<1>4. /\ s \in AtOuterKey \cup {"walk_key", "hit_key", "scan_key"} => o <= Len(list)
      /\ s \in {"reply_key", "reply_compare"} => i <= Len(list)
  BY <1>1 DEF Positions, Follows, TypeOK
<1> QED
  BY <1>1, <1>2, <1>3, <1>4, RunKeeps DEF Moves, Positions

-----------------------------------------------------------------------------
(* The inductive invariant *)

LEMMA NextSteps ==
  ASSUME Next
  PROVE  \/ \E t \in Tasks : Request(t)
         \/ \E l \in Locks : Grant(l)
         \/ \E t \in Tasks : AddPeer(t) \/ RemovePeer(t)
         \/ \E t \in Tasks : SetPeerKey(t) \/ CloneKey(t)
         \/ \E t \in Tasks : LoopStep(t)
  BY DEF Next, Run, LoopStep

LEMMA TypesKept ==
  ASSUME TypeOK, Exclusive, Next
  PROVE  TypeOK' /\ Exclusive'
  BY NextSteps, RequestKeeps, GrantKeeps, ListHandlersKeep, SetPeerKeyKeeps, LoopKeeps

\* A grant keeps a task in its handler.
LEMMA GrantedInHandler ==
  ASSUME NEW do \in Jobs, NEW s \in Awaits, s \in StagesOf(do)
  PROVE  Granted(s) \in StagesOf(do)
<1>1. CASE s \in {"add", "leave", "remove", "label", "lookup", "fill"}
  BY <1>1, GrantedStages DEF Jobs, StagesOf, Walk, Hit, Scan, Fill, Reply
<1>2. CASE s \in {"walk", "hit", "scan", "walk_key", "hit_key", "scan_key", "reply_key"}
  BY <1>2, GrantedStages DEF Jobs, StagesOf, Walk, Hit, Scan, Fill, Reply
<1> QED
  BY <1>1, <1>2 DEF Awaits, WriteAwaits, ReadAwaits

\* The task of a grant.
LEMMA GrantMoves ==
  ASSUME TypeOK, NEW l \in Locks, Grant(l)
  PROVE  \E t \in Tasks : /\ pc[t] \in Awaits /\ pc' = [pc EXCEPT ![t] = Granted(pc[t])]
                          /\ UNCHANGED <<load, outer, inner, list, label, cached>>
<1>1. queue[l] \in Seq(Tasks) /\ queue[l] # <<>>
  BY DEF TypeOK, Grant, Grantable
<1>2. Head(queue[l]) \in Tasks /\ Head(queue[l]) = queue[l][1] /\ 1 \in 1 .. Len(queue[l])
  BY <1>1, HeadTailProperties
<1> QED
  BY <1>2 DEF TypeOK, Grant

LEMMA AtOwnStageKept ==
  ASSUME IInv, Next
  PROVE  AtOwnStage'
<1> USE DEF IInv
<1>0. pc \in [Tasks -> Stages] /\ \A t \in Tasks : pc[t] \in StagesOf(Job(t).do) /\ Job(t).do \in Jobs
  BY JobType DEF TypeOK, AtOwnStage
<1>1. ASSUME NEW t \in Tasks, NEW s, s \in StagesOf(Job(t).do), pc' = [pc EXCEPT ![t] = s], load' = load
      PROVE  AtOwnStage'
  BY <1>0, <1>1 DEF AtOwnStage, Job
<1>2. ASSUME NEW t \in Tasks, Request(t) PROVE AtOwnStage'
  BY <1>2 DEF AtOwnStage, Job, Request
<1>3. ASSUME NEW l \in Locks, Grant(l) PROVE AtOwnStage'
  <2>1. PICK t \in Tasks : pc[t] \in Awaits /\ pc' = [pc EXCEPT ![t] = Granted(pc[t])] /\ load' = load
    BY <1>3, GrantMoves
  <2> QED
    BY <2>1, <1>0, <1>1, GrantedInHandler
<1>4. ASSUME NEW t \in Tasks, AddPeer(t) \/ RemovePeer(t) PROVE AtOwnStage'
  <2>1. "end" \in StagesOf(Job(t).do) /\ pc' = [pc EXCEPT ![t] = "end"] /\ load' = load
    BY <1>0, <1>4 DEF AddPeer, RemovePeer, Goto, StagesOf, Jobs
  <2> QED
    BY <2>1, <1>1
<1>5. ASSUME NEW t \in Tasks, SetPeerKey(t) \/ CloneKey(t) PROVE AtOwnStage'
  <2>1. CASE SetPeerKey(t)
    <3>1. "end" \in StagesOf(Job(t).do) /\ pc' = [pc EXCEPT ![t] = "end"] /\ load' = load
      BY <1>0, <2>1 DEF SetPeerKey, Goto, StagesOf, Jobs
    <3> QED
      BY <3>1, <1>1
  <2>2. CASE CloneKey(t)
    <3>1. "remove" \in StagesOf(Job(t).do) /\ pc' = [pc EXCEPT ![t] = "remove"] /\ load' = load
      BY <1>0, <2>2 DEF CloneKey, Goto, StagesOf, Jobs, Walk, Hit, Scan, Fill, Reply
    <3> QED
      BY <3>1, <1>1
  <2> QED
    BY <1>5, <2>1, <2>2
<1>6. ASSUME NEW t \in Tasks, LoopStep(t) PROVE AtOwnStage'
  <2>1. PICK s, o, i : Moves(t, s, o, i) /\ Follows(pc[t], s)
    BY <1>6, LoopMoves
  <2> QED
    BY <2>1, <1>0, <1>1 DEF Moves, Follows
<1> QED
  BY <1>2, <1>3, <1>4, <1>5, <1>6, NextSteps

\* A search holds the key of its target, so set_peer_key has to wait.
LEMMA TargetKeptStep ==
  ASSUME IInv, Next
  PROVE  TargetKept'
<1> USE DEF IInv
<1>0. pc \in [Tasks -> Stages] /\ outer \in [Tasks -> Nat \ {0}] /\ label \in [Conn -> Keys \cup {NoKey}]
  BY DEF TypeOK
<1>1. ASSUME NEW t \in Tasks, Request(t) PROVE TargetKept'
  BY <1>1 DEF TargetKept, OuterKey, Job, Request
<1>2. ASSUME NEW l \in Locks, Grant(l) PROVE TargetKept'
  <2>1. PICK t \in Tasks : /\ pc[t] \in Awaits /\ pc' = [pc EXCEPT ![t] = Granted(pc[t])]
                          /\ UNCHANGED <<load, outer, inner, list, label, cached>>
    BY <1>2, GrantMoves
  <2>2. \A u \in Tasks : pc'[u] \in Fill \cup Reply => pc[u] \in Fill \cup Reply
    <3>1. Granted(pc[t]) \in Fill \cup Reply => pc[t] \in Fill \cup Reply
      BY <2>1, GrantedStages DEF Awaits, WriteAwaits, ReadAwaits, Fill, Reply
    <3> QED
      BY <3>1, <2>1, <1>0
  <2> QED
    BY <2>1, <2>2 DEF TargetKept, OuterKey, Job
<1>3. ASSUME NEW t \in Tasks, AddPeer(t) \/ RemovePeer(t) PROVE TargetKept'
  <2>1. pc[t] \in {"adding", "removing"} /\ pc' = [pc EXCEPT ![t] = "end"]
    BY <1>3 DEF AddPeer, RemovePeer, Goto
  <2>2. \A u \in Tasks : pc'[u] \notin Fill \cup Reply
    BY <2>1, <1>0, WriterAlone DEF ListStages, Fill, Reply
  <2> QED
    BY <2>2 DEF TargetKept
<1>4. ASSUME NEW t \in Tasks, SetPeerKey(t) \/ CloneKey(t) PROVE TargetKept'
  <2>1. /\ \A u \in Tasks : pc'[u] \in Fill \cup Reply => u # t /\ pc[u] \in Fill \cup Reply
        /\ UNCHANGED <<load, outer, list>>
    BY <1>4, <1>0 DEF SetPeerKey, CloneKey, Goto, Fill, Reply
  <2>2. ASSUME NEW u \in Tasks, u # t, pc[u] \in Fill \cup Reply
        PROVE  label'[OuterKey(u)] = label[OuterKey(u)]
    <3>1. OuterKey(u) \in Conn /\ OuterKey(u) \in Locks /\ Reads(u, OuterKey(u))
      BY <2>2, KeysAreConnections DEF AtOuterKey, Locks, Reads
    <3>2. CASE SetPeerKey(t)
      <4>1. Writes(t, Job(t).conn) /\ label' = [label EXCEPT ![Job(t).conn] = Job(t).key]
        BY <3>2 DEF SetPeerKey, Writes
      <4>2. OuterKey(u) # Job(t).conn
        BY <3>1, <4>1, <2>2 DEF Exclusive
      <4> QED
        BY <4>1, <4>2, <3>1, <1>0
    <3>3. CASE CloneKey(t)
      BY <3>3 DEF CloneKey
    <3> QED
      BY <3>2, <3>3, <1>4
  <2> QED
    BY <2>1, <2>2 DEF TargetKept, OuterKey, Job
<1>5. ASSUME NEW t \in Tasks, LoopStep(t) PROVE TargetKept'
  <2>1. PICK s, o, i : Moves(t, s, o, i) /\ Follows(pc[t], s) /\ Positions(t, s, o, i)
    BY <1>5, LoopMoves
  <2>2. /\ pc'[t] = s /\ outer'[t] = o /\ UNCHANGED <<load, list, label>>
        /\ \A u \in Tasks \ {t} : pc'[u] = pc[u] /\ outer'[u] = outer[u]
    BY <2>1, <1>0 DEF Moves
  <2>3. s \in Fill \cup Reply => o = outer[t] /\ label[OuterKey(t)] = Job(t).key
    BY <2>1 DEF Positions, AtOuterKey, TargetKept
  <2> QED
    BY <2>2, <2>3 DEF TargetKept, OuterKey, Job
<1> QED
  BY <1>1, <1>2, <1>3, <1>4, <1>5, NextSteps

LEMMA LoadFixed ==
  ASSUME load' = load
  PROVE  /\ Searching' = Searching /\ \A n : Early(n)' = Early(n)
         /\ \A t : Job(t)' = Job(t) /\ \A n : InitiatorAt(t, n)' <=> InitiatorAt(t, n)
<1>1. \A t : Job(t)' = Job(t)
  BY DEF Job
<1>2. Searching' = Searching
  BY <1>1 DEF Searching
<1>3. \A n : Early(n)' = Early(n)
  BY DEF Early
<1>4. ASSUME NEW t, NEW n PROVE InitiatorAt(t, n)' <=> InitiatorAt(t, n)
  BY <1>1 DEF InitiatorAt
<1> QED
  BY <1>1, <1>2, <1>3, <1>4

LEMMA LoadConstant ==
  ASSUME TypeOK, Next
  PROVE  load' = load
<1>1. ASSUME NEW l \in Locks, Grant(l) PROVE load' = load
  BY <1>1, GrantMoves
<1>2. ASSUME NEW t \in Tasks, LoopStep(t) PROVE load' = load
  BY <1>2, LoopMoves DEF Moves
<1> QED
  BY <1>1, <1>2, NextSteps DEF Request, AddPeer, RemovePeer, SetPeerKey, CloneKey

\* Nobody but set_peer_key changes keys, and one that may run beside t keeps them.
LEMMA KeysKept ==
  ASSUME IInv, Next, NEW t \in Searching, NEW n \in 1 .. Len(load.list), InitiatorAt(t, n), FirstOK(t, n)
  PROVE  label'[load.list[n]] = Job(t).from /\ \A d \in Early(n) : label'[d] # Job(t).key
<1> USE DEF IInv
<1>1. /\ load.list \in Seq(Conn) /\ load.list[n] \in Early(n) /\ Early(n) \subseteq Conn
      /\ label \in [Conn -> Keys \cup {NoKey}] /\ t \in Tasks
  <2>1. load.list \in Seq(Conn)
    BY DEF TypeOK, LoadType
  <2> QED
    BY <2>1 DEF TypeOK, Early, Searching
<1>2. /\ label[load.list[n]] = Job(t).from /\ \A d \in Early(n) : label[d] # Job(t).key
  BY DEF FirstOK
<1>3. ASSUME label' = label
      PROVE  label'[load.list[n]] = Job(t).from /\ \A d \in Early(n) : label'[d] # Job(t).key
  BY <1>2, <1>3
<1>4. ASSUME NEW u \in Tasks, SetPeerKey(u)
      PROVE  label'[load.list[n]] = Job(t).from /\ \A d \in Early(n) : label'[d] # Job(t).key
  <2>1. label' = [label EXCEPT ![Job(u).conn] = Job(u).key] /\ Job(u).conn \in Conn
    BY <1>4, JobType DEF SetPeerKey
  <2>2. Job(u).do = "set_peer_key"
    BY <1>4, JobType DEF SetPeerKey, AtOwnStage, StagesOf, Jobs, Walk, Hit, Scan, Fill, Reply
  <2>3. /\ Job(u).conn = load.list[n] => Job(u).key = Job(t).from
        /\ Job(u).conn \in Early(n) => Job(u).key # Job(t).key
    BY <2>2 DEF InitiatorAt, Early
  <2> QED
    BY <1>1, <1>2, <2>1, <2>3
<1>5. ASSUME NEW l \in Locks, Grant(l) PROVE label' = label
  BY <1>5, GrantMoves
<1>6. ASSUME NEW u \in Tasks, LoopStep(u) PROVE label' = label
  BY <1>6, LoopMoves DEF Moves
<1> QED
  BY <1>3, <1>4, <1>5, <1>6, NextSteps DEF Request, AddPeer, RemovePeer, CloneKey

\* The connection stays before the others, and the loop that looks for it in front of it.
PlaceOK(t, n) ==
  \E k \in 1 .. Len(list) :
    /\ list[k] = load.list[n]
    /\ \A m \in 1 .. k : list[m] \in Early(n)
    /\ pc[t] \in Reply => inner[t] <= k

LEMMA PlaceKept ==
  ASSUME IInv, Next, NEW t \in Searching, NEW n \in 1 .. Len(load.list), InitiatorAt(t, n), FirstOK(t, n)
  PROVE  PlaceOK(t, n)'
<1> USE DEF IInv
<1> DEFINE c == load.list[n]
           Place(l, k) == k \in 1 .. Len(l) /\ l[k] = c /\ \A m \in 1 .. k : l[m] \in Early(n)
<1>0. PICK k \in 1 .. Len(list) : Place(list, k) /\ (pc[t] \in Reply => inner[t] <= k)
  BY DEF FirstOK
<1>1. /\ pc \in [Tasks -> Stages] /\ inner \in [Tasks -> Nat \ {0}] /\ t \in Tasks /\ list \in Seq(Conn)
      /\ load' = load /\ Early(n)' = Early(n) /\ Len(list) \in Nat
  BY LoadConstant, LoadFixed DEF TypeOK, Searching
<1>2. ASSUME list' = list, pc'[t] \in Reply => inner'[t] <= k PROVE PlaceOK(t, n)'
  BY <1>0, <1>1, <1>2 DEF PlaceOK
<1>3. ASSUME NEW u \in Tasks, Request(u) PROVE PlaceOK(t, n)'
  BY <1>0, <1>2, <1>3 DEF Request
<1>4. ASSUME NEW l \in Locks, Grant(l) PROVE PlaceOK(t, n)'
  <2>1. PICK u \in Tasks : /\ pc[u] \in Awaits /\ pc' = [pc EXCEPT ![u] = Granted(pc[u])]
                          /\ UNCHANGED <<load, outer, inner, list, label, cached>>
    BY <1>4, GrantMoves
  <2>2. pc'[t] \in Reply => pc[t] \in Reply
    <3>1. Granted(pc[u]) \in Reply => pc[u] \in Reply
      BY <2>1, GrantedStages DEF Awaits, WriteAwaits, ReadAwaits, Reply
    <3> QED
      BY <3>1, <2>1, <1>1
  <2> QED
    BY <2>1, <2>2, <1>0, <1>2
<1>5. ASSUME NEW u \in Tasks, SetPeerKey(u) \/ CloneKey(u) PROVE PlaceOK(t, n)'
  <2>1. (pc'[t] \in Reply => pc[t] \in Reply) /\ inner' = inner /\ list' = list
    BY <1>1, <1>5 DEF SetPeerKey, CloneKey, Goto, Reply
  <2> QED
    BY <2>1, <1>0, <1>2
<1>6. ASSUME NEW u \in Tasks, LoopStep(u) PROVE PlaceOK(t, n)'
  <2>1. PICK s, o, i : Moves(u, s, o, i) /\ Follows(pc[u], s) /\ Positions(u, s, o, i)
    BY <1>6, LoopMoves
  <2>2. list' = list
    BY <2>1 DEF Moves
  <2>3. CASE u # t
    <3>1. pc'[t] = pc[t] /\ inner'[t] = inner[t]
      BY <2>1, <2>3, <1>1 DEF Moves
    <3> QED
      BY <3>1, <2>2, <1>0, <1>2
  <2>4. CASE u = t
    <3>1. pc'[t] = s /\ inner'[t] = i
      BY <2>1, <2>4, <1>1 DEF Moves
    <3>2. CASE s \notin Reply \/ i = 1 \/ (pc[t] \in Reply /\ i = inner[t])
      BY <3>1, <3>2, <2>2, <1>0, <1>1, <1>2
    <3>3. CASE pc[t] = "reply_compare" /\ i = inner[t] + 1 /\ label[InnerKey(t)] # Job(t).from
      <4>1. inner[t] # k
        BY <3>3, <1>0 DEF FirstOK, InnerKey
      <4>2. inner[t] <= k /\ inner[t] \in Nat
        BY <3>3, <1>0, <1>1 DEF Reply
      <4>3. i <= k
        BY <4>1, <4>2, <3>3
      <4> QED
        BY <4>3, <3>1, <2>2, <1>2
    <3> QED
      BY <3>2, <3>3, <2>1, <2>4 DEF Positions
  <2> QED
    BY <2>3, <2>4
\* The list is longer, or shorter by a connection that is not the initiator's.
<1>7. ASSUME NEW u \in Tasks, AddPeer(u) \/ RemovePeer(u) PROVE PlaceOK(t, n)'
  <2>1. pc[u] \in {"adding", "removing"} /\ pc' = [pc EXCEPT ![u] = "end"]
    BY <1>7 DEF AddPeer, RemovePeer, Goto
  <2>2. pc'[t] \notin Reply
    BY <2>1, <1>1, WriterAlone DEF ListStages, Reply
  <2>3. ASSUME NEW j, Place(list', j) PROVE PlaceOK(t, n)'
    BY <2>2, <2>3, <1>1 DEF PlaceOK
  <2>4. CASE list' = list
    BY <2>3, <2>4, <1>0
  <2>5. CASE list' = Append(list, Job(u).conn)
    <3>1. Job(u).conn \in Conn
      BY JobType
    <3>2. Len(list') = Len(list) + 1 /\ \A m \in 1 .. Len(list) : list'[m] = list[m]
      BY <2>5, <3>1, <1>1, AppendProperties
    <3>3. Place(list', k)
      <4>1. k \in 1 .. Len(list') /\ list'[k] = c
        BY <3>2, <1>0, <1>1
      <4>2. \A m \in 1 .. k : m \in 1 .. Len(list)
        BY <1>1
      <4> QED
        BY <4>1, <4>2, <3>2, <1>0
    <3> QED
      BY <3>3, <2>3
  <2>6. ASSUME NEW r \in 1 .. Len(list), list[r] # c, list' = RemoveAt(list, r) PROVE PlaceOK(t, n)'
    <3>3. /\ Len(list') = Len(list) - 1
          /\ \A m \in 1 .. r - 1 : list'[m] = list[m]
          /\ \A m \in r .. Len(list) - 1 : list'[m] = list[m + 1]
      BY <2>6, <1>1, RemoveAtProperties
    <3>4. r # k
      BY <2>6, <1>0
    <3>5. CASE k < r
      <4>1. k \in 1 .. Len(list')
        BY <3>3, <3>5, <1>1
      <4>2. \A m \in 1 .. k : m \in 1 .. r - 1
        BY <3>5
      <4>3. k \in 1 .. r - 1
        BY <3>5
      <4>4. list'[k] = c
        BY <4>3, <3>3, <1>0
      <4>5. \A m \in 1 .. k : list'[m] \in Early(n)
        BY <4>2, <3>3, <1>0
      <4>6. Place(list', k)
        BY <4>1, <4>4, <4>5
      <4> QED
        BY <4>6, <2>3
    <3>6. CASE r < k
      <4>1. k - 1 \in 1 .. Len(list') /\ k - 1 \in r .. Len(list) - 1 /\ list'[k - 1] = list[k]
        BY <3>3, <3>6, <1>0, <1>1
      <4>2. ASSUME NEW m \in 1 .. k - 1 PROVE list'[m] \in Early(n)
        <5>1. list'[m] = list[m] \/ list'[m] = list[m + 1]
          BY <3>3, <3>6, <1>0, <1>1
        <5>2. m \in 1 .. k /\ m + 1 \in 1 .. k
          BY <1>0
        <5> QED
          BY <5>1, <5>2, <1>0
      <4>3. Place(list', k - 1)
        BY <4>1, <4>2, <1>0
      <4> QED
        BY <4>3, <2>3
    <3> QED
      BY <3>4, <3>5, <3>6, <1>0
  <2>7. pc[u] = "removing" => Job(u).conn # c
    <3>1. pc[u] = "removing" => Job(u).do = "remove_peer"
      BY JobType DEF AtOwnStage, StagesOf, Jobs, Walk, Hit, Scan, Fill, Reply
    <3> QED
      BY <3>1 DEF InitiatorAt
  <2> QED
    BY <1>7, <2>4, <2>5, <2>6, <2>7 DEF AddPeer, RemovePeer
<1> QED
  BY <1>3, <1>4, <1>5, <1>6, <1>7, NextSteps

LEMMA InitiatorFirstStep ==
  ASSUME IInv, Next
  PROVE  InitiatorFirst'
<1> SUFFICES ASSUME NEW t \in Searching, NEW n \in 1 .. Len(load.list), InitiatorAt(t, n)
             PROVE  FirstOK(t, n)'
  BY LoadConstant, LoadFixed DEF InitiatorFirst, IInv
<1>1. FirstOK(t, n)
  BY DEF IInv, InitiatorFirst
<1>2. PlaceOK(t, n)' /\ load' = load /\ Early(n)' = Early(n) /\ Job(t)' = Job(t)
  BY <1>1, PlaceKept, LoadConstant, LoadFixed DEF IInv
<1>3. label'[load.list[n]] = Job(t).from /\ \A d \in Early(n) : label'[d] # Job(t).key
  BY <1>1, KeysKept
<1> QED
  BY <1>2, <1>3 DEF FirstOK, PlaceOK

LEMMA InitIInv ==
  ASSUME Init
  PROVE  IInv
<1>1. load \in LoadType /\ load.list \in Seq(Conn) /\ load.label \in [Conn -> Keys \cup {NoKey}]
  BY DEF Init, LoadType
<1>2. \A t \in Tasks : load.job[t].do \in Jobs
  BY <1>1 DEF LoadType
<1>3. \A t \in Tasks : /\ pc[t] \in {"add", "leave", "label", "walk", "lookup"}
                       /\ pc[t] \in StagesOf(Job(t).do)
  BY <1>2 DEF Init, Entry, Jobs, Job, StagesOf
<1>4. TypeOK
  <2>1. pc \in [Tasks -> Stages]
    BY <1>3 DEF Init, Stages, Awaits, WriteAwaits, ReadAwaits
  <2>2. /\ queue \in [Locks -> Seq(Tasks)] /\ \A l \in Locks : Len(queue[l]) = 0
        /\ outer \in [Tasks -> Nat \ {0}] /\ inner \in [Tasks -> Nat \ {0}] /\ cached \subseteq Keys
    BY DEF Init
  <2>3. \A t \in Tasks :
          pc[t] \notin AtOuterKey \cup {"walk_key", "hit_key", "scan_key", "reply_key", "reply_compare"}
    BY <1>3 DEF AtOuterKey, Fill, Reply
  <2> QED
    BY <1>1, <2>1, <2>2, <2>3 DEF Init, TypeOK
<1>5. Exclusive
  BY <1>3 DEF Exclusive, Writes
<1>6. TargetKept
  BY <1>3 DEF TargetKept, Fill, Reply
<1>7. InitiatorFirst
  <2> SUFFICES ASSUME NEW t \in Searching, NEW n \in 1 .. Len(load.list), InitiatorAt(t, n)
               PROVE  FirstOK(t, n)
    BY DEF InitiatorFirst
  <2>1. pc[t] \notin Reply /\ list = load.list /\ label = load.label
    BY <1>3 DEF Init, Reply, Searching
  <2>2. \A m \in 1 .. n : list[m] \in Early(n)
    BY <2>1 DEF Early
  <2> QED
    BY <2>1, <2>2 DEF FirstOK, InitiatorAt, Early
<1> QED
  BY <1>3, <1>4, <1>5, <1>6, <1>7 DEF IInv, AtOwnStage

\* The inductive invariant of the handlers of a signal server: write guards are alone,
\* a search keeps the key of its target, and an initiator that is accepted before it
\* stays before it.
THEOREM Invariance == Spec => []IInv
<1>1. IInv /\ [Next]_vars => IInv'
  <2> SUFFICES ASSUME IInv, [Next]_vars PROVE IInv'
    OBVIOUS
  <2>1. CASE Next
    BY <2>1, TypesKept, AtOwnStageKept, TargetKeptStep, InitiatorFirstStep DEF IInv
  <2>2. CASE UNCHANGED vars
    <3>0. UNCHANGED <<load, pc, outer, inner, queue, list, label, cached>>
      BY <2>2 DEF vars
    <3>1. \A t \in Tasks : /\ Job(t)' = Job(t) /\ OuterKey(t)' = OuterKey(t) /\ Wants(t)' = Wants(t)
                           /\ \A l : (Reads(t, l)' <=> Reads(t, l)) /\ (Writes(t, l)' <=> Writes(t, l))
      BY <3>0, OthersKeep
    <3>2. TypeOK'
      BY <3>0, <3>1 DEF IInv, TypeOK
    <3>3. Exclusive'
      BY <3>1 DEF IInv, Exclusive
    <3>4. AtOwnStage' /\ TargetKept'
      BY <3>0, <3>1 DEF IInv, AtOwnStage, TargetKept
    <3>5. InitiatorFirst'
      BY <3>0, LoadFixed DEF IInv, InitiatorFirst, FirstOK
    <3> QED
      BY <3>2, <3>3, <3>4, <3>5 DEF IInv
  <2> QED
    BY <2>1, <2>2
<1> QED
  BY <1>1, InitIInv, PTL DEF Spec

\* Every variable of SearchLocks keeps its type, loops stay within the list they hold
\* (auto_send_packet, handle_search_request), and a task waits in one queue, once.
THEOREM TypeCorrect == Spec => []TypeOK
  BY Invariance, PTL DEF IInv

-----------------------------------------------------------------------------
(* Deadlocks *)

\* A task that waits when nothing can happen any more waits behind a writer for a
\* lock that somebody reads.
LEMMA StuckWaits ==
  ASSUME IInv, Stuck, NEW t \in Unfinished
  PROVE  /\ pc[t] \in Awaits
         /\ \E w \in Tasks : pc[w] \in WriteAwaits /\ Wants(w) = Wants(t) /\ Queued(w, Wants(t))
         /\ \E r \in Unfinished : pc[r] \in Awaits /\ Reads(r, Wants(t))
<1> USE DEF IInv
<1> DEFINE l == Wants(t)
<1>1. t \in Tasks /\ pc[t] \in Awaits /\ Queued(t, l) /\ l \in Locks /\ queue[l] \in Seq(Tasks)
  BY WantsLock DEF Stuck, Unfinished, TypeOK
<1>2. queue[l] # <<>> /\ 1 \in 1 .. Len(queue[l])
  BY <1>1 DEF Queued
<1>3. PICK w \in Tasks : w = Head(queue[l]) /\ w = queue[l][1]
  BY <1>1, <1>2, HeadTailProperties
<1>4. pc[w] \in Awaits /\ Wants(w) = l /\ Queued(w, l)
  BY <1>1, <1>2, <1>3 DEF TypeOK, Queued
<1>5. \A u \in Tasks : pc[u] \in Awaits \cup {"end"}
  BY DEF Stuck, Unfinished
<1>6. \A u \in Tasks : ~Writes(u, l)
  BY <1>5 DEF Writes, Awaits, WriteAwaits, ReadAwaits
<1>7. pc[w] \in WriteAwaits /\ \E r \in Tasks : Reads(r, l)
  BY <1>1, <1>2, <1>3, <1>6 DEF Stuck, Grantable
<1>8. \A r \in Tasks : Reads(r, l) => pc[r] # "end"
  BY DEF Reads, AtOuterKey, Walk, Hit, Scan, Fill, Reply
<1> QED
  BY <1>1, <1>4, <1>5, <1>7, <1>8 DEF Unfinished

\* What a task reads while it waits.
LEMMA ReadersThatWait ==
  ASSUME TypeOK, NEW r \in Tasks, pc[r] \in Awaits, NEW l \in Locks, Reads(r, l)
  PROVE  /\ l = "peers" => pc[r] \in {"walk_key", "hit_key", "scan_key", "fill", "reply_key"}
         /\ l = "cache" => pc[r] \in {"hit", "hit_key"}
         /\ l \in Conn => pc[r] \in {"fill", "reply_key"} /\ OuterKey(r) = l
<1>1. pc[r] \in AtOuterKey => OuterKey(r) \in Conn
  BY KeysAreConnections
<1> QED
  BY <1>1 DEF Reads, AtOuterKey, Walk, Hit, Scan, Fill, Reply, Awaits, WriteAwaits, ReadAwaits, Locks

LEMMA WritersThatWait ==
  ASSUME TypeOK, NEW w \in Tasks, pc[w] \in WriteAwaits
  PROVE  /\ Wants(w) = "cache" => pc[w] = "fill"
         /\ Wants(w) \in Conn => pc[w] = "label"
  BY WantsTable, JobType DEF WriteAwaits

LEMMA StuckShape ==
  ASSUME IInv, Stuck, ~CacheAgainstList
  PROVE  KeyCycle
<1> USE DEF IInv
<1>1. \A t \in Unfinished : t \in Tasks /\ pc[t] \in Awaits /\ Wants(t) \in Locks
  BY StuckWaits, WantsLock DEF Unfinished
<1>2. \A t \in Unfinished : pc[t] # "fill"
  <2> SUFFICES ASSUME NEW t \in Unfinished, pc[t] = "fill" PROVE FALSE
    OBVIOUS
  <2>1. Wants(t) = "cache"
    BY <1>1, WantsTable
  <2>2. PICK r \in Unfinished : pc[r] \in Awaits /\ Reads(r, "cache")
    BY <2>1, StuckWaits
  <2>3. pc[r] \in {"hit", "hit_key"}
    BY <1>1, <2>2, ReadersThatWait DEF Locks
  <2> QED
    BY <1>1, <2>3 DEF CacheAgainstList
<1>3. ASSUME NEW t \in Unfinished, Wants(t) \in Conn
      PROVE  /\ \E u \in Tasks : pc[u] = "reply_key" /\ OuterKey(u) = Wants(t)
             /\ \E w \in Tasks : pc[w] = "label" /\ Queued(w, Wants(t))
  <2>1. PICK r \in Unfinished : pc[r] \in Awaits /\ Reads(r, Wants(t))
    BY StuckWaits
  <2>2. pc[r] = "reply_key" /\ OuterKey(r) = Wants(t)
    BY <1>1, <1>2, <1>3, <2>1, ReadersThatWait
  <2>3. PICK w \in Tasks : pc[w] \in WriteAwaits /\ Wants(w) = Wants(t) /\ Queued(w, Wants(t))
    BY StuckWaits
  <2>4. pc[w] = "label"
    BY <1>3, <2>3, WritersThatWait
  <2> QED
    BY <1>1, <2>2, <2>3, <2>4
<1>4. \E t \in Unfinished : Wants(t) \in Conn
  <2>1. PICK t \in Unfinished : TRUE
    BY DEF Stuck
  <2>2. CASE Wants(t) = "cache"
    <3>1. PICK w \in Tasks : pc[w] \in WriteAwaits /\ Wants(w) = "cache"
      BY <2>2, StuckWaits
    <3>2. pc[w] = "fill" /\ w \in Unfinished
      BY <3>1, WritersThatWait DEF Unfinished
    <3> QED
      BY <3>2, <1>2
  <2>3. CASE Wants(t) = "peers"
    <3>1. PICK r \in Unfinished : pc[r] \in Awaits /\ Reads(r, "peers")
      BY <2>3, StuckWaits
    <3>2. pc[r] \in {"walk_key", "hit_key", "scan_key", "reply_key"}
      BY <1>1, <1>2, <3>1, ReadersThatWait DEF Locks
    <3>3. Wants(r) \in Conn
      BY <1>1, <3>2, WantsTable, KeysAreConnections
    <3> QED
      BY <3>3
  <2> QED
    BY <1>1, <2>2, <2>3 DEF Locks
<1> DEFINE S == {t \in Tasks : pc[t] = "reply_key"}
<1>5. S # {}
  BY <1>3, <1>4
<1>6. ASSUME NEW t \in S
      PROVE  /\ \E u \in S : OuterKey(u) = InnerKey(t)
             /\ \E w \in Tasks : pc[w] = "label" /\ Queued(w, InnerKey(t))
  <2>1. t \in Unfinished /\ Wants(t) = InnerKey(t) /\ Wants(t) \in Conn
    BY WantsTable, KeysAreConnections DEF Unfinished
  <2> QED
    BY <2>1, <1>3
<1> QED
  BY <1>5, <1>6 DEF KeyCycle

\* The handlers of a signal server stop each other in two ways only, both in
\* handle_search_request, whatever tasks run: the cache and the list locked in
\* opposite orders, or searches that hold the keys of their targets.
THEOREM Deadlocks == Spec => []DeadlockShape
<1>1. IInv => DeadlockShape
  BY StuckShape DEF DeadlockShape
<1> QED
  BY <1>1, Invariance, PTL

\* Only searches read the cache, fill it or look for an initiator.
LEMMA SearchStages ==
  ASSUME IInv, NEW t \in Tasks, pc[t] \in {"hit", "hit_key", "fill", "reply_key"}
  PROVE  t \in Searching
  BY JobType DEF IInv, AtOwnStage, StagesOf, Jobs, Walk, Searching

\* With one search at a time, and a target that is accepted after its initiator, the
\* handlers of a signal server never stop each other.
THEOREM HarmlessGoesOn == Spec => []HarmlessNeverStuck
<1>1. IInv => HarmlessNeverStuck
  <2> SUFFICES ASSUME IInv, Harmless, Stuck PROVE FALSE
    BY DEF HarmlessNeverStuck
  <2>1. ~CacheAgainstList
    BY SearchStages DEF CacheAgainstList, Harmless
  <2>2. PICK S \in SUBSET Tasks :
          /\ S # {}
          /\ \A t \in S : pc[t] = "reply_key" /\ \E u \in S : OuterKey(u) = InnerKey(t)
    BY <2>1, StuckShape DEF KeyCycle
  <2>3. PICK t \in S : TRUE
    BY <2>2
  <2>4. t \in Searching /\ pc[t] = "reply_key" /\ OuterKey(t) = InnerKey(t) /\ t \in Tasks
    BY <2>2, SearchStages DEF Harmless
  <2>5. PICK n \in 1 .. Len(load.list) : InitiatorAt(t, n)
    BY <2>4 DEF Harmless, InitiatorBeforeTarget
  <2>6. FirstOK(t, n) /\ label[OuterKey(t)] = Job(t).key
    BY <2>4, <2>5 DEF IInv, InitiatorFirst, TargetKept, Reply
  <2>7. InnerKey(t) \in Early(n)
    <3>1. PICK k \in 1 .. Len(list) : inner[t] <= k /\ \A m \in 1 .. k : list[m] \in Early(n)
      BY <2>4, <2>6 DEF FirstOK, Reply
    <3>2. inner[t] \in 1 .. k
      BY <2>4, <3>1 DEF IInv, TypeOK
    <3> QED
      BY <3>1, <3>2 DEF InnerKey
  <2> QED
    BY <2>4, <2>6, <2>7 DEF FirstOK
<1> QED
  BY <1>1, Invariance, PTL

-----------------------------------------------------------------------------
(* Steps go forward *)

\* Sections and parts of the stages that lead somewhere.
LEMMA StageNumbers ==
  /\ \A s \in {"add", "leave", "label", "walk", "lookup"} : s \in Stages /\ Section[s] = 0
  /\ \A s \in {"adding", "leaving", "labelling", "looking"} : s \in Stages /\ Section[s] = 1
  /\ \A s \in {"remove", "hit"} : s \in Stages /\ Section[s] = 2
  /\ \A s \in {"removing"} \cup Walk \cup Hit : s \in Stages /\ Section[s] = 3
  /\ "scan" \in Stages /\ Section["scan"] = 4
  /\ \A s \in Scan \cup Fill \cup Reply : s \in Stages /\ Section[s] = 5
  /\ "end" \in Stages /\ Section["end"] = 6
  /\ \A s \in {"walking", "hitting", "scanning"} : Part[s] = 0
  /\ \A s \in {"walk_key", "hit_key", "scan_key"} : Part[s] = 1
  /\ \A s \in {"walk_compare", "hit_compare", "scan_compare"} : Part[s] = 2
  /\ Part["fill"] = 3 /\ Part["filling"] = 4
  /\ \A s \in Reply : Part[s] = 5
  /\ ReplyPart["replying"] = 0 /\ ReplyPart["reply_key"] = 1 /\ ReplyPart["reply_compare"] = 2
<1> USE DEF Stages, Awaits, WriteAwaits, ReadAwaits, Walk, Hit, Scan, Fill, Reply
<1>1. /\ \A s \in {"add", "leave", "label", "walk", "lookup"} : s \in Stages /\ Section[s] = 0
      /\ \A s \in {"adding", "leaving", "labelling", "looking"} : s \in Stages /\ Section[s] = 1
      /\ \A s \in {"remove", "hit"} : s \in Stages /\ Section[s] = 2
  BY DEF Section
<1>2. /\ \A s \in {"removing"} \cup Walk \cup Hit : s \in Stages /\ Section[s] = 3
      /\ "scan" \in Stages /\ Section["scan"] = 4
  BY DEF Section
<1>3. /\ \A s \in Scan \cup Fill \cup Reply : s \in Stages /\ Section[s] = 5
      /\ "end" \in Stages /\ Section["end"] = 6
  BY DEF Section
<1>4. /\ \A s \in {"walking", "hitting", "scanning"} : Part[s] = 0
      /\ \A s \in {"walk_key", "hit_key", "scan_key"} : Part[s] = 1
      /\ \A s \in {"walk_compare", "hit_compare", "scan_compare"} : Part[s] = 2
  BY DEF Part
<1>5. Part["fill"] = 3 /\ Part["filling"] = 4 /\ \A s \in Reply : Part[s] = 5
  BY DEF Part
<1>6. ReplyPart["replying"] = 0 /\ ReplyPart["reply_key"] = 1 /\ ReplyPart["reply_compare"] = 2
  BY DEF ReplyPart
<1> QED
  BY <1>1, <1>2, <1>3, <1>4, <1>5, <1>6

\* The next stage and positions of t are ahead of its last ones.
Ahead(t, s, o, i) ==
  \/ Section[pc[t]] < Section[s]
  \/ Section[pc[t]] = Section[s] /\ outer[t] < o
  \/ Section[pc[t]] = Section[s] /\ outer[t] = o /\ Part[pc[t]] < Part[s]
  \/ /\ Section[pc[t]] = Section[s] /\ outer[t] = o /\ Part[pc[t]] = Part[s]
     /\ inner[t] < i \/ (inner[t] = i /\ ReplyPart[pc[t]] < ReplyPart[s])

LEMMA AheadIsForward ==
  ASSUME NEW t \in Tasks, Ahead(t, pc'[t], outer'[t], inner'[t])
  PROVE  Before(Way(t), Way(t)')
<1> DEFINE a == Way(t)
           b == Way(t)'
<1>1. /\ a[1] = Section[pc[t]] /\ a[2] = outer[t] /\ a[3] = Part[pc[t]] /\ a[4] = inner[t] /\ a[5] = ReplyPart[pc[t]]
      /\ b[1] = Section[pc'[t]] /\ b[2] = outer'[t] /\ b[3] = Part[pc'[t]] /\ b[4] = inner'[t]
      /\ b[5] = ReplyPart[pc'[t]]
  BY DEF Way, Section, Part, ReplyPart
<1>2. \/ a[1] < b[1]
      \/ a[2] < b[2] /\ a[1] = b[1]
      \/ a[3] < b[3] /\ a[1] = b[1] /\ a[2] = b[2]
      \/ a[4] < b[4] /\ a[1] = b[1] /\ a[2] = b[2] /\ a[3] = b[3]
      \/ a[5] < b[5] /\ a[1] = b[1] /\ a[2] = b[2] /\ a[3] = b[3] /\ a[4] = b[4]
  BY <1>1 DEF Ahead
<1> HIDE DEF a, b
<1>3. \E n \in 1 .. 6 : a[n] < b[n] /\ \A j \in 1 .. n - 1 : a[j] = b[j]
  <2>1. CASE a[1] < b[1]
    BY <2>1
  <2>2. CASE a[2] < b[2] /\ a[1] = b[1]
    BY <2>2
  <2>3. CASE a[3] < b[3] /\ a[1] = b[1] /\ a[2] = b[2]
    BY <2>3
  <2>4. CASE a[4] < b[4] /\ a[1] = b[1] /\ a[2] = b[2] /\ a[3] = b[3]
    BY <2>4
  <2>5. CASE a[5] < b[5] /\ a[1] = b[1] /\ a[2] = b[2] /\ a[3] = b[3] /\ a[4] = b[4]
    BY <2>5
  <2> QED
    BY <1>2, <2>1, <2>2, <2>3, <2>4, <2>5
<1> QED
  BY <1>3 DEF Before, a, b

\* A step of a loop goes on in the loop, or leaves it.
LEMMA LoopAhead ==
  ASSUME TypeOK, NEW t \in Tasks, LoopStep(t)
  PROVE  Ahead(t, pc'[t], outer'[t], inner'[t])
<1>0. /\ outer[t] \in Nat \ {0} /\ inner[t] \in Nat \ {0} /\ pc \in [Tasks -> Stages]
      /\ outer \in [Tasks -> Nat \ {0}] /\ inner \in [Tasks -> Nat \ {0}]
  BY DEF TypeOK
<1>1. ASSUME NEW s, NEW o, NEW i, Moves(t, s, o, i), Ahead(t, s, o, i)
      PROVE  Ahead(t, pc'[t], outer'[t], inner'[t])
  <2>1. pc'[t] = s /\ outer'[t] = o /\ inner'[t] = i
    BY <1>0, <1>1 DEF Moves
  <2> QED
    BY <1>1, <2>1
<1>2. ASSUME NEW s, Section[pc[t]] < Section[s], Leave(t, s)
      PROVE  Ahead(t, pc'[t], outer'[t], inner'[t])
  BY <1>1, <1>2, LeaveMoves DEF Ahead
<1>3. ASSUME NEW s, Section[pc[t]] = Section[s], Continue(t, s)
      PROVE  Ahead(t, pc'[t], outer'[t], inner'[t])
  <2>1. outer[t] < outer[t] + 1
    BY <1>0
  <2> QED
    BY <1>1, <1>3, <2>1, ContinueMoves DEF Ahead
<1>4. ASSUME NEW loop, NEW key, NEW stop, Section[loop] = Section[key], Part[loop] < Part[key],
             Section[loop] < Section[stop], Iterate(t, loop, key, stop)
      PROVE  Ahead(t, pc'[t], outer'[t], inner'[t])
  <2>1. /\ pc[t] = loop
        /\ \/ Moves(t, key, outer[t], inner[t])
           \/ Moves(t, stop, 1, inner[t])
    BY <1>4, IterateMoves
  <2> QED
    BY <2>1, <1>1, <1>4 DEF Ahead
<1>5. CASE \/ Iterate(t, "walking", "walk_key", "end") \/ Iterate(t, "hitting", "hit_key", "scan")
           \/ Iterate(t, "scanning", "scan_key", "end")
  <2>1. /\ Section["walking"] = Section["walk_key"] /\ Part["walking"] < Part["walk_key"]
        /\ Section["walking"] < Section["end"]
        /\ Section["hitting"] = Section["hit_key"] /\ Part["hitting"] < Part["hit_key"]
        /\ Section["hitting"] < Section["scan"]
        /\ Section["scanning"] = Section["scan_key"] /\ Part["scanning"] < Part["scan_key"]
        /\ Section["scanning"] < Section["end"]
    BY StageNumbers DEF Walk, Hit, Scan
  <2> QED
    BY <2>1, <1>4, <1>5
<1>6. CASE CompareWalk(t)
  <2>1. Section["walk_compare"] = Section["walking"] /\ Section["walk_compare"] < Section["end"]
    BY StageNumbers DEF Walk
  <2> QED
    BY <2>1, <1>2, <1>3, <1>6 DEF CompareWalk
<1>7. CASE Lookup(t)
  <2>1. Section["looking"] < Section["hit"] /\ Section["looking"] < Section["scan"]
    BY StageNumbers
  <2> QED
    BY <2>1, <1>2, <1>7 DEF Lookup
<1>8. CASE CompareHit(t)
  <2>1. Section["hit_compare"] = Section["hitting"] /\ Section["hit_compare"] < Section["end"]
    BY StageNumbers DEF Hit
  <2> QED
    BY <2>1, <1>2, <1>3, <1>8 DEF CompareHit
<1>9. CASE CompareScan(t)
  <2>1. /\ Section["scan_compare"] = Section["scanning"] /\ Section["scan_compare"] = Section["fill"]
        /\ Part["scan_compare"] < Part["fill"]
    BY StageNumbers DEF Scan, Fill
  <2>2. CASE Leave(t, "fill") /\ pc[t] = "scan_compare"
    BY <2>1, <2>2, <1>1, LeaveMoves DEF Ahead
  <2> QED
    BY <2>1, <2>2, <1>3, <1>9 DEF CompareScan
<1>10. CASE FillCache(t)
  <2>1. Section["filling"] = Section["replying"] /\ Part["filling"] < Part["replying"]
    BY StageNumbers DEF Fill, Reply
  <2>2. pc[t] = "filling" /\ pc'[t] = "replying" /\ outer'[t] = outer[t]
    BY <1>0, <1>10 DEF FillCache, Goto
  <2> QED
    BY <2>1, <2>2 DEF Ahead
<1>11. CASE IterateReply(t)
  <2>1. /\ Section["replying"] = Section["reply_key"] /\ Part["replying"] = Part["reply_key"]
        /\ ReplyPart["replying"] < ReplyPart["reply_key"] /\ Section["replying"] = Section["scanning"]
    BY StageNumbers DEF Reply, Scan
  <2>2. CASE Leave(t, "reply_key") /\ pc[t] = "replying"
    BY <2>1, <2>2, <1>1, LeaveMoves DEF Ahead
  <2> QED
    BY <2>1, <2>2, <1>3, <1>11 DEF IterateReply
<1>12. CASE CompareReply(t)
  <2>1. /\ Section["reply_compare"] = Section["replying"] /\ Part["reply_compare"] = Part["replying"]
        /\ Section["reply_compare"] < Section["end"]
    BY StageNumbers DEF Reply
  <2>2. CASE Leave(t, "end") /\ pc[t] = "reply_compare"
    BY <2>1, <2>2, <1>2
  <2>3. CASE /\ pc[t] = "reply_compare" /\ Goto(t, "replying") /\ outer' = outer
             /\ inner' = [inner EXCEPT ![t] = @ + 1]
    <3>1. pc'[t] = "replying" /\ outer'[t] = outer[t] /\ inner'[t] = inner[t] + 1 /\ inner[t] < inner[t] + 1
      BY <2>3, <1>0 DEF Goto
    <3> QED
      BY <2>1, <2>3, <3>1 DEF Ahead
  <2> QED
    BY <2>2, <2>3, <1>12 DEF CompareReply
<1> QED
  BY <1>5, <1>6, <1>7, <1>8, <1>9, <1>10, <1>11, <1>12 DEF LoopStep

\* So does a grant.
LEMMA GrantAhead ==
  ASSUME TypeOK, NEW t \in Tasks, pc[t] \in Awaits, pc' = [pc EXCEPT ![t] = Granted(pc[t])],
         UNCHANGED <<outer, inner>>
  PROVE  Ahead(t, pc'[t], outer'[t], inner'[t])
<1>1. pc'[t] = Granted(pc[t])
  BY DEF TypeOK
<1>2. CASE pc[t] \in {"add", "leave", "label", "walk", "lookup", "remove", "hit", "scan"}
  <2>1. Section[pc[t]] < Section[Granted(pc[t])]
    BY <1>2, StageNumbers, GrantedStages DEF Walk, Hit, Scan
  <2> QED
    BY <2>1, <1>1 DEF Ahead
<1>3. CASE pc[t] \in {"walk_key", "hit_key", "scan_key", "fill"}
  <2>1. Section[pc[t]] = Section[Granted(pc[t])] /\ Part[pc[t]] < Part[Granted(pc[t])]
    BY <1>3, StageNumbers, GrantedStages DEF Walk, Hit, Scan, Fill
  <2> QED
    BY <2>1, <1>1 DEF Ahead
<1>4. CASE pc[t] = "reply_key"
  <2>1. /\ Section[pc[t]] = Section[Granted(pc[t])] /\ Part[pc[t]] = Part[Granted(pc[t])]
        /\ ReplyPart[pc[t]] < ReplyPart[Granted(pc[t])]
    BY <1>4, StageNumbers, GrantedStages DEF Reply
  <2> QED
    BY <2>1, <1>1 DEF Ahead
<1> QED
  BY <1>2, <1>3, <1>4 DEF Awaits, WriteAwaits, ReadAwaits

LEMMA AheadMoves ==
  ASSUME TypeOK, NEW t \in Tasks, Ahead(t, pc'[t], outer'[t], inner'[t])
  PROVE  ~Stays(t)
<1>1. pc[t] \in Stages /\ outer[t] \in Nat /\ inner[t] \in Nat
  BY DEF TypeOK
<1>2. Section[pc[t]] \in Nat /\ Part[pc[t]] \in Nat /\ ReplyPart[pc[t]] \in Nat
  <2>1. Section[pc[t]] \in Nat
    <3> DEFINE A == {"add", "leave", "label", "walk", "lookup"}
               B == {"adding", "leaving", "labelling", "looking"}
               C == {"remove", "hit"}
               D == {"removing"} \cup Walk \cup Hit
               E == Scan \cup Fill \cup Reply
    <3>1. pc[t] \in A \cup B \cup C \cup D \cup E \cup {"scan", "end"}
      BY <1>1 DEF Stages, Awaits, WriteAwaits, ReadAwaits, Walk, Hit, Scan, Fill, Reply
    <3>2. /\ \A s \in A : Section[s] \in Nat
          /\ \A s \in B : Section[s] \in Nat
          /\ \A s \in C : Section[s] \in Nat
          /\ \A s \in D : Section[s] \in Nat
          /\ \A s \in E : Section[s] \in Nat
          /\ Section["scan"] \in Nat /\ Section["end"] \in Nat
      BY StageNumbers
    <3> HIDE DEF A, B, C, D, E
    <3> QED
      BY <3>1, <3>2
  <2>2. Part[pc[t]] \in Nat /\ ReplyPart[pc[t]] \in Nat
    BY <1>1 DEF Part, ReplyPart
  <2> QED
    BY <2>1, <2>2
<1>3. Stays(t) => pc'[t] = pc[t] /\ outer'[t] = outer[t] /\ inner'[t] = inner[t]
  BY DEF Stays
<1> QED
  BY <1>1, <1>2, <1>3 DEF Ahead

LEMMA OtherStays ==
  ASSUME NEW u \in Tasks, pc'[u] = pc[u], outer'[u] = outer[u], inner'[u] = inner[u],
         pc[u] \in Awaits => Wants(u)' = Wants(u) /\ (Queued(u, Wants(u))' <=> Queued(u, Wants(u)))
  PROVE  Stays(u)
<1>1. Asked(u)' = Asked(u)
  BY DEF Asked
<1> QED
  BY <1>1 DEF Stays

\* A step moves the task that takes it and nobody else.
LEMMA StepForward ==
  ASSUME IInv, Next
  PROVE  \E t \in Tasks : /\ ~Stays(t) /\ Before(Way(t), Way(t)')
                          /\ \A u \in Tasks \ {t} : Stays(u)
<1> USE DEF IInv
<1>0. /\ pc \in [Tasks -> Stages] /\ outer \in [Tasks -> Nat \ {0}] /\ inner \in [Tasks -> Nat \ {0}]
      /\ queue \in [Locks -> Seq(Tasks)]
      /\ \A u \in Tasks : pc[u] \in Awaits => Wants(u) \in Locks
  BY WantsLock DEF TypeOK
<1>1. ASSUME NEW t \in Tasks, Ahead(t, pc'[t], outer'[t], inner'[t]), queue' = queue,
             \A u \in Tasks \ {t} : pc'[u] = pc[u] /\ outer'[u] = outer[u] /\ inner'[u] = inner[u],
             \A u \in Tasks \ {t} : pc[u] \in Awaits => Wants(u)' = Wants(u)
      PROVE  ~Stays(t) /\ Before(Way(t), Way(t)') /\ \A u \in Tasks \ {t} : Stays(u)
  <2>1. \A u \in Tasks \ {t} : pc[u] \in Awaits =>
          Wants(u)' = Wants(u) /\ (Queued(u, Wants(u))' <=> Queued(u, Wants(u)))
    BY <1>1 DEF Queued
  <2> QED
    BY <1>1, <2>1, AheadMoves, AheadIsForward, OtherStays
<1>2. ASSUME NEW t \in Tasks, pc[t] \notin Awaits, NEW s, pc' = [pc EXCEPT ![t] = s], Section[pc[t]] < Section[s],
             UNCHANGED <<load, outer, inner, queue>>,
             list' = list \/ \A u \in Tasks \ {t} : pc[u] \notin ListStages
      PROVE  ~Stays(t) /\ Before(Way(t), Way(t)') /\ \A u \in Tasks \ {t} : Stays(u)
  <2>1. Ahead(t, pc'[t], outer'[t], inner'[t])
    BY <1>0, <1>2 DEF Ahead
  <2>2. ASSUME NEW u \in Tasks \ {t} PROVE pc'[u] = pc[u] /\ (pc[u] \in Awaits => Wants(u)' = Wants(u))
    <3>1. pc'[u] = pc[u] /\ Job(u)' = Job(u)
      BY <1>0, <1>2 DEF Job
    <3>2. CASE list' = list
      BY <3>1, <3>2, <1>2, OthersKeep
    <3>3. CASE pc[u] \notin ListStages
      BY <3>1, <3>3 DEF Wants, Awaits, WriteAwaits, ReadAwaits, ListStages, Walk, Hit, Scan, Fill, Reply
    <3> QED
      BY <3>1, <3>2, <3>3, <1>2
  <2> QED
    BY <2>1, <2>2, <1>1, <1>2
<1>3. ASSUME NEW t \in Tasks, Request(t)
      PROVE  ~Stays(t) /\ Before(Way(t), Way(t)') /\ \A u \in Tasks \ {t} : Stays(u)
  <2>1. /\ pc[t] \in Awaits /\ ~Queued(t, Wants(t)) /\ queue' = [queue EXCEPT ![Wants(t)] = Append(@, t)]
        /\ UNCHANGED <<load, pc, outer, inner, list>> /\ Wants(t) \in Locks
    BY <1>0, <1>3 DEF Request
  <2>2. \A u \in Tasks : Wants(u)' = Wants(u)
    BY <2>1, OthersKeep
  <2> DEFINE q == queue[Wants(t)]
  <2>3. /\ q \in Seq(Tasks) /\ queue'[Wants(t)] = Append(q, t) /\ Len(q) \in Nat
        /\ \A m \in Locks \ {Wants(t)} : queue'[m] = queue[m]
    BY <2>1, <1>0
  <2>4. /\ Len(Append(q, t)) = Len(q) + 1 /\ Append(q, t)[Len(q) + 1] = t
        /\ \A m \in 1 .. Len(q) : Append(q, t)[m] = q[m]
    BY <2>3, AppendProperties
  <2>5. Asked(t) = 0 /\ Asked(t)' = 1
    <3>1. Len(q) + 1 \in 1 .. Len(Append(q, t))
      BY <2>3, <2>4
    <3>2. \E n \in 1 .. Len(queue'[Wants(t)]) : queue'[Wants(t)][n] = t
      BY <3>1, <2>3, <2>4
    <3>3. Queued(t, Wants(t))'
      BY <3>2, <2>2 DEF Queued
    <3> QED
      BY <3>3, <2>1, <2>2 DEF Asked
  <2>6. ASSUME NEW u \in Tasks \ {t}, pc[u] \in Awaits PROVE Queued(u, Wants(u))' <=> Queued(u, Wants(u))
    <3>1. CASE Wants(u) # Wants(t)
      BY <3>1, <2>2, <2>3, <2>6, <1>0 DEF Queued
    <3>2. CASE Wants(u) = Wants(t)
      <4>1. Queued(u, Wants(u)) <=> \E n \in 1 .. Len(q) : q[n] = u
        BY <3>2 DEF Queued
      <4>2. Queued(u, Wants(u))' <=> \E n \in 1 .. Len(Append(q, t)) : Append(q, t)[n] = u
        BY <3>2, <2>2, <2>3 DEF Queued
      <4>3. \A n : n \in 1 .. Len(Append(q, t)) <=> n \in 1 .. Len(q) \/ n = Len(q) + 1
        BY <2>3, <2>4
      <4> HIDE DEF q
      <4> QED
        BY <4>1, <4>2, <4>3, <2>4
    <3> QED
      BY <3>1, <3>2
  <2>7. Before(Way(t), Way(t)')
    <3> DEFINE a == Way(t)
               b == Way(t)'
    <3>1. \A j \in 1 .. 5 : a[j] = b[j]
      BY <2>1 DEF Way
    <3>2. a[6] = 0 /\ b[6] = 1
      BY <2>5 DEF Way
    <3> HIDE DEF a, b
    <3>3. a[6] < b[6] /\ \A j \in 1 .. 6 - 1 : a[j] = b[j]
      BY <3>1, <3>2
    <3> QED
      BY <3>3 DEF Before, a, b
  <2> QED
    BY <2>1, <2>2, <2>5, <2>6, <2>7, OtherStays DEF Stays
<1>4. ASSUME NEW l \in Locks, Grant(l)
      PROVE  \E t \in Tasks : /\ ~Stays(t) /\ Before(Way(t), Way(t)')
                              /\ \A u \in Tasks \ {t} : Stays(u)
  <2>1. queue[l] \in Seq(Tasks) /\ queue[l] # <<>>
    BY <1>0, <1>4 DEF Grant, Grantable
  <2>2. /\ Head(queue[l]) \in Tasks /\ Head(queue[l]) = queue[l][1] /\ Len(queue[l]) \in Nat
        /\ 1 \in 1 .. Len(queue[l]) /\ Len(Tail(queue[l])) = Len(queue[l]) - 1
        /\ \A n \in 1 .. Len(Tail(queue[l])) : Tail(queue[l])[n] = queue[l][n + 1]
    BY <2>1, HeadTailProperties
  <2>3. PICK t \in Tasks : t = Head(queue[l])
    BY <2>2
  <2>4. /\ pc[t] \in Awaits /\ pc' = [pc EXCEPT ![t] = Granted(pc[t])]
        /\ queue' = [queue EXCEPT ![l] = Tail(queue[l])] /\ UNCHANGED <<load, outer, inner, list>>
    BY <1>4, <2>2, <2>3 DEF Grant, TypeOK
  <2>5. Ahead(t, pc'[t], outer'[t], inner'[t])
    BY <2>4, GrantAhead
  <2>6. \A u \in Tasks \ {t} : pc'[u] = pc[u] /\ Wants(u)' = Wants(u)
    BY <2>4, <1>0, OthersKeep
  <2>7. ASSUME NEW u \in Tasks \ {t}, pc[u] \in Awaits PROVE Queued(u, Wants(u))' <=> Queued(u, Wants(u))
    <3>1. CASE Wants(u) # l
      BY <3>1, <2>4, <2>6, <2>7, <1>0 DEF Queued
    <3>2. CASE Wants(u) = l
      <4>1. Queued(u, Wants(u)) <=> \E n \in 1 .. Len(queue[l]) : queue[l][n] = u
        BY <3>2 DEF Queued
      <4>2. Queued(u, Wants(u))' <=> \E n \in 1 .. Len(Tail(queue[l])) : Tail(queue[l])[n] = u
        BY <3>2, <2>4, <2>6, <1>0 DEF Queued
      <4>3. ASSUME NEW n \in 1 .. Len(queue[l]), queue[l][n] = u
            PROVE  \E m \in 1 .. Len(Tail(queue[l])) : Tail(queue[l])[m] = u
        <5>1. n # 1
          BY <4>3, <2>2, <2>3
        <5>2. n - 1 \in 1 .. Len(Tail(queue[l])) /\ (n - 1) + 1 = n
          BY <5>1, <2>2
        <5> QED
          BY <5>2, <4>3, <2>2
      <4>4. ASSUME NEW m \in 1 .. Len(Tail(queue[l])), Tail(queue[l])[m] = u
            PROVE  \E n \in 1 .. Len(queue[l]) : queue[l][n] = u
        <5>1. m + 1 \in 1 .. Len(queue[l])
          BY <2>2
        <5> QED
          BY <5>1, <4>4, <2>2
      <4> QED
        BY <4>1, <4>2, <4>3, <4>4
    <3> QED
      BY <3>1, <3>2
  <2> QED
    BY <2>4, <2>5, <2>6, <2>7, AheadMoves, AheadIsForward, OtherStays
<1>5. ASSUME NEW t \in Tasks, AddPeer(t) \/ RemovePeer(t)
      PROVE  ~Stays(t) /\ Before(Way(t), Way(t)') /\ \A u \in Tasks \ {t} : Stays(u)
  <2>1. /\ pc[t] \in {"adding", "removing"} /\ pc' = [pc EXCEPT ![t] = "end"]
        /\ UNCHANGED <<load, outer, inner, queue>>
    BY <1>5 DEF AddPeer, RemovePeer, Goto
  <2>2. Section[pc[t]] < Section["end"] /\ pc[t] \notin Awaits
    BY <2>1, StageNumbers DEF Awaits, WriteAwaits, ReadAwaits
  <2> QED
    BY <2>1, <2>2, <1>2, WriterAlone
<1>6. ASSUME NEW t \in Tasks, SetPeerKey(t) \/ CloneKey(t)
      PROVE  ~Stays(t) /\ Before(Way(t), Way(t)') /\ \A u \in Tasks \ {t} : Stays(u)
  <2>1. \E s \in {"end", "remove"} : /\ pc[t] \in {"labelling", "leaving"} /\ pc' = [pc EXCEPT ![t] = s]
                                   /\ UNCHANGED <<load, outer, inner, queue, list>>
    BY <1>6 DEF SetPeerKey, CloneKey, Goto
  <2>2. \A s \in {"end", "remove"} : \A p \in {"labelling", "leaving"} : Section[p] < Section[s] /\ p \notin Awaits
    BY StageNumbers DEF Awaits, WriteAwaits, ReadAwaits
  <2> QED
    BY <2>1, <2>2, <1>2
<1>7. ASSUME NEW t \in Tasks, LoopStep(t)
      PROVE  ~Stays(t) /\ Before(Way(t), Way(t)') /\ \A u \in Tasks \ {t} : Stays(u)
  <2>1. PICK s, o, i : Moves(t, s, o, i)
    BY <1>7, LoopMoves
  <2>2. \A u \in Tasks \ {t} : pc'[u] = pc[u] /\ outer'[u] = outer[u] /\ inner'[u] = inner[u]
    BY <2>1, <1>0 DEF Moves
  <2>3. \A u \in Tasks \ {t} : Wants(u)' = Wants(u)
    BY <2>1, <2>2, OthersKeep DEF Moves
  <2> QED
    BY <2>1, <2>2, <2>3, <1>1, <1>7, LoopAhead DEF Moves
<1> QED
  BY <1>3, <1>4, <1>5, <1>6, <1>7, NextSteps

\* Every step of a handler goes forward in the order of its loops. With HarmlessGoesOn
\* it is what AllFinish rests on: handlers that go on and only go forward finish.
THEOREM GoesForward == Spec => Forward
<1>1. IInv /\ [Next]_vars => [/\ \E t \in Tasks : ~Stays(t)
                             /\ \A t \in Tasks : Stays(t) \/ Before(Way(t), Way(t)')]_vars
  BY StepForward
<1> QED
  BY <1>1, Invariance, PTL DEF Spec, Forward
=============================================================================

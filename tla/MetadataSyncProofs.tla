------------------------- MODULE MetadataSyncProofs -------------------------
(***************************************************************************)
(* Proofs about MetadataSync: types, how far metadata climbs, and packets  *)
(* between servers that are clients of each other.                         *)
(***************************************************************************)
EXTENDS MetadataSync, TLAPS

USE SyncAssumption

\* The packets of a broadcast are at other servers and carry the same version.
LEMMA BroadcastType ==
  ASSUME NEW s \in Servers, NEW v \in Nat \ {0}, live \subseteq Links, v <= version, version \in Nat
  PROVE  Broadcast(s, v) \subseteq [at : Servers, version : 1 .. version]
  BY DEF Broadcast, Sync

\* Types: whatever is on its way or stored was once at the provider.
THEOREM TypeCorrect == Spec => []TypeOK
<1>1. Init => TypeOK
  BY DEF Init, TypeOK, Versions
<1>2. TypeOK /\ [Next]_vars => TypeOK'
  <2> SUFFICES ASSUME TypeOK, [Next]_vars PROVE TypeOK'
    OBVIOUS
  <2> USE DEF TypeOK, Versions
  <2>1. CASE Upload
    BY <2>1 DEF Upload
  <2>2. CASE Change
    BY <2>2 DEF Change
  <2>3. CASE Delete
    BY <2>3 DEF Delete
  <2>4. ASSUME NEW p \in Peers, Announce(p) PROVE TypeOK'
    <3>1. Sync(Home[p], copy[p]) \in [at : Servers, version : 1 .. version]
      BY <2>4 DEF Announce, Sync
    <3> QED
      BY <2>4, <3>1 DEF Announce
  <2>5. ASSUME NEW m \in syncs, HandleSync(m) PROVE TypeOK'
    <3>1. m.at \in Servers /\ m.version \in 1 .. version
      OBVIOUS
    <3>2. Broadcast(m.at, m.version) \subseteq [at : Servers, version : 1 .. version]
      BY <3>1, BroadcastType
    <3> QED
      BY <2>5, <3>1, <3>2 DEF HandleSync
  <2>6. ASSUME NEW s \in Servers, Restart(s) PROVE TypeOK'
    BY <2>6 DEF Restart
  <2>7. ASSUME NEW l \in Links, LoseLink(l) PROVE TypeOK'
    BY <2>7 DEF LoseLink
  <2>8. CASE UNCHANGED vars
    BY <2>8 DEF vars
  <2> QED
    BY <2>1, <2>2, <2>3, <2>4, <2>5, <2>6, <2>7, <2>8 DEF Next
<1> QED
  BY <1>1, <1>2, PTL DEF Spec

-----------------------------------------------------------------------------
\* The home of a peer is reachable, and whatever a reachable server dials.
LEMMA ReachableClosed ==
  /\ \A p \in Peers : Home[p] \in Reachable
  /\ \A l \in Links : l[1] \in Reachable => l[2] \in Reachable
<1>1. ASSUME NEW p \in Peers PROVE Home[p] \in Reachable
  BY DEF Reachable, Above
<1>2. ASSUME NEW l \in Links, l[1] \in Reachable PROVE l[2] \in Reachable
  <2>1. PICK p \in Peers : l[1] \in Above(Home[p], Links)
    BY <1>2 DEF Reachable
  <2>2. l[2] \in Servers
    OBVIOUS
  <2>3. ASSUME NEW D \in SUBSET Servers, Home[p] \in D, Closed(D, Links) PROVE l[2] \in D
    BY <2>1, <2>3 DEF Above, Closed
  <2> QED
    BY <2>2, <2>3 DEF Reachable, Above
<1> QED
  BY <1>1, <1>2

\* Rows and packets are at reachable servers only.
Climbing ==
  /\ OnlyAboveLearn
  /\ \A m \in syncs : m.at \in Reachable

LEMMA ClimbingStep ==
  ASSUME TypeOK, Climbing, [Next]_vars
  PROVE  Climbing'
<1> USE DEF Climbing, OnlyAboveLearn
<1>1. CASE Upload \/ Change \/ Delete
  BY <1>1 DEF Upload, Change, Delete
<1>2. ASSUME NEW p \in Peers, Announce(p) PROVE Climbing'
  BY <1>2, ReachableClosed DEF Announce, Sync
<1>3. ASSUME NEW m \in syncs, HandleSync(m) PROVE Climbing'
  <2>1. m.at \in Reachable
    OBVIOUS
  <2>2. \A n \in Broadcast(m.at, m.version) : n.at \in Reachable
    BY <2>1, ReachableClosed DEF Broadcast, Sync, TypeOK
  <2>3. \A s \in Servers : rows'[s] # 0 => s \in Reachable
    BY <1>3, <2>1 DEF HandleSync, TypeOK
  <2> QED
    BY <1>3, <2>2, <2>3 DEF HandleSync
<1>4. ASSUME NEW s \in Servers, Restart(s) PROVE Climbing'
  BY <1>4 DEF Restart
<1>5. ASSUME NEW l \in Links, LoseLink(l) PROVE Climbing'
  BY <1>5 DEF LoseLink
<1>6. CASE UNCHANGED vars
  BY <1>6 DEF vars
<1> QED
  BY <1>1, <1>2, <1>3, <1>4, <1>5, <1>6 DEF Next

\* For all servers, links and homes: only the servers above the home of a peer
\* ever have a row.
THEOREM ClimbsOnly == Spec => []OnlyAboveLearn
<1>1. Init => Climbing
  BY DEF Init, Climbing, OnlyAboveLearn
<1>2. TypeOK /\ Climbing /\ [Next]_vars => Climbing'
  BY ClimbingStep
<1>3. Climbing => OnlyAboveLearn
  BY DEF Climbing
<1> QED
  BY <1>1, <1>2, <1>3, TypeCorrect, PTL DEF Spec

-----------------------------------------------------------------------------
\* A step without a fault takes no link away.
LEMMA FaultlessKeepsLinks ==
  ASSUME TypeOK, [Next]_vars, faults' = faults
  PROVE  live' = live
<1>1. faults \in Nat
  BY DEF TypeOK
<1>2. ASSUME NEW s \in Servers PROVE ~Restart(s)
  BY <1>1 DEF Restart
<1>3. ASSUME NEW l \in Links PROVE ~LoseLink(l)
  BY <1>1 DEF LoseLink
<1> QED
  BY <1>2, <1>3 DEF Next, vars, Upload, Change, Delete, Announce, HandleSync

\* Whatever server handles the packet, its partner gets it.
LEMMA BounceStep ==
  ASSUME TypeOK, [Next]_vars, faults' = faults, NEW v \in Versions, Bouncing(v)
  PROVE  Bouncing(v)'
<1>1. live' = live
  BY FaultlessKeepsLinks
<1>2. PICK m \in syncs : m.version = v /\ Mutual(m.at, live)
  BY DEF Bouncing
<1>3. CASE m \in syncs'
  BY <1>1, <1>2, <1>3 DEF Bouncing
<1>4. CASE m \notin syncs'
  <2>1. faults \in Nat
    BY DEF TypeOK
  <2>2. HandleSync(m)
    BY <1>2, <1>4, <2>1 DEF Next, vars, Upload, Change, Delete, Announce, HandleSync, Restart, LoseLink
  <2>3. PICK t \in Servers : <<m.at, t>> \in live /\ <<t, m.at>> \in live
    BY <1>2 DEF Mutual
  <2>4. Sync(t, v) \in Broadcast(m.at, m.version)
    BY <1>2, <2>3 DEF Broadcast
  <2>5. Sync(t, v) \in syncs'
    BY <2>2, <2>4 DEF HandleSync
  <2>6. m.at \in Servers
    BY DEF TypeOK
  <2>7. Mutual(t, live)
    BY <2>3, <2>6 DEF Mutual
  <2> QED
    BY <1>1, <2>5, <2>7 DEF Bouncing, Sync
<1> QED
  BY <1>3, <1>4

\* For all servers and links: only a fault ends the exchange of a packet between
\* two servers that are clients of each other.
THEOREM BouncesForEver == Spec => NeverDrains
<1>1. TypeOK /\ [Next]_vars =>
        [\A v \in Versions : Bouncing(v) /\ faults' = faults => Bouncing(v)']_vars
  BY BounceStep
<1> QED
  BY <1>1, TypeCorrect, PTL DEF Spec, NeverDrains
=============================================================================

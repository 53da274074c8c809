---------------------------- MODULE MetadataSync ----------------------------
(***************************************************************************)
(* How signal servers come to know which peer stores a file                *)
(* (src/signal/server.rs, src/signal/client.rs, src/db/storage.rs,         *)
(* src/manager/storage_handler.rs).                                        *)
(*                                                                         *)
(* A server asks its peers for the rows of their storage tables, on their  *)
(* arrival and every 300 seconds; it overwrites its own rows with what     *)
(* they answer and passes every answer on to the servers it is a client    *)
(* of.  Two peers have a row of a file: the provider that stores it, and   *)
(* the owner, whose copy dates from its last upload.  The module follows   *)
(* one file: rows of different files are written independently of each     *)
(* other.  A version number stands for what the row says (access, size,    *)
(* holder); equal packets on their way to one server are merged.           *)
(***************************************************************************)
EXTENDS Naturals

CONSTANTS
  Servers,      \* the signal servers
  Links,        \* <<a, b>>: b is in the servers list of a, which dials it at start-up
  Peers,        \* the peers that may have a row of the file
  Provider,     \* the one that stores it; the others own it
  Home,         \* Home[p]: the server p is connected to
  MaxVersion,   \* bound: changes of the file
  MaxFaults     \* bound: restarts of servers and lost links

ASSUME SyncAssumption ==
  /\ Links \subseteq Servers \X Servers
  /\ Provider \in Peers
  /\ Home \in [Peers -> Servers]
  /\ MaxVersion \in Nat
  /\ MaxFaults \in Nat

VARIABLES
  version,      \* the number of changes so far
  copy,         \* copy[p]: the version of the row in p's table, 0 if there is none
  rows,         \* rows[s]: the version of the row in the table of server s
  syncs,        \* sync_fragments packets on their way and their message tasks
  live,         \* the links whose SignalClient is connected
  faults        \* faults so far

vars == <<version, copy, rows, syncs, live, faults>>

Versions == 0 .. MaxVersion
Owners == Peers \ {Provider}

Sync(s, v) == [at |-> s, version |-> v]

Init ==
  /\ version = 0
  /\ copy = [p \in Peers |-> 0]
  /\ rows = [s \in Servers |-> 0]
  /\ syncs = {}
  /\ live = Links
  /\ faults = 0

-----------------------------------------------------------------------------
(* The file at its provider; module StorageProvider has the details. *)

\* handle_file_upload replaces the row, and handle_file_saved the owner's copy,
\* unless the file_saved packet is lost.
Upload ==
  /\ version < MaxVersion
  /\ version' = version + 1
  /\ \E saved \in SUBSET Owners :
       copy' = [p \in Peers |-> IF p = Provider \/ p \in saved THEN version + 1 ELSE copy[p]]
  /\ UNCHANGED <<rows, syncs, live, faults>>

\* An update or a change of access: the owner's copy is not touched.
Change ==
  /\ version < MaxVersion
  /\ copy[Provider] # 0
  /\ version' = version + 1
  /\ copy' = [copy EXCEPT ![Provider] = version + 1]
  /\ UNCHANGED <<rows, syncs, live, faults>>

\* The provider removes its row; the owner keeps its copy.
Delete ==
  /\ copy[Provider] # 0
  /\ copy' = [copy EXCEPT ![Provider] = 0]
  /\ UNCHANGED <<version, rows, syncs, live, faults>>

-----------------------------------------------------------------------------
(* Synchronisation *)

\* handle_fragments_request: the peer sends every row it has to the server that
\* asked.  The console command sync_fragments sends the owner's part of it.
Announce(p) ==
  /\ copy[p] # 0
  /\ syncs' = syncs \cup {Sync(Home[p], copy[p])}
  /\ UNCHANGED <<version, copy, rows, live, faults>>

\* Variant with a bug: the packet also goes to the clients of s.
BroadcastBothWays(s, v) ==
  {Sync(l[2], v) : l \in {k \in live : k[1] = s}} \cup
  {Sync(l[1], v) : l \in {k \in live : k[2] = s}}

\* broadcast_to_servers: one packet to every server s is connected to.
Broadcast(s, v) == {Sync(l[2], v) : l \in {k \in live : k[1] = s}}

\* Variants with a bug: the packet goes no further; a row is written once; an
\* older version is ignored; only news is passed on.
HandleSyncQuietly(m) ==
  /\ m \in syncs
  /\ rows' = [rows EXCEPT ![m.at] = m.version]
  /\ syncs' = syncs \ {m}
  /\ UNCHANGED <<version, copy, live, faults>>

HandleSyncOnce(m) ==
  /\ m \in syncs
  /\ rows' = [rows EXCEPT ![m.at] = IF @ = 0 THEN m.version ELSE @]
  /\ syncs' = (syncs \ {m}) \cup Broadcast(m.at, m.version)
  /\ UNCHANGED <<version, copy, live, faults>>

HandleSyncForward(m) ==
  /\ m \in syncs
  /\ rows' = [rows EXCEPT ![m.at] = IF @ < m.version THEN m.version ELSE @]
  /\ syncs' = (syncs \ {m}) \cup Broadcast(m.at, m.version)
  /\ UNCHANGED <<version, copy, live, faults>>

HandleSyncNews(m) ==
  /\ m \in syncs
  /\ rows' = [rows EXCEPT ![m.at] = m.version]
  /\ syncs' = (syncs \ {m}) \cup
                (IF rows[m.at] = m.version THEN {} ELSE Broadcast(m.at, m.version))
  /\ UNCHANGED <<version, copy, live, faults>>

\* The FragmentMetadataSync branch of handle_message: add_storage_fragment
\* overwrites the row of the same hash, then the packet is broadcast, to the
\* server it came from too.
HandleSync(m) ==
  /\ m \in syncs
  /\ rows' = [rows EXCEPT ![m.at] = m.version]
  /\ syncs' = (syncs \ {m}) \cup Broadcast(m.at, m.version)
  /\ UNCHANGED <<version, copy, live, faults>>

-----------------------------------------------------------------------------
(* Faults *)

\* Variant with a bug: the server dials the servers that had dialled it.
RestartDialsBack(s) ==
  /\ faults < MaxFaults
  /\ faults' = faults + 1
  /\ syncs' = {m \in syncs : m.at # s}
  /\ live' = {l \in live : s \notin {l[1], l[2]}}
               \cup {<<s, l[1]>> : l \in {k \in Links : k[2] = s}}
  /\ UNCHANGED <<version, copy, rows>>

\* A server stops and starts: its tasks are lost, its table stays.  It dials the
\* servers of its list once, with or without success; the SignalClients of other
\* servers that were connected to it are not connected again.
Restart(s) ==
  /\ faults < MaxFaults
  /\ faults' = faults + 1
  /\ syncs' = {m \in syncs : m.at # s}
  /\ \E dialled \in SUBSET {l \in Links : l[1] = s} :
       live' = {l \in live : s \notin {l[1], l[2]}} \cup dialled
  /\ UNCHANGED <<version, copy, rows>>

\* A link breaks: send_packet fails from then on.
LoseLink(l) ==
  /\ faults < MaxFaults
  /\ l \in live
  /\ faults' = faults + 1
  /\ live' = live \ {l}
  /\ UNCHANGED <<version, copy, rows, syncs>>

-----------------------------------------------------------------------------
Next ==
  \/ Upload \/ Change \/ Delete
  \/ \E p \in Peers : Announce(p)
  \/ \E m \in syncs : HandleSync(m)
  \/ \E s \in Servers : Restart(s)
  \/ \E l \in Links : LoseLink(l)

\* Every message has a task of its own, and sync_fragments_with_peers asks for
\* ever; uploads, changes, deletions and faults may never happen.
Fairness ==
  /\ \A p \in Peers : WF_vars(Announce(p))
  /\ \A s \in Servers, v \in Versions : WF_vars(HandleSync(Sync(s, v)))

Spec == Init /\ [][Next]_vars
FairSpec == Spec /\ Fairness

-----------------------------------------------------------------------------
(* Properties *)

\* Every variable has its type; no peer is ahead of the file.
TypeOK ==
  /\ version \in Versions
  /\ copy \in [Peers -> 0 .. version]
  /\ rows \in [Servers -> 0 .. version]
  /\ syncs \subseteq [at : Servers, version : 1 .. version]
  /\ live \subseteq Links
  /\ faults \in 0 .. MaxFaults

\* A set of servers that packets never leave over the given links.
Closed(D, links) == \A l \in links : l[1] \in D => l[2] \in D

\* The servers that packets from s can reach over the given links.
Above(s, links) ==
  {t \in Servers : \A D \in SUBSET Servers : s \in D /\ Closed(D, links) => t \in D}

\* The servers that can be reached upwards from the home of a peer.
Reachable == UNION {Above(Home[p], Links) : p \in Peers}

\* Metadata only climbs: a server that is not above the home of a peer with a row
\* never learns of the file, and so never finds it for the peers it serves.
OnlyAboveLearn == \A s \in Servers : rows[s] # 0 => s \in Reachable

\* Packets of version v at a server that has a link with another one both ways.
Mutual(s, links) == \E t \in Servers : <<s, t>> \in links /\ <<t, s>> \in links
Bouncing(v) == \E m \in syncs : m.version = v /\ Mutual(m.at, live)

\* Two servers that are clients of each other send a packet to and fro for ever:
\* nothing but a fault ends it.
NeverDrains == [][\A v \in Versions : Bouncing(v) /\ faults' = faults => Bouncing(v)']_vars

\* Once the provider has a row for good, every server it can reach over the links
\* that the faults have left learns of the file.
Learns ==
  <>[](copy[Provider] # 0) =>
    <>[](\A s \in Above(Home[Provider], live) : rows[s] # 0)

\* The servers that no packet reaches that is sent to and fro.
Clean == {s \in Servers : \A c \in Servers : Mutual(c, Links) => s \notin Above(c, Links)}

\* If in the end no owner's copy contradicts the provider, the servers it reaches
\* agree with it in the end, whatever order packets came in; only where packets
\* circulate they need not.
Settles ==
  /\ <>[](copy[Provider] # 0)
  /\ <>[](\A p \in Owners : copy[p] \in {0, copy[Provider]})
  => <>[](\A s \in Clean \cap Above(Home[Provider], live) : rows[s] = copy[Provider])

\* What a peer says, its server believes again and again: with an owner's copy
\* that is out of date the row never settles.
EveryCopyReturns ==
  \A p \in Peers :
    <>[](copy[p] # 0) => []<>(rows[Home[p]] = copy[p])
=============================================================================

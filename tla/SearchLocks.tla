---------------------------- MODULE SearchLocks ----------------------------
(***************************************************************************)
(* The locks the handlers of one signal server take: the peer list, the    *)
(* search cache and the peer_key of every connection, all tokio RwLocks    *)
(* (src/signal/server.rs, src/signal/peer.rs, src/signal/peer_search.rs).  *)
(*                                                                         *)
(* tokio's RwLock is fair: requests are granted in the order they were     *)
(* made, so a reader waits behind a writer that waits, even for a lock it  *)
(* already reads.  A task is one stretch of a handler between two moments  *)
(* at which it holds no guard.  Its stage says which guards are in scope   *)
(* ("Reads", "Writes") and, at an await, which lock it asks for ("Wants"). *)
(* Left out are locks that nobody holds while asking for another one       *)
(* (is_signal_server, writer, connected_servers).                          *)
(***************************************************************************)
EXTENDS Naturals, Sequences, FiniteSets, SequencesExt

CONSTANTS
  Tasks,        \* the tasks of a run
  Conn,         \* connections; each names the lock of its peer_key
  Keys,         \* public keys
  NoKey,        \* the peer_key of a connection that has sent nothing yet
  Loads         \* what may be going on: [list, label, job], the peers in accept order,
                \* their keys, and what every task does

Jobs == {"add_peer", "remove_peer", "set_peer_key", "walk", "search"}

\* conn: the connection a task is about; key: the key it sets or looks for; from:
\* the peer that searches.
LoadType ==
  [list : Seq(Conn), label : [Conn -> Keys \cup {NoKey}],
   job : [Tasks -> [do : Jobs, conn : Conn, key : Keys, from : Keys]]]

ASSUME LocksAssumption ==
  /\ {"peers", "cache"} \cap Conn = {}
  /\ Loads \subseteq LoadType

VARIABLES
  load,         \* the load of this run
  pc,           \* the stage of each task
  outer, inner, \* where in the list its loops are
  queue,        \* queue[l]: tasks that wait for lock l, first come first served
  list,         \* the peer list
  label,        \* label[c]: the peer_key of connection c
  cached        \* the keys in search_cache that have not expired

vars == <<load, pc, outer, inner, queue, list, label, cached>>

Locks == {"peers", "cache"} \cup Conn

Job(t) == load.job[t]

-----------------------------------------------------------------------------
(* Stages *)

WriteAwaits == {"add", "remove", "label", "fill"}
ReadAwaits ==
  {"leave", "walk", "walk_key", "lookup", "hit", "hit_key", "scan", "scan_key", "reply_key"}
Awaits == WriteAwaits \cup ReadAwaits

\* The stage a task enters with the guard it waited for.
Granted(stage) ==
  CASE stage = "add"       -> "adding"
    [] stage = "leave"     -> "leaving"
    [] stage = "remove"    -> "removing"
    [] stage = "label"     -> "labelling"
    [] stage = "walk"      -> "walking"
    [] stage = "walk_key"  -> "walk_compare"
    [] stage = "lookup"    -> "looking"
    [] stage = "hit"       -> "hitting"
    [] stage = "hit_key"   -> "hit_compare"
    [] stage = "scan"      -> "scanning"
    [] stage = "scan_key"  -> "scan_compare"
    [] stage = "fill"      -> "filling"
    [] stage = "reply_key" -> "reply_compare"

Entry(do) ==
  CASE do = "add_peer"     -> "add"
    [] do = "remove_peer"  -> "leave"
    [] do = "set_peer_key" -> "label"
    [] do = "walk"         -> "walk"
    [] do = "search"       -> "lookup"

Walk  == {"walking", "walk_key", "walk_compare"}
Hit   == {"hitting", "hit_key", "hit_compare"}
Scan  == {"scanning", "scan_key", "scan_compare"}
Fill  == {"fill", "filling"}
Reply == {"replying", "reply_key", "reply_compare"}

Stages ==
  Awaits \cup {"adding", "leaving", "removing", "labelling", "looking", "end"}
         \cup Walk \cup Hit \cup Scan \cup Fill \cup Reply

\* The stages at which the guard of the key at the loop's position is in scope.
\* In the scan the target's guard lives to the end of the iteration.
AtOuterKey == {"walk_compare", "hit_compare", "scan_compare"} \cup Fill \cup Reply

OuterKey(t) == list[outer[t]]
InnerKey(t) == list[inner[t]]

\* Variant with a bug: remove_peer keeps the guard of the key.
ReadsKeyOnRemoval(t, l) ==
  \/ l = "peers" /\ pc[t] \in Walk \cup Hit \cup Scan \cup Fill \cup Reply
  \/ l = "cache" /\ pc[t] \in {"looking", "hit"} \cup Hit
  \/ l = Job(t).conn /\ pc[t] \in {"leaving", "remove", "removing"}
  \/ pc[t] \in AtOuterKey /\ l = OuterKey(t)
  \/ pc[t] = "reply_compare" /\ l = InnerKey(t)

\* Variant with a bug: a search keeps the guard of the cache.
ReadsCacheOnScan(t, l) ==
  \/ l = "peers" /\ pc[t] \in Walk \cup Hit \cup Scan \cup Fill \cup Reply
  \/ l = "cache" /\ pc[t] \in {"looking", "hit", "scan"} \cup Hit \cup Scan \cup {"fill"}
  \/ l = Job(t).conn /\ pc[t] = "leaving"
  \/ pc[t] \in AtOuterKey /\ l = OuterKey(t)
  \/ pc[t] = "reply_compare" /\ l = InnerKey(t)

\* Task t has a read guard of lock l.  The guard of the cache belongs to the
\* scrutinee of an `if let` and lives to the end of its block, the guard of the
\* list in a search to the end of the function.
Reads(t, l) ==
  \/ l = "peers" /\ pc[t] \in Walk \cup Hit \cup Scan \cup Fill \cup Reply
  \/ l = "cache" /\ pc[t] \in {"looking", "hit"} \cup Hit
  \/ l = Job(t).conn /\ pc[t] = "leaving"
  \/ pc[t] \in AtOuterKey /\ l = OuterKey(t)
  \/ pc[t] = "reply_compare" /\ l = InnerKey(t)

\* Task t has the write guard of lock l.
Writes(t, l) ==
  \/ l = "peers" /\ pc[t] \in {"adding", "removing"}
  \/ l = "cache" /\ pc[t] = "filling"
  \/ l = Job(t).conn /\ pc[t] = "labelling"

\* The lock that t asks for at an await.
Wants(t) ==
  CASE pc[t] \in {"add", "remove", "walk", "hit", "scan"} -> "peers"
    [] pc[t] \in {"lookup", "fill"} -> "cache"
    [] pc[t] \in {"leave", "label"} -> Job(t).conn
    [] pc[t] \in {"walk_key", "hit_key", "scan_key"} -> OuterKey(t)
    [] pc[t] = "reply_key" -> InnerKey(t)

-----------------------------------------------------------------------------
Init ==
  /\ load \in Loads
  /\ pc = [t \in Tasks |-> Entry(load.job[t].do)]
  /\ outer = [t \in Tasks |-> 1]
  /\ inner = [t \in Tasks |-> 1]
  /\ queue = [l \in Locks |-> <<>>]
  /\ list = load.list
  /\ label = load.label
  /\ cached \in SUBSET Keys

Queued(t, l) == \E n \in 1 .. Len(queue[l]) : queue[l][n] = t

\* read().await or write().await is polled for the first time.
Request(t) ==
  /\ pc[t] \in Awaits
  /\ ~Queued(t, Wants(t))
  /\ queue' = [queue EXCEPT ![Wants(t)] = Append(@, t)]
  /\ UNCHANGED <<load, pc, outer, inner, list, label, cached>>

\* The first task in the queue of l can have its guard.
Grantable(l) ==
  /\ queue[l] # <<>>
  /\ \A u \in Tasks : ~Writes(u, l)
  /\ pc[Head(queue[l])] \in WriteAwaits => \A u \in Tasks : ~Reads(u, l)

\* Variant with a bug: the task stays in the queue.
GrantAgain(l) ==
  /\ Grantable(l)
  /\ LET t == Head(queue[l])
     IN  pc' = [pc EXCEPT ![t] = IF @ \in Awaits THEN Granted(@) ELSE @]
  /\ UNCHANGED <<load, outer, inner, queue, list, label, cached>>

Grant(l) ==
  /\ Grantable(l)
  /\ LET t == Head(queue[l]) IN pc' = [pc EXCEPT ![t] = Granted(@)]
  /\ queue' = [queue EXCEPT ![l] = Tail(@)]
  /\ UNCHANGED <<load, outer, inner, list, label, cached>>

-----------------------------------------------------------------------------
(* What tasks do with their guards.  Guards that the next stage does not    *)
(* have are dropped with the step.                                          *)

Goto(t, stage) == pc' = [pc EXCEPT ![t] = stage]

\* SignalServer::add_peer; an address is in the list once.
AddPeer(t) ==
  /\ pc[t] = "adding"
  /\ list' = IF \E n \in 1 .. Len(list) : list[n] = Job(t).conn
             THEN list ELSE Append(list, Job(t).conn)
  /\ Goto(t, "end")
  /\ UNCHANGED <<load, outer, inner, queue, label, cached>>

\* SignalServer::remove_peer: the key is cloned before the list is locked.
CloneKey(t) ==
  /\ pc[t] = "leaving"
  /\ Goto(t, "remove")
  /\ UNCHANGED <<load, outer, inner, queue, list, label, cached>>

RemovePeer(t) ==
  /\ pc[t] = "removing"
  /\ \/ /\ \A n \in 1 .. Len(list) : list[n] # Job(t).conn
        /\ UNCHANGED list
     \/ \E n \in 1 .. Len(list) : list[n] = Job(t).conn /\ list' = RemoveAt(list, n)
  /\ Goto(t, "end")
  /\ UNCHANGED <<load, outer, inner, queue, label, cached>>

\* Peer::set_peer_key
SetPeerKey(t) ==
  /\ pc[t] = "labelling"
  /\ label' = [label EXCEPT ![Job(t).conn] = Job(t).key]
  /\ Goto(t, "end")
  /\ UNCHANGED <<load, outer, inner, queue, list, cached>>

\* The next iteration of a loop over the list, or the end of the loop.
Iterate(t, loop, key, stop) ==
  /\ pc[t] = loop
  /\ IF outer[t] <= Len(list)
     THEN Goto(t, key) /\ UNCHANGED outer
     ELSE Goto(t, stop) /\ outer' = [outer EXCEPT ![t] = 1]
  /\ UNCHANGED <<load, inner, queue, list, label, cached>>

\* A comparison leaves the loop or goes on with it.
Continue(t, loop) ==
  /\ Goto(t, loop)
  /\ outer' = [outer EXCEPT ![t] = @ + 1]
  /\ UNCHANGED <<load, inner, queue, list, label, cached>>

Leave(t, stage) ==
  /\ Goto(t, stage)
  /\ UNCHANGED <<load, outer, inner, queue, list, label, cached>>

\* The loops of auto_send_packet, sync_peers, handle_search_response and others:
\* some return at the addressee, some panic at a connection without a key.
CompareWalk(t) ==
  /\ pc[t] = "walk_compare"
  /\ \/ Continue(t, "walking")
     \/ label[OuterKey(t)] \in {Job(t).key, NoKey} /\ Leave(t, "end")

\* PeerSearchManager::handle_search_request: an entry that is missing or expired
\* leaves the block of the `if let`.
Lookup(t) ==
  /\ pc[t] = "looking"
  /\ \/ Job(t).key \in cached /\ Leave(t, "hit")
     \/ Leave(t, "scan")

\* A hit: the initiator is looked for with the cache still locked; when it is not
\* there the handler goes on as if nothing was cached.
CompareHit(t) ==
  /\ pc[t] = "hit_compare"
  /\ IF label[OuterKey(t)] = Job(t).from THEN Leave(t, "end") ELSE Continue(t, "hitting")

CompareScan(t) ==
  /\ pc[t] = "scan_compare"
  /\ IF label[OuterKey(t)] = Job(t).key THEN Leave(t, "fill") ELSE Continue(t, "scanning")

\* The target is found: with its key still locked the cache is written and the
\* initiator looked for.
FillCache(t) ==
  /\ pc[t] = "filling"
  /\ cached' = cached \cup {Job(t).key}
  /\ inner' = [inner EXCEPT ![t] = 1]
  /\ Goto(t, "replying")
  /\ UNCHANGED <<load, outer, queue, list, label>>

\* Variant with a bug: without an answer to send the scan looks at the target again.
IterateReplyAgain(t) ==
  /\ pc[t] = "replying"
  /\ IF inner[t] <= Len(list) THEN Leave(t, "reply_key") ELSE Leave(t, "scanning")

IterateReply(t) ==
  /\ pc[t] = "replying"
  /\ IF inner[t] <= Len(list) THEN Leave(t, "reply_key") ELSE Continue(t, "scanning")

\* Variant with a bug: the loop goes on after the answer was sent.
CompareReplyGoesOn(t) ==
  /\ pc[t] = "reply_compare"
  /\ Goto(t, "replying")
  /\ inner' = [inner EXCEPT ![t] = @ + 1]
  /\ UNCHANGED <<load, outer, queue, list, label, cached>>

CompareReply(t) ==
  /\ pc[t] = "reply_compare"
  /\ IF label[InnerKey(t)] = Job(t).from
     THEN Leave(t, "end")
     ELSE /\ Goto(t, "replying")
          /\ inner' = [inner EXCEPT ![t] = @ + 1]
          /\ UNCHANGED <<load, outer, queue, list, label, cached>>

Run(t) ==
  \/ AddPeer(t) \/ CloneKey(t) \/ RemovePeer(t) \/ SetPeerKey(t)
  \/ Iterate(t, "walking", "walk_key", "end") \/ CompareWalk(t)
  \/ Lookup(t) \/ Iterate(t, "hitting", "hit_key", "scan") \/ CompareHit(t)
  \/ Iterate(t, "scanning", "scan_key", "end") \/ CompareScan(t)
  \/ FillCache(t) \/ IterateReply(t) \/ CompareReply(t)

Next ==
  \/ \E t \in Tasks : Request(t) \/ Run(t)
  \/ \E l \in Locks : Grant(l)

Spec == Init /\ [][Next]_vars

FairSpec == Spec /\ WF_vars(Next)

-----------------------------------------------------------------------------
(* Properties *)

\* Every variable has its type, loops are within the list while they hold it, and
\* queues contain tasks that wait for their lock, once.
TypeOK ==
  /\ load \in Loads
  /\ pc \in [Tasks -> Stages]
  /\ outer \in [Tasks -> Nat \ {0}]
  /\ inner \in [Tasks -> Nat \ {0}]
  /\ queue \in [Locks -> Seq(Tasks)]
  /\ list \in Seq(Conn)
  /\ label \in [Conn -> Keys \cup {NoKey}]
  /\ cached \subseteq Keys
  /\ \A t \in Tasks :
       /\ pc[t] \in AtOuterKey \cup {"walk_key", "hit_key", "scan_key"} => outer[t] <= Len(list)
       /\ pc[t] \in {"reply_key", "reply_compare"} => inner[t] <= Len(list)
  /\ \A l \in Locks : \A n \in 1 .. Len(queue[l]) :
       /\ pc[queue[l][n]] \in Awaits /\ Wants(queue[l][n]) = l
       /\ \A m \in 1 .. Len(queue[l]) : queue[l][m] = queue[l][n] => m = n

Unfinished == {t \in Tasks : pc[t] # "end"}

\* Nothing can happen any more although not every task has finished.
Stuck ==
  /\ Unfinished # {}
  /\ \A t \in Unfinished : pc[t] \in Awaits /\ Queued(t, Wants(t))
  /\ \A l \in Locks : ~Grantable(l)

\* A search that has read the cache waits for the list or for a key in it, while
\* another one that has the list waits to write the cache.
CacheAgainstList ==
  \E t, u \in Tasks : pc[t] \in {"hit", "hit_key"} /\ pc[u] = "fill"

\* Searches that found their targets and look for their initiators: each waits,
\* behind a set_peer_key, for a key that one of them holds as its target.  One
\* search alone waits for the key it holds itself.
KeyCycle ==
  \E S \in SUBSET Tasks :
    /\ S # {}
    /\ \A t \in S :
         /\ pc[t] = "reply_key"
         /\ \E u \in S : OuterKey(u) = InnerKey(t)
         /\ \E w \in Tasks : pc[w] = "label" /\ Queued(w, InnerKey(t))

\* The server stops for good in two ways only, both in handle_search_request: the
\* cache and the list are locked in opposite orders by two searches, or searches
\* hold the keys of their targets while they read other keys, or the same one.
DeadlockShape == Stuck => CacheAgainstList \/ KeyCycle

Searching == {t \in Tasks : Job(t).do = "search"}

\* The n-th connection of the list is the initiator's: it is accepted before every
\* one that has or gets the target's key, it stays and it keeps its key.
InitiatorAt(t, n) ==
  LET c == load.list[n]
      early == {load.list[m] : m \in 1 .. n}
  IN  /\ load.label[c] = Job(t).from
      /\ \A d \in early : load.label[d] # Job(t).key
      /\ \A u \in Tasks :
           /\ Job(u).do = "remove_peer" => Job(u).conn # c
           /\ Job(u).do = "set_peer_key" =>
                /\ Job(u).conn = c => Job(u).key = Job(t).from
                /\ Job(u).conn \in early => Job(u).key # Job(t).key

InitiatorBeforeTarget(t) == \E n \in 1 .. Len(load.list) : InitiatorAt(t, n)

\* At most one search runs, and it reaches its initiator before its target.
Harmless ==
  /\ \A t, u \in Searching : t = u
  /\ \A t \in Searching : InitiatorBeforeTarget(t)

\* Without two searches at a time, and without a target that was accepted before
\* its initiator, the handlers never stop each other.
HarmlessNeverStuck == Harmless => ~Stuck

\* The way through a handler: its sections, where it is in the loop of a section and
\* in the one inside it, and whether it has asked for what it waits for.
Section == [stage \in Stages |->
  CASE stage \in {"add", "leave", "label", "walk", "lookup"} -> 0
    [] stage \in {"adding", "leaving", "labelling", "looking"} -> 1
    [] stage \in {"remove", "hit"} -> 2
    [] stage \in {"removing"} \cup Walk \cup Hit -> 3
    [] stage = "scan" -> 4
    [] stage \in Scan \cup Fill \cup Reply -> 5
    [] stage = "end" -> 6]

Part == [stage \in Stages |->
  CASE stage \in {"walk_key", "hit_key", "scan_key"} -> 1
    [] stage \in {"walk_compare", "hit_compare", "scan_compare"} -> 2
    [] stage = "fill" -> 3
    [] stage = "filling" -> 4
    [] stage \in Reply -> 5
    [] OTHER -> 0]

ReplyPart == [stage \in Stages |->
  CASE stage = "reply_key" -> 1 [] stage = "reply_compare" -> 2 [] OTHER -> 0]

Asked(t) == IF pc[t] \in Awaits /\ Queued(t, Wants(t)) THEN 1 ELSE 0

Way(t) ==
  <<Section[pc[t]], outer[t], Part[pc[t]], inner[t], ReplyPart[pc[t]], Asked(t)>>

Before(a, b) == \E i \in 1 .. 6 : a[i] < b[i] /\ \A j \in 1 .. i - 1 : a[j] = b[j]

Stays(t) == UNCHANGED <<pc[t], outer[t], inner[t], Asked(t)>>

\* Every step takes a task forward, in the order of its loops, and none back: no handler
\* asks twice for a lock at the same place, or looks twice at a key.
Forward ==
  [][/\ \E t \in Tasks : ~Stays(t)
     /\ \A t \in Tasks : Stays(t) \/ Before(Way(t), Way(t)')]_vars

\* They all finish then.
AllFinish == Harmless => <>(Unfinished = {})
=============================================================================

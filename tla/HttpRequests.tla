---------------------------- MODULE HttpRequests ----------------------------
(***************************************************************************)
(* The requests the two HTTP front ends make to the network and the        *)
(* answers they match to them: the HttpProxy of a peer (http_proxy.rs) and  *)
(* the HttpApi of a signal server (http_api.rs), with their tables of      *)
(* pending responses, their caches of owners and of files, and the packets *)
(* of the servers that search for files and of the peers that store them.  *)
(*                                                                         *)
(* A packet that is not taken from the net is lost or late: there is no    *)
(* fairness on its delivery.  Packets sent twice, over two servers, are    *)
(* merged; the answers of two servers are not.                             *)
(***************************************************************************)
EXTENDS Naturals, FiniteSets

CONSTANTS
  Ids,        \* request ids, one uuid each
  Files,      \* files, by hash
  Providers,  \* peers that store files
  Me,         \* the peer whose proxy is modelled, itself a provider
  Servers,    \* the signal servers Me is connected to
  Home,       \* the signal server whose API is modelled
  Mixes,      \* bound: the sets of requests <<front, kind>> made in one run
  None

Front == {"peer", "api"}
Kind  == {"get", "upload", "update", "delete", "access", "contract", "packet"}

Answer == {"found", "content", "saved"}

\* A packet, and a handler with the state of its wait.
PacketType ==
  [type : {"search", "ask"} \cup Answer, id : Ids, node : Providers \cup Servers,
   owner : Providers \cup {None}]

RequestType ==
  [front : Front, kind : Kind, file : Files, phase : {"searching", "waiting", "replied", "stuck"},
   hash : BOOLEAN, pending : BOOLEAN,
   slot : PacketType \cup {None}, reply : {0, 200, 404, 500, 504},
   did : BOOLEAN, late : BOOLEAN, answers : SUBSET Servers]

\* What the caller sees of a request.
CallType ==
  [front : Front, kind : Kind, file : Files, reply : {"open", "success", "failure"}]

ASSUME HttpAssumption ==
  /\ Me \in Providers
  /\ Home \in Servers
  /\ Mixes \subseteq SUBSET (Front \X Kind)
  /\ None \notin Providers \cup Servers
  /\ None \notin PacketType
  /\ None \notin RequestType
  /\ None \notin CallType

VARIABLES
  req,        \* the handler of each request, None before it starts
  net,        \* packets under way
  holds,      \* <<p, f>>: provider p stores the contents of f
  row,        \* row[n][f]: storage_peer_key in the table of a server or of Me
  ownerCache, \* fragment_cache of each front end
  fileCache   \* file_cache of each front end: the state of its entry

vars == <<req, net, holds, row, ownerCache, fileCache>>

-----------------------------------------------------------------------------
(* Requests and packets *)

\* `pending` is the entry of pending_responses, `slot` the packet its sender
\* was completed with; `did`, `late` and `answers` record that a provider did
\* what was asked, that the search timed out, and who answered it.
New(front, kind, f) ==
  [front |-> front, kind |-> kind, file |-> f, phase |-> "started", hash |-> FALSE,
   pending |-> FALSE, slot |-> None, reply |-> 0, did |-> FALSE, late |-> FALSE, answers |-> {}]

Packet(type, i, node, owner) == [type |-> type, id |-> i, node |-> node, owner |-> owner]

Init ==
  /\ req = [i \in Ids |-> None]
  /\ net = {}
  /\ holds = {}
  /\ row = [n \in Servers \cup {Me} |-> [f \in Files |-> None]]
  /\ ownerCache = [a \in Front |-> [f \in Files |-> None]]
  /\ fileCache = [a \in Front |-> [f \in Files |-> "none"]]

Reply(i, r, status) ==
  req' = [req EXCEPT ![i] = [r EXCEPT !.phase = "replied", !.reply = status,
                                      !.slot = None, !.hash = FALSE]]

\* The handler of request i waits for an answer of `target`.  A packet of the
\* proxy without a target is dropped by the servers, one of the API goes to the
\* peer with the most space known, if any; a packet to its own sender is dropped.
Ask(i, r, target) ==
  \E to \in (IF r.front = "api" /\ target = None THEN Providers \cup {None} ELSE {target}) :
    /\ req' = [req EXCEPT ![i] = [r EXCEPT !.phase = "waiting", !.pending = TRUE,
                                          !.slot = None]]
    /\ net' = IF to = None \/ (r.front = "peer" /\ to = Me) THEN net
              ELSE net \cup {Packet("ask", i, to, None)}

\* The handler first asks the network for the owner.  Every server of a peer
\* gets the search; that of the API goes to a peer, which does not answer one.
Search(i, r) ==
  /\ req' = [req EXCEPT ![i] = [r EXCEPT !.phase = "searching", !.pending = TRUE]]
  /\ net' = IF r.front = "peer" THEN net \cup {Packet("search", i, s, None) : s \in Servers}
            ELSE net

-----------------------------------------------------------------------------
(* The handlers, up to their first wait *)

Starts(i, front, kind) ==
  /\ req[i] = None
  /\ \E mix \in Mixes :
       {<<front, kind>>} \cup {<<req[j].front, req[j].kind>> : j \in {k \in Ids : req[k] # None}}
         \subseteq mix

\* HttpProxy::handle.  The hash counts as known, and the cache is looked at, only
\* when the owner comes from the local table or is this peer.
ProxyGet(i, f) ==
  LET cached == ownerCache["peer"][f]
      local  == row[Me][f]
      owner  == IF cached # None THEN cached ELSE local
      known  == local # None /\ cached \in {None, Me}
      r      == [New("peer", "get", f) EXCEPT !.hash = known]
  IN  /\ Starts(i, "peer", "get")
      /\ \/ owner = None /\ Search(i, r) /\ UNCHANGED fileCache
         \/ known /\ fileCache["peer"][f] = "fresh"
            /\ Reply(i, r, 200) /\ UNCHANGED <<net, fileCache>>
         \/ known /\ fileCache["peer"][f] # "fresh" /\ owner = Me /\ <<Me, f>> \in holds
            /\ Reply(i, [r EXCEPT !.did = TRUE], 200)
            /\ fileCache' = [fileCache EXCEPT !["peer"][f] = "fresh"]
            /\ UNCHANGED net
         \/ known /\ fileCache["peer"][f] # "fresh" /\ owner = Me /\ <<Me, f>> \notin holds
            /\ Reply(i, r, 404) /\ UNCHANGED <<net, fileCache>>
         \/ owner # None /\ ~(known /\ (fileCache["peer"][f] = "fresh" \/ owner = Me))
            /\ Ask(i, r, owner) /\ UNCHANGED fileCache
      /\ UNCHANGED <<holds, row, ownerCache>>

\* HttpApi::handle_get_file.  get_cached_file removes an expired entry while it
\* still holds the reference it got it by: the handler waits for itself, and so
\* does every later one that touches the entry.
ApiGet(i, f) ==
  LET cached == ownerCache["api"][f]
      local  == row[Home][f]
      known  == cached = None /\ local # None
      r      == [New("api", "get", f) EXCEPT !.hash = known]
  IN  /\ Starts(i, "api", "get")
      /\ ownerCache' = [ownerCache EXCEPT !["api"][f] = IF known THEN local ELSE @]
      /\ \/ cached # None /\ Ask(i, r, cached) /\ UNCHANGED fileCache
         \/ cached = None /\ local = None /\ Search(i, r) /\ UNCHANGED fileCache
         \/ known /\ fileCache["api"][f] = "none" /\ Ask(i, r, local) /\ UNCHANGED fileCache
         \/ known /\ fileCache["api"][f] = "fresh"
            /\ Reply(i, r, 200) /\ UNCHANGED <<net, fileCache>>
         \/ known /\ fileCache["api"][f] \in {"expired", "jammed"}
            /\ req' = [req EXCEPT ![i] = [r EXCEPT !.phase = "stuck"]]
            /\ fileCache' = [fileCache EXCEPT !["api"][f] = "jammed"]
            /\ UNCHANGED net
      /\ UNCHANGED <<holds, row>>

\* Each of the other handlers sends one packet without a target and waits.
Send(i, f, kind, target) ==
  /\ Starts(i, "api", kind)
  /\ Ask(i, New("api", kind, f), target)
  /\ UNCHANGED <<holds, row, ownerCache, fileCache>>

ApiUpload(i, f) == Send(i, f, "upload", None)

ApiUpdate(i, f) == Send(i, f, "update", None)

ApiDelete(i, f) == Send(i, f, "delete", None)

ApiChangeAccess(i, f) == Send(i, f, "access", None)

ApiContractCall(i, f) == Send(i, f, "contract", None)

\* The caller writes the packet, here a request for a file, and may name a target.
ApiPacket(i, f) == \E target \in Providers \cup {None} : Send(i, f, "packet", target)

-----------------------------------------------------------------------------
(* The network *)

\* A server answers a search with the fragment it knows, or with none.
ServerAnswersSearch(m) ==
  /\ m.type = "search"
  /\ net' = (net \ {m}) \cup {Packet("found", m.id, m.node, row[m.node][req[m.id].file])}
  /\ UNCHANGED <<req, holds, row, ownerCache, fileCache>>

\* Variant with a bug: a provider that does not store the file sends an empty one.
ProviderSendsAnything(m) ==
  /\ m.type = "ask" /\ req[m.id].kind \in {"get", "packet"}
  /\ net' = (net \ {m}) \cup {Packet("content", m.id, m.node, None)}
  /\ req' = [req EXCEPT ![m.id].did = TRUE]
  /\ UNCHANGED <<holds, row, ownerCache, fileCache>>

\* A provider that stores the file sends it back, under the uuid of the packet.
ProviderSends(m) ==
  LET r == req[m.id]
  IN  /\ m.type = "ask" /\ r.kind \in {"get", "packet"}
      /\ net' = (net \ {m}) \cup
                  (IF <<m.node, r.file>> \in holds THEN {Packet("content", m.id, m.node, None)}
                   ELSE {})
      /\ req' = [req EXCEPT ![m.id].did = @ \/ <<m.node, r.file>> \in holds]
      /\ UNCHANGED <<holds, row, ownerCache, fileCache>>

\* Variant with a bug: the provider confirms an upload that it refuses.
ProviderConfirms(m) ==
  /\ m.type = "ask" /\ req[m.id].kind = "upload"
  /\ net' = (net \ {m}) \cup {Packet("saved", m.id, m.node, None)}
  /\ UNCHANGED <<req, holds, row, ownerCache, fileCache>>

\* An upload is stored and confirmed under its uuid, or refused in a message
\* with another one.
ProviderStores(m) ==
  LET f == req[m.id].file
  IN  /\ m.type = "ask" /\ req[m.id].kind = "upload"
      /\ \/ /\ net' = (net \ {m}) \cup {Packet("saved", m.id, m.node, None)}
            /\ holds' = holds \cup {<<m.node, f>>}
            /\ row' = [row EXCEPT ![Me][f] = IF m.node = Me THEN Me ELSE @]
            /\ req' = [req EXCEPT ![m.id].did = TRUE]
         \/ net' = net \ {m} /\ UNCHANGED <<req, holds, row>>
      /\ UNCHANGED <<ownerCache, fileCache>>

\* An update replaces the file by one of another hash, or is refused; either
\* way what comes back has another uuid.
ProviderUpdates(m) ==
  LET f == req[m.id].file
  IN  /\ m.type = "ask" /\ req[m.id].kind = "update"
      /\ net' = net \ {m}
      /\ \/ /\ <<m.node, f>> \in holds
            /\ holds' = holds \ {<<m.node, f>>}
            /\ row' = [row EXCEPT ![Me][f] = IF m.node = Me THEN None ELSE @]
            /\ req' = [req EXCEPT ![m.id].did = TRUE]
         \/ UNCHANGED <<req, holds, row>>
      /\ UNCHANGED <<ownerCache, fileCache>>

\* Deletions and changes of access are sent as search requests, which a peer
\* does not handle.
ProviderIgnores(m) ==
  /\ m.type = "ask" /\ req[m.id].kind \in {"delete", "access"}
  /\ net' = net \ {m}
  /\ UNCHANGED <<req, holds, row, ownerCache, fileCache>>

\* A stored file is run if it is a contract; the result goes to a peer, never to the
\* handler that waits for it.
ProviderExecutes(m) ==
  LET r == req[m.id]
  IN  /\ m.type = "ask" /\ r.kind = "contract"
      /\ net' = net \ {m}
      /\ \E ran \in BOOLEAN :
           /\ ran => <<m.node, r.file>> \in holds
           /\ req' = [req EXCEPT ![m.id].did = @ \/ ran]
      /\ UNCHANGED <<holds, row, ownerCache, fileCache>>

\* The handler of r once set_response has completed its wait with packet m.
Completed(r, m) ==
  [r EXCEPT !.slot = m, !.answers = @ \cup ({m.node} \cap Servers)]

\* Variants with a bug: the entry of the table stays, or the packet is handed
\* to set_response a second time.
SetResponseKeeps(m) ==
  LET r == req[m.id]
  IN  /\ m.type \in Answer
      /\ net' = net \ {m}
      /\ req' = [req EXCEPT ![m.id] =
                   IF r.pending /\ r.phase # "replied" THEN Completed(r, m) ELSE r]
      /\ UNCHANGED <<holds, row, ownerCache, fileCache>>

SetResponseTwice(m) ==
  LET r == req[m.id]
  IN  /\ m.type \in Answer
      /\ req' = [req EXCEPT ![m.id] =
                   [(IF r.pending /\ r.phase # "replied" THEN Completed(r, m) ELSE r)
                      EXCEPT !.pending = FALSE]]
      /\ UNCHANGED <<net, holds, row, ownerCache, fileCache>>

\* set_response: an answer completes the wait its uuid has an entry for, whatever
\* the handler waits for, and is dropped when there is none.
SetResponse(m) ==
  LET r == req[m.id]
  IN  /\ m.type \in Answer
      /\ net' = net \ {m}
      /\ req' = [req EXCEPT ![m.id] =
                   [(IF r.pending /\ r.phase # "replied" THEN Completed(r, m) ELSE r)
                      EXCEPT !.pending = FALSE]]
      /\ UNCHANGED <<holds, row, ownerCache, fileCache>>

-----------------------------------------------------------------------------
(* The handlers, after a wait *)

\* The search was answered, perhaps with nothing, or takes longer than 5 s, and
\* then its entry is overwritten with that of the file.
SearchEnds(i) ==
  LET r     == req[i]
      owner == IF r.slot = None THEN None ELSE r.slot.owner
  IN  /\ r # None /\ r.phase = "searching"
      /\ ownerCache' = [ownerCache EXCEPT ![r.front][r.file] = IF owner = None THEN @ ELSE owner]
      /\ Ask(i, [r EXCEPT !.late = r.slot = None], owner)
      /\ UNCHANGED <<holds, row, fileCache>>

\* The file goes into the cache: the proxy caches it only under a hash it knew
\* before it asked.
Cached(r) ==
  IF r.front = "peer" /\ ~r.hash THEN fileCache
  ELSE [fileCache EXCEPT ![r.front][r.file] = "fresh"]

\* Variants with a bug: no time limit on the wait for the file; any packet taken
\* for the contents.
WaitEndsWithAnswer(i) ==
  LET r == req[i]
  IN  /\ r # None /\ r.phase = "waiting" /\ r.slot # None
      /\ Reply(i, r, IF r.kind = "get" /\ r.slot.type = "found" THEN 500 ELSE 200)
      /\ fileCache' = IF r.kind = "get" /\ r.slot.type = "content" THEN Cached(r) ELSE fileCache
      /\ UNCHANGED <<net, holds, row, ownerCache>>

WaitEndsWithAnything(i) ==
  LET r == req[i]
  IN  /\ r # None /\ r.phase = "waiting"
      /\ Reply(i, r, IF r.slot = None THEN 504 ELSE 200)
      /\ fileCache' = IF r.kind = "get" /\ r.slot # None THEN Cached(r) ELSE fileCache
      /\ UNCHANGED <<net, holds, row, ownerCache>>

\* The wait is over: with contents, with an answer that is none for a get, with
\* any answer for the others, or after 30 s, and then the entry stays behind.
WaitEnds(i) ==
  LET r   == req[i]
      jam == r.front = "api" /\ fileCache["api"][r.file] = "jammed"
  IN  /\ r # None /\ r.phase = "waiting"
      /\ \/ r.slot = None /\ Reply(i, r, 504) /\ UNCHANGED fileCache
         \/ r.slot # None /\ r.kind # "get" /\ Reply(i, r, 200) /\ UNCHANGED fileCache
         \/ r.slot # None /\ r.kind = "get" /\ r.slot.type # "content"
            /\ Reply(i, r, 500) /\ UNCHANGED fileCache
         \/ /\ r.slot # None /\ r.kind = "get" /\ r.slot.type = "content"
            /\ IF jam THEN req' = [req EXCEPT ![i].phase = "stuck", ![i].slot = None]
                              /\ UNCHANGED fileCache
                      ELSE Reply(i, r, 200) /\ fileCache' = Cached(r)
      /\ UNCHANGED <<net, holds, row, ownerCache>>

-----------------------------------------------------------------------------
(* The providers' files and what is known of them *)

\* A peer's upload is stored by p; Me learns of its own.
Put(p, f) ==
  /\ holds' = holds \cup {<<p, f>>}
  /\ \E known \in (IF p = Me THEN {Me} ELSE {row[Me][f], p}) : row' = [row EXCEPT ![Me][f] = known]
  /\ UNCHANGED <<req, net, ownerCache, fileCache>>

\* A provider loses a file: with its row, by a deletion, or without it.
Drop(p, f) ==
  /\ <<p, f>> \in holds
  /\ holds' = holds \ {<<p, f>>}
  /\ \E known \in (IF p = Me THEN {None, row[Me][f]} ELSE {row[Me][f]}) :
       row' = [row EXCEPT ![Me][f] = known]
  /\ UNCHANGED <<req, net, ownerCache, fileCache>>

\* A server stores the rows a provider sends it; nothing ever takes one back.
Sync(s, p, f) ==
  LET known == IF p = Me THEN row[Me][f] ELSE IF <<p, f>> \in holds THEN p ELSE None
  IN  /\ known # None
      /\ row' = [row EXCEPT ![s][f] = known]
      /\ UNCHANGED <<req, net, holds, ownerCache, fileCache>>

\* An entry of a file cache expires (60 s, 300 s); the proxy takes an expired one
\* for a missing one.
Expire(a, f) ==
  /\ fileCache[a][f] = "fresh"
  /\ fileCache' = [fileCache EXCEPT ![a][f] = IF a = "api" THEN "expired" ELSE "none"]
  /\ UNCHANGED <<req, net, holds, row, ownerCache>>

-----------------------------------------------------------------------------
Start(i) ==
  \E f \in Files :
    \/ ProxyGet(i, f)
    \/ ApiGet(i, f)
    \/ ApiUpload(i, f)
    \/ ApiUpdate(i, f)
    \/ ApiDelete(i, f)
    \/ ApiChangeAccess(i, f)
    \/ ApiContractCall(i, f)
    \/ ApiPacket(i, f)

Continue(i) == SearchEnds(i) \/ WaitEnds(i)

Deliver(m) ==
  \/ ServerAnswersSearch(m)
  \/ ProviderSends(m)
  \/ ProviderStores(m)
  \/ ProviderUpdates(m)
  \/ ProviderIgnores(m)
  \/ ProviderExecutes(m)
  \/ SetResponse(m)

Storage ==
  \E f \in Files :
    \/ \E p \in Providers : Put(p, f) \/ Drop(p, f) \/ \E s \in Servers : Sync(s, p, f)
    \/ \E a \in Front : Expire(a, f)

Next == (\E i \in Ids : Start(i) \/ Continue(i)) \/ (\E m \in net : Deliver(m)) \/ Storage

Spec == Init /\ [][Next]_vars

\* A handler that waits is woken by its answer or by its timer.
FairSpec == Spec /\ \A i \in Ids : WF_vars(Continue(i))

-----------------------------------------------------------------------------
(* Properties *)

\* Every variable has its type, a packet belongs to a request that was made, and
\* a wait is completed only by taking its entry out of the table.
TypeOK ==
  /\ req \in [Ids -> RequestType \cup {None}]
  /\ net \subseteq PacketType
  /\ \A m \in net : req[m.id] # None
  /\ \A i \in Ids : req[i] # None => (req[i].slot # None => ~req[i].pending)
  /\ holds \subseteq Providers \X Files
  /\ row \in [Servers \cup {Me} -> [Files -> Providers \cup {None}]]
  /\ ownerCache \in [Front -> [Files -> Providers \cup {None}]]
  /\ fileCache \in [Front -> [Files -> {"none", "fresh", "expired", "jammed"}]]

Served(i) == req[i] # None /\ req[i].reply = 200

\* Success is reported only for what a provider did: it stored the upload or sent
\* the contents for this very request, or for an earlier one of the same front
\* end whose contents the cache kept.
Truthful ==
  \A i \in Ids : Served(i) =>
    \/ req[i].did
    \/ /\ req[i].kind = "get"
       /\ \E j \in Ids \ {i} : Served(j) /\ req[j].did /\ req[j].kind = "get"
                               /\ req[j].front = req[i].front /\ req[j].file = req[i].file

Seen(r) ==
  [front |-> r.front, kind |-> r.kind, file |-> r.file,
   reply |-> IF r.reply = 0 THEN "open" ELSE IF r.reply = 200 THEN "success" ELSE "failure"]

Calls == [i \in Ids |-> IF req[i] = None THEN None ELSE Seen(req[i])]

Effective == {i \in Ids : req[i] # None /\ req[i].did}

\* The front ends keep the promises of Gateway, although one uuid serves a search
\* and the request that follows it, although answers come late, twice or after
\* the handler has given up, and although contents come from a cache: a success
\* stands for one moment, after the call, at which a provider did what was asked.
Gate == INSTANCE Gateway WITH call <- Calls, effective <- Effective, Fronts <- Front
ImplementsGateway == Gate!Spec

\* A request that was replied to leaves an entry in the table of pending
\* responses only when it timed out (nothing else removes one).
OnlyTimeoutsLeak ==
  \A i \in Ids : req[i] # None /\ req[i].phase = "replied" /\ req[i].pending => req[i].reply = 504

\* "Invalid packet data" is the answer of a search that came after the handler
\* stopped waiting for it: the search had timed out, or a second server answered.
InvalidNeedsLateAnswer ==
  \A i \in Ids : req[i] # None /\ req[i].reply = 500 =>
    /\ req[i].front = "peer"
    /\ req[i].late \/ Cardinality(req[i].answers) > 1

\* Every request is replied to, except a get of the API that met an expired entry
\* of the file cache.
Replied ==
  \A i \in Ids :
    req[i] # None ~>
      /\ req[i] # None
      /\ \/ req[i].phase = "replied"
         \/ /\ req[i].phase = "stuck" /\ req[i].front = "api" /\ req[i].kind = "get"
            /\ fileCache["api"][req[i].file] = "jammed"
=============================================================================

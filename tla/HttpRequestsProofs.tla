------------------------- MODULE HttpRequestsProofs -------------------------
(***************************************************************************)
(* Proofs about HttpRequests, for every set of requests, files, providers  *)
(* and servers.                                                            *)
(*                                                                         *)
(* One uuid serves the search for an owner and the request to it, so the   *)
(* invariant has to say which packets can still arrive under it: an answer *)
(* of a search only for a request that searched, at most one per server,   *)
(* and contents or a confirmation only once a provider has acted.          *)
(*                                                                         *)
(* With it the front ends implement Gateway: every step is an operation of *)
(* the abstract specification on the request it is about, or is not seen   *)
(* by its caller.                                                          *)
(***************************************************************************)
EXTENDS HttpRequests, TLAPS, FiniteSetTheorems

Searched(r) == r.kind = "get" /\ r.front = "peer"

\* A search answered after its handler stopped waiting for it.
AnsweredLate(r) == r.late \/ Cardinality(r.answers) > 1

SlotOK(r) ==
  /\ r.phase \in {"searching", "waiting"}
  /\ r.slot.type \in Answer
  /\ r.slot.type = "content" => r.did /\ r.kind \in {"get", "packet"}
  /\ r.slot.type = "saved" => r.did /\ r.kind = "upload"
  /\ r.slot.type = "found" => /\ Searched(r)
                              /\ r.slot.node \in r.answers
                              /\ r.phase = "waiting" => AnsweredLate(r)
  /\ r.phase = "searching" => r.slot.type = "found"

RequestOK(r) ==
  /\ r \in RequestType
  /\ IsFiniteSet(r.answers)
  /\ r.slot # None => ~r.pending /\ SlotOK(r)
  /\ r.phase = "searching" => r.kind = "get"
  /\ r.phase = "stuck" => ~r.pending
  /\ r.reply # 0 => r.phase = "replied"
  /\ r.reply = 200 => r.kind \in {"get", "packet", "upload"}
  /\ r.phase = "replied" /\ r.pending => r.reply = 504
  /\ r.reply = 500 => r.front = "peer" /\ AnsweredLate(r)

OfSearch(m) == m.type \in {"search", "found"}

PacketOK(m, r) ==
  /\ m.type = "ask" => m.node \in Providers
  /\ m.type = "content" => r.did /\ r.kind \in {"get", "packet"}
  /\ m.type = "saved" => r.did /\ r.kind = "upload"
  /\ OfSearch(m) => /\ Searched(r)
                    /\ m.node \in Servers
                    /\ (r.pending \/ r.phase = "searching") => m.node \notin r.answers
                    /\ r.phase = "waiting" => (r.late \/ r.answers # {})
  /\ r.phase = "searching" => OfSearch(m)

\* A server answers a search once.
OncePerServer ==
  \A m, n \in net : OfSearch(m) /\ OfSearch(n) /\ m.id = n.id /\ m.node = n.node => m = n

\* Request j was answered with contents of f that a provider sent for it.
Source(j, a, f) ==
  /\ req[j] # None
  /\ req[j].reply = 200 /\ req[j].did /\ req[j].kind = "get"
  /\ req[j].front = a /\ req[j].file = f

CacheOK ==
  \A a \in Front, f \in Files : fileCache[a][f] = "fresh" => \E j \in Ids : Source(j, a, f)

Backed(i, r) ==
  r.reply = 200 =>
    \/ r.did
    \/ r.kind = "get" /\ \E j \in Ids \ {i} : Source(j, r.front, r.file)

IInv ==
  /\ TypeOK
  /\ \A i \in Ids : req[i] # None => RequestOK(req[i]) /\ Backed(i, req[i])
  /\ \A m \in net : PacketOK(m, req[m.id])
  /\ OncePerServer
  /\ CacheOK

-----------------------------------------------------------------------------
LEMMA InitIInv == Init => IInv
<1> SUFFICES ASSUME Init PROVE IInv
  OBVIOUS
<1>1. TypeOK
  <2>1. Me \in Servers \cup {Me}
    OBVIOUS
  <2> QED  BY DEF Init, TypeOK
<1>2. CacheOK
  BY DEF Init, CacheOK
<1> QED  BY <1>1, <1>2 DEF Init, IInv, OncePerServer

\* The step goes on with request i as r; its packets may be replaced or added to.
Continues(i, r) ==
  /\ req' = [req EXCEPT ![i] = r]
  /\ RequestOK(r) /\ Backed(i, r)
  /\ \A a \in Front, f \in Files : Source(i, a, f) =>
       r.reply = 200 /\ r.did /\ r.kind = "get" /\ r.front = a /\ r.file = f
  /\ net' \subseteq PacketType
  /\ \A m \in net' : (m.id = i /\ PacketOK(m, r)) \/ (m.id # i /\ m \in net)
  /\ \A m, n \in net' :
       OfSearch(m) /\ OfSearch(n) /\ m.id = i /\ n.id = i /\ m.node = n.node => m = n
  /\ holds' \subseteq Providers \X Files
  /\ row' \in [Servers \cup {Me} -> [Files -> Providers \cup {None}]]
  /\ ownerCache' \in [Front -> [Files -> Providers \cup {None}]]
  /\ fileCache' \in [Front -> [Files -> {"none", "fresh", "expired", "jammed"}]]
  /\ \A a \in Front, f \in Files :
       fileCache'[a][f] = "fresh" =>
         \/ fileCache[a][f] = "fresh"
         \/ r.reply = 200 /\ r.did /\ r.kind = "get" /\ r.front = a /\ r.file = f

LEMMA OneRequest ==
  ASSUME IInv, NEW i \in Ids, NEW r, Continues(i, r)
  PROVE  IInv'
<1> USE DEF Continues
<1>1. r \in RequestType /\ r # None
  BY HttpAssumption DEF HttpAssumption, RequestOK
<1>2. /\ \A j \in Ids, a \in Front, f \in Files : Source(j, a, f) => Source(j, a, f)'
      /\ req'[i] = r /\ \A j \in Ids \ {i} : req'[j] = req[j]
  <2>1. req'[i] = r /\ \A j \in Ids \ {i} : req'[j] = req[j]
    BY DEF IInv, TypeOK
  <2> QED  BY <1>1, <2>1 DEF Source
<1>3. \A m \in net' : m.id \in Ids
  BY DEF PacketType
<1>4. TypeOK'
  <2>1. req' \in [Ids -> RequestType \cup {None}]
    BY <1>1 DEF IInv, TypeOK
  <2>2. \A m \in net' : req'[m.id] # None
    BY <1>1, <1>2, <1>3 DEF IInv, TypeOK
  <2>3. \A j \in Ids : req'[j] # None => (req'[j].slot # None => ~req'[j].pending)
    BY <1>1, <1>2 DEF IInv, TypeOK, RequestOK
  <2> QED  BY <2>1, <2>2, <2>3 DEF TypeOK
<1>5. \A j \in Ids : req'[j] # None => RequestOK(req'[j]) /\ Backed(j, req[j])'
  <2> SUFFICES ASSUME NEW j \in Ids, req'[j] # None
               PROVE  RequestOK(req'[j]) /\ Backed(j, req[j])'
    OBVIOUS
  <2>1. RequestOK(req'[j])
    BY <1>2 DEF IInv
  <2>2. Backed(j, req'[j])
    BY <1>2 DEF IInv
  <2>3. req'[j].front \in Front /\ req'[j].file \in Files
    BY <2>1 DEF RequestOK, RequestType
  <2> QED  BY <1>2, <2>1, <2>2, <2>3 DEF Backed
<1>6. \A m \in net' : PacketOK(m, req'[m.id])
  BY <1>2, <1>3 DEF IInv
<1>7. OncePerServer'
  BY DEF IInv, OncePerServer
<1>8. CacheOK'
  <2> SUFFICES ASSUME NEW a \in Front, NEW f \in Files, fileCache'[a][f] = "fresh"
               PROVE  \E j \in Ids : Source(j, a, f)'
    BY DEF CacheOK
  <2>1. CASE fileCache[a][f] = "fresh"
    BY <1>2, <2>1 DEF IInv, CacheOK
  <2>2. CASE r.reply = 200 /\ r.did /\ r.kind = "get" /\ r.front = a /\ r.file = f
    BY <1>1, <1>2, <2>2 DEF Source
  <2> QED  BY <2>1, <2>2
<1> QED  BY <1>4, <1>5, <1>6, <1>7, <1>8 DEF IInv

-----------------------------------------------------------------------------
(* The handlers, up to their first wait *)

\* A handler, before it has come to its first wait too.
HandlerType ==
  [front : Front, kind : Kind, file : Files,
   phase : {"started", "searching", "waiting", "replied", "stuck"},
   hash : BOOLEAN, pending : BOOLEAN,
   slot : PacketType \cup {None}, reply : {0, 200, 404, 500, 504},
   did : BOOLEAN, late : BOOLEAN, answers : SUBSET Servers]

\* The records the actions write.
Begun(a, k, f, h) == [New(a, k, f) EXCEPT !.hash = h]

Seeking(r) == [r EXCEPT !.phase = "searching", !.pending = TRUE]

Awaiting(r) == [r EXCEPT !.phase = "waiting", !.pending = TRUE, !.slot = None]

Done(r, status) ==
  [r EXCEPT !.phase = "replied", !.reply = status, !.slot = None, !.hash = FALSE]

Filled(r, m) == [Completed(r, m) EXCEPT !.pending = FALSE]

LEMMA HandlerTypes ==
  /\ \A r \in RequestType : r \in HandlerType
  /\ \A r \in HandlerType : r.phase # "started" => r \in RequestType
BY DEF HandlerType, RequestType

LEMMA SetPending ==
  ASSUME NEW r \in HandlerType, NEW b \in BOOLEAN
  PROVE  [r EXCEPT !.pending = b] \in HandlerType
BY DEF HandlerType

LEMMA SetHash ==
  ASSUME NEW r \in HandlerType, NEW b \in BOOLEAN
  PROVE  [r EXCEPT !.hash = b] \in HandlerType
BY DEF HandlerType

LEMMA SetDid ==
  ASSUME NEW r \in HandlerType, NEW b \in BOOLEAN
  PROVE  [r EXCEPT !.did = b] \in HandlerType
BY DEF HandlerType

LEMMA NewHandler ==
  ASSUME NEW a \in Front, NEW k \in Kind, NEW f \in Files
  PROVE  LET r == New(a, k, f)
         IN  /\ r \in HandlerType
             /\ r.front = a /\ r.kind = k /\ r.file = f
             /\ ~r.pending /\ r.slot = None /\ r.reply = 0 /\ ~r.did /\ r.answers = {}
BY DEF New, HandlerType

LEMMA BegunHandler ==
  ASSUME NEW a \in Front, NEW k \in Kind, NEW f \in Files, NEW h \in BOOLEAN
  PROVE  LET r == Begun(a, k, f, h)
         IN  /\ r \in HandlerType
             /\ r.front = a /\ r.kind = k /\ r.file = f
             /\ ~r.pending /\ r.slot = None /\ r.reply = 0 /\ ~r.did /\ r.answers = {}
<1> DEFINE n == New(a, k, f)
           r == Begun(a, k, f, h)
<1>1. /\ n \in HandlerType
      /\ n.front = a /\ n.kind = k /\ n.file = f
      /\ ~n.pending /\ n.slot = None /\ n.reply = 0 /\ ~n.did /\ n.answers = {}
  BY NewHandler
<1>2. r = [n EXCEPT !.hash = h]
  BY DEF Begun
<1> HIDE DEF n, r
<1>3. r \in HandlerType
  <2>1. [n EXCEPT !.hash = h] \in HandlerType
    BY <1>1, SetHash
  <2> QED  BY <1>2, <2>1
<1>4. /\ r.front = a /\ r.kind = k /\ r.file = f
      /\ ~r.pending /\ r.slot = None /\ r.reply = 0 /\ ~r.did /\ r.answers = {}
  BY <1>1, <1>2 DEF HandlerType
<1> QED  BY <1>3, <1>4 DEF r

\* The updates of a handler's record keep its type and its other fields.
SameRequest(q, r) ==
  /\ q.front = r.front /\ q.kind = r.kind /\ q.file = r.file
  /\ q.did = r.did /\ q.answers = r.answers

LEMMA Waiting ==
  ASSUME NEW r \in HandlerType
  PROVE  LET q == Awaiting(r)
         IN  /\ q \in RequestType /\ SameRequest(q, r) /\ q.reply = r.reply /\ q.late = r.late
             /\ q.phase = "waiting" /\ q.pending /\ q.slot = None
<1> DEFINE q == Awaiting(r)
           r1 == [r EXCEPT !.phase = "waiting"]
           r2 == [r1 EXCEPT !.pending = TRUE]
<1>1. r1 \in HandlerType
  BY DEF HandlerType
<1>2. q = [r2 EXCEPT !.slot = None]
  BY DEF Awaiting
<1> HIDE DEF r1
<1>3. r2 \in HandlerType
  BY <1>1, SetPending, Zenon
<1> HIDE DEF r2
<1>4. q \in HandlerType
  BY <1>2, <1>3 DEF HandlerType
<1>5. /\ SameRequest(q, r) /\ q.reply = r.reply /\ q.late = r.late
      /\ q.phase = "waiting" /\ q.pending /\ q.slot = None
  BY DEF HandlerType, SameRequest, Awaiting
<1> QED  BY <1>4, <1>5, HandlerTypes

LEMMA Searching ==
  ASSUME NEW r \in HandlerType
  PROVE  LET q == Seeking(r)
         IN  /\ q \in RequestType /\ SameRequest(q, r) /\ q.reply = r.reply /\ q.late = r.late
             /\ q.phase = "searching" /\ q.pending /\ q.slot = r.slot
<1> DEFINE q == Seeking(r)
           r1 == [r EXCEPT !.phase = "searching"]
<1>1. r1 \in HandlerType
  BY DEF HandlerType
<1>2. q = [r1 EXCEPT !.pending = TRUE]
  BY DEF Seeking
<1> HIDE DEF r1
<1>3. q \in HandlerType
  BY <1>1, <1>2, SetPending, Zenon
<1>4. /\ SameRequest(q, r) /\ q.reply = r.reply /\ q.late = r.late
      /\ q.phase = "searching" /\ q.pending /\ q.slot = r.slot
  BY DEF HandlerType, SameRequest, Seeking
<1> QED  BY <1>3, <1>4, HandlerTypes

LEMMA Replying ==
  ASSUME NEW r \in HandlerType, NEW status \in {200, 404, 500, 504}
  PROVE  LET q == Done(r, status)
         IN  /\ q \in RequestType /\ SameRequest(q, r) /\ q.reply = status /\ q.late = r.late
             /\ q.phase = "replied" /\ q.pending = r.pending /\ q.slot = None
<1> DEFINE q == Done(r, status)
           r1 == [r EXCEPT !.phase = "replied"]
           r2 == [r1 EXCEPT !.reply = status]
           r3 == [r2 EXCEPT !.slot = None]
<1>1. r1 \in HandlerType
  BY DEF HandlerType
<1>2. q = [r3 EXCEPT !.hash = FALSE]
  BY DEF Done
<1> HIDE DEF r1
<1>3. r2 \in HandlerType
  BY <1>1 DEF HandlerType
<1> HIDE DEF r2
<1>4. r3 \in HandlerType
  BY <1>3 DEF HandlerType
<1> HIDE DEF r3
<1>5. q \in HandlerType
  BY <1>2, <1>4, SetHash, Zenon
<1>6. /\ SameRequest(q, r) /\ q.reply = status /\ q.late = r.late
      /\ q.phase = "replied" /\ q.pending = r.pending /\ q.slot = None
  BY DEF HandlerType, SameRequest, Done
<1> QED  BY <1>5, <1>6, HandlerTypes

LEMMA Completing ==
  ASSUME NEW r \in RequestType, NEW m \in PacketType
  PROVE  LET q == Filled(r, m)
         IN  /\ q \in RequestType
             /\ q.front = r.front /\ q.kind = r.kind /\ q.file = r.file /\ q.did = r.did
             /\ q.phase = r.phase /\ q.reply = r.reply /\ q.late = r.late /\ ~q.pending
             /\ q.slot = m /\ q.answers = r.answers \cup ({m.node} \cap Servers)
<1> DEFINE q == Filled(r, m)
           r1 == [r EXCEPT !.slot = m]
           r2 == [r1 EXCEPT !.answers = @ \cup ({m.node} \cap Servers)]
<1>1. r1 \in RequestType
  BY DEF RequestType
<1>2. q = [r2 EXCEPT !.pending = FALSE]
  BY DEF Filled, Completed
<1> HIDE DEF r1
<1>3. r2 \in HandlerType
  BY <1>1, HandlerTypes DEF RequestType, HandlerType
<1> HIDE DEF r2
<1>4. q \in HandlerType
  BY <1>2, <1>3, SetPending, Zenon
<1>5. /\ q.front = r.front /\ q.kind = r.kind /\ q.file = r.file /\ q.did = r.did
      /\ q.phase = r.phase /\ q.reply = r.reply /\ q.late = r.late /\ ~q.pending
      /\ q.slot = m /\ q.answers = r.answers \cup ({m.node} \cap Servers)
  BY DEF RequestType, Filled, Completed
<1>6. r.phase # "started"
  BY DEF RequestType
<1> QED  BY <1>4, <1>5, <1>6, HandlerTypes

\* The step starts request i as r and sends the packets P for it.
StartsAs(i, r, P) ==
  /\ req[i] = None
  /\ req' = [req EXCEPT ![i] = r]
  /\ RequestOK(r) /\ Backed(i, r) /\ r.answers = {}
  /\ P \subseteq PacketType /\ net' = net \cup P
  /\ \A m \in P : m.id = i /\ PacketOK(m, r)
  /\ \A m, n \in P : OfSearch(m) /\ m.node = n.node => m = n
  /\ ownerCache' \in [Front -> [Files -> Providers \cup {None}]]
  /\ fileCache' \in [Front -> [Files -> {"none", "fresh", "expired", "jammed"}]]
  /\ \A a \in Front, f \in Files :
       fileCache'[a][f] = "fresh" =>
         \/ fileCache[a][f] = "fresh"
         \/ r.reply = 200 /\ r.did /\ r.kind = "get" /\ r.front = a /\ r.file = f
  /\ UNCHANGED <<holds, row>>

\* Nothing was sent for a request that has not started.
LEMMA StartStep ==
  ASSUME IInv, NEW i \in Ids, NEW r, NEW P, StartsAs(i, r, P)
  PROVE  IInv'
<1> USE DEF StartsAs
<1>1. \A m \in net : m \in PacketType /\ m.id # i
  BY DEF IInv, TypeOK
<1>2. \A a \in Front, f \in Files : ~Source(i, a, f)
  BY DEF Source
<1>3. /\ net' \subseteq PacketType
      /\ \A m \in net' : (m.id = i /\ PacketOK(m, r)) \/ (m.id # i /\ m \in net)
      /\ \A m, n \in net' : OfSearch(m) /\ OfSearch(n) /\ m.id = i /\ n.id = i /\ m.node = n.node
                              => m = n
  BY <1>1
<1>4. holds' \subseteq Providers \X Files
      /\ row' \in [Servers \cup {Me} -> [Files -> Providers \cup {None}]]
  BY DEF IInv, TypeOK
<1>5. Continues(i, r)
  BY <1>2, <1>3, <1>4 DEF Continues
<1> QED  BY <1>5, OneRequest

\* A packet as Ask and Search send it.
LEMMA PacketFacts ==
  ASSUME NEW type \in {"search", "ask"} \cup Answer, NEW i \in Ids,
         NEW node \in Providers \cup Servers, NEW owner \in Providers \cup {None}
  PROVE  /\ Packet(type, i, node, owner) \in PacketType
         /\ Packet(type, i, node, owner).type = type
         /\ Packet(type, i, node, owner).id = i
         /\ Packet(type, i, node, owner).node = node
         /\ Packet(type, i, node, owner).owner = owner
BY DEF Packet, PacketType

\* Ask sends a packet of this request to a provider, or none.
LEMMA AskFacts ==
  ASSUME NEW i \in Ids, NEW r \in HandlerType, NEW target \in Providers \cup {None},
         Ask(i, r, target)
  PROVE  \E P \in SUBSET PacketType :
           /\ req' = [req EXCEPT ![i] = Awaiting(r)] /\ net' = net \cup P
           /\ \A m \in P : m.id = i /\ m.type = "ask" /\ m.node \in Providers
<1>1. PICK to \in Providers \cup {None} :
        /\ req' = [req EXCEPT ![i] = Awaiting(r)]
        /\ net' = net \/ (to # None /\ net' = net \cup {Packet("ask", i, to, None)})
  BY DEF Ask, Awaiting
<1>2. CASE net' = net
  BY <1>1, <1>2, {} \in SUBSET PacketType
<1>3. CASE to # None /\ net' = net \cup {Packet("ask", i, to, None)}
  <2>1. to \in Providers \cup Servers /\ to \in Providers
    BY <1>3
  <2>2. PICK m \in PacketType : m = Packet("ask", i, to, None) /\ m.id = i /\ m.type = "ask" /\ m.node = to
    BY <2>1, PacketFacts
  <2>3. {m} \in SUBSET PacketType
    BY <2>2
  <2> QED  BY <1>1, <1>3, <2>1, <2>2, <2>3
<1> QED  BY <1>1, <1>2, <1>3

LEMMA AskFirst ==
  ASSUME IInv, NEW i \in Ids, req[i] = None, NEW n \in HandlerType,
         n.reply = 0, n.answers = {},
         NEW target \in Providers \cup {None}, Ask(i, n, target),
         ownerCache' \in [Front -> [Files -> Providers \cup {None}]],
         UNCHANGED <<holds, row, fileCache>>
  PROVE  IInv'
<1> DEFINE r == Awaiting(n)
<1>2. /\ r \in RequestType /\ SameRequest(r, n) /\ r.reply = 0
      /\ r.phase = "waiting" /\ r.pending /\ r.slot = None
  BY Waiting
<1>3. PICK P \in SUBSET PacketType :
        /\ req' = [req EXCEPT ![i] = r] /\ net' = net \cup P
        /\ \A m \in P : m.id = i /\ m.type = "ask" /\ m.node \in Providers
  BY AskFacts, Zenon
<1> HIDE DEF r
<1>4. RequestOK(r) /\ Backed(i, r) /\ r.answers = {}
  BY <1>2, FS_EmptySet DEF RequestOK, SameRequest, Backed
<1>5. \A m \in P : PacketOK(m, r)
  BY <1>2, <1>3 DEF PacketOK, OfSearch
<1>6. \A m, x \in P : OfSearch(m) /\ m.node = x.node => m = x
  BY <1>3 DEF OfSearch
<1>7. fileCache' \in [Front -> [Files -> {"none", "fresh", "expired", "jammed"}]]
  BY DEF IInv, TypeOK
<1>8. StartsAs(i, r, P)
  BY <1>3, <1>4, <1>5, <1>6, <1>7 DEF StartsAs
<1> QED  BY <1>8, StartStep

LEMMA SearchFirst ==
  ASSUME IInv, NEW i \in Ids, req[i] = None, NEW n \in HandlerType,
         n.reply = 0, n.slot = None, n.answers = {}, n.kind = "get", Search(i, n),
         ownerCache' \in [Front -> [Files -> Providers \cup {None}]],
         UNCHANGED <<holds, row, fileCache>>
  PROVE  IInv'
<1> DEFINE r == Seeking(n)
           P == IF n.front = "peer" THEN {Packet("search", i, s, None) : s \in Servers} ELSE {}
<1>3. /\ r \in RequestType /\ SameRequest(r, n) /\ r.reply = 0
      /\ r.phase = "searching" /\ r.pending /\ r.slot = None
  BY Searching
<1>4. req' = [req EXCEPT ![i] = r] /\ net' = net \cup P
  BY DEF Search, Seeking
<1> HIDE DEF r
<1>5. ASSUME NEW m \in P
      PROVE  /\ n.front = "peer" /\ m \in PacketType /\ m.id = i /\ m.type = "search"
             /\ m.node \in Servers /\ m = Packet("search", i, m.node, None)
  <2>1. PICK s \in Servers : m = Packet("search", i, s, None) /\ n.front = "peer"
    OBVIOUS
  <2>2. /\ s \in Providers \cup Servers /\ None \in Providers \cup {None}
        /\ "search" \in {"search", "ask"} \cup Answer
    OBVIOUS
  <2> HIDE DEF P
  <2>3. PICK x \in PacketType :
          x = Packet("search", i, s, None) /\ x.type = "search" /\ x.id = i /\ x.node = s
    BY <2>2, PacketFacts
  <2> QED  BY <2>1, <2>3
<1> HIDE DEF P
<1>6. RequestOK(r) /\ Backed(i, r) /\ r.answers = {} /\ r.kind = "get" /\ r.front = n.front
  BY <1>3, FS_EmptySet DEF RequestOK, SameRequest, Backed
<1>7. \A m \in P : m.id = i /\ PacketOK(m, r)
  BY <1>3, <1>5, <1>6 DEF PacketOK, OfSearch, Searched
<1>8. \A m, x \in P : OfSearch(m) /\ m.node = x.node => m = x
  BY <1>5
<1>9. fileCache' \in [Front -> [Files -> {"none", "fresh", "expired", "jammed"}]]
  BY DEF IInv, TypeOK
<1>10. P \in SUBSET PacketType
  BY <1>5
<1>11. StartsAs(i, r, P)
  BY <1>4, <1>6, <1>7, <1>8, <1>9, <1>10 DEF StartsAs
<1> QED  BY <1>11, StartStep

\* The step replies to request i without a wait.
RepliesAtOnce(i, n, status) ==
  /\ req[i] = None
  /\ ~n.pending /\ n.answers = {} /\ n.kind = "get"
  /\ Reply(i, n, status)
  /\ status = 200 => (n.did \/ \E j \in Ids \ {i} : Source(j, n.front, n.file))
  /\ ownerCache' \in [Front -> [Files -> Providers \cup {None}]]
  /\ fileCache' \in [Front -> [Files -> {"none", "fresh", "expired", "jammed"}]]
  /\ \A a \in Front, f \in Files :
       fileCache'[a][f] = "fresh" =>
         \/ fileCache[a][f] = "fresh"
         \/ status = 200 /\ n.did /\ n.front = a /\ n.file = f
  /\ UNCHANGED <<net, holds, row>>

LEMMA ReplyFirst ==
  ASSUME IInv, NEW i \in Ids, NEW n \in HandlerType, NEW status \in {200, 404},
         RepliesAtOnce(i, n, status)
  PROVE  IInv'
<1> DEFINE r == Done(n, status)
<1>1. /\ r \in RequestType /\ SameRequest(r, n) /\ r.reply = status
      /\ r.phase = "replied" /\ r.pending = n.pending /\ r.slot = None
  BY Replying
<1>2. req' = [req EXCEPT ![i] = r]
  BY DEF Reply, Done, RepliesAtOnce
<1> HIDE DEF r
<1>3. RequestOK(r) /\ Backed(i, r) /\ r.answers = {}
  BY <1>1, FS_EmptySet DEF RequestOK, SameRequest, Backed, RepliesAtOnce
<1>4. \A a \in Front, f \in Files :
        fileCache'[a][f] = "fresh" =>
          \/ fileCache[a][f] = "fresh"
          \/ r.reply = 200 /\ r.did /\ r.kind = "get" /\ r.front = a /\ r.file = f
  BY <1>1 DEF SameRequest, RepliesAtOnce
<1>5. StartsAs(i, r, {})
  BY <1>2, <1>3, <1>4 DEF StartsAs, RepliesAtOnce
<1> QED  BY <1>5, StartStep

LEMMA ProxyGetStep ==
  ASSUME IInv, NEW i \in Ids, NEW f \in Files, ProxyGet(i, f)
  PROVE  IInv'
<1> DEFINE cached == ownerCache["peer"][f]
           local  == row[Me][f]
           owner  == IF cached # None THEN cached ELSE local
           known  == local # None /\ cached \in {None, Me}
           n      == Begun("peer", "get", f, known)
<1>1. /\ req[i] = None
      /\ "peer" \in Front /\ "get" \in Kind
      /\ UNCHANGED <<holds, row, ownerCache>>
  BY DEF ProxyGet, Starts, Front, Kind
<1>2. /\ owner \in Providers \cup {None} /\ known \in BOOLEAN
      /\ ownerCache' \in [Front -> [Files -> Providers \cup {None}]]
      /\ fileCache \in [Front -> [Files -> {"none", "fresh", "expired", "jammed"}]]
  BY <1>1 DEF IInv, TypeOK
<1>3. \/ Search(i, n) /\ UNCHANGED fileCache
      \/ fileCache["peer"][f] = "fresh" /\ Reply(i, n, 200) /\ UNCHANGED <<net, fileCache>>
      \/ /\ Reply(i, [n EXCEPT !.did = TRUE], 200)
         /\ fileCache' = [fileCache EXCEPT !["peer"][f] = "fresh"]
         /\ UNCHANGED net
      \/ Reply(i, n, 404) /\ UNCHANGED <<net, fileCache>>
      \/ owner # None /\ Ask(i, n, owner) /\ UNCHANGED fileCache
  BY DEF ProxyGet, Begun
<1> HIDE DEF known, cached, local, owner
<1>4. /\ n \in HandlerType /\ n.front = "peer" /\ n.kind = "get" /\ n.file = f
      /\ ~n.pending /\ n.slot = None /\ n.reply = 0 /\ ~n.did /\ n.answers = {}
  BY <1>1, <1>2, BegunHandler
<1> HIDE DEF n
<1>5. CASE Search(i, n) /\ UNCHANGED fileCache
  BY <1>1, <1>2, <1>4, <1>5, SearchFirst
<1>6. CASE owner # None /\ Ask(i, n, owner) /\ UNCHANGED fileCache
  BY <1>1, <1>2, <1>4, <1>6, AskFirst
<1>7. CASE fileCache["peer"][f] = "fresh" /\ Reply(i, n, 200) /\ UNCHANGED <<net, fileCache>>
  <2>1. PICK j \in Ids : Source(j, "peer", f)
    BY <1>1, <1>7 DEF IInv, CacheOK
  <2>2. j # i
    BY <1>1, <2>1 DEF Source
  <2>3. RepliesAtOnce(i, n, 200)
    BY <1>1, <1>2, <1>4, <1>7, <2>1, <2>2 DEF RepliesAtOnce
  <2> QED  BY <1>4, <2>3, ReplyFirst
<1>8. CASE Reply(i, n, 404) /\ UNCHANGED <<net, fileCache>>
  <2>1. RepliesAtOnce(i, n, 404)
    BY <1>1, <1>2, <1>4, <1>8 DEF RepliesAtOnce
  <2> QED  BY <1>4, <2>1, ReplyFirst
<1>9. CASE /\ Reply(i, [n EXCEPT !.did = TRUE], 200)
           /\ fileCache' = [fileCache EXCEPT !["peer"][f] = "fresh"]
           /\ UNCHANGED net
  <2> DEFINE d == [n EXCEPT !.did = TRUE]
  <2>1. d \in HandlerType
    BY <1>4, SetDid, Zenon
  <2>2. /\ d.front = "peer" /\ d.kind = "get" /\ d.file = f /\ ~d.pending /\ d.did
        /\ d.answers = {}
    BY <1>4 DEF HandlerType
  <2>3. Reply(i, d, 200)
    BY <1>9
  <2>4. /\ fileCache' \in [Front -> [Files -> {"none", "fresh", "expired", "jammed"}]]
        /\ \A a \in Front, g \in Files :
             fileCache'[a][g] = "fresh" => fileCache[a][g] = "fresh" \/ (a = "peer" /\ g = f)
    BY <1>1, <1>2, <1>9
  <2> HIDE DEF d
  <2>5. RepliesAtOnce(i, d, 200)
    BY <1>1, <1>2, <1>9, <2>2, <2>3, <2>4 DEF RepliesAtOnce
  <2> QED  BY <2>1, <2>5, ReplyFirst
<1> QED  BY <1>3, <1>5, <1>6, <1>7, <1>8, <1>9

LEMMA ApiGetStep ==
  ASSUME IInv, NEW i \in Ids, NEW f \in Files, ApiGet(i, f)
  PROVE  IInv'
<1> DEFINE cached == ownerCache["api"][f]
           local  == row[Home][f]
           known  == cached = None /\ local # None
           n      == Begun("api", "get", f, known)
<1>1. /\ req[i] = None
      /\ "api" \in Front /\ "get" \in Kind
      /\ UNCHANGED <<holds, row>>
  BY DEF ApiGet, Starts, Front, Kind
<1>2. /\ cached \in Providers \cup {None} /\ local \in Providers \cup {None} /\ known \in BOOLEAN
      /\ ownerCache' \in [Front -> [Files -> Providers \cup {None}]]
      /\ fileCache \in [Front -> [Files -> {"none", "fresh", "expired", "jammed"}]]
  <2>1. cached \in Providers \cup {None} /\ local \in Providers \cup {None} /\ known \in BOOLEAN
    BY <1>1, HttpAssumption DEF IInv, TypeOK, HttpAssumption
  <2>2. ownerCache' = [ownerCache EXCEPT !["api"][f] = IF known THEN local ELSE @]
    BY DEF ApiGet
  <2>3. (IF known THEN local ELSE cached) \in Providers \cup {None}
    BY <2>1
  <2> HIDE DEF known, local
  <2> QED  BY <1>1, <2>1, <2>2, <2>3 DEF IInv, TypeOK
<1>3. \/ Search(i, n) /\ UNCHANGED fileCache
      \/ \E owner \in {cached, local} : Ask(i, n, owner) /\ UNCHANGED fileCache
      \/ fileCache["api"][f] = "fresh" /\ Reply(i, n, 200) /\ UNCHANGED <<net, fileCache>>
      \/ /\ req' = [req EXCEPT ![i] = [n EXCEPT !.phase = "stuck"]]
         /\ fileCache' = [fileCache EXCEPT !["api"][f] = "jammed"]
         /\ UNCHANGED net
  BY DEF ApiGet, Begun
<1> HIDE DEF known, cached, local
<1>4. /\ n \in HandlerType /\ n.front = "api" /\ n.kind = "get" /\ n.file = f
      /\ ~n.pending /\ n.slot = None /\ n.reply = 0 /\ ~n.did /\ n.answers = {}
  BY <1>1, <1>2, BegunHandler
<1> HIDE DEF n
<1>5. CASE Search(i, n) /\ UNCHANGED fileCache
  BY <1>1, <1>2, <1>4, <1>5, SearchFirst
<1>6. CASE \E owner \in {cached, local} : Ask(i, n, owner) /\ UNCHANGED fileCache
  BY <1>1, <1>2, <1>4, <1>6, AskFirst
<1>7. CASE fileCache["api"][f] = "fresh" /\ Reply(i, n, 200) /\ UNCHANGED <<net, fileCache>>
  <2>1. PICK j \in Ids : Source(j, "api", f)
    BY <1>1, <1>7 DEF IInv, CacheOK
  <2>2. j # i
    BY <1>1, <2>1 DEF Source
  <2>3. RepliesAtOnce(i, n, 200)
    BY <1>1, <1>2, <1>4, <1>7, <2>1, <2>2 DEF RepliesAtOnce
  <2> QED  BY <1>4, <2>3, ReplyFirst
<1>8. CASE /\ req' = [req EXCEPT ![i] = [n EXCEPT !.phase = "stuck"]]
           /\ fileCache' = [fileCache EXCEPT !["api"][f] = "jammed"]
           /\ UNCHANGED net
  <2> DEFINE r == [n EXCEPT !.phase = "stuck"]
  <2>1. /\ r \in RequestType /\ r.phase = "stuck"
        /\ ~r.pending /\ r.slot = None /\ r.reply = 0 /\ r.answers = {}
    BY <1>4 DEF HandlerType, RequestType
  <2>2. req' = [req EXCEPT ![i] = r]
    BY <1>8
  <2> HIDE DEF r
  <2>3. RequestOK(r) /\ Backed(i, r)
    BY <2>1, FS_EmptySet DEF RequestOK, Backed
  <2>4. /\ fileCache' \in [Front -> [Files -> {"none", "fresh", "expired", "jammed"}]]
        /\ \A a \in Front, g \in Files : fileCache'[a][g] = "fresh" => fileCache[a][g] = "fresh"
    BY <1>1, <1>2, <1>8
  <2>5. StartsAs(i, r, {})
    BY <1>1, <1>2, <1>8, <2>1, <2>2, <2>3, <2>4 DEF StartsAs
  <2> QED  BY <2>5, StartStep
<1> QED  BY <1>3, <1>5, <1>6, <1>7, <1>8

LEMMA SendStep ==
  ASSUME IInv, NEW i \in Ids, NEW f \in Files, NEW kind \in Kind,
         NEW target \in Providers \cup {None}, Send(i, f, kind, target)
  PROVE  IInv'
<1> DEFINE n == New("api", kind, f)
<1>1. /\ req[i] = None /\ Ask(i, n, target)
      /\ UNCHANGED <<holds, row, ownerCache, fileCache>>
  BY DEF Send, Starts
<1>2. n \in HandlerType /\ n.reply = 0 /\ n.answers = {}
  BY NewHandler DEF Front
<1> HIDE DEF n
<1>3. ownerCache' \in [Front -> [Files -> Providers \cup {None}]]
  BY <1>1 DEF IInv, TypeOK
<1> QED  BY <1>1, <1>2, <1>3, AskFirst

LEMMA StartSteps ==
  ASSUME IInv, NEW i \in Ids, Start(i)
  PROVE  IInv'
<1>1. PICK f \in Files :
        \/ ProxyGet(i, f)
        \/ ApiGet(i, f)
        \/ \E kind \in Kind, target \in Providers \cup {None} : Send(i, f, kind, target)
  BY DEF Start, Kind, ApiUpload, ApiUpdate, ApiDelete, ApiChangeAccess, ApiContractCall, ApiPacket
<1> QED  BY <1>1, ProxyGetStep, ApiGetStep, SendStep

-----------------------------------------------------------------------------
(* The network *)

\* The step takes packet m from the net, sends P and leaves its request as r.
Takes(m, r, P) ==
  /\ m \in net
  /\ req' = [req EXCEPT ![m.id] = r]
  /\ P \subseteq PacketType /\ net' = (net \ {m}) \cup P
  /\ RequestOK(r) /\ Backed(m.id, r)
  /\ \A a \in Front, f \in Files : Source(m.id, a, f) =>
       r.reply = 200 /\ r.did /\ r.kind = "get" /\ r.front = a /\ r.file = f
  /\ \A x \in net \ {m} : x.id = m.id => PacketOK(x, r)
  /\ \A x \in P : x.id = m.id /\ PacketOK(x, r)
  /\ \A x \in P : OfSearch(x) => OfSearch(m) /\ P = {x} /\ x.node = m.node
  /\ holds' \subseteq Providers \X Files
  /\ row' \in [Servers \cup {Me} -> [Files -> Providers \cup {None}]]
  /\ UNCHANGED <<ownerCache, fileCache>>

LEMMA TakeStep ==
  ASSUME IInv, NEW m, NEW r, NEW P, Takes(m, r, P)
  PROVE  IInv'
<1> USE DEF Takes
<1>1. \A x \in net : x \in PacketType /\ x.id \in Ids
  BY DEF IInv, TypeOK, PacketType
<1>2. /\ net' \subseteq PacketType
      /\ \A x \in net' : (x.id = m.id /\ PacketOK(x, r)) \/ (x.id # m.id /\ x \in net)
  BY <1>1
<1>3. \A x, y \in net' :
        OfSearch(x) /\ OfSearch(y) /\ x.id = m.id /\ y.id = m.id /\ x.node = y.node => x = y
  <2> SUFFICES ASSUME NEW x \in net', NEW y \in net', OfSearch(x), OfSearch(y),
                      x.id = m.id, y.id = m.id, x.node = y.node
               PROVE  x = y
    OBVIOUS
  <2>1. CASE x \in net \ {m} /\ y \in net \ {m}
    BY <2>1 DEF IInv, OncePerServer
  <2>2. CASE x \in P /\ y \in P
    BY <2>2
  <2>3. CASE x \in P /\ y \in net \ {m}
    BY <2>3 DEF IInv, OncePerServer
  <2>4. CASE x \in net \ {m} /\ y \in P
    BY <2>4 DEF IInv, OncePerServer
  <2> QED  BY <2>1, <2>2, <2>3, <2>4
<1>4. /\ ownerCache' \in [Front -> [Files -> Providers \cup {None}]]
      /\ fileCache' \in [Front -> [Files -> {"none", "fresh", "expired", "jammed"}]]
  BY DEF IInv, TypeOK
<1>5. Continues(m.id, r)
  BY <1>2, <1>3, <1>4 DEF Continues
<1> QED  BY <1>1, <1>5, OneRequest

\* What holds of the packet that is taken and of its request.
LEMMA Taken ==
  ASSUME IInv, NEW m \in net
  PROVE  /\ m \in PacketType /\ m.id \in Ids /\ req[m.id] # None
         /\ req[m.id] \in RequestType /\ RequestOK(req[m.id]) /\ Backed(m.id, req[m.id])
         /\ PacketOK(m, req[m.id])
         /\ \A x \in net \ {m} : x.id = m.id => PacketOK(x, req[m.id])
         /\ \A x \in net \ {m} : OfSearch(x) /\ OfSearch(m) /\ x.id = m.id => x.node # m.node
         /\ req = [req EXCEPT ![m.id] = req[m.id]]
<1>1. m \in PacketType /\ m.id \in Ids /\ req[m.id] # None
  BY DEF IInv, TypeOK, PacketType
<1>2. RequestOK(req[m.id]) /\ Backed(m.id, req[m.id]) /\ PacketOK(m, req[m.id])
  BY <1>1 DEF IInv
<1>3. \A x \in net \ {m} : x.id = m.id => PacketOK(x, req[m.id])
  BY DEF IInv
<1>4. \A x \in net \ {m} : OfSearch(x) /\ OfSearch(m) /\ x.id = m.id => x.node # m.node
  BY DEF IInv, OncePerServer
<1>5. req = [req EXCEPT ![m.id] = req[m.id]]
  BY <1>1 DEF IInv, TypeOK
<1> QED  BY <1>1, <1>2, <1>3, <1>4, <1>5 DEF RequestOK

\* A step that leaves the request of the packet as it is.
LEMMA Untouched ==
  ASSUME IInv, NEW m \in net, NEW P \in SUBSET PacketType,
         net' = (net \ {m}) \cup P,
         \A x \in P : x.id = m.id /\ PacketOK(x, req[m.id]),
         \A x \in P : OfSearch(x) => OfSearch(m) /\ P = {x} /\ x.node = m.node,
         holds' \subseteq Providers \X Files,
         row' \in [Servers \cup {Me} -> [Files -> Providers \cup {None}]],
         UNCHANGED <<req, ownerCache, fileCache>>
  PROVE  IInv'
<1> DEFINE r == req[m.id]
<1>1. /\ req' = [req EXCEPT ![m.id] = r] /\ RequestOK(r) /\ Backed(m.id, r)
      /\ \A x \in net \ {m} : x.id = m.id => PacketOK(x, r)
  BY Taken
<1>2. \A a \in Front, f \in Files : Source(m.id, a, f) =>
        r.reply = 200 /\ r.did /\ r.kind = "get" /\ r.front = a /\ r.file = f
  BY DEF Source
<1> HIDE DEF r
<1>3. \A x \in P : x.id = m.id /\ PacketOK(x, r)
  BY DEF r
<1>4. Takes(m, r, P)
  BY <1>1, <1>2, <1>3 DEF Takes
<1> QED  BY <1>4, TakeStep

\* The request after its provider has handled it.
Handled(r, b) == [r EXCEPT !.did = b]

LEMMA Handling ==
  ASSUME NEW r \in RequestType, NEW b \in BOOLEAN, RequestOK(r), r.did => b
  PROVE  LET q == Handled(r, b)
         IN  /\ RequestOK(q) /\ q.did = b
             /\ q.front = r.front /\ q.kind = r.kind /\ q.file = r.file
             /\ q.phase = r.phase /\ q.reply = r.reply /\ q.late = r.late
             /\ q.pending = r.pending /\ q.slot = r.slot /\ q.answers = r.answers
<1> DEFINE q == Handled(r, b)
<1>1. q \in HandlerType
  BY HandlerTypes, SetDid, Zenon DEF Handled
<1>2. /\ q.did = b
      /\ q.front = r.front /\ q.kind = r.kind /\ q.file = r.file
      /\ q.phase = r.phase /\ q.reply = r.reply /\ q.late = r.late
      /\ q.pending = r.pending /\ q.slot = r.slot /\ q.answers = r.answers
  BY DEF Handled, RequestType
<1> HIDE DEF q
<1>3. q \in RequestType
  BY <1>1, <1>2, HandlerTypes DEF RequestType
<1>4. q.slot # None => SlotOK(q)
  BY <1>2 DEF RequestOK, SlotOK, Searched, AnsweredLate
<1>5. RequestOK(q)
  BY <1>2, <1>3, <1>4 DEF RequestOK, AnsweredLate
<1> QED  BY <1>2, <1>5 DEF q

\* A step in which a provider acts on the request.
LEMMA Acted ==
  ASSUME IInv, NEW m \in net, NEW b \in BOOLEAN, NEW P \in SUBSET PacketType,
         net' = (net \ {m}) \cup P,
         req[m.id].did => b,
         req' = [req EXCEPT ![m.id] = Handled(req[m.id], b)],
         \A x \in P : x.id = m.id /\ x.type \in {"content", "saved"},
         \A x \in P : b /\ req[m.id].phase # "searching",
         \A x \in P : x.type = "content" => req[m.id].kind \in {"get", "packet"},
         \A x \in P : x.type = "saved" => req[m.id].kind = "upload",
         holds' \subseteq Providers \X Files,
         row' \in [Servers \cup {Me} -> [Files -> Providers \cup {None}]],
         UNCHANGED <<ownerCache, fileCache>>
  PROVE  IInv'
<1> DEFINE r == req[m.id]
           q == Handled(r, b)
<1>1. /\ r \in RequestType /\ RequestOK(r) /\ Backed(m.id, r)
      /\ \A x \in net \ {m} : x.id = m.id => PacketOK(x, r)
      /\ req' = [req EXCEPT ![m.id] = q]
      /\ r.did => b
  BY Taken
<1>2. \A a \in Front, f \in Files : Source(m.id, a, f) =>
        r.reply = 200 /\ r.did /\ r.kind = "get" /\ r.front = a /\ r.file = f
  BY DEF Source
<1>3. \A x \in P : /\ x.id = m.id /\ x.type \in {"content", "saved"} /\ b /\ r.phase # "searching"
                   /\ x.type = "content" => r.kind \in {"get", "packet"}
                   /\ x.type = "saved" => r.kind = "upload"
  OBVIOUS
<1> HIDE DEF r
<1>4. /\ RequestOK(q) /\ q.did = b
      /\ q.front = r.front /\ q.kind = r.kind /\ q.file = r.file
      /\ q.phase = r.phase /\ q.reply = r.reply /\ q.late = r.late
      /\ q.pending = r.pending /\ q.slot = r.slot /\ q.answers = r.answers
  BY <1>1, Handling
<1> HIDE DEF q
<1>5. Backed(m.id, q)
  BY <1>1, <1>4 DEF Backed, RequestOK
<1>6. \A x \in net \ {m} : x.id = m.id => PacketOK(x, q)
  BY <1>1, <1>4 DEF PacketOK, Searched
<1>7. \A x \in P : x.id = m.id /\ PacketOK(x, q) /\ ~OfSearch(x)
  BY <1>3, <1>4 DEF PacketOK, OfSearch
<1>8. \A a \in Front, f \in Files : Source(m.id, a, f) =>
        q.reply = 200 /\ q.did /\ q.kind = "get" /\ q.front = a /\ q.file = f
  BY <1>1, <1>2, <1>4
<1>9. Takes(m, q, P)
  BY <1>1, <1>5, <1>4, <1>6, <1>7, <1>8 DEF Takes
<1> QED  BY <1>9, TakeStep

LEMMA StoredTypes ==
  ASSUME IInv
  PROVE  /\ holds \subseteq Providers \X Files
         /\ row \in [Servers \cup {Me} -> [Files -> Providers \cup {None}]]
BY DEF IInv, TypeOK

LEMMA ServerAnswersSearchStep ==
  ASSUME IInv, NEW m \in net, ServerAnswersSearch(m)
  PROVE  IInv'
<1> DEFINE r == req[m.id]
           owner == row[m.node][r.file]
           x == Packet("found", m.id, m.node, owner)
<1>1. /\ m.type = "search" /\ net' = (net \ {m}) \cup {x}
      /\ UNCHANGED <<req, holds, row, ownerCache, fileCache>>
  BY DEF ServerAnswersSearch
<1>2. m \in PacketType /\ m.id \in Ids /\ r \in RequestType /\ PacketOK(m, r)
  BY Taken
<1>3. OfSearch(m) /\ m.node \in Servers
  BY <1>1, <1>2 DEF PacketOK, OfSearch
<1>4. r.file \in Files
  BY <1>2 DEF RequestType
<1> HIDE DEF r
<1>5. owner \in Providers \cup {None}
  BY <1>3, <1>4, StoredTypes
<1> HIDE DEF owner
<1>6. /\ x \in PacketType /\ x.type = "found" /\ x.id = m.id /\ x.node = m.node
  BY <1>2, <1>3, <1>5, PacketFacts DEF Answer
<1> HIDE DEF x
<1>7. PacketOK(x, r) /\ OfSearch(x)
  BY <1>1, <1>2, <1>3, <1>6 DEF PacketOK, OfSearch
<1>8. PacketOK(x, req[m.id])
  BY <1>7 DEF r
<1> DEFINE P == {x}
<1>9. /\ P \in SUBSET PacketType
      /\ \A y \in P : y.id = m.id /\ PacketOK(y, req[m.id])
      /\ \A y \in P : OfSearch(y) => OfSearch(m) /\ P = {y} /\ y.node = m.node
      /\ net' = (net \ {m}) \cup P
  BY <1>1, <1>3, <1>6, <1>8
<1> HIDE DEF P
<1>10. holds' \subseteq Providers \X Files
       /\ row' \in [Servers \cup {Me} -> [Files -> Providers \cup {None}]]
  BY <1>1, StoredTypes
<1> QED  BY <1>1, <1>9, <1>10, Untouched

LEMMA ProviderSendsStep ==
  ASSUME IInv, NEW m \in net, ProviderSends(m)
  PROVE  IInv'
<1> DEFINE r == req[m.id]
           stored == <<m.node, r.file>> \in holds
           b == r.did \/ stored
           x == Packet("content", m.id, m.node, None)
           P == IF stored THEN {x} ELSE {}
<1>1. /\ m.type = "ask" /\ r.kind \in {"get", "packet"} /\ net' = (net \ {m}) \cup P
      /\ UNCHANGED <<holds, row, ownerCache, fileCache>>
  BY DEF ProviderSends
<1>2. m \in PacketType /\ m.id \in Ids /\ r \in RequestType /\ PacketOK(m, r)
  BY Taken
<1>3. m.node \in Providers /\ r.phase # "searching"
  BY <1>1, <1>2 DEF PacketOK, OfSearch
<1>4. req' = [req EXCEPT ![m.id] = Handled(r, b)]
  BY DEF ProviderSends, Handled
<1>5. b \in BOOLEAN /\ (r.did => b)
  BY <1>2 DEF RequestType
<1>6. x \in PacketType /\ x.type = "content" /\ x.id = m.id
  <2>1. m.node \in Providers \cup Servers /\ None \in Providers \cup {None}
        /\ "content" \in {"search", "ask"} \cup Answer
    BY <1>3 DEF Answer
  <2> QED  BY <1>2, <2>1, PacketFacts
<1> HIDE DEF x
<1>7. P \in SUBSET PacketType /\ \A y \in P : y.id = m.id /\ y.type = "content" /\ b
  BY <1>6
<1> HIDE DEF P, b, stored
<1>8. holds' \subseteq Providers \X Files
      /\ row' \in [Servers \cup {Me} -> [Files -> Providers \cup {None}]]
  BY <1>1, StoredTypes
<1> QED  BY <1>1, <1>3, <1>4, <1>5, <1>7, <1>8, Acted

LEMMA ProviderStoresStep ==
  ASSUME IInv, NEW m \in net, ProviderStores(m)
  PROVE  IInv'
<1> DEFINE r == req[m.id]
           x == Packet("saved", m.id, m.node, None)
<1>1. /\ m.type = "ask" /\ r.kind = "upload" /\ UNCHANGED <<ownerCache, fileCache>>
  BY DEF ProviderStores
<1>2. m \in PacketType /\ m.id \in Ids /\ r \in RequestType /\ PacketOK(m, r)
  BY Taken
<1>3. m.node \in Providers /\ r.phase # "searching" /\ r.file \in Files
  BY <1>1, <1>2 DEF PacketOK, OfSearch, RequestType
<1>4. CASE /\ net' = (net \ {m}) \cup {x}
           /\ holds' = holds \cup {<<m.node, r.file>>}
           /\ row' = [row EXCEPT ![Me][r.file] = IF m.node = Me THEN Me ELSE @]
           /\ req' = [req EXCEPT ![m.id].did = TRUE]
  <2> DEFINE P == {x}
  <2>1. x \in PacketType /\ x.type = "saved" /\ x.id = m.id
    <3>1. m.node \in Providers \cup Servers /\ None \in Providers \cup {None}
          /\ "saved" \in {"search", "ask"} \cup Answer
      BY <1>3 DEF Answer
    <3> QED  BY <1>2, <3>1, PacketFacts
  <2>2. req' = [req EXCEPT ![m.id] = Handled(r, TRUE)]
    BY <1>4, Zenon DEF Handled
  <2> HIDE DEF x
  <2>3. /\ P \in SUBSET PacketType /\ net' = (net \ {m}) \cup P
        /\ \A y \in P : y.id = m.id /\ y.type = "saved"
    BY <1>4, <2>1
  <2>4. holds' \subseteq Providers \X Files
        /\ row' \in [Servers \cup {Me} -> [Files -> Providers \cup {None}]]
    <3>1. row[Me][r.file] \in Providers \cup {None} /\ Me \in Providers
      BY <1>3, HttpAssumption, StoredTypes DEF HttpAssumption
    <3> DEFINE known == IF m.node = Me THEN Me ELSE row[Me][r.file]
    <3>2. known \in Providers \cup {None}
      BY <3>1
    <3>3. row' = [row EXCEPT ![Me] = [row[Me] EXCEPT ![r.file] = known]]
      BY <1>4
    <3> HIDE DEF known
    <3>4. row' \in [Servers \cup {Me} -> [Files -> Providers \cup {None}]]
      BY <3>2, <3>3, StoredTypes
    <3> QED  BY <1>3, <1>4, <3>4, StoredTypes
  <2> HIDE DEF P
  <2> QED  BY <1>1, <1>3, <2>2, <2>3, <2>4, Acted
<1>5. CASE net' = net \ {m} /\ UNCHANGED <<req, holds, row>>
  <2> HIDE DEF r, x
  <2>1. /\ net' = (net \ {m}) \cup {} /\ {} \in SUBSET PacketType
        /\ UNCHANGED <<req, holds, row, ownerCache, fileCache>>
    BY <1>1, <1>5
  <2> QED  BY <2>1, StoredTypes, Untouched
<1> QED  BY <1>4, <1>5 DEF ProviderStores

LEMMA ProviderUpdatesStep ==
  ASSUME IInv, NEW m \in net, ProviderUpdates(m)
  PROVE  IInv'
<1> DEFINE r == req[m.id]
<1>1. /\ UNCHANGED <<ownerCache, fileCache>>
      /\ net' = (net \ {m}) \cup {} /\ {} \in SUBSET PacketType
  BY DEF ProviderUpdates
<1>2. m \in PacketType /\ m.id \in Ids /\ r \in RequestType /\ r.file \in Files
  BY Taken DEF RequestType
<1>3. CASE /\ holds' = holds \ {<<m.node, r.file>>}
           /\ row' = [row EXCEPT ![Me][r.file] = IF m.node = Me THEN None ELSE @]
           /\ req' = [req EXCEPT ![m.id].did = TRUE]
  <2>1. req' = [req EXCEPT ![m.id] = Handled(r, TRUE)]
    BY <1>3, Zenon DEF Handled
  <2>2. holds' \subseteq Providers \X Files
        /\ row' \in [Servers \cup {Me} -> [Files -> Providers \cup {None}]]
    <3>1. row[Me][r.file] \in Providers \cup {None}
      BY <1>2, StoredTypes
    <3> DEFINE known == IF m.node = Me THEN None ELSE row[Me][r.file]
    <3>2. known \in Providers \cup {None}
      BY <3>1
    <3>3. row' = [row EXCEPT ![Me] = [row[Me] EXCEPT ![r.file] = known]]
      BY <1>3
    <3> HIDE DEF known
    <3>4. row' \in [Servers \cup {Me} -> [Files -> Providers \cup {None}]]
      BY <3>2, <3>3, StoredTypes
    <3> QED  BY <1>3, <3>4, StoredTypes
  <2> QED  BY <1>1, <2>1, <2>2, Acted
<1>4. CASE UNCHANGED <<req, holds, row>>
  BY <1>1, <1>4, StoredTypes, Untouched
<1> QED  BY <1>3, <1>4 DEF ProviderUpdates

LEMMA ProviderIgnoresStep ==
  ASSUME IInv, NEW m \in net, ProviderIgnores(m)
  PROVE  IInv'
<1>1. /\ UNCHANGED <<req, holds, row, ownerCache, fileCache>>
      /\ net' = (net \ {m}) \cup {} /\ {} \in SUBSET PacketType
  BY DEF ProviderIgnores
<1> QED  BY <1>1, StoredTypes, Untouched

LEMMA ProviderExecutesStep ==
  ASSUME IInv, NEW m \in net, ProviderExecutes(m)
  PROVE  IInv'
<1> DEFINE r == req[m.id]
<1>1. /\ UNCHANGED <<holds, row, ownerCache, fileCache>>
      /\ net' = (net \ {m}) \cup {} /\ {} \in SUBSET PacketType
  BY DEF ProviderExecutes
<1>2. PICK ran \in BOOLEAN : req' = [req EXCEPT ![m.id].did = @ \/ ran]
  BY DEF ProviderExecutes
<1> DEFINE b == r.did \/ ran
<1>3. req' = [req EXCEPT ![m.id] = Handled(r, b)]
  BY <1>2, Zenon DEF Handled
<1>4. b \in BOOLEAN /\ (r.did => b)
  <2>1. r \in RequestType
    BY Taken
  <2> QED  BY <2>1 DEF RequestType
<1> HIDE DEF b
<1> QED  BY <1>1, <1>3, <1>4, StoredTypes, Acted

\* The request after its entry was taken out of the table in vain.
Dismissed(r) == [r EXCEPT !.pending = FALSE]

LEMMA Dismissing ==
  ASSUME NEW r \in RequestType
  PROVE  LET q == Dismissed(r)
         IN  /\ q \in RequestType /\ SameRequest(q, r)
             /\ q.phase = r.phase /\ q.reply = r.reply /\ q.late = r.late
             /\ ~q.pending /\ q.slot = r.slot
<1> DEFINE q == Dismissed(r)
<1>1. q \in HandlerType
  BY HandlerTypes, SetPending, Zenon DEF Dismissed
<1>2. /\ SameRequest(q, r) /\ q.phase = r.phase /\ q.reply = r.reply /\ q.late = r.late
      /\ ~q.pending /\ q.slot = r.slot
  BY DEF Dismissed, SameRequest, RequestType
<1> HIDE DEF q
<1>3. q \in RequestType
  BY <1>1, <1>2, HandlerTypes DEF RequestType
<1> QED  BY <1>2, <1>3 DEF q

\* A server that answers a search was not among those that had answered it, so
\* a second answer comes from a second server.
LEMMA SecondAnswer ==
  ASSUME NEW S, IsFiniteSet(S), NEW s, s \notin S, S # {}
  PROVE  Cardinality(S \cup {s}) > 1
<1>1. Cardinality(S) \in Nat /\ Cardinality(S) # 0
  BY FS_EmptySet, FS_CardinalityType
<1>2. Cardinality(S \cup {s}) = Cardinality(S) + 1
  BY FS_AddElement
<1> QED  BY <1>1, <1>2

LEMMA SetResponseStep ==
  ASSUME IInv, NEW m \in net, SetResponse(m)
  PROVE  IInv'
<1> DEFINE r == req[m.id]
           q == IF r.pending /\ r.phase # "replied" THEN Filled(r, m) ELSE Dismissed(r)
<1>1. /\ m.type \in Answer /\ req' = [req EXCEPT ![m.id] = q]
      /\ net' = (net \ {m}) \cup {} /\ {} \subseteq PacketType
      /\ UNCHANGED <<holds, row, ownerCache, fileCache>>
  BY DEF SetResponse, Filled, Dismissed
<1>2. /\ m \in PacketType /\ m.id \in Ids /\ r \in RequestType
      /\ RequestOK(r) /\ Backed(m.id, r) /\ PacketOK(m, r)
      /\ \A x \in net \ {m} : x.id = m.id => PacketOK(x, r)
      /\ \A x \in net \ {m} : OfSearch(x) /\ OfSearch(m) /\ x.id = m.id => x.node # m.node
  BY Taken
<1>3. \A a \in Front, f \in Files : Source(m.id, a, f) =>
        r.reply = 200 /\ r.did /\ r.kind = "get" /\ r.front = a /\ r.file = f
  BY DEF Source
<1> HIDE DEF r
<1>4. q.front = r.front /\ q.kind = r.kind /\ q.file = r.file /\ q.did = r.did /\ q.reply = r.reply
  BY <1>2, Completing, Dismissing DEF SameRequest
<1>5. Backed(m.id, q)
  BY <1>2, <1>4 DEF Backed
<1>6. RequestOK(q) /\ \A x \in net \ {m} : x.id = m.id => PacketOK(x, q)
  <2>1. CASE r.pending /\ r.phase # "replied"
    <3>1. /\ q \in RequestType
          /\ q.phase = r.phase /\ q.late = r.late /\ ~q.pending
          /\ q.slot = m /\ q.answers = r.answers \cup ({m.node} \cap Servers)
      BY <1>2, <2>1, Completing
    <3> HIDE DEF q
    <3>2. IsFiniteSet(q.answers)
      <4>1. CASE m.node \in Servers
        <5>1. q.answers = r.answers \cup {m.node}
          BY <3>1, <4>1
        <5> QED  BY <1>2, <5>1, FS_AddElement DEF RequestOK
      <4>2. CASE m.node \notin Servers
        <5>1. q.answers = r.answers
          BY <3>1, <4>2
        <5> QED  BY <1>2, <5>1 DEF RequestOK
      <4> QED  BY <4>1, <4>2
    <3>3. r.reply = 0 /\ r.phase \in {"searching", "waiting"}
      BY <1>2, <2>1 DEF RequestOK, RequestType
    <3>4. m.type = "found" => Searched(q) /\ m.node \in q.answers
      BY <1>2, <1>4, <3>1 DEF PacketOK, OfSearch, Searched
    <3>5. m.type = "found" /\ q.phase = "waiting" => AnsweredLate(q)
      <4> SUFFICES ASSUME m.type = "found", q.phase = "waiting" PROVE AnsweredLate(q)
        OBVIOUS
      <4>1. m.node \in Servers /\ m.node \notin r.answers /\ (r.late \/ r.answers # {})
        BY <1>2, <2>1, <3>1 DEF PacketOK, OfSearch
      <4>2. IsFiniteSet(r.answers) /\ q.answers = r.answers \cup {m.node}
        BY <1>2, <3>1, <4>1 DEF RequestOK
      <4>3. r.answers # {} => Cardinality(r.answers \cup {m.node}) > 1
        BY <4>1, <4>2, SecondAnswer
      <4> QED  BY <3>1, <4>1, <4>2, <4>3 DEF AnsweredLate
    <3>6. SlotOK(q)
      <4>1. m.type = "content" => r.did /\ r.kind \in {"get", "packet"}
        BY <1>2 DEF PacketOK
      <4>2. m.type = "saved" => r.did /\ r.kind = "upload"
        BY <1>2 DEF PacketOK
      <4>3. r.phase = "searching" => m.type = "found"
        BY <1>1, <1>2 DEF PacketOK, OfSearch, Answer
      <4> QED  BY <1>1, <1>4, <3>1, <3>3, <3>4, <3>5, <4>1, <4>2, <4>3 DEF SlotOK
    <3>7. RequestOK(q)
      BY <1>2, <1>4, <2>1, <3>1, <3>2, <3>3, <3>6 DEF RequestOK
    <3>8. ASSUME NEW x \in net \ {m}, x.id = m.id PROVE PacketOK(x, q)
      <4>1. PacketOK(x, r)
        BY <1>2, <3>8
      <4>2. OfSearch(x) /\ q.phase = "searching" => x.node \notin q.answers
        BY <1>2, <3>1, <3>8, <4>1 DEF PacketOK
      <4>3. OfSearch(x) /\ q.phase = "waiting" => (q.late \/ q.answers # {})
        BY <3>1, <4>1 DEF PacketOK
      <4> QED  BY <1>4, <3>1, <4>1, <4>2, <4>3 DEF PacketOK, Searched
    <3> QED  BY <3>7, <3>8
  <2>2. CASE ~(r.pending /\ r.phase # "replied")
    <3>1. /\ q \in RequestType /\ SameRequest(q, r)
          /\ q.phase = r.phase /\ q.reply = r.reply /\ q.late = r.late
          /\ ~q.pending /\ q.slot = r.slot
      BY <1>2, <2>2, Dismissing
    <3> HIDE DEF q
    <3>2. q.slot # None => SlotOK(q)
      BY <1>2, <3>1 DEF RequestOK, SlotOK, SameRequest, Searched, AnsweredLate
    <3>3. RequestOK(q)
      BY <1>2, <3>1, <3>2 DEF RequestOK, SameRequest, AnsweredLate
    <3>4. \A x \in net \ {m} : x.id = m.id => PacketOK(x, q)
      BY <1>2, <3>1 DEF PacketOK, SameRequest, Searched
    <3> QED  BY <3>3, <3>4
  <2> QED  BY <2>1, <2>2
<1> HIDE DEF q
<1>7. \A a \in Front, f \in Files : Source(m.id, a, f) =>
        q.reply = 200 /\ q.did /\ q.kind = "get" /\ q.front = a /\ q.file = f
  BY <1>3, <1>4
<1>8. holds' \subseteq Providers \X Files
      /\ row' \in [Servers \cup {Me} -> [Files -> Providers \cup {None}]]
  BY <1>1, StoredTypes
<1>9. Takes(m, q, {})
  BY <1>1, <1>5, <1>6, <1>7, <1>8 DEF Takes
<1> QED  BY <1>9, TakeStep

LEMMA DeliverSteps ==
  ASSUME IInv, NEW m \in net, Deliver(m)
  PROVE  IInv'
BY ServerAnswersSearchStep, ProviderSendsStep, ProviderStoresStep, ProviderUpdatesStep,
   ProviderIgnoresStep, ProviderExecutesStep, SetResponseStep DEF Deliver

-----------------------------------------------------------------------------
(* The handlers, after a wait *)

LEMMA SetLate ==
  ASSUME NEW r \in HandlerType, NEW b \in BOOLEAN
  PROVE  LET n == [r EXCEPT !.late = b]
         IN  n \in HandlerType /\ SameRequest(n, r) /\ n.reply = r.reply /\ n.late = b
<1> DEFINE n == [r EXCEPT !.late = b]
<1>1. n \in HandlerType
  BY DEF HandlerType
<1>2. SameRequest(n, r) /\ n.reply = r.reply /\ n.late = b
  BY DEF HandlerType, SameRequest
<1> QED  BY <1>1, <1>2

\* What holds of a handler that waits.
LEMMA Waits ==
  ASSUME IInv, NEW i \in Ids, req[i] # None
  PROVE  /\ req[i] \in RequestType /\ RequestOK(req[i]) /\ Backed(i, req[i])
         /\ net \subseteq PacketType /\ \A x \in net : x.id \in Ids
         /\ \A x \in net : x.id = i => PacketOK(x, req[i])
         /\ \A x, y \in net :
              OfSearch(x) /\ OfSearch(y) /\ x.id = y.id /\ x.node = y.node => x = y
         /\ ownerCache \in [Front -> [Files -> Providers \cup {None}]]
         /\ fileCache \in [Front -> [Files -> {"none", "fresh", "expired", "jammed"}]]
<1>1. RequestOK(req[i]) /\ Backed(i, req[i])
  BY DEF IInv
<1>2. net \subseteq PacketType /\ \A x \in net : x.id \in Ids
  BY DEF IInv, TypeOK, PacketType
<1>3. \A x \in net : x.id = i => PacketOK(x, req[i])
  BY DEF IInv
<1>4. \A x, y \in net :
        OfSearch(x) /\ OfSearch(y) /\ x.id = y.id /\ x.node = y.node => x = y
  BY DEF IInv, OncePerServer
<1>5. /\ ownerCache \in [Front -> [Files -> Providers \cup {None}]]
      /\ fileCache \in [Front -> [Files -> {"none", "fresh", "expired", "jammed"}]]
  BY DEF IInv, TypeOK
<1> QED  BY <1>1, <1>2, <1>3, <1>4, <1>5 DEF RequestOK

LEMMA SearchEndsStep ==
  ASSUME IInv, NEW i \in Ids, SearchEnds(i)
  PROVE  IInv'
<1> DEFINE r     == req[i]
           owner == IF r.slot = None THEN None ELSE r.slot.owner
           b     == r.slot = None
           n     == [r EXCEPT !.late = b]
           q     == Awaiting(n)
<1>1. /\ r # None /\ r.phase = "searching" /\ Ask(i, n, owner)
      /\ ownerCache' = [ownerCache EXCEPT ![r.front][r.file] = IF owner = None THEN @ ELSE owner]
      /\ UNCHANGED <<holds, row, fileCache>>
  BY DEF SearchEnds
<1>2. /\ r \in RequestType /\ RequestOK(r)
      /\ net \subseteq PacketType /\ \A x \in net : x.id = i => PacketOK(x, r)
      /\ \A x, y \in net :
           OfSearch(x) /\ OfSearch(y) /\ x.id = y.id /\ x.node = y.node => x = y
      /\ ownerCache \in [Front -> [Files -> Providers \cup {None}]]
      /\ fileCache \in [Front -> [Files -> {"none", "fresh", "expired", "jammed"}]]
  BY <1>1, Waits
<1>3. ~Source(i, r.front, r.file) /\ \A a \in Front, f \in Files : ~Source(i, a, f)
  BY <1>1, <1>2 DEF RequestOK, Source
<1> HIDE DEF r
<1>4. /\ owner \in Providers \cup {None} /\ b \in BOOLEAN /\ r \in HandlerType
      /\ r.front \in Front /\ r.file \in Files
  BY <1>2, HandlerTypes DEF RequestType, PacketType
<1>5. ownerCache' \in [Front -> [Files -> Providers \cup {None}]]
  <2> DEFINE known == IF owner = None THEN ownerCache[r.front][r.file] ELSE owner
  <2>1. known \in Providers \cup {None}
    BY <1>2, <1>4
  <2>2. ownerCache' =
          [ownerCache EXCEPT ![r.front] = [ownerCache[r.front] EXCEPT ![r.file] = known]]
    BY <1>1
  <2> HIDE DEF known
  <2> QED  BY <1>2, <1>4, <2>1, <2>2
<1> HIDE DEF owner
<1>6. n \in HandlerType /\ SameRequest(n, r) /\ n.reply = r.reply /\ n.late = b
  BY <1>4, SetLate
<1> HIDE DEF n
<1>7. /\ q \in RequestType /\ SameRequest(q, n) /\ q.reply = n.reply /\ q.late = n.late
      /\ q.phase = "waiting" /\ q.pending /\ q.slot = None
  BY <1>6, Waiting
<1>8. PICK P \in SUBSET PacketType :
        /\ req' = [req EXCEPT ![i] = q] /\ net' = net \cup P
        /\ \A m \in P : m.id = i /\ m.type = "ask" /\ m.node \in Providers
  <2>1. n \in HandlerType /\ owner \in Providers \cup {None} /\ Ask(i, n, owner)
    BY <1>1, <1>4, <1>6
  <2> QED  BY <2>1, AskFacts, Zenon
<1> HIDE DEF q
<1>9. /\ SameRequest(q, r) /\ q.reply = 0
      /\ q.late \/ q.answers # {}
  BY <1>1, <1>2, <1>6, <1>7 DEF SameRequest, RequestOK, SlotOK
<1>10. RequestOK(q) /\ Backed(i, q)
  BY <1>2, <1>7, <1>9 DEF RequestOK, SameRequest, Backed
<1>11. \A x \in net : x.id = i => PacketOK(x, q)
  BY <1>1, <1>2, <1>7, <1>9 DEF PacketOK, SameRequest, Searched
<1>12. \A x \in P : x.id = i /\ PacketOK(x, q) /\ ~OfSearch(x)
  BY <1>7, <1>8 DEF PacketOK, OfSearch
<1>13. /\ net' \subseteq PacketType
       /\ \A x \in net' : (x.id = i /\ PacketOK(x, q)) \/ (x.id # i /\ x \in net)
       /\ \A x, y \in net' :
            OfSearch(x) /\ OfSearch(y) /\ x.id = i /\ y.id = i /\ x.node = y.node => x = y
  BY <1>2, <1>8, <1>11, <1>12
<1>14. Continues(i, q)
  BY <1>1, <1>2, <1>3, <1>5, <1>8, <1>10, <1>13, StoredTypes DEF Continues
<1> QED  BY <1>7, <1>14, OneRequest

\* The step ends the wait of request i as q.
EndsAs(i, q) ==
  /\ req[i] # None /\ req[i].phase = "waiting"
  /\ req' = [req EXCEPT ![i] = q]
  /\ SameRequest(q, req[i]) /\ q.pending = req[i].pending
  /\ q.phase \in {"replied", "stuck"}
  /\ RequestOK(q) /\ Backed(i, q)
  /\ fileCache' \in {fileCache, Cached(req[i])}
  /\ fileCache' # fileCache => q.reply = 200 /\ q.did /\ q.kind = "get"
  /\ UNCHANGED <<net, holds, row, ownerCache>>

LEMMA EndStep ==
  ASSUME IInv, NEW i \in Ids, NEW q, EndsAs(i, q)
  PROVE  IInv'
<1> DEFINE r == req[i]
<1> USE DEF EndsAs
<1>1. r # None /\ r.phase = "waiting"
  OBVIOUS
<1>2. /\ r \in RequestType /\ RequestOK(r)
      /\ net \subseteq PacketType /\ \A x \in net : x.id = i => PacketOK(x, r)
      /\ \A x, y \in net :
           OfSearch(x) /\ OfSearch(y) /\ x.id = y.id /\ x.node = y.node => x = y
      /\ ownerCache \in [Front -> [Files -> Providers \cup {None}]]
      /\ fileCache \in [Front -> [Files -> {"none", "fresh", "expired", "jammed"}]]
  BY <1>1, Waits
<1>3. \A a \in Front, f \in Files : ~Source(i, a, f)
  BY <1>1, <1>2 DEF RequestOK, Source
<1>4. \A x \in net : x.id = i => PacketOK(x, q)
  BY <1>1, <1>2 DEF PacketOK, SameRequest, Searched
<1>5. q.front = r.front /\ q.file = r.file /\ r.front \in Front /\ r.file \in Files
  BY <1>2 DEF SameRequest, RequestType
<1>6. /\ fileCache' \in [Front -> [Files -> {"none", "fresh", "expired", "jammed"}]]
      /\ \A a \in Front, f \in Files :
           fileCache'[a][f] = "fresh" =>
             \/ fileCache[a][f] = "fresh"
             \/ q.reply = 200 /\ q.did /\ q.kind = "get" /\ q.front = a /\ q.file = f
  <2>1. CASE fileCache' = fileCache
    BY <1>2, <2>1
  <2>2. CASE fileCache' # fileCache
    <3>1. fileCache' = [fileCache EXCEPT ![r.front] = [fileCache[r.front] EXCEPT ![r.file] = "fresh"]]
      BY <2>2 DEF Cached
    <3>2. q.reply = 200 /\ q.did /\ q.kind = "get"
      BY <2>2
    <3> HIDE DEF r, EndsAs
    <3> QED  BY <1>2, <1>5, <3>1, <3>2
  <2> QED  BY <2>1, <2>2
<1>7. Continues(i, q)
  BY <1>2, <1>3, <1>4, <1>6, StoredTypes DEF Continues
<1> QED  BY <1>7, OneRequest

LEMMA WaitEndsStep ==
  ASSUME IInv, NEW i \in Ids, WaitEnds(i)
  PROVE  IInv'
<1> DEFINE r == req[i]
           d(status) == Done(r, status)
           full == r.slot # None /\ r.kind = "get" /\ r.slot.type = "content"
<1>1. r # None /\ r.phase = "waiting" /\ UNCHANGED <<net, holds, row, ownerCache>>
  BY DEF WaitEnds
<1>2. r \in RequestType /\ r \in HandlerType /\ RequestOK(r)
  BY <1>1, Waits, HandlerTypes
<1>3. \/ r.slot = None /\ req' = [req EXCEPT ![i] = d(504)] /\ UNCHANGED fileCache
      \/ /\ r.slot # None /\ r.kind # "get"
         /\ req' = [req EXCEPT ![i] = d(200)] /\ UNCHANGED fileCache
      \/ /\ r.slot # None /\ r.kind = "get" /\ r.slot.type # "content"
         /\ req' = [req EXCEPT ![i] = d(500)] /\ UNCHANGED fileCache
      \/ full /\ req' = [req EXCEPT ![i].phase = "stuck", ![i].slot = None] /\ UNCHANGED fileCache
      \/ full /\ req' = [req EXCEPT ![i] = d(200)] /\ fileCache' = Cached(r)
  BY DEF WaitEnds, Reply, Done
<1>4. \A status \in {200, 404, 500, 504} :
        LET q == d(status)
        IN  /\ q \in RequestType /\ SameRequest(q, r) /\ q.reply = status /\ q.late = r.late
            /\ q.phase = "replied" /\ q.pending = r.pending /\ q.slot = None
  BY <1>2, Replying
<1>5. r.slot # None =>
        /\ ~r.pending
        /\ r.slot.type \in Answer
        /\ r.slot.type = "content" => r.did /\ r.kind \in {"get", "packet"}
        /\ r.slot.type = "saved" => r.did /\ r.kind = "upload"
        /\ r.slot.type = "found" => r.kind = "get" /\ r.front = "peer" /\ AnsweredLate(r)
  BY <1>1, <1>2 DEF RequestOK, SlotOK, Searched
<1> HIDE DEF d
<1>6. ASSUME NEW status \in {200, 500, 504}, req' = [req EXCEPT ![i] = d(status)],
             r.pending => status = 504,
             status = 200 => r.did /\ r.kind \in {"get", "packet", "upload"},
             status = 500 => r.front = "peer" /\ AnsweredLate(r),
             \/ UNCHANGED fileCache
             \/ status = 200 /\ r.kind = "get" /\ fileCache' = Cached(r)
      PROVE  IInv'
  <2> DEFINE q == d(status)
  <2>1. /\ q \in RequestType /\ SameRequest(q, r) /\ q.reply = status /\ q.late = r.late
        /\ q.phase = "replied" /\ q.pending = r.pending /\ q.slot = None
    BY <1>4
  <2> HIDE DEF q
  <2>2. RequestOK(q) /\ Backed(i, q)
    BY <1>2, <1>6, <2>1 DEF RequestOK, SameRequest, Backed, AnsweredLate
  <2>3. EndsAs(i, q)
    BY <1>1, <1>6, <2>1, <2>2 DEF EndsAs, SameRequest, q
  <2> QED  BY <2>3, EndStep
<1>7. CASE full /\ req' = [req EXCEPT ![i].phase = "stuck", ![i].slot = None] /\ UNCHANGED fileCache
  <2> DEFINE q1 == [r EXCEPT !.phase = "stuck"]
             q  == [q1 EXCEPT !.slot = None]
  <2>1. q1 \in RequestType
    BY <1>2 DEF RequestType
  <2>2. req' = [req EXCEPT ![i] = q]
    BY <1>7
  <2>3. /\ SameRequest(q, r) /\ q.phase = "stuck" /\ q.slot = None
        /\ q.pending = r.pending /\ q.reply = r.reply
    BY <1>2 DEF RequestType, SameRequest
  <2> HIDE DEF q1
  <2>4. q \in RequestType
    BY <2>1 DEF RequestType
  <2> HIDE DEF q
  <2>5. r.reply = 0 /\ ~r.pending
    BY <1>1, <1>2, <1>5, <1>7 DEF RequestOK
  <2>6. RequestOK(q) /\ Backed(i, q)
    BY <1>2, <2>3, <2>4, <2>5 DEF RequestOK, SameRequest, Backed
  <2>7. EndsAs(i, q)
    BY <1>1, <1>7, <2>2, <2>3, <2>6 DEF EndsAs
  <2> QED  BY <2>7, EndStep
<1> QED  BY <1>3, <1>5, <1>6, <1>7 DEF Answer

LEMMA ContinueSteps ==
  ASSUME IInv, NEW i \in Ids, Continue(i)
  PROVE  IInv'
BY SearchEndsStep, WaitEndsStep DEF Continue

-----------------------------------------------------------------------------
(* The providers' files, and the invariant *)

\* Nothing but contents that were sent makes an entry of a file cache fresh.
LEMMA StoredStep ==
  ASSUME IInv,
         UNCHANGED <<req, net, ownerCache>>,
         holds' \subseteq Providers \X Files,
         row' \in [Servers \cup {Me} -> [Files -> Providers \cup {None}]],
         fileCache' \in [Front -> [Files -> {"none", "fresh", "expired", "jammed"}]],
         \A a \in Front, f \in Files : fileCache'[a][f] = "fresh" => fileCache[a][f] = "fresh"
  PROVE  IInv'
<1>1. TypeOK'
  BY DEF IInv, TypeOK
<1>2. \A i \in Ids : req'[i] # None => RequestOK(req'[i]) /\ Backed(i, req[i])'
  BY DEF IInv, Backed, Source
<1>3. \A m \in net' : PacketOK(m, req'[m.id])
  BY DEF IInv
<1>4. OncePerServer'
  BY DEF IInv, OncePerServer
<1>5. CacheOK'
  BY DEF IInv, CacheOK, Source
<1> QED  BY <1>1, <1>2, <1>3, <1>4, <1>5 DEF IInv

\* A row of the table of a server or of Me is overwritten.
LEMMA RowTypes ==
  ASSUME IInv, NEW n \in Servers \cup {Me}, NEW f \in Files, NEW known \in Providers \cup {None},
         row' = [row EXCEPT ![n][f] = known]
  PROVE  row' \in [Servers \cup {Me} -> [Files -> Providers \cup {None}]]
<1>1. row' = [row EXCEPT ![n] = [row[n] EXCEPT ![f] = known]]
  OBVIOUS
<1> QED  BY <1>1, StoredTypes

LEMMA StorageSteps ==
  ASSUME IInv, Storage
  PROVE  IInv'
<1>1. /\ Me \in Providers
      /\ \A f \in Files, n \in Servers \cup {Me} : row[n][f] \in Providers \cup {None}
      /\ fileCache \in [Front -> [Files -> {"none", "fresh", "expired", "jammed"}]]
  BY HttpAssumption, StoredTypes DEF HttpAssumption, IInv, TypeOK
<1>2. ASSUME NEW f \in Files, NEW p \in Providers, Put(p, f) PROVE IInv'
  <2>1. PICK known \in Providers \cup {None} : row' = [row EXCEPT ![Me][f] = known]
    BY <1>1, <1>2 DEF Put
  <2>2. row' \in [Servers \cup {Me} -> [Files -> Providers \cup {None}]]
    BY <2>1, RowTypes
  <2>3. holds' \subseteq Providers \X Files /\ UNCHANGED <<req, net, ownerCache, fileCache>>
    BY <1>2, StoredTypes DEF Put
  <2> QED  BY <1>1, <2>2, <2>3, StoredStep
<1>3. ASSUME NEW f \in Files, NEW p \in Providers, Drop(p, f) PROVE IInv'
  <2>1. PICK known \in Providers \cup {None} : row' = [row EXCEPT ![Me][f] = known]
    BY <1>1, <1>3 DEF Drop
  <2>2. row' \in [Servers \cup {Me} -> [Files -> Providers \cup {None}]]
    BY <2>1, RowTypes
  <2>3. holds' \subseteq Providers \X Files /\ UNCHANGED <<req, net, ownerCache, fileCache>>
    BY <1>3, StoredTypes DEF Drop
  <2> QED  BY <1>1, <2>2, <2>3, StoredStep
<1>4. ASSUME NEW f \in Files, NEW p \in Providers, NEW s \in Servers, Sync(s, p, f) PROVE IInv'
  <2>1. PICK known \in Providers \cup {None} : row' = [row EXCEPT ![s][f] = known]
    BY <1>1, <1>4 DEF Sync
  <2>2. row' \in [Servers \cup {Me} -> [Files -> Providers \cup {None}]]
    BY <2>1, RowTypes
  <2>3. holds' \subseteq Providers \X Files /\ UNCHANGED <<req, net, ownerCache, fileCache>>
    BY <1>4, StoredTypes DEF Sync
  <2> QED  BY <1>1, <2>2, <2>3, StoredStep
<1>5. ASSUME NEW f \in Files, NEW a \in Front, Expire(a, f) PROVE IInv'
  <2> DEFINE entry == IF a = "api" THEN "expired" ELSE "none"
  <2>1. /\ fileCache' = [fileCache EXCEPT ![a] = [fileCache[a] EXCEPT ![f] = entry]]
        /\ entry \in {"none", "expired"} /\ UNCHANGED <<req, net, holds, row, ownerCache>>
    BY <1>5 DEF Expire
  <2> HIDE DEF entry
  <2>2. /\ fileCache' \in [Front -> [Files -> {"none", "fresh", "expired", "jammed"}]]
        /\ \A c \in Front, g \in Files : fileCache'[c][g] = "fresh" => fileCache[c][g] = "fresh"
    BY <1>1, <2>1
  <2> QED  BY <2>1, <2>2, StoredStep, StoredTypes
<1> QED  BY <1>2, <1>3, <1>4, <1>5 DEF Storage

LEMMA NextIInv == IInv /\ [Next]_vars => IInv'
<1> SUFFICES ASSUME IInv, [Next]_vars PROVE IInv'
  OBVIOUS
<1>1. ASSUME NEW i \in Ids, Start(i) \/ Continue(i) PROVE IInv'
  BY <1>1, StartSteps, ContinueSteps
<1>2. ASSUME NEW m \in net, Deliver(m) PROVE IInv'
  BY <1>2, DeliverSteps
<1>3. CASE Storage
  BY <1>3, StorageSteps
<1>4. CASE UNCHANGED vars
  <2>1. fileCache' \in [Front -> [Files -> {"none", "fresh", "expired", "jammed"}]]
    BY <1>4 DEF IInv, TypeOK, vars
  <2> QED  BY <1>4, <2>1, StoredTypes, StoredStep DEF vars
<1> QED  BY <1>1, <1>2, <1>3, <1>4 DEF Next

-----------------------------------------------------------------------------
\* The invariant holds in every reachable state: which answers can still arrive
\* under the uuid of a request, and what the cached files come from.
THEOREM Invariance == Spec => []IInv
BY InitIInv, NextIInv, PTL DEF Spec

\* Every variable keeps its type, a packet belongs to a request that was made,
\* and a wait is completed only by taking its entry out of pending_responses.
THEOREM TypeCorrect == Spec => []TypeOK
<1>1. IInv => TypeOK
  BY DEF IInv
<1> QED  BY <1>1, Invariance, PTL

\* A front end reports success only when a provider stored the upload or sent the
\* contents, for this request or for the one its cached file comes from.
THEOREM SuccessTruthful == Spec => []Truthful
<1>1. IInv => Truthful
  <2> SUFFICES ASSUME IInv, NEW i \in Ids, Served(i), ~req[i].did
               PROVE  /\ req[i].kind = "get"
                      /\ \E j \in Ids \ {i} :
                           Served(j) /\ req[j].did /\ req[j].kind = "get"
                             /\ req[j].front = req[i].front /\ req[j].file = req[i].file
    BY DEF Truthful
  <2>1. Backed(i, req[i]) /\ req[i].reply = 200
    BY DEF IInv, Served
  <2>2. req[i].kind = "get" /\ \E j \in Ids \ {i} : Source(j, req[i].front, req[i].file)
    BY <2>1 DEF Backed
  <2> QED  BY <2>2 DEF Source, Served
<1> QED  BY <1>1, Invariance, PTL

\* An entry of pending_responses outlives its request only after a timeout.
THEOREM LeaksAreTimeouts == Spec => []OnlyTimeoutsLeak
<1>1. IInv => OnlyTimeoutsLeak
  BY DEF IInv, RequestOK, OnlyTimeoutsLeak
<1> QED  BY <1>1, Invariance, PTL

\* The proxy answers "Invalid packet data" only when an answer to a search came
\* after the handler stopped waiting for it, however many servers it asked.
THEOREM InvalidLate == Spec => []InvalidNeedsLateAnswer
<1>1. IInv => InvalidNeedsLateAnswer
  BY DEF IInv, RequestOK, AnsweredLate, InvalidNeedsLateAnswer
<1> QED  BY <1>1, Invariance, PTL

-----------------------------------------------------------------------------
(* The requests as their callers see them *)

Unseen == UNCHANGED <<Calls, Effective, holds>>

SameCall(q, r) == q.front = r.front /\ q.kind = r.kind /\ q.file = r.file /\ q.did = r.did

LEMMA SeenType ==
  ASSUME NEW r \in RequestType
  PROVE  /\ Seen(r) \in CallType /\ Seen(r) # None
         /\ Seen(r).front = r.front /\ Seen(r).kind = r.kind /\ Seen(r).file = r.file
         /\ Seen(r).reply = "open" <=> r.reply = 0
         /\ Seen(r).reply = "success" <=> r.reply = 200
<1>1. Seen(r) \in CallType
  BY DEF Seen, CallType, RequestType
<1> QED  BY <1>1, HttpAssumption DEF Seen, HttpAssumption

LEMMA CallFacts ==
  ASSUME IInv, NEW i \in Ids
  PROVE  /\ Calls[i] = IF req[i] = None THEN None ELSE Seen(req[i])
         /\ i \in Effective <=> req[i] # None /\ req[i].did
         /\ req[i] # None => req[i] \in RequestType /\ Calls[i] # None
<1>1. req[i] # None => req[i] \in RequestType
  BY DEF IInv, RequestOK
<1> QED  BY <1>1, SeenType DEF Calls, Effective

\* A step that changes request i changes what is seen of it alone.
LEMMA CallsAfter ==
  ASSUME IInv, NEW i \in Ids, NEW r \in RequestType, req' = [req EXCEPT ![i] = r]
  PROVE  /\ Calls' = [Calls EXCEPT ![i] = Seen(r)]
         /\ Effective' = IF r.did THEN Effective \cup {i} ELSE Effective \ {i}
<1>1. req'[i] = r /\ r # None /\ \A j \in Ids \ {i} : req'[j] = req[j]
  BY HttpAssumption DEF HttpAssumption, IInv, TypeOK
<1>2. Calls' = [Calls EXCEPT ![i] = Seen(r)]
  <2>1. Calls' = [j \in Ids |-> IF req'[j] = None THEN None ELSE Seen(req'[j])]
    BY DEF Calls, Seen
  <2>2. \A j \in Ids : (IF req'[j] = None THEN None ELSE Seen(req'[j]))
                         = IF j = i THEN Seen(r) ELSE Calls[j]
    <3> TAKE j \in Ids
    <3>1. CASE j = i
      BY <1>1, <3>1
    <3>2. CASE j # i
      BY <1>1, <3>2 DEF Calls
    <3> QED  BY <3>1, <3>2
  <2>3. Calls' = [j \in Ids |-> IF j = i THEN Seen(r) ELSE Calls[j]]
    BY <2>1, <2>2
  <2>4. Calls = [j \in Ids |-> Calls[j]]
    BY DEF Calls
  <2> QED  BY <2>3, <2>4
<1>3. Effective' = IF r.did THEN Effective \cup {i} ELSE Effective \ {i}
  BY <1>1 DEF Effective
<1> QED  BY <1>2, <1>3

LEMMA SourceFetched ==
  ASSUME IInv, NEW j \in Ids, NEW a \in Front, NEW f \in Files, Source(j, a, f)
  PROVE  Gate!Fetched(a, f)
<1>1. /\ req[j] # None /\ req[j].reply = 200 /\ req[j].did
      /\ req[j].kind = "get" /\ req[j].front = a /\ req[j].file = f
  BY DEF Source
<1>2. j \in Effective /\ Calls[j] = Seen(req[j])
  BY <1>1, CallFacts
<1>3. Seen(req[j]) = Gate!Call(a, "get", f, "success")
  BY <1>1 DEF Seen, Gate!Call
<1> QED  BY <1>2, <1>3 DEF Gate!Fetched

-----------------------------------------------------------------------------
(* The operations of Gateway *)

LEMMA Makes ==
  ASSUME IInv, NEW i \in Ids, req[i] = None, NEW r \in RequestType, req' = [req EXCEPT ![i] = r],
         r.reply = 0, ~r.did, UNCHANGED holds
  PROVE  Gate!Next
<1>1. Calls[i] = None /\ i \notin Effective
  BY CallFacts
<1>2. Calls' = [Calls EXCEPT ![i] = Seen(r)] /\ Effective' = Effective
  <2>1. Effective \ {i} = Effective
    BY <1>1
  <2> QED  BY <2>1, CallsAfter
<1>3. Seen(r) = Gate!Call(r.front, r.kind, r.file, "open")
  BY DEF Seen, Gate!Call
<1>4. Gate!Make(i, r.front, r.kind, r.file)
  BY <1>1, <1>2, <1>3 DEF Gate!Make
<1>5. r.front \in Front /\ r.file \in Files /\ r.kind \in Gate!Kinds
  BY DEF RequestType, Kind, Gate!Kinds, Gate!Reported
<1> QED  BY <1>4, <1>5 DEF Gate!Next

LEMMA GetsAtOnce ==
  ASSUME IInv, NEW i \in Ids, req[i] = None, NEW r \in RequestType, req' = [req EXCEPT ![i] = r],
         r.kind = "get", r.reply # 0, UNCHANGED holds,
         r.did => Gate!Held(r.file),
         r.reply = 200 => r.did \/ Gate!Fetched(r.front, r.file)
  PROVE  Gate!Next
<1> DEFINE reply == Seen(r).reply
<1>1. Calls[i] = None /\ i \notin Effective
  BY CallFacts
<1>2. /\ Calls' = [Calls EXCEPT ![i] = Seen(r)]
      /\ Effective' = IF r.did THEN Effective \cup {i} ELSE Effective
  BY <1>1, CallsAfter
<1>3. Seen(r) = Gate!Call(r.front, "get", r.file, reply)
  BY DEF Seen, Gate!Call
<1>4. reply \in {"success", "failure"} /\ (reply = "success" <=> r.reply = 200)
  BY SeenType DEF CallType
<1> HIDE DEF reply
<1>5. Gate!Get(i, r.front, r.file, reply)
  BY <1>1, <1>2, <1>3, <1>4 DEF Gate!Get
<1>6. r.front \in Front /\ r.file \in Files
  BY DEF RequestType
<1> QED  BY <1>4, <1>5, <1>6 DEF Gate!Next

\* A handler that goes on is not seen, or answers its caller, once.
LEMMA GoesOn ==
  ASSUME IInv, IInv', NEW i \in Ids, req[i] # None, NEW r \in RequestType,
         req' = [req EXCEPT ![i] = r],
         SameCall(r, req[i]), req[i].reply \in {0, r.reply}, UNCHANGED holds
  PROVE  Gate!Next \/ Unseen
<1> DEFINE o     == req[i]
           reply == Seen(r).reply
<1>1. /\ o \in RequestType /\ Calls[i] = Seen(o) /\ Calls[i] # None
      /\ i \in Effective <=> o.did
  BY CallFacts
<1>2. Calls' = [Calls EXCEPT ![i] = Seen(r)] /\ Effective' = Effective
  <2>1. Effective = IF o.did THEN Effective \cup {i} ELSE Effective \ {i}
    BY <1>1
  <2> QED  BY <2>1, CallsAfter DEF SameCall
<1>3. CASE r.reply = o.reply
  <2>1. Seen(r) = Seen(o)
    BY <1>3 DEF Seen, SameCall
  <2>2. Calls' = Calls
    BY <1>1, <1>2, <2>1 DEF Calls
  <2> QED  BY <1>2, <2>2 DEF Unseen
<1>4. CASE r.reply # o.reply
  <2>1. o.reply = 0 /\ r.reply # 0
    BY <1>4
  <2>2. Calls[i].reply = "open" /\ reply \in {"success", "failure"}
        /\ (reply = "success" <=> r.reply = 200)
        /\ Calls[i].kind = r.kind /\ Calls[i].front = r.front /\ Calls[i].file = r.file
    BY <1>1, <2>1, SeenType DEF CallType, SameCall
  <2>3. Seen(r) = [Calls[i] EXCEPT !.reply = reply]
    BY <1>1 DEF Seen, SameCall
  <2>4. ASSUME r.reply = 200
        PROVE  /\ r.kind \in Gate!Reported
               /\ i \in Effective \/ (r.kind = "get" /\ Gate!Fetched(r.front, r.file))
    <3>1. req'[i] = r /\ r # None /\ \A j \in Ids \ {i} : req'[j] = req[j]
      BY HttpAssumption DEF HttpAssumption, IInv, TypeOK
    <3>2. RequestOK(r) /\ Backed(i, r)'
      BY <3>1 DEF IInv, RequestOK, SlotOK, Searched, AnsweredLate
    <3>3. r.kind \in Gate!Reported
      BY <2>4, <3>2 DEF RequestOK, Gate!Reported
    <3>4. CASE r.did
      BY <1>1, <3>3, <3>4 DEF SameCall
    <3>5. CASE r.kind = "get" /\ \E j \in Ids \ {i} : Source(j, r.front, r.file)'
      <4>1. PICK j \in Ids \ {i} : Source(j, r.front, r.file)
        BY <3>1, <3>5 DEF Source
      <4>2. r.front \in Front /\ r.file \in Files
        BY DEF RequestType
      <4> QED  BY <3>3, <3>5, <4>1, <4>2, SourceFetched
    <3> QED  BY <2>4, <3>2, <3>4, <3>5 DEF Backed
  <2> HIDE DEF reply
  <2>5. Calls' = [Calls EXCEPT ![i].reply = reply]
    BY <1>2, <2>3
  <2>6. Gate!Answer(i, reply)
    BY <1>1, <1>2, <2>2, <2>4, <2>5 DEF Gate!Answer
  <2> QED  BY <2>2, <2>6 DEF Gate!Next
<1> QED  BY <1>3, <1>4

\* Provider p does what the request asks for.
LEMMA TakesEffect ==
  ASSUME IInv, NEW i \in Ids, req[i] # None, NEW p \in Providers,
         req' = [req EXCEPT ![i] = Handled(req[i], TRUE)],
         \/ /\ req[i].kind \in {"get", "packet", "contract"}
            /\ <<p, req[i].file>> \in holds /\ UNCHANGED holds
         \/ req[i].kind = "upload" /\ holds' = holds \cup {<<p, req[i].file>>}
         \/ /\ req[i].kind = "update" /\ <<p, req[i].file>> \in holds
            /\ holds' = holds \ {<<p, req[i].file>>}
  PROVE  Gate!Next
<1> DEFINE r == req[i]
           q == Handled(r, TRUE)
<1>1. r \in RequestType /\ RequestOK(r) /\ Calls[i] = Seen(r) /\ Calls[i] # None
  BY CallFacts DEF IInv
<1>2. /\ q \in RequestType /\ q.did /\ q.front = r.front /\ q.kind = r.kind
      /\ q.file = r.file /\ q.reply = r.reply
  BY <1>1, Handling DEF RequestOK
<1> HIDE DEF q
<1>3. Seen(q) = Seen(r)
  BY <1>2 DEF Seen
<1>4. Calls' = [Calls EXCEPT ![i] = Seen(q)] /\ Effective' = Effective \cup {i}
  <2>1. req' = [req EXCEPT ![i] = q]
    BY DEF q
  <2> QED  BY <1>2, <2>1, CallsAfter
<1>5. Calls' = Calls
  BY <1>1, <1>3, <1>4 DEF Calls
<1>6. Calls[i].file = r.file /\ Calls[i].kind = r.kind
  BY <1>1, SeenType
<1> HIDE DEF r
<1>7. Gate!TakeEffect(i, p)
  <2>1. \/ Calls[i].kind \in {"get", "packet", "contract"}
           /\ <<p, Calls[i].file>> \in holds /\ UNCHANGED holds
        \/ Calls[i].kind = "upload" /\ holds' = holds \cup {<<p, Calls[i].file>>}
        \/ Calls[i].kind = "update" /\ <<p, Calls[i].file>> \in holds
           /\ holds' = holds \ {<<p, Calls[i].file>>}
    BY <1>6 DEF r
  <2> QED  BY <1>1, <1>4, <1>5, <2>1 DEF Gate!TakeEffect
<1> QED  BY <1>7 DEF Gate!Next

-----------------------------------------------------------------------------
(* Every step is an operation of Gateway or is not seen *)

LEMMA NotSeen ==
  ASSUME UNCHANGED <<req, holds>>
  PROVE  Unseen
BY DEF Unseen, Calls, Effective, Seen

LEMMA AskRefines ==
  ASSUME IInv, NEW i \in Ids, req[i] = None, NEW n \in HandlerType, n.reply = 0, ~n.did,
         NEW target, Ask(i, n, target), UNCHANGED holds
  PROVE  Gate!Next
<1> DEFINE r == Awaiting(n)
<1>1. r \in RequestType /\ SameRequest(r, n) /\ r.reply = 0
  BY Waiting
<1>2. req' = [req EXCEPT ![i] = r]
  BY DEF Ask, Awaiting
<1> HIDE DEF r
<1> QED  BY <1>1, <1>2, Makes DEF SameRequest

LEMMA SearchRefines ==
  ASSUME IInv, NEW i \in Ids, req[i] = None, NEW n \in HandlerType, n.reply = 0, ~n.did,
         Search(i, n), UNCHANGED holds
  PROVE  Gate!Next
<1> DEFINE r == Seeking(n)
<1>1. r \in RequestType /\ SameRequest(r, n) /\ r.reply = 0
  BY Searching
<1>2. req' = [req EXCEPT ![i] = r]
  BY DEF Search, Seeking
<1> HIDE DEF r
<1> QED  BY <1>1, <1>2, Makes DEF SameRequest

LEMMA ReplyRefines ==
  ASSUME IInv, NEW i \in Ids, req[i] = None, NEW n \in HandlerType, n.kind = "get",
         NEW status \in {200, 404, 500, 504}, Reply(i, n, status), UNCHANGED holds,
         n.did => Gate!Held(n.file),
         status = 200 => n.did \/ Gate!Fetched(n.front, n.file)
  PROVE  Gate!Next
<1> DEFINE r == Done(n, status)
<1>1. r \in RequestType /\ SameRequest(r, n) /\ r.reply = status
  BY Replying
<1>2. req' = [req EXCEPT ![i] = r]
  BY DEF Reply, Done
<1> HIDE DEF r
<1>3. r.kind = "get" /\ r.file = n.file /\ r.front = n.front /\ r.did = n.did
  BY <1>1 DEF SameRequest
<1>4. r.reply # 0 /\ (r.did => Gate!Held(r.file))
      /\ (r.reply = 200 => r.did \/ Gate!Fetched(r.front, r.file))
  BY <1>1, <1>3
<1> QED  BY <1>1, <1>2, <1>3, <1>4, GetsAtOnce

LEMMA ProxyGetRefines ==
  ASSUME IInv, NEW i \in Ids, NEW f \in Files, ProxyGet(i, f)
  PROVE  Gate!Next
<1> DEFINE known == row[Me][f] # None /\ ownerCache["peer"][f] \in {None, Me}
           n     == Begun("peer", "get", f, known)
<1>1. req[i] = None /\ "peer" \in Front /\ "get" \in Kind /\ known \in BOOLEAN /\ UNCHANGED holds
  BY DEF ProxyGet, Starts, Front, Kind
<1>2. \/ Search(i, n)
      \/ fileCache["peer"][f] = "fresh" /\ Reply(i, n, 200)
      \/ <<Me, f>> \in holds /\ Reply(i, [n EXCEPT !.did = TRUE], 200)
      \/ Reply(i, n, 404)
      \/ \E target : Ask(i, n, target)
  BY DEF ProxyGet, Begun
<1> HIDE DEF known
<1>3. /\ n \in HandlerType /\ n.front = "peer" /\ n.kind = "get" /\ n.file = f
      /\ n.reply = 0 /\ ~n.did
  BY <1>1, BegunHandler
<1> HIDE DEF n
<1>4. CASE fileCache["peer"][f] = "fresh" /\ Reply(i, n, 200)
  <2>1. Gate!Fetched("peer", f)
    BY <1>1, <1>4, SourceFetched DEF IInv, CacheOK
  <2> QED  BY <1>1, <1>3, <1>4, <2>1, ReplyRefines
<1>5. CASE <<Me, f>> \in holds /\ Reply(i, [n EXCEPT !.did = TRUE], 200)
  <2> DEFINE d == [n EXCEPT !.did = TRUE]
  <2>1. d \in HandlerType
    BY <1>3, SetDid, Zenon
  <2>2. d.kind = "get" /\ d.file = f /\ d.did
    BY <1>3 DEF HandlerType
  <2>3. Reply(i, d, 200)
    BY <1>5
  <2>4. Gate!Held(f)
    BY <1>5, HttpAssumption DEF HttpAssumption, Gate!Held
  <2> HIDE DEF d
  <2> QED  BY <1>1, <2>1, <2>2, <2>3, <2>4, ReplyRefines
<1> QED  BY <1>1, <1>2, <1>3, <1>4, <1>5, SearchRefines, AskRefines, ReplyRefines

LEMMA ApiGetRefines ==
  ASSUME IInv, NEW i \in Ids, NEW f \in Files, ApiGet(i, f)
  PROVE  Gate!Next
<1> DEFINE known == ownerCache["api"][f] = None /\ row[Home][f] # None
           n     == Begun("api", "get", f, known)
<1>1. req[i] = None /\ "api" \in Front /\ "get" \in Kind /\ known \in BOOLEAN /\ UNCHANGED holds
  BY DEF ApiGet, Starts, Front, Kind
<1>2. \/ Search(i, n)
      \/ \E target : Ask(i, n, target)
      \/ fileCache["api"][f] = "fresh" /\ Reply(i, n, 200)
      \/ req' = [req EXCEPT ![i] = [n EXCEPT !.phase = "stuck"]]
  BY DEF ApiGet, Begun
<1> HIDE DEF known
<1>3. /\ n \in HandlerType /\ n.front = "api" /\ n.kind = "get" /\ n.file = f
      /\ n.reply = 0 /\ ~n.did
  BY <1>1, BegunHandler
<1> HIDE DEF n
<1>4. CASE fileCache["api"][f] = "fresh" /\ Reply(i, n, 200)
  <2>1. Gate!Fetched("api", f)
    BY <1>1, <1>4, SourceFetched DEF IInv, CacheOK
  <2> QED  BY <1>1, <1>3, <1>4, <2>1, ReplyRefines
<1>5. CASE req' = [req EXCEPT ![i] = [n EXCEPT !.phase = "stuck"]]
  <2> DEFINE r == [n EXCEPT !.phase = "stuck"]
  <2>1. r \in RequestType /\ r.reply = 0 /\ ~r.did
    BY <1>3 DEF HandlerType, RequestType
  <2>2. req' = [req EXCEPT ![i] = r]
    BY <1>5
  <2> HIDE DEF r
  <2> QED  BY <1>1, <2>1, <2>2, Makes
<1> QED  BY <1>1, <1>2, <1>3, <1>4, <1>5, SearchRefines, AskRefines

LEMMA SendRefines ==
  ASSUME IInv, NEW i \in Ids, NEW f \in Files, NEW kind \in Kind, NEW target,
         Send(i, f, kind, target)
  PROVE  Gate!Next
<1> DEFINE n == New("api", kind, f)
<1>1. req[i] = None /\ Ask(i, n, target) /\ UNCHANGED holds
  BY DEF Send, Starts
<1>2. n \in HandlerType /\ n.reply = 0 /\ ~n.did
  BY NewHandler DEF Front
<1> HIDE DEF n
<1> QED  BY <1>1, <1>2, AskRefines

LEMMA StartRefines ==
  ASSUME IInv, NEW i \in Ids, Start(i)
  PROVE  Gate!Next
<1>1. PICK f \in Files :
        \/ ProxyGet(i, f)
        \/ ApiGet(i, f)
        \/ \E kind \in Kind, target \in Providers \cup {None} : Send(i, f, kind, target)
  BY DEF Start, Kind, ApiUpload, ApiUpdate, ApiDelete, ApiChangeAccess, ApiContractCall, ApiPacket
<1> QED  BY <1>1, ProxyGetRefines, ApiGetRefines, SendRefines

\* What a provider does with the packet it takes.
LEMMA ProviderRefines ==
  ASSUME IInv, NEW m \in net,
         \/ ProviderSends(m) \/ ProviderStores(m) \/ ProviderUpdates(m) \/ ProviderExecutes(m)
  PROVE  Gate!Next \/ Unseen
<1> DEFINE r == req[m.id]
           f == r.file
           p == m.node
<1>1. /\ m.id \in Ids /\ r # None /\ r \in RequestType /\ PacketOK(m, r) /\ m.type = "ask"
  BY Taken DEF IInv, TypeOK, PacketType, ProviderSends, ProviderStores, ProviderUpdates, ProviderExecutes
<1>2. p \in Providers
  BY <1>1 DEF PacketOK
<1>3. ASSUME req' = [req EXCEPT ![m.id] = Handled(r, TRUE)],
             \/ /\ r.kind \in {"get", "packet", "contract"}
                /\ <<p, f>> \in holds /\ UNCHANGED holds
             \/ r.kind = "upload" /\ holds' = holds \cup {<<p, f>>}
             \/ r.kind = "update" /\ <<p, f>> \in holds /\ holds' = holds \ {<<p, f>>}
      PROVE  Gate!Next
  BY <1>1, <1>2, <1>3, TakesEffect
<1>4. ASSUME req' = [req EXCEPT ![m.id] = Handled(r, r.did)], UNCHANGED holds PROVE Unseen
  <2>1. Handled(r, r.did) = r
    BY <1>1 DEF Handled, RequestType
  <2>2. req' = req
    BY <1>4, <2>1 DEF IInv, TypeOK
  <2> QED  BY <1>4, <2>2, NotSeen
<1>5. CASE ProviderSends(m)
  <2>1. /\ r.kind \in {"get", "packet"} /\ UNCHANGED holds
        /\ req' = [req EXCEPT ![m.id] = Handled(r, r.did \/ <<p, f>> \in holds)]
    BY <1>5 DEF ProviderSends, Handled
  <2>2. CASE <<p, f>> \in holds
    <3>1. (r.did \/ <<p, f>> \in holds) = TRUE
      BY <2>2
    <3>2. req' = [req EXCEPT ![m.id] = Handled(r, TRUE)]
      BY <2>1, <3>1
    <3> QED  BY <1>3, <2>1, <2>2, <3>2
  <2>3. CASE <<p, f>> \notin holds
    <3>1. (r.did \/ <<p, f>> \in holds) = r.did
      BY <1>1, <2>3 DEF RequestType
    <3> QED  BY <1>4, <2>1, <3>1
  <2> QED  BY <2>2, <2>3
<1>6. CASE ProviderStores(m)
  <2>1. CASE /\ holds' = holds \cup {<<p, f>>} /\ req' = [req EXCEPT ![m.id].did = TRUE]
    <3>1. req' = [req EXCEPT ![m.id] = Handled(r, TRUE)]
      BY <2>1, Zenon DEF Handled
    <3> QED  BY <1>3, <1>6, <2>1, <3>1 DEF ProviderStores
  <2> QED  BY <1>6, <2>1, NotSeen DEF ProviderStores
<1>7. CASE ProviderUpdates(m)
  <2>1. CASE /\ <<p, f>> \in holds /\ holds' = holds \ {<<p, f>>}
             /\ req' = [req EXCEPT ![m.id].did = TRUE]
    <3>1. req' = [req EXCEPT ![m.id] = Handled(r, TRUE)]
      BY <2>1, Zenon DEF Handled
    <3> QED  BY <1>3, <1>7, <2>1, <3>1 DEF ProviderUpdates
  <2> QED  BY <1>7, <2>1, NotSeen DEF ProviderUpdates
<1>8. CASE ProviderExecutes(m)
  <2>1. r.kind = "contract" /\ UNCHANGED holds
    BY <1>8 DEF ProviderExecutes
  <2>2. PICK ran \in BOOLEAN : /\ ran => <<p, f>> \in holds
                               /\ req' = [req EXCEPT ![m.id].did = @ \/ ran]
    BY <1>8 DEF ProviderExecutes
  <2>3. req' = [req EXCEPT ![m.id] = Handled(r, r.did \/ ran)]
    BY <2>2, Zenon DEF Handled
  <2>4. CASE ran
    <3>1. (r.did \/ ran) = TRUE
      BY <2>4
    <3>2. req' = [req EXCEPT ![m.id] = Handled(r, TRUE)]
      BY <2>3, <3>1
    <3> QED  BY <1>3, <2>1, <2>2, <2>4, <3>2
  <2>5. CASE ~ran
    <3>1. (r.did \/ ran) = r.did
      BY <1>1, <2>5 DEF RequestType
    <3> QED  BY <1>4, <2>1, <2>3, <3>1
  <2> QED  BY <2>4, <2>5
<1> QED  BY <1>5, <1>6, <1>7, <1>8

LEMMA SetResponseRefines ==
  ASSUME IInv, NEW m \in net, SetResponse(m)
  PROVE  Gate!Next \/ Unseen
<1> DEFINE r == req[m.id]
           q == IF r.pending /\ r.phase # "replied" THEN Filled(r, m) ELSE Dismissed(r)
<1>1. req' = [req EXCEPT ![m.id] = q] /\ UNCHANGED holds
  BY DEF SetResponse, Filled, Dismissed
<1>2. m \in PacketType /\ m.id \in Ids /\ r # None /\ r \in RequestType
  BY Taken DEF IInv, TypeOK
<1>3. q \in RequestType /\ SameCall(q, r) /\ q.reply = r.reply
  BY <1>2, Completing, Dismissing DEF SameCall, SameRequest
<1>4. IInv'
  BY SetResponseStep
<1> HIDE DEF q
<1> QED  BY <1>1, <1>2, <1>3, <1>4, GoesOn

LEMMA DeliverRefines ==
  ASSUME IInv, NEW m \in net, Deliver(m)
  PROVE  Gate!Next \/ Unseen
<1>1. CASE ServerAnswersSearch(m) \/ ProviderIgnores(m)
  BY <1>1, NotSeen DEF ServerAnswersSearch, ProviderIgnores
<1> QED  BY <1>1, ProviderRefines, SetResponseRefines DEF Deliver

LEMMA SearchEndsRefines ==
  ASSUME IInv, NEW i \in Ids, SearchEnds(i)
  PROVE  Gate!Next \/ Unseen
<1> DEFINE r == req[i]
           n == [r EXCEPT !.late = r.slot = None]
           q == Awaiting(n)
<1>1. r # None /\ UNCHANGED holds
      /\ Ask(i, n, IF r.slot = None THEN None ELSE r.slot.owner)
  BY DEF SearchEnds
<1>2. req' = [req EXCEPT ![i] = q]
  BY <1>1 DEF Ask, Awaiting
<1>3. r \in RequestType /\ r \in HandlerType
  BY <1>1, Waits, HandlerTypes
<1>4. n \in HandlerType /\ SameRequest(n, r) /\ n.reply = r.reply
  BY <1>3, SetLate
<1> HIDE DEF n
<1>5. q \in RequestType /\ SameCall(q, r) /\ q.reply = r.reply
  BY <1>4, Waiting DEF SameRequest, SameCall
<1>6. IInv'
  BY SearchEndsStep
<1> HIDE DEF q
<1> QED  BY <1>1, <1>2, <1>5, <1>6, GoesOn

LEMMA WaitEndsRefines ==
  ASSUME IInv, NEW i \in Ids, WaitEnds(i)
  PROVE  Gate!Next \/ Unseen
<1> DEFINE r == req[i]
<1>1. r # None /\ r.phase = "waiting" /\ UNCHANGED holds
  BY DEF WaitEnds
<1>2. r \in RequestType /\ r \in HandlerType /\ RequestOK(r)
  BY <1>1, Waits, HandlerTypes
<1>3. r.reply = 0
  BY <1>1, <1>2 DEF RequestOK
<1>4. IInv'
  BY WaitEndsStep
<1>5. \/ \E status \in {200, 404, 500, 504} : req' = [req EXCEPT ![i] = Done(r, status)]
      \/ req' = [req EXCEPT ![i].phase = "stuck", ![i].slot = None]
  BY DEF WaitEnds, Reply, Done
<1>6. ASSUME NEW status \in {200, 404, 500, 504}, req' = [req EXCEPT ![i] = Done(r, status)]
      PROVE  Gate!Next \/ Unseen
  <2> DEFINE q == Done(r, status)
  <2>1. q \in RequestType /\ SameCall(q, r)
    BY <1>2, Replying DEF SameRequest, SameCall
  <2>2. req' = [req EXCEPT ![i] = q]
    BY <1>6
  <2>3. r.reply \in {0, q.reply}
    BY <1>3
  <2> HIDE DEF q
  <2> QED  BY <1>1, <1>4, <2>1, <2>2, <2>3, GoesOn
<1>7. CASE req' = [req EXCEPT ![i].phase = "stuck", ![i].slot = None]
  <2> DEFINE q1 == [r EXCEPT !.phase = "stuck"]
             q  == [q1 EXCEPT !.slot = None]
  <2>1. q1 \in RequestType
    BY <1>2 DEF RequestType
  <2>2. req' = [req EXCEPT ![i] = q]
    BY <1>7
  <2>3. SameCall(q, r) /\ q.reply = r.reply
    BY <1>2 DEF RequestType, SameCall
  <2> HIDE DEF q1
  <2>4. q \in RequestType
    BY <2>1 DEF RequestType
  <2> HIDE DEF q
  <2> QED  BY <1>1, <1>4, <2>2, <2>3, <2>4, GoesOn
<1> QED  BY <1>5, <1>6, <1>7

LEMMA StorageRefines ==
  ASSUME IInv, Storage
  PROVE  Gate!Next \/ Unseen
<1>1. ASSUME NEW f \in Files, NEW p \in Providers, Put(p, f) \/ Drop(p, f)
      PROVE  Gate!Next
  <2>1. UNCHANGED req
    BY <1>1 DEF Put, Drop
  <2>2. UNCHANGED <<Calls, Effective>>
    BY <2>1 DEF Calls, Effective, Seen
  <2>3. Gate!Put(p, f) \/ Gate!Drop(p, f)
    BY <1>1, <2>2 DEF Put, Drop, Gate!Put, Gate!Drop
  <2> QED  BY <2>3 DEF Gate!Next
<1>2. ASSUME NEW f \in Files, NEW p \in Providers, NEW s \in Servers, Sync(s, p, f) PROVE Unseen
  BY <1>2, NotSeen DEF Sync
<1>3. ASSUME NEW f \in Files, NEW a \in Front, Expire(a, f) PROVE Unseen
  BY <1>3, NotSeen DEF Expire
<1> QED  BY <1>1, <1>2, <1>3 DEF Storage

\* The front ends keep the promises of Gateway, for any number of requests,
\* servers and providers: a call is answered once, and success stands for one
\* moment between call and answer at which a provider did what was asked.
THEOREM Implementation == Spec => ImplementsGateway
<1>1. Init => Gate!Init
  BY DEF Init, Calls, Effective, Gate!Init
<1>2. IInv /\ [Next]_vars => [Gate!Next]_<<Calls, Effective, holds>>
  <2> SUFFICES ASSUME IInv, [Next]_vars PROVE Gate!Next \/ Unseen
    BY DEF Unseen
  <2>1. ASSUME NEW i \in Ids, Start(i) \/ Continue(i) PROVE Gate!Next \/ Unseen
    BY <2>1, StartRefines, SearchEndsRefines, WaitEndsRefines DEF Continue
  <2>2. ASSUME NEW m \in net, Deliver(m) PROVE Gate!Next \/ Unseen
    BY <2>2, DeliverRefines
  <2>3. CASE UNCHANGED vars
    BY <2>3, NotSeen DEF vars
  <2> QED  BY <2>1, <2>2, <2>3, StorageRefines DEF Next
<1> QED  BY <1>1, <1>2, Invariance, PTL DEF Spec, ImplementsGateway, Gate!Spec
=============================================================================

----------------------- MODULE StorageProviderProofs -----------------------
(***************************************************************************)
(* Proofs about StorageProvider, for every set of peers and files and      *)
(* every capacity.                                                         *)
(*                                                                         *)
(* What the inductive invariant adds to the properties: one handler runs   *)
(* at a time (the dispatcher waits for it), so that the row a deletion or  *)
(* an update checked is still there when it comes to write, and what a     *)
(* handler that has got so far has made of the blob of its file.           *)
(***************************************************************************)
EXTENDS StorageProvider, TLAPS

\* The contents of f are on the disk or on their way, and nothing else is.
Written(f, size) ==
  \/ pending[f] = {} /\ blob[f] = size
  \/ pending[f] = {size} /\ blob[f] = 0

Whole(f) ==
  \/ row[f] = None /\ blob[f] = None /\ pending[f] = {}
  \/ row[f] # None /\ Written(f, row[f].size)

\* What handler h has done so far.
Progress(h) ==
  /\ h.op \in {"delete", "update"} => row[h.file] # None /\ row[h.file].owner = h.from
  /\ h.op = "upload" => h.stage \in {"write", "row"}
  /\ h.op = "delete" => h.stage \in {"remove", "row"}
  /\ h.token \in issued[h.from] \cup {NoToken}
  /\ h.stage = "remove" \/ (h.stage = "write" /\ h.op = "upload")
       => h.file \in damaged \/ Whole(h.file)
  /\ (h.stage = "row" /\ h.op = "delete") \/ (h.stage = "write" /\ h.op = "update")
       => blob[h.file] = None /\ pending[h.file] = {}
  /\ h.stage = "row" /\ h.op # "delete" /\ h.alone => Written(h.file, h.size)

TokensIssued == \A p \in Peers : token[p] \in issued[p] \cup {NoToken}

OneHandler == \A g, h \in handlers : g = h

IInv ==
  /\ TypeOK
  /\ StoredUnderOwnToken
  /\ TokensIssued
  /\ OneHandler
  /\ \A h \in handlers : Progress(h)
  /\ \A f \in Files \ damaged : Busy(f) \/ Whole(f)

-----------------------------------------------------------------------------
LEMMA InitIInv == Init => IInv
<1> SUFFICES ASSUME Init PROVE IInv
  OBVIOUS
<1>1. TypeOK
  BY DEF Init, TypeOK, NoToken
<1>2. \A f \in Files : Whole(f)
  BY DEF Init, Whole
<1> QED  BY <1>1, <1>2 DEF Init, IInv, StoredUnderOwnToken, TokensIssued, OneHandler

\* What is stored stays under tokens of its owner when the owner gets another.
LEMMA ReserveStep ==
  ASSUME IInv, NEW p \in Peers, NEW size \in Sizes, NEW now \in Seconds, Reserve(p, size, now)
  PROVE  IInv'
<1>1. PICK new : new = [at |-> now, size |-> size]
  OBVIOUS
<1>2. new \in Tokens
  BY <1>1 DEF Tokens
<1>3. /\ issued' = [issued EXCEPT ![p] = @ \cup {new}] /\ token' = [token EXCEPT ![p] = new]
      /\ UNCHANGED <<row, blob, pending, handlers, kept, damaged>>
  BY <1>1 DEF Reserve
<1>4. TypeOK'
  BY <1>2, <1>3 DEF IInv, TypeOK
<1>5. \A q \in Peers : issued[q] \subseteq issued'[q]
  BY <1>3 DEF IInv, TypeOK
<1>6. StoredUnderOwnToken'
  BY <1>3, <1>5 DEF IInv, StoredUnderOwnToken, TypeOK, Rows
<1>7. \A h \in handlers' : Progress(h)'
  BY <1>3, <1>5 DEF IInv, Progress, TypeOK, HandlerType, Whole, Written
<1>8. TokensIssued'
  BY <1>3, <1>5 DEF IInv, TypeOK, TokensIssued
<1> QED  BY <1>3, <1>4, <1>6, <1>7, <1>8 DEF IInv, OneHandler, Busy, Whole, Written

\* A handler starts when none runs, and starts without having changed a thing.
LEMMA StartKeeps ==
  ASSUME IInv, Idle, NEW h \in HandlerType, Start(h), Progress(h),
         UNCHANGED <<token, issued, row, blob, pending, kept, damaged>>
  PROVE  IInv'
<1>1. handlers' = {h}
  BY DEF Idle, Start
<1>2. TypeOK'
  BY <1>1 DEF IInv, TypeOK
<1>3. Progress(h)'
  BY DEF Progress, Whole, Written
<1>4. \A f \in Files \ damaged' : Whole(f)'
  BY DEF IInv, Idle, Busy, Whole, Written
<1> QED  BY <1>1, <1>2, <1>3, <1>4 DEF IInv, OneHandler, StoredUnderOwnToken, TokensIssued

\* Between handlers every undamaged file is whole.
LEMMA IdleWhole ==
  ASSUME IInv, Idle, NEW f \in Files
  PROVE  f \in damaged \/ Whole(f)
BY DEF IInv, Idle, Busy

LEMMA RequestStep ==
  ASSUME IInv, Request
  PROVE  IInv'
<1>1. ASSUME NEW p \in Peers, NEW f \in Files, NEW public \in BOOLEAN,
             NEW tok \in issued[p] \cup {NoToken}, NEW sent \in Sizes, NEW size \in Sizes,
             BeginUpload(p, f, public, tok, sent, size)
      PROVE  IInv'
  <2> DEFINE h == Handler("upload", p, f, "write", IF public THEN NoToken ELSE tok, public, size)
  <2>1. h \in HandlerType
    BY DEF Handler, HandlerType, IInv, TypeOK
  <2>2. Progress(h)
    BY <1>1, IdleWhole DEF BeginUpload, Handler, Progress
  <2>3. Start(h)
    BY <1>1 DEF BeginUpload
  <2> HIDE DEF h
  <2> QED  BY <1>1, <2>1, <2>2, <2>3, StartKeeps DEF BeginUpload
<1>2. ASSUME NEW p \in Peers, NEW f \in Files, NEW tok \in issued[p] \cup {NoToken},
             NEW op \in {"delete", "update"}, NEW public \in BOOLEAN, NEW size \in Sizes,
             Idle, Authorized(p, f, tok),
             Start(Handler(op, p, f, "remove", tok, public, size)),
             UNCHANGED <<token, issued, row, blob, pending, kept, damaged>>
      PROVE  IInv'
  <2> DEFINE h == Handler(op, p, f, "remove", tok, public, size)
  <2>1. h \in HandlerType
    BY DEF Handler, HandlerType, IInv, TypeOK
  <2>2. Progress(h)
    BY <1>2, IdleWhole DEF Authorized, Handler, Progress
  <2>3. Start(h)
    BY <1>2
  <2> HIDE DEF h
  <2> QED  BY <1>2, <2>1, <2>2, <2>3, StartKeeps
<1>3. ASSUME NEW p \in Peers, NEW f \in Files, BeginDelete(p, f, kept[p][f])
      PROVE  IInv'
  <2>1. Authorized(p, f, kept[p][f]) /\ Idle
    BY <1>3 DEF BeginDelete
  <2>2. kept[p][f] \in issued[p] \cup {NoToken}
    BY <2>1 DEF Authorized, IInv, TokensIssued
  <2>3. row[f].public \in BOOLEAN /\ row[f].size \in Sizes
    BY <2>1 DEF Authorized, IInv, TypeOK, Rows
  <2> QED  BY <1>2, <1>3, <2>1, <2>2, <2>3 DEF BeginDelete
<1>4. ASSUME NEW p \in Peers, NEW f \in Files, NEW tok \in issued[p], NEW public \in BOOLEAN,
             NEW size \in Sizes, BeginUpdate(p, f, tok, public, size)
      PROVE  IInv'
  BY <1>2, <1>4 DEF BeginUpdate
<1>5. ASSUME NEW p \in Peers, NEW f \in Files, NEW public \in BOOLEAN,
             ChangeAccess(p, f, kept[p][f], public)
      PROVE  IInv'
  <2>1. /\ row' = [row EXCEPT ![f].public = public] /\ row[f] \in Rows /\ row[f] # None
        /\ handlers = {} /\ row \in [Files -> Rows \cup {None}]
        /\ UNCHANGED <<token, issued, blob, pending, handlers, kept, damaged>>
    BY <1>5 DEF ChangeAccess, Authorized, Idle, IInv, TypeOK
  <2>2. row'[f] = [row[f] EXCEPT !.public = public] /\ row'[f] \in Rows /\ row'[f] # None
    BY <2>1, StorageAssumption DEF Rows, StorageAssumption
  <2>3. /\ row'[f].size = row[f].size /\ row'[f].token = row[f].token
        /\ row'[f].owner = row[f].owner
    BY <2>1, <2>2 DEF Rows
  <2>4. TypeOK'
    BY <2>1, <2>2 DEF IInv, TypeOK
  <2>5. StoredUnderOwnToken'
    BY <2>1, <2>2, <2>3 DEF IInv, StoredUnderOwnToken
  <2>6. \A g \in Files \ damaged' : Whole(g)'
    BY <2>1, <2>2, <2>3 DEF IInv, Busy, Whole, Written
  <2> QED  BY <2>1, <2>4, <2>5, <2>6 DEF IInv, OneHandler, TokensIssued
<1> QED  BY <1>1, <1>3, <1>4, <1>5, ReserveStep DEF Request

-----------------------------------------------------------------------------
(* The steps of the running handler *)

\* The file of the running handler is the only one that is not whole.
LEMMA OthersWhole ==
  ASSUME IInv, NEW h \in handlers
  PROVE  \A f \in Files \ damaged : f # h.file => Whole(f)
BY DEF IInv, OneHandler, Busy

\* A step of h that touches no row, blob or write of another file leaves the
\* invariant to what is true of the file of h.
LEMMA HandlerKeeps ==
  ASSUME IInv, NEW h \in handlers, TypeOK', StoredUnderOwnToken',
         UNCHANGED <<token, issued>>,
         \A f \in Files : f # h.file => row'[f] = row[f] /\ blob'[f] = blob[f] /\ pending'[f] = pending[f],
         damaged \subseteq damaged' \cup {h.file},
         \/ handlers' = {} /\ (h.file \in damaged' \/ Whole(h.file)')
         \/ \E g : handlers' = {g} /\ g.file = h.file /\ Progress(g)'
  PROVE  IInv'
<1>1. \A f \in Files \ damaged' : f # h.file => Whole(f)'
  BY OthersWhole DEF Whole, Written
<1>2. \A f \in Files \ damaged' : Busy(f)' \/ Whole(f)'
  BY <1>1 DEF Busy
<1>3. \A g \in handlers' : Progress(g)'
  OBVIOUS
<1>4. OneHandler'
  BY DEF OneHandler
<1>5. TokensIssued'
  BY DEF IInv, TokensIssued
<1> QED  BY <1>2, <1>3, <1>4, <1>5 DEF IInv

LEMMA HandlerFacts ==
  ASSUME IInv, NEW h \in handlers
  PROVE  /\ handlers = {h}
         /\ h \in HandlerType /\ h.file \in Files /\ h.from \in Peers /\ h.size \in Sizes
         /\ h.token \in Tokens \cup {NoToken} /\ h.public \in BOOLEAN
         /\ Progress(h)
         /\ Sizes \subseteq Nat \ {0}
BY StorageAssumption DEF IInv, OneHandler, TypeOK, HandlerType, StorageAssumption

LEMMA WriteBlobStep ==
  ASSUME IInv, NEW h \in handlers, WriteBlob(h)
  PROVE  IInv'
<1>1. PICK a \in BOOLEAN : a = (pending[h.file] = {})
  OBVIOUS
<1>2. PICK g : g = [h EXCEPT !.stage = "row", !.alone = a]
  OBVIOUS
<1>3. /\ blob' = [blob EXCEPT ![h.file] = 0]
      /\ pending' = [pending EXCEPT ![h.file] = @ \cup {h.size}]
      /\ handlers' = {g}
      /\ UNCHANGED <<token, issued, row, kept, damaged>>
      /\ h.stage = "write"
  <2>1. handlers = {h}
    BY HandlerFacts
  <2>2. handlers' = (handlers \ {h}) \cup {g}
    BY <1>1, <1>2, Zenon DEF WriteBlob
  <2> QED  BY <2>1, <2>2 DEF WriteBlob
<1>4. h \in HandlerType
  BY HandlerFacts
<1>5. /\ g \in HandlerType /\ g.stage = "row" /\ g.file = h.file /\ g.size = h.size
      /\ g.from = h.from /\ g.op = h.op /\ g.token = h.token /\ g.alone = a
  BY <1>2, <1>4 DEF HandlerType
<1>6. TypeOK'
  BY <1>3, <1>5, HandlerFacts DEF IInv, TypeOK
<1>7. g.op # "delete"
  BY <1>3, <1>5, HandlerFacts DEF Progress
<1>8. Progress(g)'
  <2>1. pending'[h.file] = pending[h.file] \cup {h.size} /\ blob'[h.file] = 0
    BY <1>3, HandlerFacts DEF IInv, TypeOK
  <2>2. g.alone => pending'[g.file] = {g.size} /\ blob'[g.file] = 0
    BY <1>1, <1>5, <2>1
  <2>3. g.op \in {"delete", "update"} => row'[g.file] # None /\ row'[g.file].owner = g.from
    BY <1>3, <1>5, HandlerFacts DEF Progress
  <2>4. g.op = "upload" \/ g.op = "update"
    BY <1>5, <1>7 DEF HandlerType
  <2>5. g.token \in issued'[g.from] \cup {NoToken}
    BY <1>3, <1>5, HandlerFacts DEF Progress
  <2> QED  BY <1>5, <2>2, <2>3, <2>4, <2>5 DEF Progress, Written
<1>9. StoredUnderOwnToken'
  BY <1>3 DEF IInv, StoredUnderOwnToken
<1>10. \A f \in Files : f # h.file => row'[f] = row[f] /\ blob'[f] = blob[f] /\ pending'[f] = pending[f]
  BY <1>3 DEF IInv, TypeOK
<1> QED  BY <1>3, <1>5, <1>6, <1>8, <1>9, <1>10, HandlerKeeps

LEMMA StoreRowStep ==
  ASSUME IInv, NEW h \in handlers, StoreRow(h)
  PROVE  IInv'
<1> DEFINE r == [owner |-> h.from, token |-> h.token, public |-> h.public, size |-> h.size]
<1>1. /\ row' = [row EXCEPT ![h.file] = r]
      /\ kept' \in {kept, [kept EXCEPT ![h.from][h.file] = h.token]}
      /\ damaged' = Repaired(h)
      /\ handlers' = {}
      /\ UNCHANGED <<token, issued, blob, pending>>
      /\ h.stage = "row" /\ h.op = "upload"
  BY HandlerFacts DEF StoreRow, Finish
<1>2. /\ r \in Rows /\ r # None /\ r.size = h.size /\ r.token = h.token /\ r.owner = h.from
  BY HandlerFacts, StorageAssumption DEF Rows, StorageAssumption
<1> HIDE DEF r
<1>3. row'[h.file] = r
  BY <1>1, HandlerFacts DEF IInv, TypeOK
<1>4. TypeOK'
  <2>1. damaged' \subseteq Files
    BY <1>1, HandlerFacts DEF Repaired, IInv, TypeOK
  <2>2. row' \in [Files -> Rows \cup {None}]
    BY <1>1, <1>2 DEF IInv, TypeOK
  <2>3. kept' \in [Peers -> [Files -> Tokens \cup {NoToken}]]
    <3>1. /\ kept \in [Peers -> [Files -> Tokens \cup {NoToken}]]
          /\ h.from \in Peers /\ h.file \in Files /\ h.token \in Tokens \cup {NoToken}
      BY HandlerFacts DEF IInv, TypeOK
    <3> DEFINE own == [kept[h.from] EXCEPT ![h.file] = h.token]
    <3>2. own \in [Files -> Tokens \cup {NoToken}]
      BY <3>1
    <3>3. kept' = kept \/ kept' = [kept EXCEPT ![h.from] = own]
      BY <1>1, Zenon
    <3> HIDE DEF own
    <3> QED  BY <3>1, <3>2, <3>3
  <2> QED  BY <1>1, <2>1, <2>2, <2>3 DEF IInv, TypeOK
<1>5. StoredUnderOwnToken'
  <2>1. h.token \in issued[h.from] \cup {NoToken}
    BY HandlerFacts DEF Progress
  <2> QED  BY <1>1, <1>2, <1>3, <2>1 DEF IInv, TypeOK, StoredUnderOwnToken
<1>6. h.file \in damaged' \/ Whole(h.file)'
  BY <1>1, <1>2, <1>3, HandlerFacts DEF Repaired, Progress, Whole, Written
<1>7. \A f \in Files : f # h.file => row'[f] = row[f] /\ blob'[f] = blob[f] /\ pending'[f] = pending[f]
  BY <1>1 DEF IInv, TypeOK
<1>8. damaged \subseteq damaged' \cup {h.file}
  BY <1>1 DEF Repaired
<1> QED  BY <1>1, <1>4, <1>5, <1>6, <1>7, <1>8, HandlerKeeps

LEMMA RemoveBlobStep ==
  ASSUME IInv, NEW h \in handlers, RemoveBlob(h)
  PROVE  IInv'
<1> DEFINE g == [h EXCEPT !.stage = IF h.op = "delete" THEN "row" ELSE "write"]
<1>1. /\ blob' = [blob EXCEPT ![h.file] = None]
      /\ pending' = [pending EXCEPT ![h.file] = {}]
      /\ handlers' = {g}
      /\ UNCHANGED <<token, issued, row, kept, damaged>>
      /\ h.stage = "remove"
  BY HandlerFacts DEF RemoveBlob, Goto
<1>2. /\ g \in HandlerType /\ g.stage = (IF h.op = "delete" THEN "row" ELSE "write")
      /\ g.file = h.file /\ g.from = h.from /\ g.op = h.op /\ g.token = h.token
  BY HandlerFacts DEF HandlerType
<1> HIDE DEF g
<1>3. h.op \in {"delete", "update"}
  BY <1>1, HandlerFacts DEF Progress, HandlerType
<1>4. TypeOK'
  BY <1>1, <1>2, HandlerFacts DEF IInv, TypeOK
<1>5. Progress(g)'
  BY <1>1, <1>2, <1>3, HandlerFacts DEF Progress, IInv, TypeOK
<1>6. StoredUnderOwnToken'
  BY <1>1 DEF IInv, StoredUnderOwnToken
<1>7. \A f \in Files : f # h.file => row'[f] = row[f] /\ blob'[f] = blob[f] /\ pending'[f] = pending[f]
  BY <1>1 DEF IInv, TypeOK
<1> QED  BY <1>1, <1>2, <1>4, <1>5, <1>6, <1>7, HandlerKeeps

LEMMA RemoveRowStep ==
  ASSUME IInv, NEW h \in handlers, RemoveRow(h)
  PROVE  IInv'
<1>1. /\ row' = [row EXCEPT ![h.file] = None]
      /\ damaged' = damaged \ {h.file}
      /\ handlers' = {}
      /\ UNCHANGED <<token, issued, blob, pending, kept>>
      /\ h.stage = "row" /\ h.op = "delete"
  BY HandlerFacts DEF RemoveRow, Finish
<1>2. TypeOK'
  BY <1>1, HandlerFacts DEF IInv, TypeOK
<1>3. row'[h.file] = None
  BY <1>1, HandlerFacts DEF IInv, TypeOK
<1>4. \A f \in Files : f # h.file => row'[f] = row[f] /\ blob'[f] = blob[f] /\ pending'[f] = pending[f]
  BY <1>1 DEF IInv, TypeOK
<1>5. StoredUnderOwnToken'
  BY <1>1, <1>3, <1>4 DEF IInv, StoredUnderOwnToken
<1>6. Whole(h.file)'
  BY <1>1, <1>3, HandlerFacts DEF Progress, Whole
<1> QED  BY <1>1, <1>2, <1>4, <1>5, <1>6, HandlerKeeps

\* The row an update checked before it rewrote the blob is still there.
LEMMA UpdateRowStep ==
  ASSUME IInv, NEW h \in handlers, UpdateRow(h)
  PROVE  IInv'
<1>1. row[h.file] # None /\ row[h.file] \in Rows
  BY HandlerFacts DEF UpdateRow, Progress, IInv, TypeOK
<1>2. PICK r : r = [row[h.file] EXCEPT !.public = h.public, !.size = h.size]
  OBVIOUS
<1>3. /\ r \in Rows /\ r # None /\ r.size = h.size
      /\ r.token = row[h.file].token /\ r.owner = row[h.file].owner
  BY <1>1, <1>2, HandlerFacts, StorageAssumption DEF Rows, StorageAssumption
<1>4. row' = [row EXCEPT ![h.file] = r]
  <2>1. row' = [row EXCEPT ![h.file].public = h.public, ![h.file].size = h.size]
    BY <1>1 DEF UpdateRow
  <2>2. row \in [Files -> Rows \cup {None}] /\ h.file \in Files
    BY HandlerFacts DEF IInv, TypeOK
  <2> QED  BY <1>2, <2>1, <2>2
<1>5. /\ damaged' = Repaired(h)
      /\ handlers' = {}
      /\ UNCHANGED <<token, issued, blob, pending, kept>>
      /\ h.stage = "row" /\ h.op = "update"
  BY <1>1, HandlerFacts DEF UpdateRow, Finish
<1>6. row'[h.file] = r
  BY <1>4, HandlerFacts DEF IInv, TypeOK
<1>7. \A f \in Files : f # h.file => row'[f] = row[f] /\ blob'[f] = blob[f] /\ pending'[f] = pending[f]
  BY <1>4, <1>5 DEF IInv, TypeOK
<1>8. TypeOK'
  <2>1. damaged' \subseteq Files
    BY <1>5, HandlerFacts DEF Repaired, IInv, TypeOK
  <2>2. row' \in [Files -> Rows \cup {None}]
    BY <1>3, <1>4 DEF IInv, TypeOK
  <2> QED  BY <1>5, <2>1, <2>2 DEF IInv, TypeOK
<1>9. StoredUnderOwnToken'
  BY <1>1, <1>3, <1>5, <1>6, <1>7 DEF IInv, StoredUnderOwnToken
<1>10. h.file \in damaged' \/ Whole(h.file)'
  BY <1>3, <1>5, <1>6, HandlerFacts DEF Repaired, Progress, Whole, Written
<1>11. damaged \subseteq damaged' \cup {h.file}
  BY <1>5 DEF Repaired
<1> QED  BY <1>5, <1>7, <1>8, <1>9, <1>10, <1>11, HandlerKeeps

\* A handler that stops half way leaves its file damaged or as it was.
LEMMA FailStep ==
  ASSUME IInv, NEW h \in handlers, Fail(h)
  PROVE  IInv'
<1>1. handlers' = {} /\ UNCHANGED <<token, issued, row, pending, kept>>
  BY HandlerFacts DEF Fail, Finish
<1>2. damaged \subseteq damaged' /\ damaged' \subseteq Files
  BY HandlerFacts DEF Fail, IInv, TypeOK
<1>3. blob' = blob \/ (blob' = [blob EXCEPT ![h.file] = 0] /\ h.file \in damaged')
  BY DEF Fail
<1>4. TypeOK'
  <2>1. blob' \in [Files -> Sizes \cup {0, None}]
    BY <1>3 DEF IInv, TypeOK
  <2> QED  BY <1>1, <1>2, <2>1 DEF IInv, TypeOK
<1>5. StoredUnderOwnToken'
  BY <1>1 DEF IInv, StoredUnderOwnToken
<1>6. \A f \in Files : f # h.file => row'[f] = row[f] /\ blob'[f] = blob[f] /\ pending'[f] = pending[f]
  BY <1>1, <1>3 DEF IInv, TypeOK
<1>7. h.file \in damaged' \/ Whole(h.file)'
  <2>1. CASE h.file \in damaged'
    BY <2>1
  <2>2. CASE h.file \notin damaged'
    <3>1. ~Touched(h) /\ blob' = blob
      BY <2>2, <1>3 DEF Fail
    <3>2. h.file \in damaged \/ Whole(h.file)
      BY <3>1, HandlerFacts DEF Touched, Progress, HandlerType
    <3> QED  BY <1>1, <1>2, <3>1, <3>2 DEF Whole, Written
  <2> QED  BY <2>1, <2>2
<1> QED  BY <1>1, <1>2, <1>4, <1>5, <1>6, <1>7, HandlerKeeps

-----------------------------------------------------------------------------
(* The disk and the process *)

\* The one write that is on its way fills the blob its handler emptied.
LEMMA FlushStep ==
  ASSUME IInv, NEW f \in Files, NEW n \in pending[f], Flush(f, n)
  PROVE  IInv'
<1>1. /\ blob' = [blob EXCEPT ![f] = IF @ = None \/ @ < n THEN n ELSE @]
      /\ pending' = [pending EXCEPT ![f] = @ \ {n}]
      /\ UNCHANGED <<token, issued, row, handlers, kept, damaged>>
  BY DEF Flush
<1>2. n \in Sizes /\ n \in Nat /\ n > 0
  BY StorageAssumption DEF IInv, TypeOK, StorageAssumption
<1>3. /\ blob \in [Files -> Sizes \cup {0, None}] /\ pending \in [Files -> SUBSET Sizes]
      /\ handlers \subseteq HandlerType
  BY DEF IInv, TypeOK
<1>4. blob'[f] = (IF blob[f] = None \/ blob[f] < n THEN n ELSE blob[f]) /\ pending'[f] = pending[f] \ {n}
  BY <1>1, <1>3
<1>5. \A g \in Files : g # f => blob'[g] = blob[g] /\ pending'[g] = pending[g]
  BY <1>1, <1>3
<1>6. TypeOK'
  <2>1. blob' \in [Files -> Sizes \cup {0, None}] /\ pending' \in [Files -> SUBSET Sizes]
    BY <1>1, <1>2, <1>3
  <2> QED  BY <1>1, <2>1 DEF IInv, TypeOK
<1>7. \A g \in Files, size \in Sizes : Written(g, size) => Written(g, size)'
  BY <1>2, <1>4, <1>5 DEF Written
<1>8. \A g \in Files : Whole(g) => Whole(g)'
  <2> SUFFICES ASSUME NEW g \in Files, Whole(g) PROVE Whole(g)'
    OBVIOUS
  <2>1. CASE row[g] = None
    BY <2>1, <1>1, <1>4, <1>5 DEF Whole
  <2>2. CASE row[g] # None
    <3>1. row[g].size \in Sizes
      BY <2>2 DEF IInv, TypeOK, Rows
    <3> QED  BY <2>2, <3>1, <1>1, <1>7 DEF Whole
  <2> QED  BY <2>1, <2>2
<1>9. ASSUME NEW h \in handlers PROVE Progress(h)'
  <2>1. Progress(h) /\ h.file \in Files /\ h.size \in Sizes
    BY <1>3 DEF IInv, HandlerType
  <2>2. blob[h.file] = None /\ pending[h.file] = {} => blob'[h.file] = None /\ pending'[h.file] = {}
    BY <1>4, <1>5, <2>1
  <2> QED  BY <1>1, <1>7, <1>8, <2>1, <2>2 DEF Progress
<1>10. \A g \in Files \ damaged' : Busy(g)' \/ Whole(g)'
  BY <1>1, <1>8 DEF IInv, Busy
<1> QED  BY <1>1, <1>6, <1>9, <1>10 DEF IInv, StoredUnderOwnToken, TokensIssued, OneHandler

\* What a crash cuts short is damaged.
LEMMA CrashStep ==
  ASSUME IInv, Crash
  PROVE  IInv'
<1>1. /\ handlers' = {} /\ pending' = [f \in Files |-> {}]
      /\ UNCHANGED <<token, issued, row, blob, kept>>
  BY DEF Crash
<1>2. /\ damaged \subseteq damaged'
      /\ \A h \in handlers : Touched(h) => h.file \in damaged'
      /\ \A f \in Files : pending[f] # {} => f \in damaged'
  BY DEF Crash
<1>3. TypeOK'
  <2>1. damaged' \subseteq Files
    BY DEF Crash, IInv, TypeOK, HandlerType
  <2> QED  BY <1>1, <2>1 DEF IInv, TypeOK
<1>4. ASSUME NEW f \in Files, f \notin damaged' PROVE Whole(f)'
  <2>1. Whole(f)
    <3>1. CASE Busy(f)
      <4>1. PICK h \in handlers : h.file = f
        BY <3>1 DEF Busy
      <4>2. ~Touched(h) /\ f \notin damaged
        BY <1>2, <1>4, <4>1
      <4> QED  BY <4>1, <4>2, HandlerFacts DEF Touched, Progress, HandlerType
    <3>2. CASE ~Busy(f)
      BY <3>2, <1>2, <1>4 DEF IInv
    <3> QED  BY <3>1, <3>2
  <2>2. pending[f] = {}
    BY <1>2, <1>4
  <2> QED  BY <1>1, <2>1, <2>2 DEF Whole, Written
<1> QED  BY <1>1, <1>3, <1>4 DEF IInv, StoredUnderOwnToken, TokensIssued, OneHandler

-----------------------------------------------------------------------------
LEMMA NextIInv == IInv /\ [Next]_vars => IInv'
<1> SUFFICES ASSUME IInv, [Next]_vars PROVE IInv'
  OBVIOUS
<1>1. CASE Request
  BY <1>1, RequestStep
<1>2. ASSUME NEW h \in handlers, Step(h) PROVE IInv'
  BY <1>2, WriteBlobStep, StoreRowStep, RemoveBlobStep, RemoveRowStep, UpdateRowStep, FailStep DEF Step
<1>3. ASSUME NEW f \in Files, NEW n \in pending[f], Flush(f, n) PROVE IInv'
  BY <1>3, FlushStep
<1>4. CASE Crash
  BY <1>4, CrashStep
<1>5. CASE UNCHANGED vars
  <2> USE <1>5 DEF vars
  <2>1. TypeOK' /\ StoredUnderOwnToken' /\ TokensIssued' /\ OneHandler'
    BY DEF IInv, TypeOK, StoredUnderOwnToken, TokensIssued, OneHandler
  <2>2. \A h \in handlers' : Progress(h)'
    BY DEF IInv, Progress, Whole, Written
  <2>3. \A f \in Files \ damaged' : Busy(f)' \/ Whole(f)'
    BY DEF IInv, Busy, Whole, Written
  <2> QED  BY <2>1, <2>2, <2>3 DEF IInv
<1> QED  BY <1>1, <1>2, <1>3, <1>4, <1>5 DEF Next

\* The invariant holds in every state of every run.
THEOREM Invariance == Spec => []IInv
<1>1. Init => IInv
  BY InitIInv
<1>2. IInv /\ [Next]_vars => IInv'
  BY NextIInv
<1> QED  BY <1>1, <1>2, PTL DEF Spec

\* Every variable keeps its type.
THEOREM TypeCorrect == Spec => []TypeOK
<1>1. IInv => TypeOK
  BY DEF IInv
<1> QED  BY <1>1, Invariance, PTL

\* A private file is stored under a token that was issued to its owner, although
\* the provider may have issued another token since.
THEOREM TokensRespected == Spec => []StoredUnderOwnToken
<1>1. IInv => StoredUnderOwnToken
  BY DEF IInv
<1> QED  BY <1>1, Invariance, PTL

\* Rows and blobs agree between handlers, however handlers and writes that are
\* still on their way interleave, for every file no failure has touched since a
\* handler last completed on it.
THEOREM RowsMatchBlobs == Spec => []Consistent
<1>1. IInv => Consistent
  <2> SUFFICES ASSUME IInv, NEW f \in Files \ damaged, ~Busy(f)
               PROVE  /\ row[f] = None <=> blob[f] = None
                      /\ row[f] # None /\ pending[f] = {} => row[f].size = blob[f]
    BY DEF Consistent
  <2>1. Whole(f)
    BY DEF IInv
  <2>2. row[f] # None => row[f].size \in Nat
    BY StorageAssumption DEF IInv, TypeOK, Rows, StorageAssumption
  <2>3. None \notin Nat
    BY StorageAssumption DEF StorageAssumption
  <2> QED  BY <2>1, <2>2, <2>3 DEF Whole, Written
<1> QED  BY <1>1, Invariance, PTL

\* A row disappears only in a deletion its owner asked for: the owner a deletion
\* checked before it unlinked the blob still owns the row when it goes.
THEOREM RowsRemovedByOwner == Spec => OnlyOwnerRemoves
<1> DEFINE Removal == \A f \in Files : row[f] # None /\ row'[f] = None =>
                        \E h \in handlers : h.op = "delete" /\ h.file = f /\ h.from = row[f].owner
<1>1. ASSUME IInv, [Next]_vars PROVE [Removal]_vars
  <2> SUFFICES ASSUME NEW f \in Files, row[f] # None, row'[f] = None
               PROVE  \E h \in handlers : h.op = "delete" /\ h.file = f /\ h.from = row[f].owner
    BY DEF Removal
  <2>1. row \in [Files -> Rows \cup {None}] /\ None \notin Rows
    BY <1>1, StorageAssumption DEF IInv, TypeOK, StorageAssumption
  <2>2. ASSUME NEW h \in handlers, RemoveRow(h)
        PROVE  \E g \in handlers : g.op = "delete" /\ g.file = f /\ g.from = row[f].owner
    <3>1. h.op = "delete" /\ h.file = f
      BY <2>1, <2>2 DEF RemoveRow
    <3>2. h.from = row[f].owner
      BY <1>1, <3>1, HandlerFacts DEF Progress
    <3> QED  BY <3>1, <3>2
  <2>3. ASSUME NEW h \in handlers, StoreRow(h) PROVE FALSE
    <3>1. row'[f] = row[f] \/ row'[f] = [owner |-> h.from, token |-> h.token,
                                          public |-> h.public, size |-> h.size]
      BY <2>1, <2>3 DEF StoreRow
    <3>2. [owner |-> h.from, token |-> h.token, public |-> h.public, size |-> h.size] \in Rows
      BY <1>1, HandlerFacts DEF Rows
    <3> QED  BY <2>1, <3>1, <3>2
  <2>4. ASSUME NEW h \in handlers, UpdateRow(h) PROVE FALSE
    <3>1. IInv'
      BY <1>1, <2>4, UpdateRowStep
    <3>2. h.file \in Files /\ h.public \in BOOLEAN /\ h.size \in Sizes
      BY <1>1, HandlerFacts
    <3>3. row[h.file] # None => [row[h.file] EXCEPT !.public = h.public, !.size = h.size] \in Rows
      BY <2>1, <3>2 DEF Rows
    <3>4. row'[f] = row[f] \/ (row[h.file] # None /\ f = h.file /\
            row'[f] = [row[h.file] EXCEPT !.public = h.public, !.size = h.size])
      BY <2>1, <2>4, <3>2 DEF UpdateRow
    <3> QED  BY <2>1, <3>3, <3>4
  <2>5. ASSUME NEW p \in Peers, NEW g \in Files, NEW public \in BOOLEAN,
               ChangeAccess(p, g, kept[p][g], public)
        PROVE  FALSE
    <3>1. row[g] \in Rows
      BY <2>1, <2>5 DEF ChangeAccess, Authorized
    <3>2. [row[g] EXCEPT !.public = public] \in Rows
      BY <3>1 DEF Rows
    <3>3. row'[f] = row[f] \/ row'[f] = [row[g] EXCEPT !.public = public]
      BY <2>1, <2>5 DEF ChangeAccess
    <3> QED  BY <2>1, <3>2, <3>3
  <2>6. row' # row
    OBVIOUS
  <2>7. Request => \E p \in Peers, g \in Files, public \in BOOLEAN :
                     ChangeAccess(p, g, kept[p][g], public)
    <3>1. \A p, size, now : Reserve(p, size, now) => row' = row
      BY DEF Reserve
    <3>2. \A p, g, public, tok, sent, size : BeginUpload(p, g, public, tok, sent, size) => row' = row
      BY DEF BeginUpload
    <3>3. \A p, g, tok : BeginDelete(p, g, tok) => row' = row
      BY DEF BeginDelete
    <3>4. \A p, g, tok, public, size : BeginUpdate(p, g, tok, public, size) => row' = row
      BY DEF BeginUpdate
    <3> QED  BY <2>6, <3>1, <3>2, <3>3, <3>4 DEF Request
  <2> QED  BY <1>1, <2>2, <2>3, <2>4, <2>5, <2>6, <2>7
           DEF Next, Step, WriteBlob, RemoveBlob, Fail, Flush, Crash, vars
<1>2. [][Removal]_vars => OnlyOwnerRemoves
  BY PTL DEF OnlyOwnerRemoves
<1> QED  BY <1>1, <1>2, Invariance, PTL DEF Spec
=============================================================================

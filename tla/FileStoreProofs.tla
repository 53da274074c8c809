--------------------------- MODULE FileStoreProofs ---------------------------
(***************************************************************************)
(* StorageProvider implements FileStore: every step of the provider is one *)
(* operation of the abstract store or changes nothing it shows.            *)
(*                                                                         *)
(* The one fact needed beyond the invariant of StorageProviderProofs is    *)
(* that the token a handler checked stays in force until it is done: no    *)
(* reservation, which would replace it, runs at the same time.             *)
(***************************************************************************)
EXTENDS StorageProviderProofs

InForce(h) ==
  IF h.op = "upload" /\ h.public
  THEN h.token = NoToken
  ELSE h.token # NoToken /\ token[h.from] = h.token

TokensInForce == \A h \in handlers : InForce(h)

\* A handler starts with a token in force.
LEMMA StartInForce ==
  ASSUME NEW h, Idle, Start(h), InForce(h), UNCHANGED token
  PROVE  TokensInForce'
<1>1. handlers' = {h}
  BY DEF Idle, Start
<1> QED  BY <1>1 DEF TokensInForce, InForce

LEMMA RequestInForce ==
  ASSUME TokensInForce, Request
  PROVE  TokensInForce'
<1>1. ASSUME NEW p \in Peers, NEW size \in Sizes, NEW now \in Seconds, Reserve(p, size, now)
      PROVE  TokensInForce'
  BY <1>1 DEF Reserve, Idle, TokensInForce
<1>2. ASSUME NEW p \in Peers, NEW f \in Files, NEW public \in BOOLEAN, NEW tok,
             NEW sent \in Sizes, NEW size \in Sizes, BeginUpload(p, f, public, tok, sent, size)
      PROVE  TokensInForce'
  <2> DEFINE h == Handler("upload", p, f, "write", IF public THEN NoToken ELSE tok, public, size)
  <2>1. InForce(h)
    BY <1>2 DEF BeginUpload, Handler, InForce
  <2> HIDE DEF h
  <2> QED  BY <1>2, <2>1, StartInForce DEF BeginUpload, h
<1>3. ASSUME NEW p \in Peers, NEW f \in Files, NEW tok, BeginDelete(p, f, tok)
      PROVE  TokensInForce'
  <2> DEFINE h == Handler("delete", p, f, "remove", tok, row[f].public, row[f].size)
  <2>1. InForce(h)
    BY <1>3 DEF BeginDelete, Authorized, Handler, InForce
  <2> HIDE DEF h
  <2> QED  BY <1>3, <2>1, StartInForce DEF BeginDelete, h
<1>4. ASSUME NEW p \in Peers, NEW f \in Files, NEW tok, NEW public \in BOOLEAN,
             NEW size \in Sizes, BeginUpdate(p, f, tok, public, size)
      PROVE  TokensInForce'
  <2> DEFINE h == Handler("update", p, f, "remove", tok, public, size)
  <2>1. InForce(h)
    BY <1>4 DEF BeginUpdate, Authorized, Handler, InForce
  <2> HIDE DEF h
  <2> QED  BY <1>4, <2>1, StartInForce DEF BeginUpdate, h
<1>5. ASSUME NEW p \in Peers, NEW f \in Files, NEW tok, NEW public \in BOOLEAN,
             ChangeAccess(p, f, tok, public)
      PROVE  TokensInForce'
  BY <1>5 DEF ChangeAccess, Idle, TokensInForce
<1> QED  BY <1>1, <1>2, <1>3, <1>4, <1>5 DEF Request

\* The running handler keeps its token from stage to stage.
LEMMA StepInForce ==
  ASSUME IInv, TokensInForce, NEW h \in handlers, Step(h)
  PROVE  TokensInForce'
<1>1. handlers = {h} /\ h \in HandlerType /\ InForce(h)
  BY HandlerFacts DEF TokensInForce
<1>2. token' = token
  BY DEF Step, WriteBlob, StoreRow, RemoveBlob, RemoveRow, UpdateRow, Fail
<1>3. CASE handlers' = {}
  BY <1>3 DEF TokensInForce
<1>4. CASE WriteBlob(h)
  <2>1. PICK a \in BOOLEAN : a = (pending[h.file] = {})
    OBVIOUS
  <2>2. handlers' = {[h EXCEPT !.stage = "row", !.alone = a]}
    BY <1>1, <1>4, <2>1 DEF WriteBlob
  <2>3. InForce([h EXCEPT !.stage = "row", !.alone = a])'
    BY <1>1, <1>2 DEF InForce, HandlerType
  <2> QED  BY <2>2, <2>3 DEF TokensInForce
<1>5. CASE RemoveBlob(h)
  <2>1. PICK s \in {"row", "write"} : handlers' = {[h EXCEPT !.stage = s]}
    BY <1>1, <1>5 DEF RemoveBlob, Goto
  <2>2. InForce([h EXCEPT !.stage = s])'
    BY <1>1, <1>2 DEF InForce, HandlerType
  <2> QED  BY <2>1, <2>2 DEF TokensInForce
<1> QED  BY <1>1, <1>3, <1>4, <1>5 DEF Step, StoreRow, RemoveRow, UpdateRow, Fail, Finish

LEMMA NextInForce == IInv /\ TokensInForce /\ [Next]_vars => TokensInForce'
<1> SUFFICES ASSUME IInv, TokensInForce, [Next]_vars PROVE TokensInForce'
  OBVIOUS
<1>1. CASE Request
  BY <1>1, RequestInForce
<1>2. ASSUME NEW h \in handlers, Step(h) PROVE TokensInForce'
  BY <1>2, StepInForce
<1>3. ASSUME NEW f \in Files, NEW n \in pending[f], Flush(f, n) PROVE TokensInForce'
  BY <1>3 DEF Flush, TokensInForce, InForce
<1>4. CASE Crash
  BY <1>4 DEF Crash, TokensInForce
<1>5. CASE UNCHANGED vars
  BY <1>5 DEF vars, TokensInForce, InForce
<1> QED  BY <1>1, <1>2, <1>3, <1>4, <1>5 DEF Next

-----------------------------------------------------------------------------
(* The steps of the provider, as the abstract store sees them *)

Unseen == UNCHANGED <<token, row>>

LEMMA RequestRefines ==
  ASSUME IInv, Request
  PROVE  Store!Next \/ Unseen
<1>1. ASSUME NEW p \in Peers, NEW size \in Sizes, NEW now \in Seconds, Reserve(p, size, now)
      PROVE  Store!Next
  <2>1. [at |-> now, size |-> size] \in Tokens
    BY DEF Tokens
  <2>2. Store!Grant(p, [at |-> now, size |-> size])
    BY <1>1 DEF Reserve, Store!Grant
  <2> QED  BY <2>1, <2>2 DEF Store!Next
<1>2. ASSUME NEW p \in Peers, NEW f \in Files, NEW public \in BOOLEAN,
             ChangeAccess(p, f, kept[p][f], public)
      PROVE  Store!Next
  <2>1. /\ row[f] \in Rows /\ row \in [Files -> Rows \cup {None}]
        /\ row' = [row EXCEPT ![f].public = public] /\ token' = token
    BY <1>2 DEF ChangeAccess, Authorized, IInv, TypeOK
  <2>2. row' = [row EXCEPT ![f].public = public, ![f].size = row[f].size]
    BY <2>1 DEF Rows
  <2>3. Store!Owns(p, f)
    BY <1>2 DEF ChangeAccess, Authorized, NoToken, Store!Owns, Store!Granted
  <2>4. Store!Change(p, f, public, row[f].size)
    BY <2>1, <2>2, <2>3 DEF Store!Change
  <2>5. row[f].size \in Sizes
    BY <2>1 DEF Rows
  <2> QED  BY <2>4, <2>5 DEF Store!Next
<1> QED  BY <1>1, <1>2 DEF Request, BeginUpload, BeginDelete, BeginUpdate, Unseen

LEMMA StepRefines ==
  ASSUME IInv, TokensInForce, NEW h \in handlers, Step(h)
  PROVE  Store!Next \/ Unseen
<1>1. /\ h \in HandlerType /\ h.from \in Peers /\ h.file \in Files
      /\ h.public \in BOOLEAN /\ h.size \in Sizes /\ InForce(h) /\ Progress(h)
  BY HandlerFacts DEF TokensInForce
<1>2. CASE StoreRow(h)
  <2>1. h.token = (IF h.public THEN None ELSE token[h.from]) /\ (h.public \/ token[h.from] # None)
    BY <1>1, <1>2 DEF StoreRow, InForce, NoToken
  <2>2. Store!Put(h.from, h.file, h.public, h.size)
    BY <1>2, <2>1 DEF StoreRow, Store!Put, Store!Granted
  <2> QED  BY <1>1, <2>2 DEF Store!Next
<1>3. ASSUME h.op \in {"delete", "update"} PROVE Store!Owns(h.from, h.file)
  BY <1>1, <1>3 DEF InForce, Progress, NoToken, Store!Owns, Store!Granted
<1>4. CASE RemoveRow(h)
  <2>1. Store!Remove(h.from, h.file)
    BY <1>3, <1>4 DEF RemoveRow, Store!Remove
  <2> QED  BY <1>1, <2>1 DEF Store!Next
<1>5. CASE UpdateRow(h)
  <2>1. Store!Change(h.from, h.file, h.public, h.size)
    BY <1>1, <1>3, <1>5 DEF UpdateRow, Progress, Store!Change
  <2> QED  BY <1>1, <2>1 DEF Store!Next
<1> QED  BY <1>2, <1>4, <1>5 DEF Step, WriteBlob, RemoveBlob, Fail, Unseen

\* The provider keeps the promises of the abstract store, for every set of peers
\* and files and every capacity, through any interleaving of handlers, delayed
\* writes, failures and restarts.
THEOREM Implementation == Spec => ImplementsStore
<1>1. Init => Store!Init
  BY DEF Init, Store!Init, NoToken
<1>2. Init => TokensInForce
  BY DEF Init, TokensInForce
<1>3. IInv /\ TokensInForce /\ [Next]_vars => [Store!Next]_<<token, row>>
  <2> SUFFICES ASSUME IInv, TokensInForce, [Next]_vars PROVE Store!Next \/ Unseen
    BY DEF Unseen
  <2>1. ASSUME NEW h \in handlers, Step(h) PROVE Store!Next \/ Unseen
    BY <2>1, StepRefines
  <2> QED  BY <2>1, RequestRefines DEF Next, Flush, Crash, vars, Unseen
<1> QED  BY <1>1, <1>2, <1>3, NextInForce, Invariance, PTL DEF Spec, ImplementsStore, Store!Spec
=============================================================================

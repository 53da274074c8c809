-------------------------- MODULE StorageProvider --------------------------
(***************************************************************************)
(* A peer that stores other peers' files: storage reservation              *)
(* (src/manager/storage_handler.rs), the handlers of uploads, deletions,   *)
(* updates and access changes (src/manager/file_handler.rs), the tables    *)
(* they write (src/db/storage.rs, src/db/tokens.rs) and the directory of   *)
(* blobs.  A file lives in two places, a blob in the directory and a row   *)
(* in the database, that the handlers change one after the other; the      *)
(* process may stop, or an operation on the disk fail, in between.         *)
(***************************************************************************)
EXTENDS Integers, Sequences, FiniteSets, Functions

CONSTANTS
  Peers,        \* the peers that store files here
  Files,        \* file hashes
  Sizes,        \* sizes of contents, as sent and as decompressed
  Capacity,     \* storage_size of config.toml
  Word,         \* 2^64: sizes are u64, subtraction wraps (release build)
  Seconds,      \* bound: the times reservations are made at
  MaxTokens,    \* bound: different tokens in a run
  None          \* no blob, no row, no token

\* A token says what was reserved and when, in seconds, but not by whom; its
\* signature is a function of the rest (deterministic ECDSA).
Tokens == [at : Seconds, size : Sizes]

\* An empty token string, the one a public file is stored with.
NoToken == None

Rows == [owner : Peers, token : Tokens \cup {NoToken}, public : BOOLEAN, size : Sizes]

ASSUME StorageAssumption ==
  /\ Sizes \subseteq Nat \ {0}
  /\ Capacity \in Nat
  /\ Word \in Nat /\ Word > Capacity
  /\ None \notin Nat \cup Tokens \cup Rows

VARIABLES
  token,        \* TOKENS_TABLE: the token last issued to each peer
  issued,       \* the tokens each peer may know: responses may be lost or late
  row,          \* STORAGE_TABLE
  blob,         \* the size of the file in the blobs directory
  pending,      \* writes handed to the blocking pool, not yet on the disk
  handlers,     \* the packet handlers that are running
  kept,         \* kept[p][f]: the token in p's own copy of the row of f
  damaged       \* files whose last change was cut short, until it is redone

vars == <<token, issued, row, blob, pending, handlers, kept, damaged>>

\* get_storage_size and get_storage_free_space
Used == FoldFunction(LAMBDA x, y : x + y, 0,
                     [f \in Files |-> IF blob[f] = None THEN 0 ELSE blob[f]])
FreeSpace == (Capacity - Used) % Word

Init ==
  /\ token = [p \in Peers |-> NoToken]
  /\ issued = [p \in Peers |-> {}]
  /\ row = [f \in Files |-> None]
  /\ blob = [f \in Files |-> None]
  /\ pending = [f \in Files |-> {}]
  /\ handlers = {}
  /\ kept = [p \in Peers |-> [f \in Files |-> NoToken]]
  /\ damaged = {}

-----------------------------------------------------------------------------
(* Dispatch.  handle_incoming_packets spawns a handler per packet but waits *)
(* for it before it receives the next one.                                  *)

\* Variant with a bug: a second handler runs while the first one has not finished.
RoomForOne == Cardinality(handlers) < 2

Idle == handlers = {}

Start(h) == handlers' = handlers \cup {h}
Goto(h, stage) == handlers' = (handlers \ {h}) \cup {[h EXCEPT !.stage = stage]}
Finish(h) == handlers' = handlers \ {h}

Handler(op, from, f, stage, tok, public, size) ==
  [op |-> op, from |-> from, file |-> f, stage |-> stage, token |-> tok,
   public |-> public, size |-> size, alone |-> TRUE]

-----------------------------------------------------------------------------
(* Reservation *)

\* A token is issued when there is room for the reservation now; nothing is
\* set aside, and it replaces the one the peer had.
Reserve(p, size, now) ==
  LET new == [at |-> now, size |-> size]
  IN  /\ Idle
      /\ Cardinality(UNION {issued[q] : q \in Peers} \cup {new}) <= MaxTokens
      /\ FreeSpace >= size
      /\ token' = [token EXCEPT ![p] = new]
      /\ issued' = [issued EXCEPT ![p] = @ \cup {new}]
      /\ UNCHANGED <<row, blob, pending, handlers, kept, damaged>>

-----------------------------------------------------------------------------
(* Upload *)

\* handle_file_upload up to the creation of the blob: sent is the length of
\* the contents, size the length after decompression.
BeginUpload(p, f, public, tok, sent, size) ==
  /\ Idle
  /\ \/ public
     \/ tok # NoToken /\ token[p] = tok /\ sent <= tok.size
  /\ FreeSpace >= sent
  /\ Start(Handler("upload", p, f, "write", IF public THEN NoToken ELSE tok, public, size))
  /\ UNCHANGED <<token, issued, row, blob, pending, kept, damaged>>

\* File::create empties the blob; write_all leaves the contents with the
\* blocking pool.  If a write of an earlier handler is still there the two
\* overlap and the blob may end up with either of them.
WriteBlob(h) ==
  /\ h.stage = "write"
  /\ blob' = [blob EXCEPT ![h.file] = 0]
  /\ pending' = [pending EXCEPT ![h.file] = @ \cup {h.size}]
  /\ handlers' = (handlers \ {h}) \cup
                   {[h EXCEPT !.stage = "row", !.alone = (pending[h.file] = {})]}
  /\ UNCHANGED <<token, issued, row, kept, damaged>>

\* Variant with a bug: the contents are appended.
FlushAppends(f, n) ==
  /\ n \in pending[f]
  /\ blob' = [blob EXCEPT ![f] = IF @ = None THEN n ELSE @ + n]
  /\ pending' = [pending EXCEPT ![f] = @ \ {n}]
  /\ UNCHANGED <<token, issued, row, handlers, kept, damaged>>

\* The contents reach the disk.
Flush(f, n) ==
  /\ n \in pending[f]
  /\ blob' = [blob EXCEPT ![f] = IF @ = None \/ @ < n THEN n ELSE @]
  /\ pending' = [pending EXCEPT ![f] = @ \ {n}]
  /\ UNCHANGED <<token, issued, row, handlers, kept, damaged>>

\* The file is whole again once one handler has written blob and row, unless its
\* write overlapped an earlier one.
Repaired(h) == IF h.alone THEN damaged \ {h.file} ELSE damaged \cup {h.file}

\* Variant with a bug: the row of the same hash keeps its owner.
StoreRowKeepsOwner(h) ==
  /\ h.op = "upload" /\ h.stage = "row"
  /\ row' = [row EXCEPT ![h.file] =
               [owner |-> IF @ = None THEN h.from ELSE @.owner, token |-> h.token,
                public |-> h.public, size |-> h.size]]
  /\ kept' \in {kept, [kept EXCEPT ![h.from][h.file] = h.token]}
  /\ damaged' = Repaired(h)
  /\ Finish(h)
  /\ UNCHANGED <<token, issued, blob, pending>>

\* add_storage_fragment, which replaces the row of the same hash whoever owned
\* it, then the file_saved packet, which the client may or may not receive.
StoreRow(h) ==
  /\ h.op = "upload" /\ h.stage = "row"
  /\ row' = [row EXCEPT ![h.file] = [owner |-> h.from, token |-> h.token,
                                     public |-> h.public, size |-> h.size]]
  /\ kept' \in {kept, [kept EXCEPT ![h.from][h.file] = h.token]}
  /\ damaged' = Repaired(h)
  /\ Finish(h)
  /\ UNCHANGED <<token, issued, blob, pending>>

-----------------------------------------------------------------------------
(* The owner's other operations *)

\* Variant with a bug: a peer without a token passes with the empty one.
AuthorizedWithoutToken(p, f, tok) ==
  /\ row[f] # None
  /\ row[f].owner = p
  /\ token[p] = tok

\* The checks delete, update and access change start with.
Authorized(p, f, tok) ==
  /\ row[f] # None
  /\ row[f].owner = p
  /\ tok # NoToken
  /\ token[p] = tok

BeginDelete(p, f, tok) ==
  /\ Idle
  /\ Authorized(p, f, tok)
  /\ Start(Handler("delete", p, f, "remove", tok, row[f].public, row[f].size))
  /\ UNCHANGED <<token, issued, row, blob, pending, kept, damaged>>

BeginUpdate(p, f, tok, public, size) ==
  /\ Idle
  /\ Authorized(p, f, tok)
  /\ Start(Handler("update", p, f, "remove", tok, public, size))
  /\ UNCHANGED <<token, issued, row, blob, pending, kept, damaged>>

\* The blob is unlinked if it is there; a pending write then goes nowhere.
RemoveBlob(h) ==
  /\ h.stage = "remove"
  /\ blob' = [blob EXCEPT ![h.file] = None]
  /\ pending' = [pending EXCEPT ![h.file] = {}]
  /\ Goto(h, IF h.op = "delete" THEN "row" ELSE "write")
  /\ UNCHANGED <<token, issued, row, kept, damaged>>

\* remove_fragment
RemoveRow(h) ==
  /\ h.op = "delete" /\ h.stage = "row"
  /\ row' = [row EXCEPT ![h.file] = None]
  /\ damaged' = damaged \ {h.file}
  /\ Finish(h)
  /\ UNCHANGED <<token, issued, blob, pending, kept>>

\* Variant with a bug: the row keeps the size of the old contents.
UpdateRowKeepsSize(h) ==
  /\ h.op = "update" /\ h.stage = "row"
  /\ IF row[h.file] = None
     THEN UNCHANGED <<row, damaged>>
     ELSE /\ row' = [row EXCEPT ![h.file].public = h.public]
          /\ damaged' = Repaired(h)
  /\ Finish(h)
  /\ UNCHANGED <<token, issued, blob, pending, kept>>

\* update_fragment_metadata
UpdateRow(h) ==
  /\ h.op = "update" /\ h.stage = "row"
  /\ IF row[h.file] = None
     THEN UNCHANGED <<row, damaged>>
     ELSE /\ row' = [row EXCEPT ![h.file].public = h.public, ![h.file].size = h.size]
          /\ damaged' = Repaired(h)
  /\ Finish(h)
  /\ UNCHANGED <<token, issued, blob, pending, kept>>

\* handle_file_access_change: one write of the row
ChangeAccess(p, f, tok, public) ==
  /\ Idle
  /\ Authorized(p, f, tok)
  /\ row' = [row EXCEPT ![f].public = public]
  /\ UNCHANGED <<token, issued, blob, pending, handlers, kept, damaged>>

-----------------------------------------------------------------------------
(* Failures *)

\* The file has been changed by h and is not finished.
Touched(h) == h.stage = "row" \/ (h.op = "update" /\ h.stage = "write")

\* A disk operation fails, or the contents of an update cannot be decompressed
\* after the old blob is gone: the handler returns an error and undoes nothing.
\* File::create may have emptied the blob.
Fail(h) ==
  /\ \/ UNCHANGED blob /\ damaged' = IF Touched(h) THEN damaged \cup {h.file} ELSE damaged
     \/ /\ h.stage = "write"
        /\ blob' = [blob EXCEPT ![h.file] = 0]
        /\ damaged' = damaged \cup {h.file}
  /\ Finish(h)
  /\ UNCHANGED <<token, issued, row, pending, kept>>

\* The process stops and starts again: the running handler and the writes of
\* the blocking pool are lost, database and directory stay.
Crash ==
  /\ handlers # {} \/ \E f \in Files : pending[f] # {}
  /\ handlers' = {}
  /\ pending' = [f \in Files |-> {}]
  /\ damaged' = damaged \cup {h.file : h \in {g \in handlers : Touched(g)}}
                        \cup {f \in Files : pending[f] # {}}
  /\ UNCHANGED <<token, issued, row, blob, kept>>

-----------------------------------------------------------------------------
Request ==
  \E p \in Peers :
    \/ \E size \in Sizes, now \in Seconds : Reserve(p, size, now)
    \/ \E f \in Files :
         \/ \E public \in BOOLEAN, tok \in issued[p] \cup {NoToken}, sent, size \in Sizes :
              BeginUpload(p, f, public, tok, sent, size)
         \/ BeginDelete(p, f, kept[p][f])
         \/ \E tok \in issued[p], public \in BOOLEAN, size \in Sizes :
              BeginUpdate(p, f, tok, public, size)
         \/ \E public \in BOOLEAN : ChangeAccess(p, f, kept[p][f], public)

Step(h) ==
  \/ WriteBlob(h) \/ StoreRow(h) \/ RemoveBlob(h) \/ RemoveRow(h) \/ UpdateRow(h)
  \/ Fail(h)

Next ==
  \/ Request
  \/ \E h \in handlers : Step(h)
  \/ \E f \in Files : \E n \in pending[f] : Flush(f, n)
  \/ Crash

Spec == Init /\ [][Next]_vars

-----------------------------------------------------------------------------
(* Properties *)

HandlerType ==
  [op : {"upload", "delete", "update"}, from : Peers, file : Files,
   stage : {"write", "row", "remove"}, token : Tokens \cup {NoToken},
   public : BOOLEAN, size : Sizes, alone : BOOLEAN]

\* Every variable has its type.
TypeOK ==
  /\ token \in [Peers -> Tokens \cup {NoToken}]
  /\ issued \in [Peers -> SUBSET Tokens]
  /\ row \in [Files -> Rows \cup {None}]
  /\ blob \in [Files -> Sizes \cup {0, None}]
  /\ pending \in [Files -> SUBSET Sizes]
  /\ handlers \subseteq HandlerType
  /\ kept \in [Peers -> [Files -> Tokens \cup {NoToken}]]
  /\ damaged \subseteq Files

Busy(f) == \E h \in handlers : h.file = f

\* Between handlers, a file that was not damaged by a failure has a row exactly
\* if it has a blob, and once its writes have landed the blob has the size the
\* row says; a handler that completes repairs what an earlier failure left.
Consistent ==
  \A f \in Files \ damaged : ~Busy(f) =>
    /\ row[f] = None <=> blob[f] = None
    /\ row[f] # None /\ pending[f] = {} => row[f].size = blob[f]

\* A row disappears only in a deletion its owner asked for, although the owner
\* was checked two disk operations earlier.
OnlyOwnerRemoves ==
  [][\A f \in Files : row[f] # None /\ row'[f] = None =>
       \E h \in handlers : h.op = "delete" /\ h.file = f /\ h.from = row[f].owner]_vars

\* The provider keeps the promises of FileStore: whatever a handler checked
\* before its disk operations, the owner and the token in force, still holds
\* when it changes the row, and failures and restarts look like nothing at all.
Store == INSTANCE FileStore WITH grant <- token, table <- row
ImplementsStore == Store!Spec

\* A private file is stored under a token that was issued to its owner.
StoredUnderOwnToken ==
  \A f \in Files : row[f] # None /\ row[f].token # NoToken =>
    row[f].token \in issued[row[f].owner]

\* The blobs take no more than the configured storage size (config.toml:4).
WithinCapacity == Used <= Capacity
=============================================================================

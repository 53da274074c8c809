---------------------------- MODULE TokenLedger ----------------------------
(***************************************************************************)
(* The tokens table of a peer that stores its files at other peers         *)
(* (src/peer/peer_api.rs, src/db/tokens.rs, src/db/storage.rs,             *)
(* src/manager/ProcessPackets.rs, src/manager/storage_handler.rs).         *)
(*                                                                         *)
(* One table has two kinds of rows: under its own key a peer keeps the     *)
(* token it received last, and under the key of every other peer the token *)
(* it issued to that peer last.  The own row is a ledger: it says how much *)
(* of the token is used.  Packet handlers run one at a time; the commands  *)
(* of the consoles, one console per server connection, run beside them and *)
(* read and write a row in separate transactions.                          *)
(***************************************************************************)
EXTENDS Naturals

CONSTANTS
  Peers,
  Consoles,     \* the connections of a peer to servers: each has a console
  Reserved,     \* sizes of reservations
  Sizes,        \* sizes of files
  Rooms,        \* amounts of free disk space
  Copies,       \* a response arrives twice by every server that relays it
  MaxTime,      \* bound: seconds on the clock
  MaxTokens,    \* bound: reservations
  MaxJobs,      \* bound: uploads and updates
  None

Times == 0 .. MaxTime
Tokens == [by : Peers, size : Reserved, at : Times]

RowType == [token : Tokens, free : Nat, used : Nat]
JobType == [op : {"upload", "update"}, key : Peers, token : Tokens, free : Nat, used : Nat,
            size : Sizes, public : BOOLEAN, stage : {"check", "send", "count"}]
RefreshType == [key : Peers, row : RowType]
PacketType ==
  [kind : {"response"}, to : Peers, from : Peers, token : Tokens, copy : Copies] \cup
  [kind : {"upload"}, to : Peers, from : Peers, token : Tokens, public : BOOLEAN] \cup
  [kind : {"update"}, to : Peers, from : Peers, token : Tokens] \cup
  [kind : {"saved"}, to : Peers, from : Peers]

ASSUME LedgerAssumption ==
  /\ Reserved \subseteq Nat /\ Sizes \subseteq Nat /\ Rooms \subseteq Nat
  /\ MaxTime \in Nat /\ MaxTokens \in Nat /\ MaxJobs \in Nat
  /\ None \notin RowType \cup JobType \cup RefreshType

VARIABLES
  now,          \* SystemTime::now, in seconds
  tokens,       \* tokens[n][k]: the TokenInfo in n's TOKENS_TABLE under the key k
  packets,      \* packets on their way
  job,          \* job[n][i]: upload_file or update_file called at console i of n
  refresh,      \* refresh[n]: the TokenInfo that n's FileData handler is about to write
  holders,      \* holders[n]: the storage peers that n's own rows name
  issues, jobs, \* reservations and jobs so far
  spent,        \* spent[n][t]: the bytes that n has uploaded with the token t
  disturbed     \* disturbed[n]: something came between the steps of n's uploads

vars == <<now, tokens, packets, job, refresh, holders, issues, jobs, spent, disturbed>>

Row(t, free) == [token |-> t, free |-> free, used |-> 0]

Response(c, t, i) == [kind |-> "response", to |-> c, from |-> t.by, token |-> t, copy |-> i]
Uploaded(c, p, t, public) == [kind |-> "upload", to |-> p, from |-> c, token |-> t, public |-> public]
Updated(c, p, t) == [kind |-> "update", to |-> p, from |-> c, token |-> t]
Saved(p, c) == [kind |-> "saved", to |-> c, from |-> p]

Init ==
  /\ now = 0
  /\ tokens = [n \in Peers |-> [k \in Peers |-> None]]
  /\ packets = {}
  /\ job = [n \in Peers |-> [i \in Consoles |-> None]]
  /\ refresh = [n \in Peers |-> None]
  /\ holders = [n \in Peers |-> {}]
  /\ issues = 0 /\ jobs = 0
  /\ spent = [n \in Peers |-> [t \in Tokens |-> 0]]
  /\ disturbed = [n \in Peers |-> FALSE]

Tick ==
  /\ now < MaxTime
  /\ now' = now + 1
  /\ UNCHANGED <<tokens, packets, job, refresh, holders, issues, jobs, spent, disturbed>>

-----------------------------------------------------------------------------
(* Reservation *)

\* handle_incoming_packets waits for a handler before it starts the next one.
Idle(n) == refresh[n] = None

\* handle_storage_reservation_request at p: the request of c went to every peer
\* but c.  The row of c says how much room p has, not how much c asked for.  The
\* server relays the response as a packet of its own and as it is.
Reserve(p, c, size, room) ==
  LET t == [by |-> p, size |-> size, at |-> now]
  IN  /\ Idle(p)
      /\ p # c
      /\ issues < MaxTokens
      /\ room >= size
      /\ issues' = issues + 1
      /\ tokens' = [tokens EXCEPT ![p][c] = Row(t, room)]
      /\ packets' = packets \cup {Response(c, t, i) : i \in Copies}
      /\ UNCHANGED <<now, job, refresh, holders, jobs, spent, disturbed>>

Uploading(n) == \E i \in Consoles : job[n][i] # None /\ job[n][i].op = "upload"

\* What a response does besides storing the token.
TokenStored(m) ==
  /\ Idle(m.to)
  /\ m \in packets /\ m.kind = "response"
  /\ packets' = packets \ {m}
  /\ disturbed' = [disturbed EXCEPT ![m.to] = Uploading(m.to) \/ spent[m.to][m.token] # 0]
  /\ UNCHANGED <<now, job, refresh, holders, issues, jobs, spent>>

\* Variant with a bug: the used space is kept.
StoreTokenKeepsUsed(m) ==
  /\ TokenStored(m)
  /\ LET row == tokens[m.to][m.to]
     IN  tokens' = [tokens EXCEPT ![m.to][m.to] =
           [Row(m.token, m.token.size) EXCEPT !.used = IF row = None THEN 0 ELSE row.used]]

\* The StorageReservationResponse branch of process_packet: whatever the own row
\* was, and if it was the same token, it starts anew.
StoreToken(m) ==
  /\ TokenStored(m)
  /\ tokens' = [tokens EXCEPT ![m.to][m.to] = Row(m.token, m.token.size)]

-----------------------------------------------------------------------------
(* upload_file and update_file: transactions and sends *)

Job(op, k, row, size, public) ==
  [op |-> op, key |-> k, token |-> row.token, free |-> row.free, used |-> 0,
   size |-> size, public |-> public, stage |-> "check"]

Begin(n, i, op, k, size, public) ==
  /\ job[n][i] = None
  /\ jobs < MaxJobs
  /\ jobs' = jobs + 1
  /\ tokens[n][k] # None
  /\ job' = [job EXCEPT ![n][i] = Job(op, k, tokens[n][k], size, public)]

\* get_best_token: only the own row is a candidate.
BeginUpload(n, i, size, public) ==
  /\ Begin(n, i, "upload", n, size, public)
  /\ tokens[n][n].free >= size /\ tokens[n][n].free > 0
  /\ disturbed' = [disturbed EXCEPT ![n] = @ \/ Uploading(n)]
  /\ UNCHANGED <<now, tokens, packets, refresh, holders, issues, spent>>

\* get_token in update_file: the row under the storage peer's key.
BeginUpdate(n, i, k, size, public) ==
  /\ k \in holders[n]
  /\ Begin(n, i, "update", k, size, public)
  /\ UNCHANGED <<now, tokens, packets, refresh, holders, issues, spent, disturbed>>

\* get_token_used_space and the comparison; without enough space the command ends.
\* Only a file that is public is sent anyway.
Check(n, i) ==
  LET j == job[n][i]
      used == tokens[n][j.key].used
  IN  /\ j # None /\ j.stage = "check"
      /\ job' = [job EXCEPT ![n][i] =
                   IF used + j.size > j.free /\ ~j.public
                   THEN None
                   ELSE [j EXCEPT !.used = used, !.stage = "send"]]
      /\ UNCHANGED <<now, tokens, packets, refresh, holders, issues, jobs, spent, disturbed>>

\* The packet is sent to the provider that the token names; upload_file goes on
\* whether it could be sent or not.
SendUpload(n, i) ==
  LET j == job[n][i]
  IN  /\ j # None /\ j.stage = "send" /\ j.op = "upload"
      /\ packets' \in {packets, packets \cup {Uploaded(n, j.token.by, j.token, j.public)}}
      /\ job' = [job EXCEPT ![n][i].stage = "count"]
      /\ spent' = [spent EXCEPT ![n][j.token] = @ + j.size]
      /\ UNCHANGED <<now, tokens, refresh, holders, issues, jobs, disturbed>>

\* Variant with a bug: the token of the own row is sent.
SendUpdateOwnToken(n, i) ==
  LET j == job[n][i]
  IN  /\ j # None /\ j.stage = "send" /\ j.op = "update"
      /\ packets' = packets \cup {Updated(n, j.key, tokens[n][n].token)}
      /\ job' = [job EXCEPT ![n][i].stage = "count"]
      /\ UNCHANGED <<now, tokens, refresh, holders, issues, jobs, spent, disturbed>>

\* update_file sends it to the storage peer.
SendUpdate(n, i) ==
  LET j == job[n][i]
  IN  /\ j # None /\ j.stage = "send" /\ j.op = "update"
      /\ packets' = packets \cup {Updated(n, j.key, j.token)}
      /\ job' = [job EXCEPT ![n][i].stage = "count"]
      /\ UNCHANGED <<now, tokens, refresh, holders, issues, jobs, spent, disturbed>>

\* The file cannot be read, or the connection fails before anything is sent.
GiveUp(n, i) ==
  LET j == job[n][i]
  IN  /\ j # None /\ j.stage = "send"
      /\ job' = [job EXCEPT ![n][i] = None]
      /\ UNCHANGED <<now, tokens, packets, refresh, holders, issues, jobs, spent, disturbed>>

\* Variant with a bug: the TokenInfo that was read first is written back.
CountWritesBack(n, i) ==
  LET j == job[n][i]
  IN  /\ j # None /\ j.stage = "count"
      /\ tokens' = [tokens EXCEPT ![n][j.key] =
                      [token |-> j.token, free |-> j.free, used |-> j.used + j.size]]
      /\ job' = [job EXCEPT ![n][i] = None]
      /\ UNCHANGED <<now, packets, refresh, holders, issues, jobs, spent, disturbed>>

\* update_token_used_space: what was read some steps ago and the size, written to
\* the row that is there now.
Count(n, i) ==
  LET j == job[n][i]
  IN  /\ j # None /\ j.stage = "count"
      /\ tokens' = [tokens EXCEPT ![n][j.key].used = j.used + j.size]
      /\ job' = [job EXCEPT ![n][i] = None]
      /\ UNCHANGED <<now, packets, refresh, holders, issues, jobs, spent, disturbed>>

-----------------------------------------------------------------------------
(* Packets of the file handlers; module StorageProvider has what they do to files *)

\* The comparison of handle_file_upload and handle_file_update.
Authorized(m) == tokens[m.to][m.from] # None /\ tokens[m.to][m.from].token = m.token

\* A file is stored if its token is the one issued last or it is public, unless
\* it is too large; then the client is told.
HandleUpload(m) ==
  /\ m \in packets /\ m.kind = "upload"
  /\ Idle(m.to)
  /\ \/ packets' = packets \ {m}
     \/ /\ m.public \/ Authorized(m)
        /\ packets' = (packets \ {m}) \cup {Saved(m.to, m.from)}
  /\ UNCHANGED <<now, tokens, job, refresh, holders, issues, jobs, spent, disturbed>>

\* handle_file_update: nobody is told, and the tokens stay.
HandleUpdate(m) ==
  /\ m \in packets /\ m.kind = "update"
  /\ Idle(m.to)
  /\ packets' = packets \ {m}
  /\ UNCHANGED <<now, tokens, job, refresh, holders, issues, jobs, spent, disturbed>>

\* handle_file_saved adds a row of the file that names its storage peer.
HandleSaved(m) ==
  /\ m \in packets /\ m.kind = "saved"
  /\ Idle(m.to)
  /\ packets' = packets \ {m}
  /\ holders' = [holders EXCEPT ![m.to] = @ \cup {m.from}]
  /\ UNCHANGED <<now, tokens, job, refresh, issues, jobs, spent, disturbed>>

\* Variant with a bug: a missing row is not noticed.
BeginRefreshAnyRow(n, k) ==
  /\ Idle(n)
  /\ k # n
  /\ refresh' = [refresh EXCEPT ![n] = [key |-> k, row |-> tokens[n][k]]]
  /\ UNCHANGED <<now, tokens, packets, job, holders, issues, jobs, spent, disturbed>>

\* A file of the provider k arrives: update_token_free_space reads the row of k,
BeginRefresh(n, k) ==
  /\ Idle(n)
  /\ k # n
  /\ tokens[n][k] # None
  /\ refresh' = [refresh EXCEPT ![n] = [key |-> k, row |-> tokens[n][k]]]
  /\ UNCHANGED <<now, tokens, packets, job, holders, issues, jobs, spent, disturbed>>

\* and writes it back, with n's own free space, in a second transaction.
FinishRefresh(n, room) ==
  /\ refresh[n] # None
  /\ tokens' = [tokens EXCEPT ![n][refresh[n].key] = [refresh[n].row EXCEPT !.free = room]]
  /\ refresh' = [refresh EXCEPT ![n] = None]
  /\ UNCHANGED <<now, packets, job, holders, issues, jobs, spent, disturbed>>

\* A connection broke, or a server had no peer to give the packet to.
Lose(m) ==
  /\ m \in packets
  /\ packets' = packets \ {m}
  /\ UNCHANGED <<now, tokens, job, refresh, holders, issues, jobs, spent, disturbed>>

-----------------------------------------------------------------------------
Handlers ==
  \/ \E p, c \in Peers, size \in Reserved, room \in Rooms : Reserve(p, c, size, room)
  \/ \E m \in packets :
       StoreToken(m) \/ HandleUpload(m) \/ HandleUpdate(m) \/ HandleSaved(m) \/ Lose(m)
  \/ \E n, k \in Peers : BeginRefresh(n, k)
  \/ \E n \in Peers, room \in Rooms : FinishRefresh(n, room)

Commands ==
  \E n \in Peers, i \in Consoles :
    \/ \E size \in Sizes, public \in BOOLEAN :
         \/ BeginUpload(n, i, size, public)
         \/ \E k \in Peers : BeginUpdate(n, i, k, size, public)
    \/ Check(n, i) \/ SendUpload(n, i) \/ SendUpdate(n, i) \/ GiveUp(n, i) \/ Count(n, i)

Next == Tick \/ Handlers \/ Commands

Spec == Init /\ [][Next]_vars

-----------------------------------------------------------------------------
(* Properties *)

\* Every variable has its type.
TypeOK ==
  /\ now \in Times
  /\ tokens \in [Peers -> [Peers -> RowType \cup {None}]]
  /\ packets \subseteq PacketType
  /\ job \in [Peers -> [Consoles -> JobType \cup {None}]]
  /\ refresh \in [Peers -> RefreshType \cup {None}]
  /\ holders \in [Peers -> SUBSET Peers]
  /\ issues \in 0 .. MaxTokens /\ jobs \in 0 .. MaxJobs
  /\ spent \in [Peers -> [Tokens -> Nat]]
  /\ disturbed \in [Peers -> BOOLEAN]

\* The update command never changes a file: the token it sends, if it finds one at
\* all, is one that its own peer issued, and the storage peer refuses it.
UpdatesRefused == \A m \in packets : m.kind = "update" => ~Authorized(m)

\* The tokens that a peer may still upload with: in its own row, in the commands
\* that run, and on their way to it or from it.
InUse(c) ==
  {t \in Tokens :
     \/ tokens[c][c] # None /\ tokens[c][c].token = t
     \/ \E i \in Consoles :
          job[c][i] # None /\ job[c][i].op = "upload" /\ job[c][i].token = t
     \/ \E m \in packets :
          \/ m.kind = "response" /\ m.to = c /\ m.token = t
          \/ m.kind = "upload" /\ m.from = c /\ m.token = t}

\* A provider remembers the newest of the tokens it issued to a client, whatever its
\* own commands and handlers write to that row meanwhile: else the client's last
\* token would be refused for good.
NewestAtProvider ==
  \A c \in Peers : \A t \in InUse(c) :
    tokens[t.by][c] # None /\ tokens[t.by][c].token.at >= t.at

Counting(n) ==
  \E i \in Consoles :
    job[n][i] # None /\ job[n][i].op = "upload" /\ job[n][i].stage = "count"

\* The used space of the own row is what was uploaded with its token, unless the
\* uploads of two consoles overlapped, or a response came between the steps of an
\* upload or after uploads with the same token.
LedgerExact ==
  \A n \in Peers :
    tokens[n][n] # None /\ ~disturbed[n] /\ ~Counting(n)
    => tokens[n][n].used = spent[n][tokens[n][n].token]
=============================================================================

------------------------- MODULE TokenLedgerProofs -------------------------
(***************************************************************************)
(* Proofs about TokenLedger: types, whose token is under which key, the    *)
(* provider's record of the newest token, and the ledger of the own row.   *)
(***************************************************************************)
EXTENDS TokenLedger, TLAPS

USE LedgerAssumption

\* One entry of a table with two keys is replaced.
LEMMA Entry ==
  ASSUME NEW I, NEW K, NEW S, NEW f \in [I -> [K -> S]], NEW n \in I, NEW k \in K, NEW v \in S
  PROVE  /\ [f EXCEPT ![n][k] = v] \in [I -> [K -> S]]
         /\ [f EXCEPT ![n][k] = v][n][k] = v
         /\ \A a \in I, b \in K :
              a # n \/ b # k => [f EXCEPT ![n][k] = v][a][b] = f[a][b]
  OBVIOUS

LEMMA RowTyped == ASSUME NEW t \in Tokens, NEW x \in Nat PROVE Row(t, x) \in RowType
  BY DEF Row, RowType

LEMMA ResponseTyped ==
  ASSUME NEW c \in Peers, NEW t \in Tokens, NEW i \in Copies
  PROVE  Response(c, t, i) \in PacketType
  BY DEF Response, PacketType, Tokens

LEMMA SentTyped ==
  ASSUME NEW c \in Peers, NEW p \in Peers, NEW t \in Tokens, NEW public \in BOOLEAN
  PROVE  /\ Uploaded(c, p, t, public) \in PacketType
         /\ Updated(c, p, t) \in PacketType
         /\ Saved(p, c) \in PacketType
  BY DEF Uploaded, Updated, Saved, PacketType

LEMMA PacketFields ==
  ASSUME NEW m \in PacketType
  PROVE  /\ m.to \in Peers /\ m.from \in Peers
         /\ m.kind \in {"response", "upload", "update", "saved"}
         /\ m.kind # "saved" => m.token \in Tokens
  BY DEF PacketType

\* A job as it starts, and the changes that its steps make to it.
LEMMA JobTyped ==
  ASSUME NEW op \in {"upload", "update"}, NEW k \in Peers, NEW row \in RowType,
         NEW size \in Sizes, NEW public \in BOOLEAN
  PROVE  /\ Job(op, k, row, size, public) \in JobType
         /\ Job(op, k, row, size, public).op = op
         /\ Job(op, k, row, size, public).key = k
         /\ Job(op, k, row, size, public).token = row.token
         /\ Job(op, k, row, size, public).stage = "check"
  BY DEF Job, JobType, RowType

LEMMA JobSteps ==
  ASSUME NEW j \in JobType, NEW u \in Nat
  PROVE  /\ [j EXCEPT !.used = u, !.stage = "send"] \in JobType
         /\ [j EXCEPT !.stage = "count"] \in JobType
  BY DEF JobType

-----------------------------------------------------------------------------
\* A row is never removed, so a command finds the row that it read before.
RowsStay ==
  \A n \in Peers, i \in Consoles : job[n][i] # None => tokens[n][job[n][i].key] # None

LEMMA Running ==
  ASSUME TypeOK, NEW n \in Peers, NEW i \in Consoles, job[n][i] # None
  PROVE  job[n][i] \in JobType /\ job[n][i].key \in Peers
  BY DEF TypeOK, JobType

LEMMA CountedRow ==
  ASSUME TypeOK, NEW n \in Peers, NEW i \in Consoles, job[n][i] # None, Count(n, i),
         tokens[n][job[n][i].key] # None
  PROVE  LET row == [tokens[n][job[n][i].key] EXCEPT !.used = job[n][i].used + job[n][i].size]
         IN  /\ row \in RowType
             /\ tokens' = [tokens EXCEPT ![n][job[n][i].key] = row]
<1>1. tokens[n][job[n][i].key] \in RowType
  BY Running DEF TypeOK
<1>2. job[n][i].used + job[n][i].size \in Nat
  <2>1. job[n][i].used \in Nat /\ job[n][i].size \in Nat
    BY Running DEF JobType
  <2> QED
    BY <2>1
<1>3. [tokens[n][job[n][i].key] EXCEPT !.used = job[n][i].used + job[n][i].size] \in RowType
  BY <1>1, <1>2 DEF RowType
<1>4. tokens' = [tokens EXCEPT ![n][job[n][i].key] =
                   [tokens[n][job[n][i].key] EXCEPT !.used = job[n][i].used + job[n][i].size]]
  BY Running DEF Count, TypeOK
<1> QED
  BY <1>3, <1>4

LEMMA RowsKept ==
  ASSUME TypeOK, RowsStay, [Next]_vars
  PROVE  \A n, k \in Peers : tokens[n][k] # None => tokens'[n][k] # None
<1>1. ASSUME NEW p \in Peers, NEW c \in Peers, NEW size \in Reserved, NEW room \in Rooms,
             Reserve(p, c, size, room)
      PROVE  \A n, k \in Peers : tokens[n][k] # None => tokens'[n][k] # None
  <2> DEFINE t == [by |-> p, size |-> size, at |-> now]
  <2>1. Row(t, room) \in RowType
    BY RowTyped DEF Tokens, TypeOK
  <2> QED
    BY <1>1, <2>1 DEF Reserve, TypeOK
<1>2. ASSUME NEW m \in packets, StoreToken(m)
      PROVE  \A n, k \in Peers : tokens[n][k] # None => tokens'[n][k] # None
  <2>1. m.to \in Peers /\ m.token \in Tokens /\ m.token.size \in Nat
    BY <1>2, PacketFields DEF StoreToken, TokenStored, Tokens, TypeOK
  <2>2. Row(m.token, m.token.size) \in RowType
    BY <2>1, RowTyped
  <2> QED
    BY <1>2, <2>1, <2>2 DEF StoreToken, TypeOK
<1>3. ASSUME NEW n \in Peers, NEW room \in Rooms, FinishRefresh(n, room)
      PROVE  \A a, b \in Peers : tokens[a][b] # None => tokens'[a][b] # None
  <2>1. refresh[n].key \in Peers /\ [refresh[n].row EXCEPT !.free = room] \in RowType
    BY <1>3 DEF FinishRefresh, RefreshType, RowType, TypeOK
  <2> QED
    BY <1>3, <2>1 DEF FinishRefresh, TypeOK
<1>4. ASSUME NEW n \in Peers, NEW i \in Consoles, Count(n, i)
      PROVE  \A a, b \in Peers : tokens[a][b] # None => tokens'[a][b] # None
  <2>1. job[n][i] # None /\ tokens[n][job[n][i].key] # None
    BY <1>4 DEF Count, RowsStay
  <2>2. [tokens[n][job[n][i].key] EXCEPT !.used = job[n][i].used + job[n][i].size] \in RowType
    BY <1>4, <2>1, CountedRow
  <2>3. tokens' = [tokens EXCEPT ![n][job[n][i].key] =
                     [tokens[n][job[n][i].key] EXCEPT !.used = job[n][i].used + job[n][i].size]]
    BY <1>4, <2>1, CountedRow
  <2> QED
    BY <2>1, <2>2, <2>3, Running DEF TypeOK
<1>5. CASE UNCHANGED tokens
  BY <1>5
<1>6. CASE Handlers
  BY <1>1, <1>2, <1>3, <1>5, <1>6
     DEF Handlers, HandleUpload, HandleUpdate, HandleSaved, Lose, BeginRefresh
<1>7. CASE Commands
  BY <1>4, <1>5, <1>7 DEF Commands, BeginUpload, BeginUpdate, Check, SendUpload, SendUpdate, GiveUp
<1> QED
  BY <1>5, <1>6, <1>7 DEF Next, Tick, vars

\* A job keeps its operation, its row and its token; a new one starts with a row.
SameJob(j, k) == j # None /\ k # None /\ k.op = j.op /\ k.key = j.key /\ k.token = j.token

\* What sending leaves of a job.
LEMMA Counted ==
  ASSUME TypeOK, NEW n \in Peers, NEW i \in Consoles, SendUpload(n, i) \/ SendUpdate(n, i)
  PROVE  /\ job' = [job EXCEPT ![n][i] = [job[n][i] EXCEPT !.stage = "count"]]
         /\ job' \in [Peers -> [Consoles -> JobType \cup {None}]]
<1>1. job[n][i] \in JobType
  BY Running DEF SendUpload, SendUpdate
<1>2. job' = [job EXCEPT ![n][i] = [job[n][i] EXCEPT !.stage = "count"]]
  BY DEF SendUpload, SendUpdate, TypeOK
<1>3. [job[n][i] EXCEPT !.stage = "count"] \in JobType \cup {None}
  BY <1>1, JobSteps
<1> QED
  BY <1>2, <1>3, Entry DEF TypeOK

\* A step begins a job, goes on with it, ends it or leaves it alone.
LEMMA JobStep ==
  ASSUME TypeOK, RowsStay, [Next]_vars, NEW n \in Peers, NEW i \in Consoles, job'[n][i] # None
  PROVE  \/ SameJob(job[n][i], job'[n][i])
         \/ \E op \in {"upload", "update"}, k \in Peers, size \in Sizes, public \in BOOLEAN :
              /\ Begin(n, i, op, k, size, public)
              /\ IF op = "upload" THEN k = n ELSE k \in holders[n]
<1> USE DEF TypeOK
<1>1. ASSUME NEW a \in Peers, NEW b \in Consoles, Check(a, b)
      PROVE  SameJob(job[n][i], job'[n][i])
  <2> DEFINE j == job[a][b]
             used == tokens[a][j.key].used
             new == IF used + j.size > j.free /\ ~j.public
                    THEN None
                    ELSE [j EXCEPT !.used = used, !.stage = "send"]
  <2>1. j \in JobType
    BY <1>1, Running DEF Check
  <2>2. new = None \/ SameJob(j, new)
    BY <2>1, <1>1 DEF SameJob, JobType, Check
  <2>3. job' = [job EXCEPT ![a][b] = new]
    BY <1>1 DEF Check
  <2>4. job'[n][i] = IF a = n /\ b = i THEN new ELSE job[n][i]
    BY <2>3
  <2> HIDE DEF new
  <2> QED
    BY <2>2, <2>4 DEF SameJob
<1>2. ASSUME NEW a \in Peers, NEW b \in Consoles, SendUpload(a, b) \/ SendUpdate(a, b)
      PROVE  SameJob(job[n][i], job'[n][i])
  <2>1. job[a][b] \in JobType /\ job[a][b] # None
    BY <1>2, Running DEF SendUpload, SendUpdate
  <2>2. job' = [job EXCEPT ![a][b] = [job[a][b] EXCEPT !.stage = "count"]]
    BY <1>2, Counted
  <2>3. SameJob(job[a][b], [job[a][b] EXCEPT !.stage = "count"])
    BY <2>1, JobSteps DEF SameJob, JobType
  <2> QED
    BY <2>1, <2>2, <2>3 DEF SameJob
<1>3. ASSUME NEW a \in Peers, NEW b \in Consoles, GiveUp(a, b) \/ Count(a, b)
      PROVE  SameJob(job[n][i], job'[n][i])
  <2>1. job' = [job EXCEPT ![a][b] = None]
    BY <1>3 DEF GiveUp, Count
  <2>2. job'[n][i] = job[n][i]
    BY <2>1
  <2> QED
    BY <2>2 DEF SameJob
<1>4. ASSUME NEW a \in Peers, NEW b \in Consoles, NEW op \in {"upload", "update"},
             NEW k \in Peers, NEW size \in Sizes, NEW public \in BOOLEAN,
             Begin(a, b, op, k, size, public)
      PROVE  SameJob(job[n][i], job'[n][i]) \/ (a = n /\ b = i)
  BY <1>4 DEF Begin, SameJob
<1>5. CASE UNCHANGED job
  BY <1>5 DEF SameJob
<1>6. CASE Handlers
  BY <1>5, <1>6 DEF Handlers, Reserve, StoreToken, TokenStored, HandleUpload, HandleUpdate,
                    HandleSaved, Lose, BeginRefresh, FinishRefresh
<1>7. CASE Commands
  <2>1. PICK a \in Peers, b \in Consoles :
          \/ \E size \in Sizes, public \in BOOLEAN :
               \/ Begin(a, b, "upload", a, size, public)
               \/ \E k \in Peers :
                    k \in holders[a] /\ Begin(a, b, "update", k, size, public)
          \/ Check(a, b) \/ SendUpload(a, b) \/ SendUpdate(a, b) \/ GiveUp(a, b) \/ Count(a, b)
    BY <1>7 DEF Commands, BeginUpload, BeginUpdate
  <2> QED
    BY <1>1, <1>2, <1>3, <1>4, <2>1
<1> QED
  BY <1>5, <1>6, <1>7 DEF Next, Tick, vars

\* A command that begins has the row it read.
LEMMA BeginTyped ==
  ASSUME TypeOK, NEW n \in Peers, NEW i \in Consoles, NEW op \in {"upload", "update"},
         NEW k \in Peers, NEW size \in Sizes, NEW public \in BOOLEAN,
         Begin(n, i, op, k, size, public)
  PROVE  /\ job' \in [Peers -> [Consoles -> JobType \cup {None}]]
         /\ jobs' \in 0 .. MaxJobs
<1>1. tokens[n][k] \in RowType
  BY DEF Begin, TypeOK
<1>2. Job(op, k, tokens[n][k], size, public) \in JobType \cup {None}
  BY <1>1, JobTyped
<1>3. job' = [job EXCEPT ![n][i] = Job(op, k, tokens[n][k], size, public)]
  BY DEF Begin
<1>4. jobs' \in 0 .. MaxJobs
  BY DEF Begin, TypeOK
<1>5. job \in [Peers -> [Consoles -> JobType \cup {None}]]
  BY DEF TypeOK
<1> QED
  BY <1>2, <1>3, <1>4, <1>5, Entry

LEMMA TypeStep ==
  ASSUME TypeOK, RowsStay, [Next]_vars
  PROVE  TypeOK'
<1> USE DEF TypeOK
<1>1. CASE Tick
  BY <1>1 DEF Tick, Times
<1>2. ASSUME NEW p \in Peers, NEW c \in Peers, NEW size \in Reserved, NEW room \in Rooms,
             Reserve(p, c, size, room)
      PROVE  TypeOK'
  <2> DEFINE t == [by |-> p, size |-> size, at |-> now]
  <2>1. t \in Tokens
    BY DEF Tokens
  <2>2. Row(t, room) \in RowType \cup {None}
    BY <2>1, RowTyped
  <2>3. tokens' \in [Peers -> [Peers -> RowType \cup {None}]]
    <3> HIDE DEF t
    <3>1. tokens' = [tokens EXCEPT ![p][c] = Row(t, room)]
      BY <1>2 DEF Reserve, t
    <3> QED
      BY <2>2, <3>1, Entry
  <2>4. packets' \subseteq PacketType
    <3> HIDE DEF t
    <3>1. packets' = packets \cup {Response(c, t, i) : i \in Copies}
      BY <1>2 DEF Reserve, t
    <3> QED
      BY <2>1, <3>1, ResponseTyped
  <2> QED
    BY <1>2, <2>3, <2>4 DEF Reserve
<1>3. ASSUME NEW m \in packets, StoreToken(m) PROVE TypeOK'
  <2>1. m.to \in Peers /\ m.token \in Tokens /\ m.token.size \in Nat
    BY <1>3, PacketFields DEF StoreToken, TokenStored, Tokens
  <2>2. Row(m.token, m.token.size) \in RowType \cup {None}
    BY <2>1, RowTyped
  <2>3. tokens' \in [Peers -> [Peers -> RowType \cup {None}]]
    <3>1. tokens' = [tokens EXCEPT ![m.to][m.to] = Row(m.token, m.token.size)]
      BY <1>3 DEF StoreToken
    <3> QED
      BY <2>1, <2>2, <3>1, Entry
  <2>4. disturbed' \in [Peers -> BOOLEAN]
    BY <1>3, <2>1 DEF StoreToken, TokenStored, Uploading
  <2> QED
    BY <1>3, <2>3, <2>4 DEF StoreToken, TokenStored
<1>4. ASSUME NEW m \in packets, HandleUpload(m) PROVE TypeOK'
  <2>1. Saved(m.to, m.from) \in PacketType
    BY PacketFields DEF Saved, PacketType
  <2> QED
    BY <1>4, <2>1 DEF HandleUpload
<1>5. ASSUME NEW m \in packets, HandleUpdate(m) PROVE TypeOK'
  BY <1>5 DEF HandleUpdate
<1>6. ASSUME NEW m \in packets, HandleSaved(m) PROVE TypeOK'
  <2>1. m.to \in Peers /\ m.from \in Peers
    BY PacketFields
  <2> QED
    BY <1>6, <2>1 DEF HandleSaved
<1>7. ASSUME NEW m \in packets, Lose(m) PROVE TypeOK'
  BY <1>7 DEF Lose
<1>8. ASSUME NEW n \in Peers, NEW k \in Peers, BeginRefresh(n, k) PROVE TypeOK'
  <2>1. tokens[n][k] \in RowType
    BY <1>8 DEF BeginRefresh
  <2>2. [key |-> k, row |-> tokens[n][k]] \in RefreshType
    BY <2>1 DEF RefreshType
  <2> QED
    BY <1>8, <2>2 DEF BeginRefresh
<1>9. ASSUME NEW n \in Peers, NEW room \in Rooms, FinishRefresh(n, room) PROVE TypeOK'
  <2>1. refresh[n].key \in Peers /\ [refresh[n].row EXCEPT !.free = room] \in RowType \cup {None}
    BY <1>9 DEF FinishRefresh, RefreshType, RowType
  <2>2. tokens' \in [Peers -> [Peers -> RowType \cup {None}]]
    <3>1. tokens' = [tokens EXCEPT ![n][refresh[n].key] = [refresh[n].row EXCEPT !.free = room]]
      BY <1>9 DEF FinishRefresh
    <3> QED
      BY <2>1, <3>1, Entry
  <2> QED
    BY <1>9, <2>2 DEF FinishRefresh
<1>10. ASSUME NEW n \in Peers, NEW i \in Consoles, NEW size \in Sizes, NEW public \in BOOLEAN,
              BeginUpload(n, i, size, public)
       PROVE  TypeOK'
  <2>1. disturbed' \in [Peers -> BOOLEAN]
    BY <1>10 DEF BeginUpload, Uploading
  <2>2. Begin(n, i, "upload", n, size, public)
    BY <1>10 DEF BeginUpload
  <2>3. job' \in [Peers -> [Consoles -> JobType \cup {None}]] /\ jobs' \in 0 .. MaxJobs
    <3> HIDE DEF TypeOK
    <3> QED
      BY <2>2, BeginTyped
  <2> QED
    BY <1>10, <2>1, <2>3 DEF BeginUpload
<1>11. ASSUME NEW n \in Peers, NEW i \in Consoles, NEW size \in Sizes, NEW public \in BOOLEAN,
              NEW k \in Peers, BeginUpdate(n, i, k, size, public)
       PROVE  TypeOK'
  <2>1. Begin(n, i, "update", k, size, public)
    BY <1>11 DEF BeginUpdate
  <2>2. job' \in [Peers -> [Consoles -> JobType \cup {None}]] /\ jobs' \in 0 .. MaxJobs
    <3> HIDE DEF TypeOK
    <3> QED
      BY <2>1, BeginTyped
  <2> QED
    BY <1>11, <2>2 DEF BeginUpdate
<1>12. ASSUME NEW n \in Peers, NEW i \in Consoles, Check(n, i) PROVE TypeOK'
  <2> DEFINE j == job[n][i]
             used == tokens[n][j.key].used
             new == IF used + j.size > j.free /\ ~j.public
                    THEN None
                    ELSE [j EXCEPT !.used = used, !.stage = "send"]
  <2>1. j \in JobType /\ j.key \in Peers /\ tokens[n][j.key] \in RowType
    BY <1>12, Running DEF Check, RowsStay
  <2>2. used \in Nat
    BY <2>1 DEF RowType
  <2>3. new \in JobType \cup {None}
    BY <2>1, <2>2, JobSteps
  <2>4. job' = [job EXCEPT ![n][i] = new]
    BY <1>12 DEF Check
  <2>5. job' \in [Peers -> [Consoles -> JobType \cup {None}]]
    <3> HIDE DEF new
    <3> QED
      BY <2>3, <2>4, Entry
  <2> QED
    BY <1>12, <2>5 DEF Check
<1>13. ASSUME NEW n \in Peers, NEW i \in Consoles, SendUpload(n, i) PROVE TypeOK'
  <2> DEFINE j == job[n][i]
  <2>1. j \in JobType /\ j.token \in Tokens /\ j.token.by \in Peers /\ j.public \in BOOLEAN
          /\ j.size \in Nat
    BY <1>13, Running DEF SendUpload, JobType, Tokens
  <2>2. job' \in [Peers -> [Consoles -> JobType \cup {None}]]
    BY <1>13, <2>1, Counted
  <2>3. Uploaded(n, j.token.by, j.token, j.public) \in PacketType
    BY <2>1, SentTyped
  <2>4. packets' \subseteq PacketType
    BY <1>13, <2>3 DEF SendUpload
  <2>5. spent' \in [Peers -> [Tokens -> Nat]]
    <3>1. spent[n][j.token] + j.size \in Nat
      BY <2>1
    <3>2. spent' = [spent EXCEPT ![n][j.token] = spent[n][j.token] + j.size]
      BY <1>13, <2>1 DEF SendUpload
    <3> HIDE DEF j
    <3> QED
      BY <2>1, <3>1, <3>2, Entry
  <2> QED
    BY <1>13, <2>2, <2>4, <2>5 DEF SendUpload
<1>14. ASSUME NEW n \in Peers, NEW i \in Consoles, SendUpdate(n, i) PROVE TypeOK'
  <2> DEFINE j == job[n][i]
  <2>1. j.key \in Peers /\ j.token \in Tokens
    BY <1>14, Running DEF SendUpdate, JobType
  <2>2. job' \in [Peers -> [Consoles -> JobType \cup {None}]]
    BY <1>14, Counted
  <2>3. Updated(n, j.key, j.token) \in PacketType
    BY <2>1, SentTyped
  <2>4. packets' \subseteq PacketType
    BY <1>14, <2>3 DEF SendUpdate
  <2> QED
    BY <1>14, <2>2, <2>4 DEF SendUpdate
<1>15. ASSUME NEW n \in Peers, NEW i \in Consoles, GiveUp(n, i) PROVE TypeOK'
  <2>1. job' = [job EXCEPT ![n][i] = None]
    BY <1>15 DEF GiveUp
  <2>2. job' \in [Peers -> [Consoles -> JobType \cup {None}]]
    BY <2>1, Entry
  <2> QED
    BY <1>15, <2>2 DEF GiveUp
<1>16. ASSUME NEW n \in Peers, NEW i \in Consoles, Count(n, i) PROVE TypeOK'
  <2> DEFINE j == job[n][i]
             row == [tokens[n][j.key] EXCEPT !.used = j.used + j.size]
  <2>1. j # None /\ tokens[n][j.key] # None /\ j.key \in Peers
    BY <1>16, Running DEF Count, RowsStay
  <2>2. row \in RowType \cup {None} /\ tokens' = [tokens EXCEPT ![n][j.key] = row]
    BY <1>16, <2>1, CountedRow
  <2>3. tokens' \in [Peers -> [Peers -> RowType \cup {None}]]
    <3> HIDE DEF row
    <3> QED
      BY <2>1, <2>2, Entry
  <2>4. job' = [job EXCEPT ![n][i] = None]
    BY <1>16 DEF Count
  <2>5. job' \in [Peers -> [Consoles -> JobType \cup {None}]]
    BY <2>4, Entry
  <2> QED
    BY <1>16, <2>3, <2>5 DEF Count
<1>17. CASE UNCHANGED vars
  BY <1>17 DEF vars
<1>18. CASE Handlers
  BY <1>2, <1>3, <1>4, <1>5, <1>6, <1>7, <1>8, <1>9, <1>18 DEF Handlers
<1>19. CASE Commands
  BY <1>10, <1>11, <1>12, <1>13, <1>14, <1>15, <1>16, <1>19 DEF Commands
<1> QED
  BY <1>1, <1>17, <1>18, <1>19 DEF Next

\* Types: in particular a handler only ever writes back a row that was there.
LEMMA Typed == Spec => [](TypeOK /\ RowsStay)
<1>1. Init => TypeOK /\ RowsStay
  BY DEF Init, TypeOK, Times, RowsStay
<1>2. ASSUME TypeOK, RowsStay, [Next]_vars PROVE RowsStay'
  <2> SUFFICES ASSUME NEW n \in Peers, NEW i \in Consoles, job'[n][i] # None
               PROVE  tokens'[n][job'[n][i].key] # None
    BY DEF RowsStay
  <2>1. CASE SameJob(job[n][i], job'[n][i])
    BY <1>2, <2>1, RowsKept, Running DEF SameJob, RowsStay
  <2>2. CASE \E op \in {"upload", "update"}, k \in Peers, size \in Sizes, public \in BOOLEAN :
               Begin(n, i, op, k, size, public)
    <3>1. PICK op \in {"upload", "update"}, k \in Peers, size \in Sizes, public \in BOOLEAN :
            Begin(n, i, op, k, size, public)
      BY <2>2
    <3>2. job'[n][i].key = k
      BY <3>1 DEF Begin, Job, TypeOK
    <3> QED
      BY <1>2, <3>1, <3>2, RowsKept DEF Begin
  <2> QED
    BY <1>2, <2>1, <2>2, JobStep
<1> QED
  BY <1>1, <1>2, TypeStep, PTL DEF Spec

\* Every variable has its type.
THEOREM TypeCorrect == Spec => []TypeOK
  BY Typed, PTL

-----------------------------------------------------------------------------
(* Where the contents of each variable come from. *)

\* The token of a row is the one it had, the one the FileData handler read, one that
\* is issued now, or one that arrives.
SameToken(n, k) ==
  tokens[n][k] # None /\ tokens'[n][k].token = tokens[n][k].token
Refreshed(n, k) ==
  /\ refresh[n] # None /\ refresh[n].key = k
  /\ tokens'[n][k].token = refresh[n].row.token
Issued(n, k) ==
  /\ k # n
  /\ tokens'[n][k].token.by = n /\ tokens'[n][k].token.at = now
Arrived(n, k) ==
  /\ k = n
  /\ \E m \in packets :
       m.kind = "response" /\ m.to = n /\ m.token = tokens'[n][n].token

LEMMA RowOrigin ==
  ASSUME TypeOK, RowsStay, [Next]_vars, NEW n \in Peers, NEW k \in Peers, tokens'[n][k] # None
  PROVE  SameToken(n, k) \/ Refreshed(n, k) \/ Issued(n, k) \/ Arrived(n, k)
<1>1. ASSUME NEW p \in Peers, NEW c \in Peers, NEW size \in Reserved, NEW room \in Rooms,
             Reserve(p, c, size, room)
      PROVE  SameToken(n, k) \/ Issued(n, k)
  <2> DEFINE t == [by |-> p, size |-> size, at |-> now]
  <2>1. tokens' = [tokens EXCEPT ![p][c] = Row(t, room)] /\ p # c
    BY <1>1 DEF Reserve
  <2>2. Row(t, room).token.by = p /\ Row(t, room).token.at = now
    BY DEF Row
  <2> HIDE DEF t
  <2>3. CASE n = p /\ k = c
    <3>1. tokens'[n][k] = Row(t, room)
      BY <2>1, <2>3 DEF TypeOK
    <3> QED
      BY <2>1, <2>2, <2>3, <3>1 DEF Issued
  <2>4. CASE ~(n = p /\ k = c)
    BY <2>1, <2>4 DEF TypeOK, SameToken
  <2> QED
    BY <2>3, <2>4
<1>2. ASSUME NEW m \in packets, StoreToken(m) PROVE SameToken(n, k) \/ Arrived(n, k)
  <2>1. m.to \in Peers /\ m.kind = "response"
    BY <1>2, PacketFields DEF StoreToken, TokenStored, TypeOK
  <2>2. tokens' = [tokens EXCEPT ![m.to][m.to] = Row(m.token, m.token.size)]
    BY <1>2 DEF StoreToken
  <2>3. Row(m.token, m.token.size).token = m.token
    BY DEF Row
  <2>4. CASE n = m.to /\ k = m.to
    <3>1. tokens'[n][k] = Row(m.token, m.token.size)
      BY <2>1, <2>2, <2>4 DEF TypeOK
    <3> QED
      BY <2>1, <2>3, <2>4, <3>1 DEF Arrived
  <2>5. CASE ~(n = m.to /\ k = m.to)
    BY <2>1, <2>2, <2>5 DEF TypeOK, SameToken
  <2> QED
    BY <2>4, <2>5
<1>3. ASSUME NEW a \in Peers, NEW room \in Rooms, FinishRefresh(a, room)
      PROVE  SameToken(n, k) \/ Refreshed(n, k)
  <2>1. refresh[a] # None /\ refresh[a].key \in Peers /\ refresh[a].row \in RowType
    BY <1>3 DEF FinishRefresh, RefreshType, TypeOK
  <2>2. tokens' = [tokens EXCEPT ![a][refresh[a].key] = [refresh[a].row EXCEPT !.free = room]]
    BY <1>3 DEF FinishRefresh
  <2>3. [refresh[a].row EXCEPT !.free = room].token = refresh[a].row.token
    BY <2>1 DEF RowType
  <2>4. CASE n = a /\ k = refresh[a].key
    <3>1. tokens'[n][k] = [refresh[a].row EXCEPT !.free = room]
      BY <2>1, <2>2, <2>4 DEF TypeOK
    <3> QED
      BY <2>1, <2>3, <2>4, <3>1 DEF Refreshed
  <2>5. CASE ~(n = a /\ k = refresh[a].key)
    BY <2>1, <2>2, <2>5 DEF TypeOK, SameToken
  <2> QED
    BY <2>4, <2>5
<1>4. ASSUME NEW a \in Peers, NEW i \in Consoles, Count(a, i) PROVE SameToken(n, k)
  <2> DEFINE j == job[a][i]
             row == [tokens[a][j.key] EXCEPT !.used = j.used + j.size]
  <2>1. j # None /\ j.key \in Peers /\ tokens[a][j.key] # None
    BY <1>4, Running DEF Count, RowsStay
  <2>2. tokens' = [tokens EXCEPT ![a][j.key] = row]
    BY <1>4, <2>1, CountedRow
  <2>3. tokens[a][j.key] \in RowType
    BY <2>1 DEF TypeOK
  <2>4. row.token = tokens[a][j.key].token
    BY <2>3 DEF RowType
  <2> HIDE DEF row, j
  <2>5. CASE n = a /\ k = j.key
    BY <2>1, <2>2, <2>4, <2>5 DEF TypeOK, SameToken
  <2>6. CASE ~(n = a /\ k = j.key)
    BY <2>1, <2>2, <2>6 DEF TypeOK, SameToken
  <2> QED
    BY <2>5, <2>6
<1>5. CASE UNCHANGED tokens
  BY <1>5 DEF SameToken
<1>6. CASE Handlers
  BY <1>1, <1>2, <1>3, <1>5, <1>6
     DEF Handlers, HandleUpload, HandleUpdate, HandleSaved, Lose, BeginRefresh
<1>7. CASE Commands
  BY <1>4, <1>5, <1>7 DEF Commands, BeginUpload, BeginUpdate, Check, SendUpload, SendUpdate, GiveUp
<1> QED
  BY <1>5, <1>6, <1>7 DEF Next, Tick, vars

\* A packet was on its way, answers a reservation or an upload, or is a command's.
Answering(m) ==
  /\ m.kind = "response"
  /\ m.from # m.to /\ m.token.by = m.from /\ m.token.at = now
  /\ tokens'[m.from][m.to] # None /\ tokens'[m.from][m.to].token = m.token
Commanded(m) ==
  \E n \in Peers, i \in Consoles :
    /\ job[n][i] # None
    /\ m.kind = job[n][i].op /\ m.from = n /\ m.token = job[n][i].token
    /\ m.to = IF job[n][i].op = "upload" THEN job[n][i].token.by ELSE job[n][i].key
Saving(m) ==
  /\ m.kind = "saved"
  /\ \E x \in packets : x.kind = "upload" /\ x.to = m.from /\ x.from = m.to

LEMMA PacketOrigin ==
  ASSUME TypeOK, RowsStay, [Next]_vars, NEW m \in packets'
  PROVE  m \in packets \/ Answering(m) \/ Commanded(m) \/ Saving(m)
<1>1. ASSUME NEW p \in Peers, NEW c \in Peers, NEW size \in Reserved, NEW room \in Rooms,
             Reserve(p, c, size, room)
      PROVE  m \in packets \/ Answering(m)
  <2> DEFINE t == [by |-> p, size |-> size, at |-> now]
  <2>1. tokens' = [tokens EXCEPT ![p][c] = Row(t, room)] /\ p # c
    BY <1>1 DEF Reserve
  <2>2. t.by = p /\ t.at = now /\ t \in Tokens
    BY DEF Tokens, TypeOK
  <2>3. m \in packets \/ \E i \in Copies : m = Response(c, t, i)
    BY <1>1 DEF Reserve
  <2> HIDE DEF t
  <2>4. tokens'[p][c] = Row(t, room)
    BY <2>1 DEF TypeOK
  <2>5. Row(t, room) # None /\ Row(t, room).token = t
    BY <2>2, RowTyped DEF Row
  <2> QED
    BY <2>1, <2>2, <2>3, <2>4, <2>5 DEF Response, Answering
<1>2. ASSUME NEW n \in Peers, NEW i \in Consoles, SendUpload(n, i)
      PROVE  m \in packets \/ Commanded(m)
  <2> DEFINE j == job[n][i]
  <2>1. j # None /\ j.op = "upload"
    BY <1>2 DEF SendUpload
  <2>2. m \in packets \/ m = Uploaded(n, j.token.by, j.token, j.public)
    BY <1>2 DEF SendUpload
  <2> QED
    BY <2>1, <2>2 DEF Uploaded, Commanded
<1>3. ASSUME NEW n \in Peers, NEW i \in Consoles, SendUpdate(n, i)
      PROVE  m \in packets \/ Commanded(m)
  <2> DEFINE j == job[n][i]
  <2>1. j # None /\ j.op = "update"
    BY <1>3 DEF SendUpdate
  <2>2. m \in packets \/ m = Updated(n, j.key, j.token)
    BY <1>3 DEF SendUpdate
  <2> QED
    BY <2>1, <2>2 DEF Updated, Commanded
<1>4. ASSUME NEW x \in packets, HandleUpload(x)
      PROVE  m \in packets \/ Saving(m)
  <2>1. m \in packets \/ m = Saved(x.to, x.from)
    BY <1>4 DEF HandleUpload
  <2>2. x.kind = "upload"
    BY <1>4 DEF HandleUpload
  <2> QED
    BY <2>1, <2>2 DEF Saved, Saving
<1>5. CASE packets' \subseteq packets
  BY <1>5
<1>6. CASE Handlers
  BY <1>1, <1>4, <1>5, <1>6
     DEF Handlers, StoreToken, TokenStored, HandleUpdate, HandleSaved, Lose, BeginRefresh, FinishRefresh
<1>7. CASE Commands
  BY <1>2, <1>3, <1>5, <1>7 DEF Commands, BeginUpload, BeginUpdate, Check, GiveUp, Count
<1> QED
  BY <1>5, <1>6, <1>7 DEF Next, Tick, vars

\* While the FileData handler runs, no other handler writes to the rows of other peers.
LEMMA RefreshOrigin ==
  ASSUME TypeOK, RowsStay, [Next]_vars, NEW n \in Peers, refresh'[n] # None
  PROVE  \/ /\ refresh'[n] = refresh[n]
            /\ \A k \in Peers : k # n /\ tokens[n][k] # None => SameToken(n, k)
         \/ /\ UNCHANGED tokens
            /\ \E k \in Peers :
                 k # n /\ tokens[n][k] # None /\ refresh'[n] = [key |-> k, row |-> tokens[n][k]]
<1> DEFINE Steady == /\ refresh'[n] = refresh[n]
                       /\ \A k \in Peers : k # n /\ tokens[n][k] # None => SameToken(n, k)
<1>1. ASSUME NEW p \in Peers, NEW c \in Peers, NEW size \in Reserved, NEW room \in Rooms,
             Reserve(p, c, size, room)
      PROVE  Steady
  <2>1. n # p /\ refresh' = refresh
    BY <1>1 DEF Reserve, Idle
  <2>2. tokens'[n] = tokens[n]
    BY <1>1, <2>1 DEF Reserve, TypeOK
  <2> QED
    BY <2>1, <2>2 DEF SameToken
<1>2. ASSUME NEW m \in packets, StoreToken(m) PROVE Steady
  <2>1. \A k \in Peers : k # n => tokens'[n][k] = tokens[n][k]
    BY <1>2 DEF StoreToken, TypeOK
  <2> QED
    BY <1>2, <2>1 DEF StoreToken, TokenStored, SameToken
<1>3. ASSUME NEW a \in Peers, NEW room \in Rooms, FinishRefresh(a, room) PROVE Steady
  <2>1. n # a /\ refresh'[n] = refresh[n]
    BY <1>3 DEF FinishRefresh, TypeOK
  <2>2. tokens'[n] = tokens[n]
    BY <1>3, <2>1 DEF FinishRefresh, TypeOK
  <2> QED
    BY <2>1, <2>2 DEF SameToken
<1>4. ASSUME NEW a \in Peers, NEW i \in Consoles, Count(a, i) PROVE Steady
  <2> SUFFICES ASSUME NEW k \in Peers, k # n, tokens[n][k] # None PROVE SameToken(n, k)
    BY <1>4 DEF Count
  <2> DEFINE j == job[a][i]
             row == [tokens[a][j.key] EXCEPT !.used = j.used + j.size]
  <2>1. j # None /\ j.key \in Peers /\ tokens[a][j.key] # None
    BY <1>4, Running DEF Count, RowsStay
  <2>2. tokens' = [tokens EXCEPT ![a][j.key] = row]
    BY <1>4, <2>1, CountedRow
  <2>3. row.token = tokens[a][j.key].token
    BY <2>1 DEF RowType, TypeOK
  <2> HIDE DEF row, j
  <2>4. CASE n = a /\ k = j.key
    BY <2>1, <2>2, <2>3, <2>4 DEF TypeOK, SameToken
  <2>5. CASE ~(n = a /\ k = j.key)
    BY <2>1, <2>2, <2>5 DEF TypeOK, SameToken
  <2> QED
    BY <2>4, <2>5
<1>5. ASSUME NEW a \in Peers, NEW k \in Peers, BeginRefresh(a, k)
      PROVE  \/ Steady
             \/ /\ UNCHANGED tokens
                /\ k # n /\ tokens[n][k] # None /\ refresh'[n] = [key |-> k, row |-> tokens[n][k]]
  BY <1>5 DEF BeginRefresh, TypeOK, SameToken
<1>6. CASE UNCHANGED <<tokens, refresh>>
  BY <1>6 DEF SameToken
<1>7. CASE Handlers
  BY <1>1, <1>2, <1>3, <1>5, <1>6, <1>7 DEF Handlers, HandleUpload, HandleUpdate, HandleSaved, Lose
<1>8. CASE Commands
  BY <1>4, <1>6, <1>8 DEF Commands, BeginUpload, BeginUpdate, Check, SendUpload, SendUpdate, GiveUp
<1> QED
  BY <1>6, <1>7, <1>8 DEF Next, Tick, vars

-----------------------------------------------------------------------------
(* Whose token is under which key. *)

\* Under its own key a peer has another's token, under another's key its own.
Owned(n, k, t) == IF k = n THEN t.by # n ELSE t.by = n

RowKeys ==
  \A n, k \in Peers : tokens[n][k] # None => Owned(n, k, tokens[n][k].token)
RefreshKeys ==
  \A n \in Peers : refresh[n] # None =>
    refresh[n].key # n /\ Owned(n, refresh[n].key, refresh[n].row.token)
JobKeys ==
  \A n \in Peers, i \in Consoles : job[n][i] # None =>
    /\ job[n][i].op = "upload" <=> job[n][i].key = n
    /\ Owned(n, job[n][i].key, job[n][i].token)
Addressed(m) ==
  /\ m.from # m.to
  /\ m.kind = "response" => m.token.by = m.from
  /\ m.kind = "upload" => m.token.by = m.to
  /\ m.kind = "update" => m.token.by = m.from
PacketKeys == \A m \in packets : Addressed(m)
HolderKeys == \A n \in Peers : n \notin holders[n]

Keys == RowKeys /\ RefreshKeys /\ JobKeys /\ PacketKeys /\ HolderKeys

LEMMA KeysStep ==
  ASSUME TypeOK, RowsStay, Keys, [Next]_vars
  PROVE  Keys'
<1> USE DEF Keys
<1>1. RowKeys'
  <2> SUFFICES ASSUME NEW n \in Peers, NEW k \in Peers, tokens'[n][k] # None
               PROVE  Owned(n, k, tokens'[n][k].token)
    BY DEF RowKeys
  <2>1. CASE SameToken(n, k)
    BY <2>1 DEF SameToken, RowKeys
  <2>2. CASE Refreshed(n, k)
    BY <2>2 DEF Refreshed, RefreshKeys
  <2>3. CASE Issued(n, k)
    BY <2>3 DEF Issued, Owned
  <2>4. CASE Arrived(n, k)
    BY <2>4 DEF Arrived, Owned, PacketKeys, Addressed
  <2> QED
    BY <2>1, <2>2, <2>3, <2>4, RowOrigin
<1>2. RefreshKeys'
  <2> SUFFICES ASSUME NEW n \in Peers, refresh'[n] # None
               PROVE  refresh'[n].key # n /\ Owned(n, refresh'[n].key, refresh'[n].row.token)
    BY DEF RefreshKeys
  <2>1. CASE refresh'[n] = refresh[n]
    BY <2>1 DEF RefreshKeys
  <2>2. CASE \E k \in Peers :
               k # n /\ tokens[n][k] # None /\ refresh'[n] = [key |-> k, row |-> tokens[n][k]]
    BY <2>2 DEF RowKeys
  <2> QED
    BY <2>1, <2>2, RefreshOrigin
<1>3. JobKeys'
  <2> SUFFICES ASSUME NEW n \in Peers, NEW i \in Consoles, job'[n][i] # None
               PROVE  /\ job'[n][i].op = "upload" <=> job'[n][i].key = n
                      /\ Owned(n, job'[n][i].key, job'[n][i].token)
    BY DEF JobKeys
  <2>1. CASE SameJob(job[n][i], job'[n][i])
    BY <2>1 DEF SameJob, JobKeys
  <2>2. ASSUME NEW op \in {"upload", "update"}, NEW k \in Peers, NEW size \in Sizes,
               NEW public \in BOOLEAN, Begin(n, i, op, k, size, public),
               IF op = "upload" THEN k = n ELSE k \in holders[n]
        PROVE  /\ job'[n][i].op = "upload" <=> job'[n][i].key = n
               /\ Owned(n, job'[n][i].key, job'[n][i].token)
    <3>1. job'[n][i] = Job(op, k, tokens[n][k], size, public) /\ tokens[n][k] # None
      BY <2>2 DEF Begin, TypeOK
    <3>2. job'[n][i].op = op /\ job'[n][i].key = k /\ job'[n][i].token = tokens[n][k].token
      BY <3>1 DEF Job
    <3> QED
      BY <2>2, <3>1, <3>2 DEF RowKeys, HolderKeys
  <2> QED
    BY <2>1, <2>2, JobStep
<1>4. PacketKeys'
  <2> SUFFICES ASSUME NEW m \in packets' PROVE Addressed(m)
    BY DEF PacketKeys
  <2>1. CASE m \in packets
    BY <2>1 DEF PacketKeys
  <2>2. CASE Answering(m)
    BY <2>2 DEF Answering, Addressed
  <2>3. CASE Commanded(m)
    <3>1. PICK n \in Peers, i \in Consoles :
            /\ job[n][i] # None
            /\ m.kind = job[n][i].op /\ m.from = n /\ m.token = job[n][i].token
            /\ m.to = IF job[n][i].op = "upload" THEN job[n][i].token.by ELSE job[n][i].key
      BY <2>3 DEF Commanded
    <3>2. job[n][i].op \in {"upload", "update"}
      BY <3>1, Running DEF JobType
    <3> QED
      BY <3>1, <3>2 DEF JobKeys, Owned, Addressed
  <2>4. CASE Saving(m)
    BY <2>4 DEF Saving, PacketKeys, Addressed
  <2> QED
    BY <2>1, <2>2, <2>3, <2>4, PacketOrigin
<1>5. HolderKeys'
  <2>1. ASSUME NEW m \in packets, HandleSaved(m) PROVE HolderKeys'
    BY <2>1 DEF HandleSaved, HolderKeys, PacketKeys, Addressed, TypeOK
  <2>2. CASE UNCHANGED holders
    BY <2>2 DEF HolderKeys
  <2>3. CASE Handlers
    BY <2>1, <2>2, <2>3 DEF Handlers, Reserve, StoreToken, TokenStored, HandleUpload, HandleUpdate,
                            Lose, BeginRefresh, FinishRefresh
  <2>4. CASE Commands
    BY <2>2, <2>4 DEF Commands, BeginUpload, BeginUpdate, Check, SendUpload, SendUpdate, GiveUp, Count
  <2> QED
    BY <2>2, <2>3, <2>4 DEF Next, Tick, vars
<1> QED
  BY <1>1, <1>2, <1>3, <1>4, <1>5

LEMMA Keyed == Spec => [](TypeOK /\ RowsStay /\ Keys)
<1>1. Init => Keys
  BY DEF Init, Keys, RowKeys, RefreshKeys, JobKeys, PacketKeys, HolderKeys
<1>2. TypeOK /\ RowsStay /\ Keys /\ [Next]_vars => Keys'
  BY KeysStep
<1> QED
  BY <1>1, <1>2, Typed, PTL DEF Spec

\* No update of a file is ever accepted: the token under the storage peer's key is
\* the one issued to it.
THEOREM UpdatesAreRefused == Spec => []UpdatesRefused
<1>1. ASSUME TypeOK, Keys PROVE UpdatesRefused
  <2> SUFFICES ASSUME NEW m \in packets, m.kind = "update", Authorized(m) PROVE FALSE
    BY DEF UpdatesRefused
  <2>1. m.to \in Peers /\ m.from \in Peers /\ m.from # m.to /\ m.token.by = m.from
    BY <1>1, PacketFields DEF TypeOK, Keys, PacketKeys, Addressed
  <2> QED
    BY <1>1, <2>1 DEF Authorized, Keys, RowKeys, Owned
<1> QED
  BY <1>1, Keyed, PTL

-----------------------------------------------------------------------------
(* The provider's record of the newest token. *)

Recorded(c, t) == tokens[t.by][c] # None /\ tokens[t.by][c].token.at >= t.at

\* What the FileData handler is about to write back is the token that is there.
RefreshCurrent ==
  \A n \in Peers : refresh[n] # None =>
    /\ tokens[n][refresh[n].key] # None
    /\ refresh[n].row.token = tokens[n][refresh[n].key].token

\* No token is from the future.
RowTimes == \A n, k \in Peers : tokens[n][k] # None => tokens[n][k].token.at <= now

Newest == NewestAtProvider /\ RefreshCurrent /\ RowTimes

LEMMA RefreshFields ==
  ASSUME TypeOK, NEW n \in Peers, refresh[n] # None
  PROVE  refresh[n].key \in Peers /\ refresh[n].row \in RowType
  BY DEF TypeOK, RefreshType

LEMMA RowFields ==
  ASSUME TypeOK, NEW n \in Peers, NEW k \in Peers, tokens[n][k] # None
  PROVE  /\ tokens[n][k].token \in Tokens /\ tokens[n][k].token.by \in Peers
         /\ tokens[n][k].token.at \in Nat
         /\ tokens[n][k].used \in Nat
  BY DEF TypeOK, RowType, Tokens, Times

\* The record never becomes older.
LEMMA RecordedStays ==
  ASSUME TypeOK, RowsStay, Keys, Newest, [Next]_vars, TypeOK',
         NEW c \in Peers, NEW t \in Tokens, t.by # c, Recorded(c, t)
  PROVE  Recorded(c, t)'
<1> DEFINE n == t.by
<1>1. n \in Peers /\ t.at \in Nat /\ now \in Nat
  BY DEF Tokens, Times, TypeOK
<1>2. tokens[n][c] # None /\ tokens[n][c].token.at >= t.at /\ tokens[n][c].token.at <= now
  BY <1>1 DEF Recorded, Newest, RowTimes
<1>3. tokens'[n][c] # None
  BY <1>1, <1>2, RowsKept
<1>4. tokens[n][c].token.at \in Nat
  BY <1>1, <1>2, RowFields
<1>5. tokens'[n][c].token.at >= t.at
  <2>1. CASE SameToken(n, c)
    BY <1>2, <2>1 DEF SameToken
  <2>2. CASE Refreshed(n, c)
    BY <1>1, <1>2, <2>2 DEF Refreshed, Newest, RefreshCurrent
  <2>3. CASE Issued(n, c)
    BY <1>1, <1>2, <1>4, <2>3 DEF Issued
  <2>4. CASE Arrived(n, c)
    BY <2>4 DEF Arrived
  <2> QED
    BY <1>1, <1>3, <2>1, <2>2, <2>3, <2>4, RowOrigin
<1> QED
  BY <1>3, <1>5 DEF Recorded

LEMMA InUseOrigin ==
  ASSUME TypeOK, RowsStay, Keys, [Next]_vars, TypeOK', NEW c \in Peers, NEW t \in Tokens,
         t \in InUse(c)'
  PROVE  t \in InUse(c) \/ Recorded(c, t)'
<1>1. CASE tokens'[c][c] # None /\ tokens'[c][c].token = t
  <2>1. CASE SameToken(c, c)
    BY <1>1, <2>1 DEF SameToken, InUse
  <2>2. CASE Refreshed(c, c)
    BY <2>2 DEF Refreshed, Keys, RefreshKeys
  <2>3. CASE Issued(c, c)
    BY <2>3 DEF Issued
  <2>4. CASE Arrived(c, c)
    BY <1>1, <2>4 DEF Arrived, InUse
  <2> QED
    BY <1>1, <2>1, <2>2, <2>3, <2>4, RowOrigin
<1>2. ASSUME NEW i \in Consoles, job'[c][i] # None, job'[c][i].op = "upload", job'[c][i].token = t
      PROVE  t \in InUse(c)
  <2>1. CASE SameJob(job[c][i], job'[c][i])
    BY <1>2, <2>1 DEF SameJob, InUse
  <2>2. ASSUME NEW op \in {"upload", "update"}, NEW k \in Peers, NEW size \in Sizes,
               NEW public \in BOOLEAN, Begin(c, i, op, k, size, public),
               IF op = "upload" THEN k = c ELSE k \in holders[c]
        PROVE  t \in InUse(c)
    <3>1. job'[c][i] = Job(op, k, tokens[c][k], size, public) /\ tokens[c][k] # None
      BY <2>2 DEF Begin, TypeOK
    <3>2. job'[c][i].op = op /\ job'[c][i].token = tokens[c][k].token
      BY <3>1 DEF Job
    <3> QED
      BY <1>2, <2>2, <3>1, <3>2 DEF InUse
  <2> QED
    BY <1>2, <2>1, <2>2, JobStep
<1>3. ASSUME NEW m \in packets',
             \/ m.kind = "response" /\ m.to = c /\ m.token = t
             \/ m.kind = "upload" /\ m.from = c /\ m.token = t
      PROVE  t \in InUse(c) \/ Recorded(c, t)'
  <2>1. CASE m \in packets
    BY <1>3, <2>1 DEF InUse
  <2>2. CASE Answering(m)
    <3>1. t.at \in Nat /\ m.kind = "response"
      BY <2>2 DEF Tokens, Times, Answering
    <3> QED
      BY <1>3, <2>2, <3>1 DEF Answering, Recorded
  <2>3. CASE Commanded(m)
    <3>1. PICK n \in Peers, i \in Consoles :
            /\ job[n][i] # None
            /\ m.kind = job[n][i].op /\ m.from = n /\ m.token = job[n][i].token
      BY <2>3 DEF Commanded
    <3>2. job[n][i].op \in {"upload", "update"}
      BY <3>1, Running DEF JobType
    <3> QED
      BY <1>3, <3>1, <3>2 DEF InUse
  <2>4. CASE Saving(m)
    BY <1>3, <2>4 DEF Saving
  <2> QED
    BY <2>1, <2>2, <2>3, <2>4, PacketOrigin
<1> QED
  BY <1>1, <1>2, <1>3 DEF InUse

\* A client never uses its own token.
LEMMA InUseForeign ==
  ASSUME TypeOK, Keys, NEW c \in Peers, NEW t \in InUse(c)
  PROVE  t \in Tokens /\ t.by # c
<1>1. CASE tokens[c][c] # None /\ tokens[c][c].token = t
  BY <1>1 DEF InUse, Keys, RowKeys, Owned
<1>2. ASSUME NEW i \in Consoles, job[c][i] # None, job[c][i].op = "upload", job[c][i].token = t
      PROVE  t.by # c
  BY <1>2 DEF Keys, JobKeys, Owned
<1>3. ASSUME NEW m \in packets,
             \/ m.kind = "response" /\ m.to = c /\ m.token = t
             \/ m.kind = "upload" /\ m.from = c /\ m.token = t
      PROVE  t.by # c
  BY <1>3 DEF Keys, PacketKeys, Addressed
<1> QED
  BY <1>1, <1>2, <1>3 DEF InUse

LEMMA NewestStep ==
  ASSUME TypeOK, RowsStay, Keys, Newest, [Next]_vars, TypeOK'
  PROVE  Newest'
<1>1. NewestAtProvider'
  <2> SUFFICES ASSUME NEW c \in Peers, NEW t \in Tokens, t \in InUse(c)' PROVE Recorded(c, t)'
    BY DEF NewestAtProvider, Recorded, InUse
  <2>1. CASE t \in InUse(c)
    <3>1. t.by # c /\ Recorded(c, t)
      BY <2>1, InUseForeign DEF Newest, NewestAtProvider, Recorded
    <3> QED
      BY <3>1, RecordedStays
  <2> QED
    BY <2>1, InUseOrigin
<1>2. RefreshCurrent'
  <2> SUFFICES ASSUME NEW n \in Peers, refresh'[n] # None
               PROVE  /\ tokens'[n][refresh'[n].key] # None
                      /\ refresh'[n].row.token = tokens'[n][refresh'[n].key].token
    BY DEF RefreshCurrent
  <2>1. CASE /\ refresh'[n] = refresh[n]
             /\ \A k \in Peers : k # n /\ tokens[n][k] # None => SameToken(n, k)
    <3> DEFINE k == refresh[n].key
    <3>1. k \in Peers /\ k # n /\ tokens[n][k] # None /\ refresh[n].row.token = tokens[n][k].token
      BY <2>1, RefreshFields DEF Newest, RefreshCurrent, Keys, RefreshKeys
    <3>2. SameToken(n, k) /\ tokens'[n][k] # None
      BY <2>1, <3>1, RowsKept
    <3> QED
      BY <2>1, <3>1, <3>2 DEF SameToken
  <2>2. CASE /\ UNCHANGED tokens
             /\ \E k \in Peers :
                  k # n /\ tokens[n][k] # None /\ refresh'[n] = [key |-> k, row |-> tokens[n][k]]
    BY <2>2
  <2> QED
    BY <2>1, <2>2, RefreshOrigin
<1>3. RowTimes'
  <2> SUFFICES ASSUME NEW n \in Peers, NEW k \in Peers, tokens'[n][k] # None
               PROVE  tokens'[n][k].token.at <= now'
    BY DEF RowTimes
  <2>1. now \in Nat /\ now' \in Nat /\ now <= now'
    <3>1. now' = now \/ now' = now + 1
      <4>1. CASE Handlers
        BY <4>1 DEF Handlers, Reserve, StoreToken, TokenStored, HandleUpload, HandleUpdate,
                    HandleSaved, Lose, BeginRefresh, FinishRefresh
      <4>2. CASE Commands
        BY <4>2 DEF Commands, BeginUpload, BeginUpdate, Check, SendUpload, SendUpdate, GiveUp, Count
      <4>3. CASE Tick
        BY <4>3 DEF Tick
      <4>4. CASE UNCHANGED vars
        BY <4>4 DEF vars
      <4> QED
        BY <4>1, <4>2, <4>3, <4>4 DEF Next
    <3> QED
      BY <3>1 DEF TypeOK, Times
  <2>2. tokens'[n][k].token.at \in Nat
    BY DEF TypeOK, RowType, Tokens, Times
  <2>3. tokens'[n][k].token.at <= now
    <3>1. CASE SameToken(n, k)
      BY <3>1 DEF SameToken, Newest, RowTimes
    <3>2. CASE Refreshed(n, k)
      BY <3>2 DEF Refreshed, Newest, RefreshCurrent, RowTimes
    <3>3. CASE Issued(n, k)
      BY <2>1, <3>3 DEF Issued
    <3>4. CASE Arrived(n, k)
      <4>1. PICK m \in packets : m.kind = "response" /\ m.to = n /\ m.token = tokens'[n][n].token
        BY <3>4 DEF Arrived
      <4> DEFINE t == m.token
      <4>2. k = n /\ t \in Tokens /\ t \in InUse(n)
        BY <3>4, <4>1, PacketFields DEF Arrived, InUse, TypeOK
      <4>3. t.by \in Peers /\ t.at \in Nat
        BY <4>2 DEF Tokens, Times
      <4>4. tokens[t.by][n] # None /\ tokens[t.by][n].token.at >= t.at
        BY <4>2 DEF Newest, NewestAtProvider
      <4>5. tokens[t.by][n].token.at <= now /\ tokens[t.by][n].token.at \in Nat
        BY <4>3, <4>4, RowFields DEF Newest, RowTimes
      <4> QED
        BY <2>1, <4>1, <4>2, <4>3, <4>4, <4>5
    <3> QED
      BY <3>1, <3>2, <3>3, <3>4, RowOrigin
  <2> QED
    BY <2>1, <2>2, <2>3
<1> QED
  BY <1>1, <1>2, <1>3 DEF Newest

\* A provider's record of what it issued to a client is never older than a token the
\* client still uses.
THEOREM NewestIsRecorded == Spec => []NewestAtProvider
<1>1. Init => Newest
  BY DEF Init, Newest, NewestAtProvider, RefreshCurrent, RowTimes, InUse
<1>2. TypeOK /\ RowsStay /\ Keys /\ Newest /\ [Next]_vars /\ TypeOK' => Newest'
  BY NewestStep
<1>3. Newest => NewestAtProvider
  BY DEF Newest
<1> QED
  BY <1>1, <1>2, <1>3, Keyed, PTL DEF Spec
-----------------------------------------------------------------------------
(* The ledger of the own row. *)

IsUpload(n, i) == job[n][i] # None /\ job[n][i].op = "upload"

\* What an upload of n knows of the own row and of what was spent.
InStep(n, i) ==
  /\ tokens[n][n] # None /\ job[n][i].token = tokens[n][n].token
  /\ job[n][i].stage = "send" => job[n][i].used = tokens[n][n].used
  /\ job[n][i].stage = "count" => job[n][i].used + job[n][i].size = spent[n][job[n][i].token]

Balanced(n) ==
  tokens[n][n] # None /\ ~Counting(n) => tokens[n][n].used = spent[n][tokens[n][n].token]

Alone(n) == \A i, h \in Consoles : IsUpload(n, i) /\ IsUpload(n, h) => i = h

\* An undisturbed peer has one upload at most, and it is in step with the row.
Exact(n) ==
  ~disturbed[n] => Balanced(n) /\ Alone(n) /\ \A i \in Consoles : IsUpload(n, i) => InStep(n, i)

\* A step that changes neither the own row nor an upload of n.
Aside(n) ==
  /\ tokens'[n][n] = tokens[n][n]
  /\ spent'[n] = spent[n]
  /\ disturbed'[n] = disturbed[n]
  /\ \A i \in Consoles :
       \/ job'[n][i] = job[n][i]
       \/ ~IsUpload(n, i) /\ ~IsUpload(n, i)'

LEMMA AsideExact ==
  ASSUME NEW n \in Peers, Exact(n), Aside(n)
  PROVE  Exact(n)'
<1> SUFFICES ASSUME ~disturbed'[n]
             PROVE  (Balanced(n) /\ Alone(n))' /\ \A i \in Consoles : IsUpload(n, i)' => InStep(n, i)'
  BY DEF Exact
<1>1. \A i \in Consoles : IsUpload(n, i)' <=> IsUpload(n, i)
  BY DEF Aside, IsUpload
<1>2. \A i \in Consoles : IsUpload(n, i)' => job'[n][i] = job[n][i]
  BY DEF Aside, IsUpload
<1>3. Counting(n)' <=> Counting(n)
  BY <1>1, <1>2 DEF Counting, IsUpload
<1>4. Balanced(n)'
  BY <1>3 DEF Balanced, Exact, Aside
<1>5. Alone(n)'
  BY <1>1 DEF Alone, Exact, Aside
<1>6. ASSUME NEW i \in Consoles, IsUpload(n, i)' PROVE InStep(n, i)'
  BY <1>1, <1>2, <1>6 DEF InStep, Exact, Aside
<1> QED
  BY <1>4, <1>5, <1>6

\* The uploads of n, when the one at console i is the only one that changes.
Others(n, i) == \A h \in Consoles : h # i => job'[n][h] = job[n][h]

LEMMA BeginExact ==
  ASSUME TypeOK, NEW n \in Peers, NEW i \in Consoles, NEW size \in Sizes, NEW public \in BOOLEAN,
         BeginUpload(n, i, size, public), Exact(n)
  PROVE  Exact(n)'
<1> SUFFICES ASSUME ~disturbed'[n]
             PROVE  (Balanced(n) /\ Alone(n))' /\ \A h \in Consoles : IsUpload(n, h)' => InStep(n, h)'
  BY DEF Exact
<1> DEFINE j == Job("upload", n, tokens[n][n], size, public)
<1>1. ~disturbed[n] /\ ~Uploading(n)
  BY DEF BeginUpload, TypeOK
<1>2. job' = [job EXCEPT ![n][i] = j] /\ tokens[n][n] # None
  BY DEF BeginUpload, Begin
<1>3. j.stage = "check" /\ j.token = tokens[n][n].token
  BY DEF Job
<1> HIDE DEF j
<1>4. job'[n][i] = j /\ Others(n, i)
  BY <1>2 DEF TypeOK, Others
<1>5. \A h \in Consoles : IsUpload(n, h)' => h = i
  BY <1>1, <1>4 DEF Uploading, IsUpload, Others
<1>6. ~Counting(n) /\ ~Counting(n)'
  BY <1>1, <1>3, <1>4, <1>5 DEF Counting, Uploading, IsUpload
<1>7. Balanced(n)'
  BY <1>1, <1>6 DEF Balanced, Exact, BeginUpload
<1>8. Alone(n)'
  BY <1>5 DEF Alone
<1>9. ASSUME NEW h \in Consoles, IsUpload(n, h)' PROVE InStep(n, h)'
  BY <1>2, <1>3, <1>4, <1>5, <1>9 DEF InStep, BeginUpload
<1> QED
  BY <1>7, <1>8, <1>9

LEMMA CheckExact ==
  ASSUME TypeOK, RowsStay, Keys, NEW n \in Peers, NEW i \in Consoles, Check(n, i),
         IsUpload(n, i), Exact(n)
  PROVE  Exact(n)'
<1> SUFFICES ASSUME ~disturbed'[n]
             PROVE  (Balanced(n) /\ Alone(n))' /\ \A h \in Consoles : IsUpload(n, h)' => InStep(n, h)'
  BY DEF Exact
<1> DEFINE j == job[n][i]
           used == tokens[n][n].used
           new == IF used + j.size > j.free /\ ~j.public
                  THEN None
                  ELSE [j EXCEPT !.used = used, !.stage = "send"]
<1>1. ~disturbed[n] /\ j.stage = "check" /\ j \in JobType /\ j.key = n
  BY Running DEF Check, Keys, JobKeys, IsUpload
<1>2. job' = [job EXCEPT ![n][i] = new]
  BY <1>1 DEF Check
<1>3. new = None \/ (new.used = used /\ new.stage = "send" /\ new.token = j.token)
  BY <1>1 DEF JobType
<1> HIDE DEF j, new
<1>4. job'[n][i] = new /\ Others(n, i)
  BY <1>2 DEF TypeOK, Others
<1>5. \A h \in Consoles : IsUpload(n, h) => h = i
  BY <1>1 DEF Exact, Alone
<1>6. \A h \in Consoles : IsUpload(n, h)' => h = i /\ new # None
  BY <1>4, <1>5 DEF IsUpload, Others
<1>7. ~Counting(n) /\ ~Counting(n)'
  BY <1>1, <1>3, <1>4, <1>5, <1>6 DEF Counting, IsUpload, j
<1>8. Balanced(n)'
  BY <1>1, <1>7 DEF Balanced, Exact, Check
<1>9. Alone(n)'
  BY <1>6 DEF Alone
<1>10. tokens[n][n] # None /\ j.token = tokens[n][n].token
  BY <1>1 DEF Exact, InStep, j
<1>11. ASSUME NEW h \in Consoles, IsUpload(n, h)' PROVE InStep(n, h)'
  <2>1. h = i /\ new # None
    BY <1>6, <1>11
  <2> QED
    BY <1>3, <1>4, <1>10, <2>1 DEF InStep, Check
<1> QED
  BY <1>8, <1>9, <1>11

LEMMA SendExact ==
  ASSUME TypeOK, NEW n \in Peers, NEW i \in Consoles, SendUpload(n, i), Exact(n)
  PROVE  Exact(n)'
<1> SUFFICES ASSUME ~disturbed'[n]
             PROVE  (Balanced(n) /\ Alone(n))' /\ \A h \in Consoles : IsUpload(n, h)' => InStep(n, h)'
  BY DEF Exact
<1> DEFINE j == job[n][i]
           new == [j EXCEPT !.stage = "count"]
<1>1. ~disturbed[n] /\ IsUpload(n, i) /\ j.stage = "send" /\ j \in JobType
  BY Running DEF SendUpload, IsUpload
<1>2. job' = [job EXCEPT ![n][i] = new] /\ new # None
  BY <1>1, Counted, JobSteps DEF IsUpload
<1>3. /\ new.used = j.used /\ new.size = j.size /\ new.stage = "count" /\ new.token = j.token
      /\ new.op = "upload" /\ j.token \in Tokens
  BY <1>1 DEF JobType, IsUpload
<1>4. j.used = tokens[n][n].used /\ tokens[n][n] # None /\ j.token = tokens[n][n].token
  BY <1>1 DEF Exact, InStep
<1>5. \A h \in Consoles : IsUpload(n, h) => h = i
  BY <1>1 DEF Exact, Alone
<1>6. ~Counting(n)
  BY <1>1, <1>5 DEF Counting, IsUpload
<1>7. j.used = spent[n][j.token]
  BY <1>1, <1>4, <1>6 DEF Exact, Balanced
<1>8. spent'[n][j.token] = spent[n][j.token] + j.size
  <2>1. spent' = [spent EXCEPT ![n][j.token] = spent[n][j.token] + j.size]
    BY DEF SendUpload, TypeOK
  <2> HIDE DEF j
  <2> QED
    BY <1>3, <2>1 DEF TypeOK
<1> HIDE DEF j, new
<1>9. job'[n][i] = new /\ Others(n, i)
  BY <1>2 DEF TypeOK, Others
<1>10. \A h \in Consoles : IsUpload(n, h)' => h = i
  BY <1>5, <1>9 DEF IsUpload, Others
<1>11. Counting(n)'
  BY <1>2, <1>3, <1>9 DEF Counting
<1>12. Balanced(n)'
  BY <1>11 DEF Balanced
<1>13. Alone(n)'
  BY <1>10 DEF Alone
<1>14. ASSUME NEW h \in Consoles, IsUpload(n, h)' PROVE InStep(n, h)'
  <2>1. h = i
    BY <1>10, <1>14
  <2> QED
    BY <1>3, <1>4, <1>7, <1>8, <1>9, <2>1 DEF InStep, SendUpload
<1> QED
  BY <1>12, <1>13, <1>14
LEMMA GiveUpExact ==
  ASSUME TypeOK, NEW n \in Peers, NEW i \in Consoles, GiveUp(n, i), IsUpload(n, i), Exact(n)
  PROVE  Exact(n)'
<1> SUFFICES ASSUME ~disturbed'[n]
             PROVE  (Balanced(n) /\ Alone(n))' /\ \A h \in Consoles : IsUpload(n, h)' => InStep(n, h)'
  BY DEF Exact
<1>1. ~disturbed[n] /\ job[n][i].stage = "send"
  BY DEF GiveUp
<1>2. job'[n][i] = None /\ Others(n, i)
  BY DEF GiveUp, TypeOK, Others
<1>3. \A h \in Consoles : IsUpload(n, h) => h = i
  BY <1>1 DEF Exact, Alone
<1>4. \A h \in Consoles : ~IsUpload(n, h)'
  BY <1>2, <1>3 DEF IsUpload, Others
<1>5. ~Counting(n)
  BY <1>1, <1>3 DEF Counting, IsUpload
<1>6. Balanced(n)'
  BY <1>1, <1>5 DEF Balanced, Exact, GiveUp
<1> QED
  BY <1>4, <1>6 DEF Alone

LEMMA CountExact ==
  ASSUME TypeOK, RowsStay, Keys, NEW n \in Peers, NEW i \in Consoles, Count(n, i),
         IsUpload(n, i), Exact(n)
  PROVE  Exact(n)'
<1> SUFFICES ASSUME ~disturbed'[n]
             PROVE  (Balanced(n) /\ Alone(n))' /\ \A h \in Consoles : IsUpload(n, h)' => InStep(n, h)'
  BY DEF Exact
<1> DEFINE j == job[n][i]
           row == [tokens[n][n] EXCEPT !.used = j.used + j.size]
<1>1. /\ ~disturbed[n] /\ j.stage = "count" /\ j # None /\ j.key = n
      /\ tokens[n][n] # None /\ tokens[n][n] \in RowType
  BY DEF Count, Keys, JobKeys, IsUpload, RowsStay, TypeOK
<1>2. tokens' = [tokens EXCEPT ![n][n] = row]
  BY <1>1, CountedRow
<1>3. row.used = j.used + j.size /\ row.token = tokens[n][n].token
  BY <1>1 DEF RowType
<1>4. job'[n][i] = None /\ Others(n, i)
  BY DEF Count, TypeOK, Others
<1>5. \A h \in Consoles : IsUpload(n, h) => h = i
  BY <1>1 DEF Exact, Alone
<1>6. \A h \in Consoles : ~IsUpload(n, h)'
  BY <1>4, <1>5 DEF IsUpload, Others
<1>7. j.used + j.size = spent[n][j.token] /\ j.token = tokens[n][n].token
  BY <1>1 DEF Exact, InStep
<1> HIDE DEF j, row
<1>8. tokens'[n][n] = row
  BY <1>2 DEF TypeOK
<1>9. Balanced(n)'
  BY <1>3, <1>7, <1>8 DEF Balanced, Count
<1> QED
  BY <1>6, <1>9 DEF Alone

LEMMA StoreExact ==
  ASSUME TypeOK, NEW m \in packets, StoreToken(m)
  PROVE  Exact(m.to)'
<1> DEFINE n == m.to
           row == Row(m.token, m.token.size)
<1> SUFFICES ASSUME ~disturbed'[n]
             PROVE  (Balanced(n) /\ Alone(n))' /\ \A h \in Consoles : IsUpload(n, h)' => InStep(n, h)'
  BY DEF Exact
<1>1. n \in Peers
  BY PacketFields DEF TypeOK
<1>2. ~Uploading(n) /\ spent[n][m.token] = 0
  BY <1>1 DEF StoreToken, TokenStored, TypeOK
<1>3. row.used = 0 /\ row.token = m.token
  BY DEF Row
<1>4. tokens' = [tokens EXCEPT ![n][n] = row]
  BY DEF StoreToken
<1>5. job' = job /\ spent' = spent
  BY DEF StoreToken, TokenStored
<1> HIDE DEF n, row
<1>6. tokens'[n][n] = row
  BY <1>1, <1>4 DEF TypeOK
<1>7. \A h \in Consoles : ~IsUpload(n, h)'
  BY <1>2, <1>5 DEF Uploading, IsUpload
<1>8. Balanced(n)'
  BY <1>2, <1>3, <1>5, <1>6 DEF Balanced
<1> QED
  BY <1>7, <1>8 DEF Alone

LEMMA ExactStep ==
  ASSUME TypeOK, RowsStay, Keys, [Next]_vars, NEW n \in Peers, Exact(n)
  PROVE  Exact(n)'
<1>1. ASSUME NEW p \in Peers, NEW c \in Peers, NEW size \in Reserved, NEW room \in Rooms,
             Reserve(p, c, size, room)
      PROVE  Aside(n)
  BY <1>1 DEF Reserve, Aside, TypeOK
<1>2. ASSUME NEW m \in packets, StoreToken(m) PROVE Exact(n)'
  <2>1. CASE m.to = n
    BY <1>2, <2>1, StoreExact
  <2>2. CASE m.to # n
    <3>1. Aside(n)
      BY <1>2, <2>2 DEF StoreToken, TokenStored, Aside, TypeOK
    <3> QED
      BY <3>1, AsideExact
  <2> QED
    BY <2>1, <2>2
<1>3. ASSUME NEW a \in Peers, NEW room \in Rooms, FinishRefresh(a, room) PROVE Aside(n)
  <2>1. refresh[a].key # a
    BY <1>3 DEF FinishRefresh, Keys, RefreshKeys
  <2> QED
    BY <1>3, <2>1 DEF FinishRefresh, Aside, TypeOK
<1>4. ASSUME NEW a \in Peers, NEW i \in Consoles, NEW size \in Sizes, NEW public \in BOOLEAN,
             BeginUpload(a, i, size, public)
      PROVE  Exact(n)'
  <2>1. CASE a = n
    BY <1>4, <2>1, BeginExact
  <2>2. CASE a # n
    <3>1. job'[n] = job[n] /\ disturbed'[n] = disturbed[n] /\ tokens' = tokens /\ spent' = spent
      BY <1>4, <2>2 DEF BeginUpload, Begin, TypeOK
    <3> QED
      BY <3>1, AsideExact DEF Aside
  <2> QED
    BY <2>1, <2>2
<1>5. ASSUME NEW a \in Peers, NEW i \in Consoles, NEW k \in Peers, NEW size \in Sizes,
             NEW public \in BOOLEAN, BeginUpdate(a, i, k, size, public)
      PROVE  Aside(n)
  <2> DEFINE j == Job("update", k, tokens[a][k], size, public)
  <2>1. job' = [job EXCEPT ![a][i] = j] /\ job[a][i] = None
    BY <1>5 DEF BeginUpdate, Begin
  <2>2. j.op = "update"
    BY DEF Job
  <2> HIDE DEF j
  <2>3. \A h \in Consoles : job'[n][h] = job[n][h] \/ (~IsUpload(n, h) /\ ~IsUpload(n, h)')
    BY <2>1, <2>2 DEF IsUpload, TypeOK
  <2> QED
    BY <1>5, <2>3 DEF BeginUpdate, Aside
<1>6. ASSUME NEW a \in Peers, NEW i \in Consoles, Check(a, i) PROVE Exact(n)'
  <2> DEFINE j == job[a][i]
             new == IF tokens[a][j.key].used + j.size > j.free /\ ~j.public
                    THEN None
                    ELSE [j EXCEPT !.used = tokens[a][j.key].used, !.stage = "send"]
  <2>1. CASE a = n /\ IsUpload(n, i)
    BY <1>6, <2>1, CheckExact
  <2>2. CASE ~(a = n /\ IsUpload(n, i))
    <3>1. j \in JobType /\ job' = [job EXCEPT ![a][i] = new]
      BY <1>6, Running DEF Check
    <3>2. new = None \/ new.op = j.op
      BY <3>1 DEF JobType
    <3>3. j # None
      BY <1>6 DEF Check
    <3> HIDE DEF j, new
    <3>4. \A h \in Consoles :
            job'[n][h] = job[n][h] \/ (a = n /\ h = i /\ job'[n][h] = new)
      BY <3>1 DEF TypeOK
    <3>5. a = n => ~IsUpload(n, i) /\ j.op # "upload"
      BY <2>2, <3>3 DEF IsUpload, j
    <3>6. \A h \in Consoles : job'[n][h] = job[n][h] \/ (~IsUpload(n, h) /\ ~IsUpload(n, h)')
      BY <3>2, <3>4, <3>5 DEF IsUpload
    <3>7. Aside(n)
      BY <1>6, <3>6 DEF Check, Aside
    <3> QED
      BY <3>7, AsideExact
  <2> QED
    BY <2>1, <2>2
<1>7. ASSUME NEW a \in Peers, NEW i \in Consoles, SendUpload(a, i) PROVE Exact(n)'
  <2>1. CASE a = n
    BY <1>7, <2>1, SendExact
  <2>2. CASE a # n
    <3>1. job'[n] = job[n] /\ spent'[n] = spent[n] /\ tokens' = tokens /\ disturbed' = disturbed
      BY <1>7, <2>2 DEF SendUpload, TypeOK
    <3> QED
      BY <3>1, AsideExact DEF Aside
  <2> QED
    BY <2>1, <2>2
<1>8. ASSUME NEW a \in Peers, NEW i \in Consoles, SendUpdate(a, i) PROVE Aside(n)
  <2> DEFINE new == [job[a][i] EXCEPT !.stage = "count"]
  <2>1. job[a][i] \in JobType /\ job[a][i].op = "update" /\ job' = [job EXCEPT ![a][i] = new]
    BY <1>8, Counted, Running DEF SendUpdate
  <2>2. new.op = "update"
    BY <2>1 DEF JobType
  <2> HIDE DEF new
  <2>3. \A h \in Consoles : job'[n][h] = job[n][h] \/ (~IsUpload(n, h) /\ ~IsUpload(n, h)')
    BY <2>1, <2>2 DEF IsUpload, TypeOK
  <2> QED
    BY <1>8, <2>3 DEF SendUpdate, Aside
<1>9. ASSUME NEW a \in Peers, NEW i \in Consoles, GiveUp(a, i) PROVE Exact(n)'
  <2>1. CASE a = n /\ IsUpload(n, i)
    BY <1>9, <2>1, GiveUpExact
  <2>2. CASE ~(a = n /\ IsUpload(n, i))
    <3>1. \A h \in Consoles : job'[n][h] = job[n][h] \/ (~IsUpload(n, h) /\ ~IsUpload(n, h)')
      BY <1>9, <2>2 DEF GiveUp, IsUpload, TypeOK
    <3>2. Aside(n)
      BY <1>9, <3>1 DEF GiveUp, Aside
    <3> QED
      BY <3>2, AsideExact
  <2> QED
    BY <2>1, <2>2
<1>10. ASSUME NEW a \in Peers, NEW i \in Consoles, Count(a, i) PROVE Exact(n)'
  <2> DEFINE j == job[a][i]
             row == [tokens[a][j.key] EXCEPT !.used = j.used + j.size]
  <2>1. CASE a = n /\ IsUpload(n, i)
    BY <1>10, <2>1, CountExact
  <2>2. CASE ~(a = n /\ IsUpload(n, i))
    <3>1. j # None /\ j.key \in Peers /\ tokens[a][j.key] # None
      BY <1>10, Running DEF Count, RowsStay
    <3>2. tokens' = [tokens EXCEPT ![a][j.key] = row]
      BY <1>10, <3>1, CountedRow
    <3>3. a = n => j.key # n
      BY <2>2, <3>1 DEF Keys, JobKeys, IsUpload
    <3>4. tokens'[n][n] = tokens[n][n]
      <4> HIDE DEF j, row
      <4> QED
        BY <3>1, <3>2, <3>3 DEF TypeOK
    <3>5. \A h \in Consoles : job'[n][h] = job[n][h] \/ (~IsUpload(n, h) /\ ~IsUpload(n, h)')
      BY <1>10, <2>2 DEF Count, IsUpload, TypeOK
    <3>6. Aside(n)
      BY <1>10, <3>4, <3>5 DEF Count, Aside
    <3> QED
      BY <3>6, AsideExact
  <2> QED
    BY <2>1, <2>2
<1>11. CASE UNCHANGED <<tokens, job, spent, disturbed>>
  BY <1>11, AsideExact DEF Aside
<1>12. CASE Handlers
  BY <1>1, <1>2, <1>3, <1>11, <1>12, AsideExact
     DEF Handlers, HandleUpload, HandleUpdate, HandleSaved, Lose, BeginRefresh
<1>13. CASE Commands
  BY <1>4, <1>5, <1>6, <1>7, <1>8, <1>9, <1>10, <1>13, AsideExact DEF Commands
<1> QED
  BY <1>11, <1>12, <1>13 DEF Next, Tick, vars

\* The used space of the own row is the sum of the uploads with its token, as long as
\* no two uploads and no response disturb each other.
THEOREM LedgerIsExact == Spec => []LedgerExact
<1> DEFINE AllExact == \A n \in Peers : Exact(n)
<1>1. Init => AllExact
  BY DEF Init, Exact, Balanced, Alone, IsUpload
<1>2. TypeOK /\ RowsStay /\ Keys /\ AllExact /\ [Next]_vars => AllExact'
  BY ExactStep
<1>3. AllExact => LedgerExact
  BY DEF LedgerExact, Exact, Balanced
<1> QED
  BY <1>1, <1>2, <1>3, Keyed, PTL DEF Spec
=============================================================================

----------------------------- MODULE FileStore -----------------------------
(***************************************************************************)
(* What a storage provider promises, without blobs, handlers and failures: *)
(* one table of files, changed by operations that happen at one moment,    *)
(* each for a peer that is entitled to it at that very moment.             *)
(* StorageProvider implements it.                                          *)
(***************************************************************************)
CONSTANTS
  Peers, Files, Sizes,
  Tokens,       \* what a peer is granted
  None          \* no token, no entry

VARIABLES
  grant,        \* grant[p]: the token in force for p
  table         \* table[f]: the entry of f

Granted(p) == grant[p] # None

Init ==
  /\ grant = [p \in Peers |-> None]
  /\ table = [f \in Files |-> None]

\* A new token takes the place of the old one.
Grant(p, t) ==
  /\ grant' = [grant EXCEPT ![p] = t]
  /\ UNCHANGED table

\* Anyone may store a public file, a private one takes a token; a file of the
\* same hash gets a new owner.
Put(p, f, public, size) ==
  /\ public \/ Granted(p)
  /\ table' = [table EXCEPT ![f] = [owner |-> p, token |-> IF public THEN None ELSE grant[p],
                                    public |-> public, size |-> size]]
  /\ UNCHANGED grant

Owns(p, f) == table[f] # None /\ table[f].owner = p /\ Granted(p)

\* The owner replaces the contents, or shows or hides the file.
Change(p, f, public, size) ==
  /\ Owns(p, f)
  /\ table' = [table EXCEPT ![f].public = public, ![f].size = size]
  /\ UNCHANGED grant

Remove(p, f) ==
  /\ Owns(p, f)
  /\ table' = [table EXCEPT ![f] = None]
  /\ UNCHANGED grant

Next ==
  \E p \in Peers :
    \/ \E t \in Tokens : Grant(p, t)
    \/ \E f \in Files :
         \/ \E public \in BOOLEAN, size \in Sizes : Put(p, f, public, size) \/ Change(p, f, public, size)
         \/ Remove(p, f)

Spec == Init /\ [][Next]_<<grant, table>>
=============================================================================

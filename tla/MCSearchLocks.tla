-------------------------- MODULE MCSearchLocks --------------------------
(***************************************************************************)
(* Two connections, the initiator's (ci) and the target's (ct), and a third *)
(* one (cn) that is accepted during the run or has been there before.       *)
(***************************************************************************)
EXTENDS SearchLocks, TLC

CONSTANTS ci, ct, cn, ki, kt, kn, t1, t2, t3, t4, t5

Do(job, conn, key, from) == [do |-> job, conn |-> conn, key |-> key, from |-> from]

Own(l) == [c \in {ci, ct, cn} |->
  IF \A n \in 1 .. Len(l) : l[n] # c THEN NoKey ELSE CASE c = ci -> ki [] c = ct -> kt [] c = cn -> kn]

\* A peer of this server searches for another one and is searched for by one of
\* another server; both are relabelled and a client connects.
TwoSearches ==
  [list |-> <<ct, ci>>, label |-> Own(<<ct, ci>>),
   job |-> t1 :> Do("search", ct, kt, ki) @@ t2 :> Do("search", ci, ki, kn)
             @@ t3 :> Do("set_peer_key", ct, kt, kt) @@ t4 :> Do("set_peer_key", ci, ki, ki)
             @@ t5 :> Do("add_peer", cn, kn, kn)]

\* One search against every other handler; the target may leave.
OneSearch ==
  [list |-> <<ci, ct>>, label |-> Own(<<ci, ct>>),
   job |-> t1 :> Do("search", ct, kt, ki) @@ t2 :> Do("set_peer_key", ct, kt, kt)
             @@ t3 :> Do("walk", cn, kt, kn) @@ t4 :> Do("add_peer", cn, kn, kn)
             @@ t5 :> Do("remove_peer", ct, kt, kt)]

AllLoads == {TwoSearches, OneSearch}
=============================================================================

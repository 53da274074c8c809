---------------------------- MODULE MCPeerSearch ----------------------------
(***************************************************************************)
(* Topologies for PeerSearch.  Connections are named by client and server: *)
(* ab is the connection server A opened to server B, pa the one peer p     *)
(* opened to server A.                                                     *)
(***************************************************************************)
EXTENDS PeerSearch, FiniteSets, TLC

CONSTANTS A, B, C, p, q, r, t, ab, bc, pa, qa, tb, rb, tc, ca, ac, pc

\* p and q on A, t and r on B, A a client of B.  p is the only peer whose searches
\* cross the link; the searches of q and r stay on one server.
QuietConn  == {ab, pa, qa, tb, rb}
QuietAt    == ab :> B @@ pa :> A @@ qa :> A @@ tb :> B @@ rb :> B
QuietOwner == ab :> A @@ pa :> p @@ qa :> q @@ tb :> t @@ rb :> r
QuietSearches == {<<pa, t>>, <<pa, r>>, <<rb, t>>, <<qa, p>>}

\* p on A, t on C, A a client of B, B a client of C.
ChainConn  == {ab, bc, pa, tc}
ChainAt    == ab :> B @@ bc :> C @@ pa :> A @@ tc :> C
ChainOwner == ab :> A @@ bc :> B @@ pa :> p @@ tc :> t

\* The chain closed to a cycle; t moves between B and C, and q is nowhere.
CycleConn  == ChainConn \cup {ca, tb}
CycleAt    == ChainAt @@ ca :> A @@ tb :> B
CycleOwner == ChainOwner @@ ca :> C @@ tb :> t
CycleSearches == {<<pa, t>>, <<pa, q>>}

\* A is a client of B and of C, B of C; p moves from A to C, where t is.
TriangleConn  == {ab, bc, ac, pa, pc, tc}
TriangleAt    == ab :> B @@ bc :> C @@ ac :> C @@ pa :> A @@ pc :> C @@ tc :> C
TriangleOwner == ab :> A @@ bc :> B @@ ac :> A @@ pa :> p @@ pc :> p @@ tc :> t
TriangleSearches == {<<pa, t>>}

\* Only so many packets and handlers at a time.
FewTasks == Cardinality(tasks) <= 3
=============================================================================

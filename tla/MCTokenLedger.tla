--------------------------- MODULE MCTokenLedger ---------------------------
(***************************************************************************)
(* Two peers that are clients of each other, with two consoles each.       *)
(***************************************************************************)
EXTENDS TokenLedger, TLC

CONSTANTS p, q, i1, i2, first, second

\* Peers, consoles and copies differ in nothing but their names.
Symmetry == Permutations({p, q}) \cup Permutations({i1, i2}) \cup Permutations({first, second})
=============================================================================

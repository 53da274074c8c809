------------------------ MODULE MCStorageProvider ------------------------
(***************************************************************************)
(* A provider with room for three units, two client peers, one or two      *)
(* files of one or two units and reservations at two different times.      *)
(***************************************************************************)
EXTENDS StorageProvider, TLC

CONSTANTS p, q, s1, s2

\* Peers and times are only compared for equality.
Symmetry == Permutations(Peers) \cup Permutations(Seconds)
=============================================================================

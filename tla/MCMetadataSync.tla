--------------------------- MODULE MCMetadataSync ---------------------------
(***************************************************************************)
(* E is a client of A, A of B, B of C, and C and D of each other.  The     *)
(* provider is on A, the owner of the file on B.                           *)
(***************************************************************************)
EXTENDS MetadataSync

CONSTANTS A, B, C, D, E, storer, owner

ChainAndLoop == {<<E, A>>, <<A, B>>, <<B, C>>, <<C, D>>, <<D, C>>}
ChainHome == [p \in {storer, owner} |-> IF p = storer THEN A ELSE B]
=============================================================================

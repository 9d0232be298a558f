--------------------------- MODULE MCReplication ---------------------------
(* Small instances of Replication for TLC. *)
EXTENDS Replication, TLC

CONSTANTS p1, p2

PeerSymmetry == Permutations({p1, p2})
=============================================================================

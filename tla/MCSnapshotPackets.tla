------------------------- MODULE MCSnapshotPackets -------------------------
(* Small streams of SnapshotPackets for TLC: names of different lengths.    *)
EXTENDS SnapshotPackets

CONSTANTS x, y, z, alloc

\* All NetVars in one instance.
OneInstance == [v \in {x, y, z} |-> 1]

Sizes == [name \in {x, y, z, alloc} |-> IF name = y THEN 5 ELSE IF name = z THEN 4 ELSE 3]
=============================================================================

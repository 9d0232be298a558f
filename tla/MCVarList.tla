----------------------------- MODULE MCVarList -----------------------------
(* Small lists of VarList for TLC: one element of the owner, one of the     *)
(* server.                                                                  *)
EXTENDS VarList

CONSTANTS p1, p2, mine, theirs

EachItsOwn == [k \in {mine, theirs} |-> IF k = mine THEN p1 ELSE Server]
=============================================================================

--------------------------- MODULE MCNetVarThreads --------------------------
(* One variable of two words for TLC.                                       *)
EXTENDS NetVarThreads
=============================================================================

--------------------------- MODULE MCPlayerRealm ---------------------------
(* Small realms of CPlayerRealm for TLC.                                    *)
EXTENDS PlayerRealm

CONSTANTS a, b, c, d, peer
=============================================================================

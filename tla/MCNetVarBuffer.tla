--------------------------- MODULE MCNetVarBuffer ---------------------------
(* Positions for TLC: the second is within kMaxInterpolationDistance of the
   first, the third within kMaxInterpolationBandingDist of the second only. *)
EXTENDS NetVarBuffer

Positions == {0, 12 * 625, 50 * 625}
Unfilled == {-5 * 625, 900 * 625}
=============================================================================

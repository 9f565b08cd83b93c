------------------------- MODULE MCTurnstileSolve --------------------------
(* Small instances of TurnstileSolve for TLC: solves s1 and s2. *)
EXTENDS TurnstileSolve

CONSTANTS s1, s2
=============================================================================

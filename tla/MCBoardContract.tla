-------------------------- MODULE MCBoardContract --------------------------
(* A Board of a few squares for TLC. *)
EXTENDS BoardContract

CONSTANTS pawn, rook

MCMoves == [from : Squares]

MCWorth == [pce \in Pieces |-> IF pce = pawn THEN 100 ELSE -550]

============================================================================

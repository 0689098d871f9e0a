------------------------- MODULE MCOutputRedirect --------------------------
(***************************************************************************)
(* OutputRedirect for TLC.                                                 *)
(***************************************************************************)
EXTENDS OutputRedirect, TLC

CONSTANTS w1, w2, b1, b2

\* Threads and boards may be exchanged for each other.
Symmetric == Permutations(Workers) \cup Permutations(Boards)

============================================================================

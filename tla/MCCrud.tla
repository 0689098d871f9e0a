------------------------------- MODULE MCCrud -------------------------------
(***************************************************************************)
(* CrudStore for TLC.                                                      *)
(***************************************************************************)
EXTENDS CrudStore, TLC

CONSTANTS w1, w2, shoes, hats, red, blue

\* Threads and documents may be exchanged for each other.
Symmetric == Permutations(Workers) \cup Permutations(Docs)

=============================================================================

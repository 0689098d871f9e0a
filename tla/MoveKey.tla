------------------------------ MODULE MoveKey ------------------------------
(***************************************************************************)
(* The integer a move is packed into by Movegen::getMove, bit by bit, and  *)
(* the accessors of src/src/chess/defs.cpp that read it.  The integer is   *)
(* the set of its bits that are 1: | is union, a mask is an interval.      *)
(***************************************************************************)
EXTENDS Integers

\* n << shift, for a field of at most four bits.
Bits(n, shift) == {shift + i : i \in {k \in 0..3 : (n \div 2^k) % 2 = 1}}

Flag(condition, bit) == IF condition THEN {bit} ELSE {}

\* Mutant: the captured piece overlaps the last bit of the target column.
moveKey_Overlap(move) ==
    Bits(move.from[1], 0) \cup Bits(move.from[2], 3)
        \cup Bits(move.to[1], 6) \cup Bits(move.to[2], 9)
        \cup Bits(move.captured, 11) \cup Flag(move.enpas, 16)
        \cup Flag(move.pawnstart, 17) \cup Bits(move.promoted, 18)
        \cup Flag(move.castle, 22)

moveKey(move) ==
    Bits(move.from[1], 0) \cup Bits(move.from[2], 3)
        \cup Bits(move.to[1], 6) \cup Bits(move.to[2], 9)
        \cup Bits(move.captured, 12) \cup Flag(move.enpas, 16)
        \cup Flag(move.pawnstart, 17) \cup Bits(move.promoted, 18)
        \cup Flag(move.castle, 22)

\* (key & mask) >> first, the mask being the bits from first to last.
Field(key, first, last) ==
    LET bit(k) == IF first + k <= last /\ first + k \in key THEN 2^k ELSE 0
    IN  bit(0) + bit(1) + bit(2) + bit(3)

\* The move the accessors read from a key.
readMove(key) ==
    [from      |-> <<Field(key, 0, 2), Field(key, 3, 5)>>,
     to        |-> <<Field(key, 6, 8), Field(key, 9, 11)>>,
     captured  |-> Field(key, 12, 15),
     enpas     |-> Field(key, 16, 16) # 0,
     pawnstart |-> Field(key, 17, 17) # 0,
     promoted  |-> Field(key, 18, 21),
     castle    |-> Field(key, 22, 22) # 0]

\* The integer 0.
NOMOVE == {}

============================================================================

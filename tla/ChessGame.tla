----------------------------- MODULE ChessGame -----------------------------
(***************************************************************************)
(* A game of chess whose players may take moves back: the line of          *)
(* positions from the start to the present one.                            *)
(***************************************************************************)
EXTENDS ChessRules, Sequences

CONSTANT Starts

VARIABLE line

Position(game) == game[Len(game)]

Init == \E pos \in Starts : line = <<pos>>

\* The lines that one more legal move leads to.
Continuations(game) ==
    {Append(game, After(Position(game), move)) : move \in LegalMoves(Position(game))}

Play == line' \in Continuations(line)

Undo == Len(line) > 1 /\ line' = SubSeq(line, 1, Len(line) - 1)

Next == Play \/ Undo

Spec == Init /\ [][Next]_line

============================================================================

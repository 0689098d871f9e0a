--------------------------- MODULE BoardContract ---------------------------
(***************************************************************************)
(* A Board object driven by any caller that keeps the promises of board.h  *)
(* (src/include/chess/board.h): pieces are added on empty squares only and *)
(* removed from occupied ones, an en passant square is set only when none  *)
(* is, history is popped only when there is some, and neither array        *)
(* overflows: MAXGAMELENGTH entries of history, ListSlots pieces of a      *)
(* type.  Movegen is one such caller; here the calls come in any order.    *)
(***************************************************************************)
EXTENDS Board, FiniteSets, FiniteSetsExt

CONSTANTS MAXGAMELENGTH,  \* length of the history array
          ListSlots       \* entries of pListR and pListC per piece type

ASSUME LengthAssumption == MAXGAMELENGTH \in Nat /\ ListSlots \in Nat

VARIABLE board

TypeOK == board \in Boards

----------------------------------------------------------------------------
Init == board = ClearBoard

AddPiece(sq, pce) ==
    /\ board.mBoard[sq] = NOPIECE
    /\ Len(board.pList[pce]) < ListSlots
    /\ board' = addPiece(board, sq, pce)

RemovePiece(sq) ==
    /\ board.mBoard[sq] # NOPIECE
    /\ board' = removePiece(board, sq)

HashInCastle(right) == board' = hashInCastle(board, right)

HashOutCastle(right) == board' = hashOutCastle(board, right)

HashInEp(sq) ==
    /\ board.enpas = OFFBOARD
    /\ board' = hashInEp(board, sq)

HashOutEp == board' = hashOutEp(board)

ChangeSide == board' = changeSide(board)

PushHistory(move) ==
    /\ board.mBoard[move.from] # NOPIECE
    /\ hisPly(board) < MAXGAMELENGTH
    /\ board' = pushHistory(board, move)

PopHistory ==
    /\ hisPly(board) > 0
    /\ board' = popHistory(board)

UpdateFiftyMove == board' = updateFiftyMove(board)

Clear == board' = ClearBoard

Next ==
    \/ \E sq \in Squares, pce \in Pieces : AddPiece(sq, pce)
    \/ \E sq \in Squares : RemovePiece(sq)
    \/ \E right \in CastleRights : HashInCastle(right) \/ HashOutCastle(right)
    \/ \E sq \in Squares : HashInEp(sq)
    \/ HashOutEp
    \/ ChangeSide
    \/ \E move \in Moves : PushHistory(move)
    \/ PopHistory
    \/ UpdateFiftyMove
    \/ Clear

Spec == Init /\ [][Next]_board

----------------------------------------------------------------------------
\* Whatever the order of calls, every piece list names exactly the squares
\* that hold that piece, each once: the swap-and-shrink of removePiece, of
\* which its author asks "does this actually work???", does.
ListsMatchBoard == ListsMatch(board)

\* The position key kept by XORing changes in and out is the key of the
\* position on the board: pieces, side, castling rights and en passant square.
PosKeyMatchesBoard == board.posKey = KeyOf(board)

\* The running material balance is the sum over the pieces on the board.
MaterialMatchesBoard ==
    board.material =
        MapThenSumSet(LAMBDA sq : Worth[board.mBoard[sq]], Occupied(board))

\* The ply of the last irreversible move is never later than the present,
\* however calls of pushHistory, updateFiftyMove and popHistory follow one
\* another: numRep and the fifty-move rule count back from hisPly to it.
FiftyMoveInPast == board.fiftyMove \in 0..hisPly(board)

============================================================================

---------------------------- MODULE MovegenRules ----------------------------
(***************************************************************************)
(* What the move generator promises: its board, read as a position, plays  *)
(* chess by the rules.  line is a history variable: after every step it is *)
(* the positions of the game as taking back move after move finds them.    *)
(***************************************************************************)
EXTENDS Movegen

CONSTANT PlyBound(_)  \* bound on the plies played from a start position

VARIABLE line

Rules == INSTANCE ChessRules

Packed == INSTANCE MoveKey

\* The position a board stands for.
ManOf(pce) ==
    <<IF pce <= WK THEN "white" ELSE "black",
      <<"pawn", "knight", "bishop", "rook", "queen", "king">>[1 + (pce % 6)]>>

ColourOf(side) == IF side = WHITE THEN "white" ELSE "black"

RightOf(right) ==
    <<IF right \in {WKCA, WQCA} THEN "white" ELSE "black",
      IF right \in {WKCA, BKCA} THEN "king" ELSE "queen">>

PositionOf(bd) ==
    [men    |-> [sq \in Occupied(bd) |-> ManOf(bd.mBoard[sq])],
     side   |-> ColourOf(bd.side),
     rights |-> {RightOf(right) : right \in bd.castlePerm},
     passed |-> {bd.enpas} \ {OFFBOARD}]

\* A move of the generator as a move of the rules.
MoveOf(bd, move) ==
    [from |-> move.from, to |-> move.to,
     kind |-> ManOf(IF move.promoted = NOPIECE
                    THEN bd.mBoard[move.from] ELSE move.promoted)[2]]

\* The positions of the game so far, found by taking back move after move
\* on a copy of the board.
LineOf(bd) ==
    LET n == hisPly(bd)
        back[k \in 0..n] == IF k = 0 THEN bd ELSE takeBack(back[k - 1])
    IN  [i \in 1..(n + 1) |-> PositionOf(back[n + 1 - i])]

RecordedInit == Init /\ line = LineOf(board)

RecordedNext ==
    /\ Next
    /\ hisPly(board') <= PlyBound(line[1])
    /\ line' = LineOf(board')

RecordedSpec == RecordedInit /\ [][RecordedNext]_<<board, line>>

Game == INSTANCE ChessGame
            WITH Starts <- {PositionOf(parseFen(fen)) : fen \in StartFens}

----------------------------------------------------------------------------
\* The engine plays chess: every makeMove that is accepted is a legal move to
\* the position the rules give, every rejected one leaves the position alone,
\* and takeBack undoes exactly the last move, to whatever depth the moves are
\* taken back (castling rights, en passant square and captured pieces too).
PlaysChess == Game!Spec

\* Of the generated moves, makeMove accepts exactly the legal ones: nothing is
\* missing, no illegal move slips through and no two are the same move.
AcceptsLegalMoves ==
    LET accepted == {move \in generateMoves(board) : makeMove(board, move).legal}
        moves == {MoveOf(board, move) : move \in accepted}
    IN  /\ moves = Rules!LegalMoves(PositionOf(board))
        /\ Cardinality(moves) = Cardinality(accepted)

\* generateCaptures, a second generator for the quiescence search, yields
\* exactly the capturing moves of generateMoves, en passant among them.
CapturesAreCaptures ==
    generateCaptures(board) =
        {move \in generateMoves(board) :
            Rules!Captures(PositionOf(board), MoveOf(board, move))}

\* A castling right stands for king and rook on their first squares.
RightsMeanHome ==
    \A right \in board.castlePerm :
        /\ getKing(board, SideOf(right)) = KingHome(right)
        /\ board.mBoard[RookHome(right)] = Rook(SideOf(right))

\* The redundant forms of the position still agree after any play: what the
\* piece lists, position key and material say is what the squares say, and
\* every right, by which alone generateMoves castles, has its king and rook at
\* home.  So no makeMove or takeBack looks for a piece that is not there, which
\* ends the process.
BoardConsistent ==
    /\ ListsMatch(board)
    /\ board.posKey = KeyOf(board)
    /\ board.material =
          MapThenSumSet(LAMBDA sq : Worth[board.mBoard[sq]], Occupied(board))
    /\ RightsMeanHome
    /\ ~board.exited

\* A move survives being packed into an integer and read back, so two moves
\* never share a key, and no key is the NOMOVE that means the absence of one.
KeysIdentifyMoves ==
    \A move \in generateMoves(board) :
        LET key == Packed!moveKey(move)
        IN  Packed!readMove(key) = move /\ key # Packed!NOMOVE

\* gameWinner tells checkmate, stalemate and an open game apart.
OutcomeOf(winner) ==
    CASE winner = -1 -> "open" [] winner = NEITHER -> "draw"
      [] OTHER -> ColourOf(winner)

WinnerIsOutcome ==
    OutcomeOf(gameWinner(board).winner) = Rules!Outcome(PositionOf(board))

\* The server keeps no board between requests, so a position must survive
\* getFen and parseFen: the rank of the en passant square, which getFen
\* derives from the side to move, and the position key included.
FenRoundTrip ==
    LET read == parseFen(getFen(board))
    IN  PositionOf(read) = PositionOf(board) /\ read.posKey = board.posKey

\* numRep, which looks back only to the last irreversible move, finds every
\* earlier occurrence of the position (it stops counting at two).
RepetitionsFound ==
    LET n == hisPly(board)
        earlier == Cardinality({i \in 1..n : line[i] = line[n + 1]})
    IN  numRep(board) = IF earlier > 2 THEN 2 ELSE earlier

============================================================================

------------------------------ MODULE Movegen ------------------------------
(***************************************************************************)
(* The chess engine's move generator and executor (src/src/chess/          *)
(* movegen.cpp) driving one Board: pseudo-legal moves, attacked squares,   *)
(* makeMove with its rejection of moves that leave the king in check,      *)
(* takeBack, the outcome of a game, and reading and writing FEN.           *)
(*                                                                         *)
(* A square is <<row, column>>, row 0 being the eighth rank as in the      *)
(* code.  A move key's bit fields are the fields of a record (MoveKey      *)
(* checks the bits), a move list is a set, and a FEN string is a record of *)
(* its four sections.                                                      *)
(***************************************************************************)
EXTENDS Board, FiniteSetsExt, SequencesExt

CONSTANTS StartFens,    \* the positions a game may start from
          MaxPly        \* bound on the length of a game

ChessSquares == (0..7) \X (0..7)

WP == 0   WN == 1   WB == 2   WR == 3   WQ == 4    WK == 5
BP == 6   BN == 7   BB == 8   BR == 9   BQ == 10   BK == 11
ChessPieces == 0..11

ChessWorth == [pce \in ChessPieces |->
                 LET value == <<100, 325, 325, 550, 1000, 50000>>
                 IN  IF pce <= WK THEN value[pce + 1] ELSE -value[pce - BP + 1]]

WKCA == 8   WQCA == 4   BKCA == 2   BQCA == 1

\* What getMove packs.
ChessMoves ==
    [from : Squares, to : Squares, captured : Pieces \cup {NOPIECE}, enpas : BOOLEAN,
     pawnstart : BOOLEAN, promoted : Pieces \cup {NOPIECE}, castle : BOOLEAN]

\* The board is a chess board.
ASSUME ChessBoardAssumption ==
    /\ Squares = ChessSquares /\ OFFBOARD = <<-1, -1>>
    /\ Pieces = ChessPieces /\ NOPIECE = 12
    /\ Worth = ChessWorth
    /\ CastleRights = {WKCA, WQCA, BKCA, BQCA}
    /\ Moves = ChessMoves

VARIABLE board

----------------------------------------------------------------------------
(* Pieces and the squares they see.                                        *)

PceCol(pce) == IF pce <= WK THEN WHITE ELSE BLACK

isPawn(pce) == pce \in {WP, BP}
isKing(pce) == pce \in {WK, BK}
doDiag(pce) == pce \in {WB, BB, WQ, BQ}
doVert(pce) == pce \in {WR, BR, WQ, BQ}

PiecesOf(side) == IF side = WHITE THEN WP..WK ELSE BP..BK

King(side) == IF side = WHITE THEN WK ELSE BK

getKing(bd, side) == bd.pList[King(side)][1]

Offset(sq, step) == <<sq[1] + step[1], sq[2] + step[2]>>

Diagonals == {-1, 1} \X {-1, 1}
Verticals == {<<0, 1>>, <<0, -1>>, <<-1, 0>>, <<1, 0>>}
KnightSteps == ({-1, 1} \X {-2, 2}) \cup ({-2, 2} \X {-1, 1})

\* The squares met from sq in direction step, to the edge of the board.
Ray == [sq \in Squares |-> [step \in Diagonals \cup Verticals |->
          LET at(k) == <<sq[1] + k * step[1], sq[2] + k * step[2]>>
          IN  [k \in 1..Cardinality({k \in 1..7 : at(k) \in Squares}) |-> at(k)]]]

\* One of the eight loops of a sliding piece: up to and including the first
\* occupied square.
Slide(bd, sq, step) ==
    LET ray == Ray[sq][step]
        met == {k \in DOMAIN ray : bd.mBoard[ray[k]] # NOPIECE}
    IN  {ray[k] : k \in 1..(IF met = {} THEN Len(ray) ELSE Min(met))}

\* The squares a knight, king or sliding piece on sq sees.
Seen(bd, pce, sq) ==
    IF pce \in {WN, BN} THEN {Offset(sq, s) : s \in KnightSteps} \cap Squares
    ELSE IF isKing(pce)
         THEN {Offset(sq, s) : s \in Diagonals \cup Verticals} \cap Squares
    ELSE UNION {Slide(bd, sq, s) :
                  s \in (IF doDiag(pce) THEN Diagonals ELSE {})
                          \cup (IF doVert(pce) THEN Verticals ELSE {})}

PawnStep(pce) == IF pce = WP THEN -1 ELSE 1

PawnSides(pce, sq) ==
    {<<sq[1] + PawnStep(pce), sq[2] - 1>>, <<sq[1] + PawnStep(pce), sq[2] + 1>>}
        \cap Squares

\* The squares a piece on sq attacks.
Reach(bd, pce, sq) == IF isPawn(pce) THEN PawnSides(pce, sq) ELSE Seen(bd, pce, sq)

\* Does a piece of the other side than side see sq?  The pieces are those in
\* the piece lists.
squareAttacked(bd, sq, side) ==
    \E pce \in Pieces \ PiecesOf(side) : \E i \in DOMAIN bd.pList[pce] :
        sq \in Reach(bd, pce, bd.pList[pce][i])

----------------------------------------------------------------------------
(* Move generation.                                                        *)

HasEnemy(bd, sq) ==
    bd.mBoard[sq] # NOPIECE /\ PceCol(bd.mBoard[sq]) # bd.side

CanLand(bd, sq) == bd.mBoard[sq] = NOPIECE \/ PceCol(bd.mBoard[sq]) # bd.side

getMove(bd, from, to, promoted) ==
    LET pawnMove == isPawn(bd.mBoard[from])
    IN  [from      |-> from,
         to        |-> to,
         captured  |-> bd.mBoard[to],
         enpas     |-> pawnMove /\ to = bd.enpas /\ from[1] \in {3, 4},
         pawnstart |-> pawnMove /\ to[1] - from[1] \in {-2, 2},
         promoted  |-> promoted,
         castle    |-> isKing(bd.mBoard[from]) /\ from[2] = 4 /\ to[2] \in {2, 6}]

\* Mutant: a pawn only ever becomes a queen.
PawnMovesTo_QueenOnly(bd, pce, from, to) ==
    LET last == IF pce = WP THEN 1 ELSE 6
    IN  {getMove(bd, from, to,
                 IF from[1] # last THEN NOPIECE ELSE IF pce = WP THEN WQ ELSE BQ)}

\* A pawn's move to one square: four moves when it is the last rank.
PawnMovesTo(bd, pce, from, to) ==
    LET last == IF pce = WP THEN 1 ELSE 6
        promotions == IF pce = WP THEN {WN, WB, WR, WQ} ELSE {BN, BB, BR, BQ}
    IN  {getMove(bd, from, to, promoted) :
           promoted \in IF from[1] = last THEN promotions ELSE {NOPIECE}}

\* Mutant: the double step does not look at the square in between.
PawnAdvances_Jumps(bd, pce, from) ==
    LET one == Offset(from, <<PawnStep(pce), 0>>)
        two == Offset(one, <<PawnStep(pce), 0>>)
        start == IF pce = WP THEN 6 ELSE 1
        free(sq) == bd.mBoard[sq] = NOPIECE
    IN  (IF free(one) THEN PawnMovesTo(bd, pce, from, one) ELSE {})
          \cup (IF from[1] = start /\ free(two)
                THEN {getMove(bd, from, two, NOPIECE)} ELSE {})

PawnAdvances(bd, pce, from) ==
    LET one == Offset(from, <<PawnStep(pce), 0>>)
        two == Offset(one, <<PawnStep(pce), 0>>)
        start == IF pce = WP THEN 6 ELSE 1
        free(sq) == bd.mBoard[sq] = NOPIECE
    IN  (IF free(one) THEN PawnMovesTo(bd, pce, from, one) ELSE {})
          \cup (IF free(one) /\ from[1] = start /\ free(two)
                THEN {getMove(bd, from, two, NOPIECE)} ELSE {})

PawnTakes(bd, pce, from) ==
    UNION {PawnMovesTo(bd, pce, from, to) :
             to \in {sq \in PawnSides(pce, from) : HasEnemy(bd, sq)}}

PawnPasses(bd, pce, from) ==
    LET fifth == IF pce = WP THEN 3 ELSE 4
    IN  {getMove(bd, from, to, NOPIECE) :
           to \in {sq \in PawnSides(pce, from) : from[1] = fifth /\ sq = bd.enpas}}

PawnCaptures(bd, pce, from) == PawnTakes(bd, pce, from) \cup PawnPasses(bd, pce, from)

hasKcPerm(bd) == (IF bd.side = WHITE THEN WKCA ELSE BKCA) \in bd.castlePerm

hasQcPerm(bd) == (IF bd.side = WHITE THEN WQCA ELSE BQCA) \in bd.castlePerm

\* Mutant: the square the king crosses may be attacked.
CastleMoves_ThroughCheck(bd, king) ==
    LET at(c) == <<king[1], king[2] + c>>
        empty(c) == bd.mBoard[at(c)] = NOPIECE
        safe == ~squareAttacked(bd, king, bd.side)
        short == hasKcPerm(bd) /\ empty(1) /\ empty(2) /\ safe
        long == hasQcPerm(bd) /\ empty(-1) /\ empty(-2) /\ empty(-3) /\ safe
    IN  (IF short THEN {getMove(bd, king, at(2), NOPIECE)} ELSE {})
          \cup (IF long THEN {getMove(bd, king, at(-2), NOPIECE)} ELSE {})

\* The rook is not looked at: the right stands for it.
CastleMoves(bd, king) ==
    LET at(c) == <<king[1], king[2] + c>>
        empty(c) == bd.mBoard[at(c)] = NOPIECE
        safe(c) == ~squareAttacked(bd, at(c), bd.side)
        short == /\ hasKcPerm(bd)
                 /\ empty(1) /\ empty(2) /\ safe(0) /\ safe(1)
        long == /\ hasQcPerm(bd)
                /\ empty(-1) /\ empty(-2) /\ empty(-3) /\ safe(0) /\ safe(-1)
    IN  (IF short THEN {getMove(bd, king, at(2), NOPIECE)} ELSE {})
          \cup (IF long THEN {getMove(bd, king, at(-2), NOPIECE)} ELSE {})

PieceMoves(bd, pce, from) ==
    IF isPawn(pce)
    THEN PawnAdvances(bd, pce, from) \cup PawnCaptures(bd, pce, from)
    ELSE {getMove(bd, from, to, NOPIECE) :
            to \in {sq \in Seen(bd, pce, from) : CanLand(bd, sq)}}
           \cup (IF isKing(pce) THEN CastleMoves(bd, from) ELSE {})

generateMoves(bd) ==
    UNION {UNION {PieceMoves(bd, pce, bd.pList[pce][i]) :
                    i \in DOMAIN bd.pList[pce]} :
             pce \in PiecesOf(bd.side)}

\* Mutants: no en passant among the captures; a capture of one's own man.
PieceCaptures_NoEnpas(bd, pce, from) ==
    {move \in PieceMoves(bd, pce, from) : move.captured # NOPIECE}

PieceCaptures_AnyMan(bd, pce, from) ==
    IF isPawn(pce)
    THEN PawnCaptures(bd, pce, from)
    ELSE {getMove(bd, from, to, NOPIECE) :
            to \in {sq \in Seen(bd, pce, from) : bd.mBoard[sq] # NOPIECE}}

PieceCaptures(bd, pce, from) ==
    IF isPawn(pce)
    THEN PawnCaptures(bd, pce, from)
    ELSE {getMove(bd, from, to, NOPIECE) :
            to \in {sq \in Seen(bd, pce, from) : HasEnemy(bd, sq)}}

generateCaptures(bd) ==
    UNION {UNION {PieceCaptures(bd, pce, bd.pList[pce][i]) :
                    i \in DOMAIN bd.pList[pce]} :
             pce \in PiecesOf(bd.side)}

----------------------------------------------------------------------------
(* Making a move and taking it back.                                       *)

\* Mutant: the direction is the other side's.
Behind_Swapped(to, side) == <<to[1] + (IF side = BLACK THEN 1 ELSE -1), to[2]>>

\* The square behind to, seen by side: where an en passant victim stands,
\* and the en passant square of a pawn's double step.
Behind(to, side) == <<to[1] + (IF side = WHITE THEN 1 ELSE -1), to[2]>>

Pawn(side) == IF side = WHITE THEN WP ELSE BP

Rook(side) == IF side = WHITE THEN WR ELSE BR

\* The rook's part of castling to column 2 or 6: from its corner to beside
\* the king's new square.
RookCorner(side, to) ==
    <<IF side = WHITE THEN 7 ELSE 0, IF to[2] = 2 THEN 0 ELSE 7>>

RookLanding(side, to) ==
    <<IF side = WHITE THEN 7 ELSE 0, IF to[2] = 2 THEN 3 ELSE 5>>

moveRook(bd, from, to, side) == addPiece(removePiece(bd, from), to, Rook(side))

Corners == {0, 7} \X {0, 7}

CornerRight(sq) ==
    IF sq[1] = 7 THEN (IF sq[2] = 7 THEN WKCA ELSE WQCA)
    ELSE IF sq[2] = 7 THEN BKCA ELSE BQCA

\* Mutant: a rook taken in its corner leaves its right behind.
RightsLost_FromOnly(side, pce, move) ==
    (IF ~isKing(pce) THEN {}
     ELSE IF side = WHITE THEN {WKCA, WQCA} ELSE {BKCA, BQCA})
      \cup {CornerRight(sq) : sq \in {move.from} \cap Corners}

\* A king's move costs its side both rights, a move from or to a corner the
\* right of that corner.
RightsLost(side, pce, move) ==
    (IF ~isKing(pce) THEN {}
     ELSE IF side = WHITE THEN {WKCA, WQCA} ELSE {BKCA, BQCA})
      \cup {CornerRight(sq) : sq \in {move.from, move.to} \cap Corners}

\* Mutants: the en passant square, the rights are not restored; a promoted
\* piece goes back as it is.
restoreEnpas_Clears(bd, last) == hashOutEp(bd)

restoreRights_Forgets(bd, last) == bd

movePieceBack_KeepsPromotion(bd, last) ==
    addPiece(removePiece(bd, last.move.to), last.move.from,
             bd.mBoard[last.move.to])

\* Parts of takeBack, from the entry of history that is undone.
restoreSpecial(bd, move) ==
    IF move.enpas
    THEN addPiece(bd, Behind(move.to, bd.side), Pawn(1 - bd.side))
    ELSE IF move.castle
    THEN moveRook(bd, RookLanding(bd.side, move.to),
                  RookCorner(bd.side, move.to), bd.side)
    ELSE bd

restoreEnpas(bd, last) ==
    LET cleared == hashOutEp(bd)
    IN  IF last.enpas # OFFBOARD THEN hashInEp(cleared, last.enpas) ELSE cleared

restoreRights(bd, last) ==
    FoldSet(LAMBDA right, b : hashInCastle(b, right), bd, last.castlePerm)

movePieceBack(bd, last) ==
    LET move == last.move
        pawn == Pawn(PceCol(last.pce))
        demoted == IF move.promoted = NOPIECE
                   THEN bd ELSE addPiece(removePiece(bd, move.to), move.to, pawn)
        moved == addPiece(removePiece(demoted, move.to), move.from,
                          IF move.promoted = NOPIECE THEN last.pce ELSE pawn)
    IN  IF move.captured # NOPIECE
        THEN addPiece(moved, move.to, move.captured) ELSE moved

takeBack(bd) ==
    LET last == getLastState(bd)
        special == restoreSpecial(changeSide(bd), last.move)
        rights == restoreRights(restoreEnpas(special, last), last)
    IN  IF last.pce = NOPIECE
        THEN [bd EXCEPT !.exited = TRUE]
        ELSE popHistory(movePieceBack(rights, last))

\* Parts of makeMove, in its order: the man beside or away from the squares of
\* the move, the rights, the en passant square, the man moved, the fifty moves.
makeSpecial(bd, move) ==
    IF move.enpas
    THEN removePiece(bd, Behind(move.to, bd.side))
    ELSE IF move.castle
    THEN moveRook(bd, RookCorner(bd.side, move.to),
                  RookLanding(bd.side, move.to), bd.side)
    ELSE bd

loseRights(bd, pce, move) ==
    FoldSet(LAMBDA right, b : hashOutCastle(b, right), hashOutEp(bd),
            RightsLost(bd.side, pce, move))

passSquare(bd, move) ==
    IF move.pawnstart THEN hashInEp(bd, Behind(move.to, bd.side)) ELSE bd

removeCaptured(bd, move) ==
    IF move.captured # NOPIECE THEN removePiece(bd, move.to) ELSE bd

movePiece(bd, pce, move) ==
    addPiece(removeCaptured(removePiece(bd, move.from), move), move.to,
             IF move.promoted = NOPIECE THEN pce ELSE move.promoted)

countFifty(bd, pce, move) ==
    IF move.captured # NOPIECE \/ isPawn(pce) THEN updateFiftyMove(bd) ELSE bd

\* A move that leaves its side's king to be captured is taken back.
judge(bd, side) ==
    IF squareAttacked(bd, getKing(bd, side), side)
    THEN [board |-> takeBack(bd), legal |-> FALSE]
    ELSE [board |-> bd, legal |-> TRUE]

\* The board after the move and TRUE, or, when the mover's king could then be
\* captured, the board with the move taken back and FALSE.
makeMove(bd, move) ==
    LET pce == bd.mBoard[move.from]
        special == makeSpecial(pushHistory(bd, move), move)
        passed == passSquare(loseRights(special, pce, move), move)
        turned == changeSide(movePiece(passed, pce, move))
    IN  judge(countFifty(turned, pce, move), bd.side)

NEITHER == 2

\* Mutant: no legal move always loses.
Verdict_StalemateLoses(bd, numMoves) == IF numMoves > 0 THEN -1 ELSE 1 - bd.side

\* The winner's colour, NEITHER for a draw, -1 while the game goes on.
Verdict(bd, numMoves) ==
    IF numMoves > 0 THEN -1
    ELSE IF squareAttacked(bd, getKing(bd, bd.side), bd.side) THEN 1 - bd.side
    ELSE NEITHER

\* Tries every move and takes the legal ones back, then judges the position.
gameWinner(bd) ==
    LET all == generateMoves(bd)
        tried[moves \in SUBSET all] ==
            IF moves = {} THEN [board |-> bd, numMoves |-> 0]
            ELSE LET move == CHOOSE m \in moves : TRUE
                     acc == tried[moves \ {move}]
                     made == makeMove(acc.board, move)
                 IN  IF made.legal
                     THEN [board |-> takeBack(made.board), numMoves |-> acc.numMoves + 1]
                     ELSE [board |-> made.board, numMoves |-> acc.numMoves]
    IN  [board |-> tried[all].board,
         winner |-> Verdict(tried[all].board, tried[all].numMoves)]

----------------------------------------------------------------------------
(* FEN: [placement, side, castle, enpas], castle in the order of the       *)
(* letters, enpas << >> for "-" and <<column, digit>> otherwise.           *)

RowMajor == [k \in 1..64 |-> <<(k - 1) \div 8, (k - 1) % 8>>]

FenSquare(fen) == <<8 - fen.enpas[2], fen.enpas[1]>>

parseFen(fen) ==
    LET addPlaced(bd, sq) == IF fen.placement[sq] = NOPIECE
                             THEN bd ELSE addPiece(bd, sq, fen.placement[sq])
        placed == FoldLeft(addPlaced, ClearBoard, RowMajor)
        sided == IF fen.side = BLACK THEN changeSide(placed) ELSE placed
        addRight(bd, right) == [bd EXCEPT !.castlePerm = @ \cup {right},
                                          !.posKey = Xor(@, {CastleKey(right)})]
        castled == FoldLeft(addRight, sided, fen.castle)
    IN  IF fen.enpas = << >>
        THEN castled
        ELSE hashInEp(castled, FenSquare(fen))

Letter(bd, right) == IF right \in bd.castlePerm THEN <<right>> ELSE << >>

Letters(bd) ==
    Letter(bd, WKCA) \o Letter(bd, WQCA) \o Letter(bd, BKCA) \o Letter(bd, BQCA)

\* Mutants: always the sixth rank; no rights for Black.
getFen_SixthRank(bd) ==
    [placement |-> bd.mBoard, side |-> bd.side, castle |-> Letters(bd),
     enpas     |-> IF bd.enpas = OFFBOARD THEN << >> ELSE <<bd.enpas[2], 6>>]

getFen_WhiteRights(bd) ==
    [placement |-> bd.mBoard, side |-> bd.side,
     castle    |-> Letter(bd, WKCA) \o Letter(bd, WQCA),
     enpas     |-> IF bd.enpas = OFFBOARD THEN << >>
                   ELSE <<bd.enpas[2], IF bd.side = WHITE THEN 6 ELSE 3>>]

\* The digit of the en passant square is not read from the board: it is 6
\* when White is to move and 3 when Black is.
getFen(bd) ==
    [placement |-> bd.mBoard,
     side      |-> bd.side,
     castle    |-> Letters(bd),
     enpas     |-> IF bd.enpas = OFFBOARD THEN << >>
                   ELSE <<bd.enpas[2], IF bd.side = WHITE THEN 6 ELSE 3>>]

----------------------------------------------------------------------------
(* The positions a game may start from.                                    *)

\* The king and the rook that a right to castle stands for.
KingHome(right) == <<IF right \in {WKCA, WQCA} THEN 7 ELSE 0, 4>>
RookHome(right) == <<KingHome(right)[1], IF right \in {WKCA, BKCA} THEN 7 ELSE 0>>
SideOf(right) == IF right \in {WKCA, WQCA} THEN WHITE ELSE BLACK

\* Does a piece of the other side than side attack sq in a position?
Threatened(pos, sq, side) ==
    \E from \in Occupied(pos) :
        pos.mBoard[from] \notin PiecesOf(side) /\ sq \in Reach(pos, pos.mBoard[from], from)

\* A position that moves can lead to: each side has one king, that of the side
\* that has just moved is not in check, pawns are on the rows they can reach,
\* rights and the en passant square mean what they say.
Playable(pos) ==
    /\ \A side \in {WHITE, BLACK} : \E sq \in Squares :
          {other \in Squares : pos.mBoard[other] = King(side)} = {sq}
    /\ \A sq \in Squares :
          pos.mBoard[sq] = King(1 - pos.side) => ~Threatened(pos, sq, 1 - pos.side)
    /\ \A sq \in Squares : isPawn(pos.mBoard[sq]) => sq[1] \in 1..6
    /\ \A right \in pos.castlePerm :
          /\ pos.mBoard[KingHome(right)] = King(SideOf(right))
          /\ pos.mBoard[RookHome(right)] = Rook(SideOf(right))
    /\ pos.enpas # OFFBOARD =>
          /\ pos.mBoard[pos.enpas] = NOPIECE
          /\ pos.enpas[1] = IF pos.side = WHITE THEN 2 ELSE 5
          /\ pos.mBoard[<<IF pos.side = WHITE THEN 3 ELSE 4, pos.enpas[2]>>]
                = Pawn(1 - pos.side)

Fens ==
    [placement : [Squares -> Pieces \cup {NOPIECE}], side : {WHITE, BLACK},
     castle : Seq(CastleRights), enpas : {<< >>} \cup ((0..7) \X (1..8))]

\* What a FEN stands for.
Meaning(fen) ==
    [mBoard     |-> fen.placement,
     side       |-> fen.side,
     castlePerm |-> {fen.castle[i] : i \in DOMAIN fen.castle},
     enpas      |-> IF fen.enpas = << >> THEN OFFBOARD ELSE FenSquare(fen)]

\* Games start from positions of chess; no right is written twice.
ASSUME StartAssumption ==
    \A fen \in StartFens :
        /\ fen \in Fens
        /\ \A i, j \in DOMAIN fen.castle : fen.castle[i] = fen.castle[j] => i = j
        /\ Playable(Meaning(fen))

----------------------------------------------------------------------------
(* The searcher, gameWinner and perft walk the tree of moves: each makes a *)
(* generated move and, whatever follows, takes it back.                    *)

Init == \E fen \in StartFens : board = parseFen(fen)

MakeMove ==
    /\ hisPly(board) < MaxPly
    /\ \E move \in generateMoves(board) : board' = makeMove(board, move).board

TakeBack ==
    /\ hisPly(board) > 0
    /\ board' = takeBack(board)

GameWinner ==
    /\ hisPly(board) < MaxPly
    /\ board' = gameWinner(board).board

Next == MakeMove \/ TakeBack \/ GameWinner

Spec == Init /\ [][Next]_board

============================================================================

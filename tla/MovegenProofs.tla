--------------------------- MODULE MovegenProofs ---------------------------
(***************************************************************************)
(* Proofs about the move generator and executor, for games of any length   *)
(* from any positions of chess: whatever is made and taken back, the       *)
(* redundant forms of the board agree, no piece is looked for that is not  *)
(* there, and rights, kings and rooks go together.                         *)
(***************************************************************************)
EXTENDS MovegenRules, BoardLemmas

----------------------------------------------------------------------------
(* The chess board.                                                        *)

\* Squares are pairs.
LEMMA SquarePairs ==
    /\ \A sq \in Squares : sq[1] \in 0..7 /\ sq[2] \in 0..7 /\ sq = <<sq[1], sq[2]>>
    /\ \A r, c \in 0..7 : <<r, c>> \in Squares
    /\ OFFBOARD \notin Squares
BY ChessBoardAssumption, OffboardAssumption DEF ChessSquares

\* The sides share the pieces out.
LEMMA SidesShare ==
    /\ \A pce \in Pieces : \A side \in {WHITE, BLACK} :
          /\ pce \in PiecesOf(side) <=> PceCol(pce) = side
          /\ pce \in PiecesOf(side) <=> pce \notin PiecesOf(1 - side)
    /\ \A side \in {WHITE, BLACK} :
          /\ PiecesOf(side) \subseteq Pieces /\ NOPIECE \notin PiecesOf(side)
          /\ 1 - side \in {WHITE, BLACK} /\ 1 - side # side /\ 1 - (1 - side) = side
          /\ {Pawn(side), Rook(side), King(side)} \subseteq PiecesOf(side)
          /\ Pawn(side) # Rook(side) /\ Pawn(side) # King(side) /\ Rook(side) # King(side)
BY ChessBoardAssumption
   DEF ChessPieces, PiecesOf, PceCol, Pawn, Rook, King, WHITE, BLACK,
       WP, WN, WB, WR, WQ, WK, BP, BN, BB, BR, BQ, BK

\* Pawns and kings of a side.
LEMMA PawnsAndKings ==
    \A side \in {WHITE, BLACK} : \A pce \in PiecesOf(side) :
        /\ isPawn(pce) <=> pce = Pawn(side)
        /\ isKing(pce) <=> pce = King(side)
BY ChessBoardAssumption
   DEF ChessPieces, PiecesOf, Pawn, King, isPawn, isKing, PawnStep, WHITE, BLACK,
       WP, WN, WB, WR, WQ, WK, BP, BN, BB, BR, BQ, BK

----------------------------------------------------------------------------
(* Attacks.                                                                *)

\* Attacks depend on the squares alone.
LEMMA ReachSame ==
    ASSUME NEW bd, NEW pos, bd.mBoard = pos.mBoard, NEW pce, NEW sq
    PROVE  Reach(bd, pce, sq) = Reach(pos, pce, sq)
<1>1. \A step : Slide(bd, sq, step) = Slide(pos, sq, step)
  BY DEF Slide
<1>2. Seen(bd, pce, sq) = Seen(pos, pce, sq)
  <2> DEFINE steps == (IF doDiag(pce) THEN Diagonals ELSE {})
                        \cup (IF doVert(pce) THEN Verticals ELSE {})
  <2>1. {Slide(bd, sq, s) : s \in steps} = {Slide(pos, sq, s) : s \in steps}
    <3> HIDE DEF steps
    <3> QED
      BY <1>1
  <2> QED
    BY <2>1, Zenon DEF Seen
<1> QED
  BY <1>2 DEF Reach

\* So do threats.
LEMMA ThreatsSame ==
    ASSUME NEW bd, NEW pos, bd.mBoard = pos.mBoard, NEW sq, NEW side
    PROVE  Threatened(bd, sq, side) <=> Threatened(pos, sq, side)
BY ReachSame DEF Threatened, Occupied

\* squareAttacked goes through the piece lists, and finds what there is.
LEMMA AttackedIsThreatened ==
    ASSUME NEW bd \in Boards, ListsMatch(bd), NEW sq, NEW side
    PROVE  squareAttacked(bd, sq, side) <=> Threatened(bd, sq, side)
<1>1. ASSUME NEW pce \in Pieces \ PiecesOf(side), NEW i \in DOMAIN bd.pList[pce],
             sq \in Reach(bd, pce, bd.pList[pce][i])
      PROVE  Threatened(bd, sq, side)
  <2>1. bd.pList[pce] \in Seq(Squares)
    BY DEF Boards
  <2>2. bd.pList[pce][i] \in Squares /\ i \in 1..Len(bd.pList[pce])
    BY <2>1
  <2>3. bd.mBoard[bd.pList[pce][i]] = pce
    BY <2>2 DEF ListsMatch
  <2> QED
    BY <1>1, <2>2, <2>3, NoPieceAssumption DEF Threatened, Occupied
<1>2. ASSUME NEW from \in Occupied(bd), bd.mBoard[from] \notin PiecesOf(side),
             sq \in Reach(bd, bd.mBoard[from], from)
      PROVE  squareAttacked(bd, sq, side)
  <2>1. from \in Squares /\ bd.mBoard[from] # NOPIECE
    BY DEF Occupied
  <2>2. bd.mBoard[from] \in Pieces
    BY <2>1 DEF Boards
  <2>3. PICK i \in 1..Len(bd.pList[bd.mBoard[from]]) : bd.pList[bd.mBoard[from]][i] = from
    BY <2>1 DEF ListsMatch
  <2>4. i \in DOMAIN bd.pList[bd.mBoard[from]]
    BY <2>2 DEF Boards
  <2> QED
    BY <1>2, <2>2, <2>3, <2>4 DEF squareAttacked
<1> QED
  BY <1>1, <1>2 DEF squareAttacked, Threatened

\* The king of a side is the first of its list.
LEMMA KingFound ==
    ASSUME NEW bd \in Boards, ListsMatch(bd), NEW side \in {WHITE, BLACK},
           NEW sq \in Squares, {other \in Squares : bd.mBoard[other] = King(side)} = {sq}
    PROVE  getKing(bd, side) = sq
<1>1. King(side) \in Pieces /\ King(side) # NOPIECE
  BY SidesShare, NoPieceAssumption
<1>2. bd.mBoard[sq] = King(side)
  OBVIOUS
<1>3. PICK i \in 1..Len(bd.pList[King(side)]) : bd.pList[King(side)][i] = sq
  BY <1>1, <1>2 DEF ListsMatch
<1>4. bd.pList[King(side)] \in Seq(Squares)
  BY <1>1 DEF Boards
<1>5. 1 \in 1..Len(bd.pList[King(side)]) /\ bd.pList[King(side)][1] \in Squares
  BY <1>3, <1>4
<1>6. bd.mBoard[bd.pList[King(side)][1]] = King(side)
  BY <1>1, <1>5 DEF ListsMatch
<1> QED
  BY <1>5, <1>6 DEF getKing

----------------------------------------------------------------------------
(* The moves that are generated.                                           *)

EnpasFits(pos, move) ==
    move.enpas =>
        /\ ~move.castle /\ ~move.pawnstart
        /\ move.promoted = NOPIECE /\ move.captured = NOPIECE
        /\ pos.mBoard[move.from] = Pawn(pos.side)
        /\ Behind(move.to, pos.side) \in Squares
        /\ pos.mBoard[Behind(move.to, pos.side)] = Pawn(1 - pos.side)

CastleFits(pos, move) ==
    move.castle =>
        LET row == IF pos.side = WHITE THEN 7 ELSE 0
        IN  /\ ~move.pawnstart /\ move.promoted = NOPIECE /\ move.captured = NOPIECE
            /\ pos.mBoard[move.from] = King(pos.side)
            /\ move.from = <<row, 4>> /\ move.to \in {<<row, 2>>, <<row, 6>>}
            /\ pos.mBoard[RookCorner(pos.side, move.to)] = Rook(pos.side)
            /\ pos.mBoard[RookLanding(pos.side, move.to)] = NOPIECE

StartFits(pos, move) ==
    move.pawnstart =>
        /\ move.promoted = NOPIECE
        /\ pos.mBoard[move.from] = Pawn(pos.side)
        /\ move.from = <<IF pos.side = WHITE THEN 6 ELSE 1, move.from[2]>>
        /\ move.to = <<IF pos.side = WHITE THEN 4 ELSE 3, move.from[2]>>
        /\ pos.mBoard[Behind(move.to, pos.side)] = NOPIECE

PawnFits(pos, move) ==
    /\ move.promoted # NOPIECE =>
          /\ pos.mBoard[move.from] = Pawn(pos.side)
          /\ move.promoted \in PiecesOf(pos.side) \ {Pawn(pos.side), King(pos.side)}
    /\ pos.mBoard[move.from] = Pawn(pos.side) /\ move.promoted = NOPIECE =>
          move.to[1] \in 1..6

CaptureFits(pos, move) ==
    /\ move.captured = pos.mBoard[move.to]
    /\ move.captured # NOPIECE =>
          move.captured \in PiecesOf(1 - pos.side) \ {King(1 - pos.side)}

\* What makeMove and takeBack rely on in a move.
MoveFits(pos, move) ==
    /\ move \in Moves
    /\ pos.mBoard[move.from] \in PiecesOf(pos.side)
    /\ move.to # move.from
    /\ CaptureFits(pos, move)
    /\ EnpasFits(pos, move)
    /\ CastleFits(pos, move)
    /\ StartFits(pos, move)
    /\ PawnFits(pos, move)

\* What getMove packs.
LEMMA MoveFields ==
    ASSUME NEW bd \in Boards, NEW from \in Squares, NEW to \in Squares,
           NEW promoted \in Pieces \cup {NOPIECE}, NEW move,
           move = getMove(bd, from, to, promoted)
    PROVE  /\ move \in Moves
           /\ move.from = from /\ move.to = to /\ move.promoted = promoted
           /\ move.captured = bd.mBoard[to]
           /\ move.enpas <=>
                (isPawn(bd.mBoard[from]) /\ to = bd.enpas /\ from[1] \in {3, 4})
           /\ move.pawnstart <=>
                (isPawn(bd.mBoard[from]) /\ (to[1] = from[1] + 2 \/ to[1] = from[1] - 2))
           /\ move.castle <=>
                (isKing(bd.mBoard[from]) /\ from[2] = 4 /\ to[2] \in {2, 6})
<1>1. bd.mBoard[to] \in Pieces \cup {NOPIECE}
  BY DEF Boards
<1>2. move \in Moves
  BY <1>1, ChessBoardAssumption DEF getMove, ChessMoves
<1>3. to[1] - from[1] \in {-2, 2} <=> to[1] = from[1] + 2 \/ to[1] = from[1] - 2
  <2>1. to[1] \in 0..7 /\ from[1] \in 0..7
    BY SquarePairs
  <2> QED
    BY <2>1
<1>4. move.pawnstart <=> (isPawn(bd.mBoard[from]) /\ to[1] - from[1] \in {-2, 2})
  BY DEF getMove
<1> QED
  BY <1>2, <1>3, <1>4 DEF getMove

\* No move takes a king: its side, having just moved, would be in check.
LEMMA KingsAreSafe ==
    ASSUME NEW bd \in Boards, Playable(bd), NEW from \in Squares, NEW to \in Squares,
           bd.mBoard[from] \in PiecesOf(bd.side), to \in Reach(bd, bd.mBoard[from], from)
    PROVE  bd.mBoard[to] # King(1 - bd.side)
<1>1. bd.side \in {WHITE, BLACK} /\ bd.mBoard[from] \in Pieces
  BY SidesShare DEF Boards
<1>2. bd.mBoard[from] \notin PiecesOf(1 - bd.side) /\ bd.mBoard[from] # NOPIECE
  BY <1>1, SidesShare
<1>3. Threatened(bd, to, 1 - bd.side)
  BY <1>2 DEF Threatened, Occupied
<1> QED
  BY <1>3 DEF Playable

\* A pawn's step to a free square ahead.
LEMMA AdvanceFits ==
    ASSUME NEW bd \in Boards, Playable(bd), NEW from \in Squares, NEW to \in Squares,
           bd.mBoard[from] = Pawn(bd.side), to = <<from[1] + PawnStep(Pawn(bd.side)), from[2]>>,
           bd.mBoard[to] = NOPIECE,
           NEW move \in PawnMovesTo(bd, Pawn(bd.side), from, to)
    PROVE  MoveFits(bd, move) /\ move.captured = NOPIECE /\ move.to # bd.enpas
<1>1. /\ bd.side \in {WHITE, BLACK} /\ Pawn(bd.side) \in PiecesOf(bd.side)
      /\ isPawn(Pawn(bd.side)) /\ ~isKing(Pawn(bd.side)) /\ from[1] \in 1..6
      /\ Pawn(bd.side) # NOPIECE
  <2>1. bd.side \in {WHITE, BLACK}
    BY DEF Boards
  <2>2. Pawn(bd.side) \in PiecesOf(bd.side) /\ Pawn(bd.side) # King(bd.side)
    BY <2>1, SidesShare
  <2> QED
    BY <2>1, <2>2, PawnsAndKings, SidesShare DEF Playable
<1>2. PICK promoted \in Pieces \cup {NOPIECE} :
        /\ move = getMove(bd, from, to, promoted)
        /\ IF from[1] = (IF bd.side = WHITE THEN 1 ELSE 6)
           THEN promoted \in PiecesOf(bd.side) \ {Pawn(bd.side), King(bd.side)}
           ELSE promoted = NOPIECE
  BY <1>1, ChessBoardAssumption
     DEF PawnMovesTo, Pawn, PiecesOf, King, ChessPieces, WHITE, BLACK,
         WP, WN, WB, WR, WQ, WK, BP, BN, BB, BR, BQ, BK
<1>3. /\ move \in Moves /\ move.from = from /\ move.to = to /\ move.promoted = promoted
      /\ move.captured = NOPIECE
      /\ move.enpas <=> (to = bd.enpas /\ from[1] \in {3, 4})
      /\ move.pawnstart <=> (to[1] = from[1] + 2 \/ to[1] = from[1] - 2)
      /\ ~move.castle
  BY <1>1, <1>2, MoveFields
<1>4. to = <<IF bd.side = WHITE THEN from[1] - 1 ELSE from[1] + 1, from[2]>>
  BY <1>1 DEF PawnStep, Pawn, WHITE, BLACK, WP, BP
<1>5. /\ from[1] \in 0..7 /\ from[2] \in 0..7 /\ to[1] \in 0..7 /\ to # OFFBOARD
      /\ from = <<from[1], from[2]>>
  BY SquarePairs
<1>6. to[1] = (IF bd.side = WHITE THEN from[1] - 1 ELSE from[1] + 1) /\ to # from
  BY <1>4, <1>5
<1>7. ~move.pawnstart
  BY <1>3, <1>5, <1>6
<1>8. to # bd.enpas
  <2> SUFFICES ASSUME to = bd.enpas
               PROVE  FALSE
    OBVIOUS
  <2>1. /\ to[1] = IF bd.side = WHITE THEN 2 ELSE 5
        /\ bd.mBoard[<<IF bd.side = WHITE THEN 3 ELSE 4, to[2]>>] = Pawn(1 - bd.side)
    BY <1>5 DEF Playable
  <2>2. <<IF bd.side = WHITE THEN 3 ELSE 4, to[2]>> = from
    BY <1>1, <1>4, <1>5, <1>6, <2>1
  <2>3. Pawn(bd.side) = Pawn(1 - bd.side)
    BY <2>1, <2>2
  <2> QED
    BY <1>1, <2>3, SidesShare
<1>9. ~move.enpas
  BY <1>3, <1>8
<1>10. CaptureFits(bd, move)
  BY <1>3 DEF CaptureFits
<1>11. PawnFits(bd, move)
  <2>1. ASSUME promoted = NOPIECE
        PROVE  to[1] \in 1..6
    <3>1. from[1] # IF bd.side = WHITE THEN 1 ELSE 6
      BY <1>1, <1>2, <2>1, SidesShare
    <3> QED
      BY <1>1, <3>1, <1>6
  <2> QED
    BY <1>2, <1>3, <2>1 DEF PawnFits
<1>12. bd.mBoard[move.from] \in PiecesOf(bd.side) /\ move.to # move.from
  BY <1>1, <1>3, <1>6
<1> QED
  BY <1>3, <1>7, <1>8, <1>9, <1>10, <1>11, <1>12
     DEF MoveFits, EnpasFits, CastleFits, StartFits

\* A pawn's double step.
LEMMA DoubleFits ==
    ASSUME NEW bd \in Boards, Playable(bd), NEW from \in Squares, NEW to \in Squares,
           bd.mBoard[from] = Pawn(bd.side), from[1] = IF bd.side = WHITE THEN 6 ELSE 1,
           to = <<from[1] + 2 * PawnStep(Pawn(bd.side)), from[2]>>,
           bd.mBoard[<<from[1] + PawnStep(Pawn(bd.side)), from[2]>>] = NOPIECE,
           bd.mBoard[to] = NOPIECE,
           NEW move, move = getMove(bd, from, to, NOPIECE)
    PROVE  MoveFits(bd, move) /\ move.captured = NOPIECE /\ move.to # bd.enpas
<1>1. /\ bd.side \in {WHITE, BLACK} /\ Pawn(bd.side) \in PiecesOf(bd.side)
      /\ isPawn(Pawn(bd.side)) /\ ~isKing(Pawn(bd.side))
  <2>1. bd.side \in {WHITE, BLACK}
    BY DEF Boards
  <2>2. Pawn(bd.side) \in PiecesOf(bd.side) /\ Pawn(bd.side) # King(bd.side)
    BY <2>1, SidesShare
  <2> QED
    BY <2>1, <2>2, PawnsAndKings
<1>2. /\ move \in Moves /\ move.from = from /\ move.to = to /\ move.promoted = NOPIECE
      /\ move.captured = NOPIECE /\ ~move.castle
      /\ move.enpas <=> (to = bd.enpas /\ from[1] \in {3, 4})
  BY <1>1, MoveFields
<1>3. /\ from[2] \in 0..7 /\ from = <<from[1], from[2]>>
  BY SquarePairs
<1>4. /\ to = <<IF bd.side = WHITE THEN 4 ELSE 3, from[2]>>
      /\ from = <<IF bd.side = WHITE THEN 6 ELSE 1, from[2]>>
      /\ bd.mBoard[<<IF bd.side = WHITE THEN 5 ELSE 2, from[2]>>] = NOPIECE
  BY <1>1, <1>3 DEF PawnStep, Pawn, WHITE, BLACK, WP, BP
<1>5. ~move.enpas
  BY <1>2
<1>6. Behind(to, bd.side) = <<IF bd.side = WHITE THEN 5 ELSE 2, from[2]>>
  BY <1>1, <1>4 DEF Behind, WHITE, BLACK
<1>7. StartFits(bd, move)
  BY <1>2, <1>4, <1>6 DEF StartFits
<1>8. PawnFits(bd, move) /\ CaptureFits(bd, move)
  BY <1>2, <1>4 DEF PawnFits, CaptureFits
<1>9. bd.mBoard[move.from] \in PiecesOf(bd.side) /\ move.to # move.from
  BY <1>1, <1>2, <1>4
<1>10. to # bd.enpas
  <2>1. to # OFFBOARD /\ to[1] = IF bd.side = WHITE THEN 4 ELSE 3
    BY <1>4, OffboardAssumption
  <2>2. ASSUME to = bd.enpas
        PROVE  to[1] = IF bd.side = WHITE THEN 2 ELSE 5
    BY <2>1, <2>2 DEF Playable
  <2> QED
    BY <2>1, <2>2
<1> QED
  BY <1>2, <1>5, <1>7, <1>8, <1>9, <1>10 DEF MoveFits, EnpasFits, CastleFits

\* A piece of the other side.
LEMMA EnemyPiece ==
    ASSUME NEW bd \in Boards, NEW sq \in Squares, bd.mBoard[sq] # NOPIECE
    PROVE  PceCol(bd.mBoard[sq]) # bd.side <=> bd.mBoard[sq] \in PiecesOf(1 - bd.side)
<1>1. bd.mBoard[sq] \in Pieces /\ bd.side \in {WHITE, BLACK}
  BY DEF Boards
<1> QED
  BY <1>1, SidesShare

\* A pawn's capture of what stands beside the square ahead.
LEMMA TakeFits ==
    ASSUME NEW bd \in Boards, Playable(bd), NEW from \in Squares, NEW to \in Squares,
           bd.mBoard[from] = Pawn(bd.side), to \in PawnSides(Pawn(bd.side), from),
           HasEnemy(bd, to),
           NEW move \in PawnMovesTo(bd, Pawn(bd.side), from, to)
    PROVE  MoveFits(bd, move) /\ move.captured # NOPIECE
<1>1. /\ bd.side \in {WHITE, BLACK} /\ Pawn(bd.side) \in PiecesOf(bd.side)
      /\ isPawn(Pawn(bd.side)) /\ ~isKing(Pawn(bd.side)) /\ from[1] \in 1..6
  <2>1. bd.side \in {WHITE, BLACK}
    BY DEF Boards
  <2>2. Pawn(bd.side) \in PiecesOf(bd.side) /\ Pawn(bd.side) # King(bd.side)
    BY <2>1, SidesShare
  <2> QED
    BY <2>1, <2>2, PawnsAndKings DEF Playable
<1>2. PICK promoted \in Pieces \cup {NOPIECE} :
        /\ move = getMove(bd, from, to, promoted)
        /\ IF from[1] = (IF bd.side = WHITE THEN 1 ELSE 6)
           THEN promoted \in PiecesOf(bd.side) \ {Pawn(bd.side), King(bd.side)}
           ELSE promoted = NOPIECE
  BY <1>1, ChessBoardAssumption
     DEF PawnMovesTo, Pawn, PiecesOf, King, ChessPieces, WHITE, BLACK,
         WP, WN, WB, WR, WQ, WK, BP, BN, BB, BR, BQ, BK
<1>3. /\ move \in Moves /\ move.from = from /\ move.to = to /\ move.promoted = promoted
      /\ move.captured = bd.mBoard[to]
      /\ move.enpas <=> (to = bd.enpas /\ from[1] \in {3, 4})
      /\ move.pawnstart <=> (to[1] = from[1] + 2 \/ to[1] = from[1] - 2)
      /\ ~move.castle
  BY <1>1, <1>2, MoveFields
<1>4. to[1] = (IF bd.side = WHITE THEN from[1] - 1 ELSE from[1] + 1) /\ to # from
  <2>1. from[1] \in 0..7 /\ from[2] \in 0..7
    BY SquarePairs
  <2> QED
    BY <1>1, <2>1 DEF PawnSides, PawnStep, Pawn, WHITE, BLACK, WP, BP
<1>5. /\ from[1] \in 0..7 /\ from[2] \in 0..7 /\ to[1] \in 0..7 /\ to # OFFBOARD
  BY SquarePairs
<1>6. ~move.pawnstart
  BY <1>3, <1>4, <1>5
<1>7. bd.mBoard[to] # NOPIECE /\ bd.mBoard[to] \in PiecesOf(1 - bd.side)
  BY EnemyPiece DEF HasEnemy
<1>8. to # bd.enpas
  BY <1>5, <1>7 DEF Playable
<1>9. bd.mBoard[to] # King(1 - bd.side)
  BY <1>1, KingsAreSafe DEF Reach
<1>10. CaptureFits(bd, move)
  BY <1>3, <1>7, <1>9 DEF CaptureFits
<1>11. PawnFits(bd, move)
  <2>1. ASSUME promoted = NOPIECE
        PROVE  to[1] \in 1..6
    <3>1. from[1] # IF bd.side = WHITE THEN 1 ELSE 6
      BY <1>1, <1>2, <2>1, SidesShare
    <3> QED
      BY <1>1, <3>1, <1>4
  <2> QED
    BY <1>2, <1>3, <2>1 DEF PawnFits
<1>12. bd.mBoard[move.from] \in PiecesOf(bd.side) /\ move.to # move.from
  BY <1>1, <1>3, <1>4
<1> QED
  BY <1>3, <1>6, <1>7, <1>8, <1>10, <1>11, <1>12
     DEF MoveFits, EnpasFits, CastleFits, StartFits

\* A capture of the pawn that has passed.
LEMMA PassFits ==
    ASSUME NEW bd \in Boards, Playable(bd), NEW from \in Squares, NEW to \in Squares,
           bd.mBoard[from] = Pawn(bd.side), to \in PawnSides(Pawn(bd.side), from),
           from[1] = IF bd.side = WHITE THEN 3 ELSE 4, to = bd.enpas,
           NEW move, move = getMove(bd, from, to, NOPIECE)
    PROVE  /\ MoveFits(bd, move) /\ move.enpas
           /\ isPawn(bd.mBoard[move.from]) /\ move.to = bd.enpas
<1>1. /\ bd.side \in {WHITE, BLACK} /\ Pawn(bd.side) \in PiecesOf(bd.side)
      /\ isPawn(Pawn(bd.side)) /\ ~isKing(Pawn(bd.side))
  <2>1. bd.side \in {WHITE, BLACK}
    BY DEF Boards
  <2>2. Pawn(bd.side) \in PiecesOf(bd.side) /\ Pawn(bd.side) # King(bd.side)
    BY <2>1, SidesShare
  <2> QED
    BY <2>1, <2>2, PawnsAndKings
<1>2. /\ bd.mBoard[to] = NOPIECE /\ to[1] = (IF bd.side = WHITE THEN 2 ELSE 5)
      /\ bd.mBoard[<<IF bd.side = WHITE THEN 3 ELSE 4, to[2]>>] = Pawn(1 - bd.side)
  BY SquarePairs DEF Playable
<1>3. /\ move \in Moves /\ move.from = from /\ move.to = to /\ move.promoted = NOPIECE
      /\ move.captured = NOPIECE /\ ~move.castle
      /\ move.enpas
      /\ move.pawnstart <=> (to[1] = from[1] + 2 \/ to[1] = from[1] - 2)
  BY <1>1, <1>2, MoveFields
<1>4. ~move.pawnstart /\ to # from
  BY <1>2, <1>3
<1>5. /\ Behind(to, bd.side) = <<IF bd.side = WHITE THEN 3 ELSE 4, to[2]>>
      /\ Behind(to, bd.side) \in Squares
  <2>1. to[2] \in 0..7
    BY SquarePairs
  <2>2. Behind(to, bd.side) = <<to[1] + (IF bd.side = WHITE THEN 1 ELSE -1), to[2]>>
    BY DEF Behind
  <2>3. to[1] + (IF bd.side = WHITE THEN 1 ELSE -1) = IF bd.side = WHITE THEN 3 ELSE 4
    BY <1>2
  <2>4. <<IF bd.side = WHITE THEN 3 ELSE 4, to[2]>> \in Squares
    BY <2>1, SquarePairs
  <2> QED
    BY <2>2, <2>3, <2>4
<1>6. EnpasFits(bd, move)
  BY <1>2, <1>3, <1>4, <1>5 DEF EnpasFits
<1>7. PawnFits(bd, move) /\ CaptureFits(bd, move)
  BY <1>2, <1>3 DEF PawnFits, CaptureFits
<1>8. bd.mBoard[move.from] \in PiecesOf(bd.side) /\ move.to # move.from
  BY <1>1, <1>3, <1>4
<1> QED
  BY <1>1, <1>3, <1>4, <1>6, <1>7, <1>8 DEF MoveFits, CastleFits, StartFits

\* The square k steps away.
Away(sq, step, k) == <<sq[1] + k * step[1], sq[2] + k * step[2]>>

\* The squares of a ray are those up to the edge of the board.
LEMMA RayIs ==
    ASSUME NEW sq \in Squares, NEW step \in Diagonals \cup Verticals
    PROVE  \E n \in 0..7 :
              /\ Ray[sq][step] = [k \in 1..n |-> Away(sq, step, k)]
              /\ \A k \in 1..7 : k <= n <=> Away(sq, step, k) \in Squares
<1> DEFINE at(k) == Away(sq, step, k)
           S == {k \in 1..7 : at(k) \in Squares}
<1>1. sq[1] \in 0..7 /\ sq[2] \in 0..7 /\ step[1] \in {-1, 0, 1} /\ step[2] \in {-1, 0, 1}
  BY SquarePairs DEF Diagonals, Verticals
<1>2. \A a \in 0..7 : \A d \in {-1, 0, 1} : \A k \in 1..7 : \A j \in 1..k :
        a + k * d \in 0..7 => a + j * d \in 0..7
  <2> SUFFICES ASSUME NEW a \in 0..7, NEW d \in {-1, 0, 1}, NEW k \in 1..7, NEW j \in 1..k,
                      a + k * d \in 0..7
               PROVE  a + j * d \in 0..7
    OBVIOUS
  <2>1. CASE d = 1
    BY <2>1
  <2>2. CASE d = 0
    BY <2>2
  <2>3. CASE d = -1
    <3>1. k * d = -k /\ j * d = -j
      BY <2>3
    <3> QED
      BY <3>1
  <2> QED
    BY <2>1, <2>2, <2>3
<1>3. \A k \in 1..7 : at(k) \in Squares <=>
        sq[1] + k * step[1] \in 0..7 /\ sq[2] + k * step[2] \in 0..7
  BY ChessBoardAssumption DEF ChessSquares, Away
<1>4. \A k \in S : \A j \in 1..k : j \in S
  <2> TAKE k \in S
  <2> TAKE j \in 1..k
  <2>1. k \in 1..7 /\ j \in 1..7
    OBVIOUS
  <2>2. sq[1] + k * step[1] \in 0..7 /\ sq[2] + k * step[2] \in 0..7
    BY <1>3, <2>1
  <2>3. sq[1] + j * step[1] \in 0..7 /\ sq[2] + j * step[2] \in 0..7
    BY <1>1, <1>2, <2>1, <2>2
  <2> QED
    BY <1>3, <2>1, <2>3
<1>5. S \subseteq 1..7
  OBVIOUS
<1>6. \E n \in 0..7 : S = 1..n
  <2> DEFINE T == {k \in 1..8 : k \notin S}
  <2> HIDE DEF S
  <2>1. T \in SUBSET Nat /\ 8 \in T
    BY <1>5
  <2>2. PICK m \in T : \A k \in T : m <= k
    <3> HIDE DEF T
    <3> QED
      BY <2>1, LeastExists
  <2>3. m \in 1..8 /\ m \notin S
    OBVIOUS
  <2>4. \A k \in 1..(m - 1) : k \in S
    BY <2>2, <2>3
  <2>5. \A k \in S : k \in 1..(m - 1)
    <3> SUFFICES ASSUME NEW k \in S, ~(k < m)
                 PROVE  FALSE
      BY <1>5, <2>3
    <3>1. m \in 1..k
      BY <1>5, <2>3
    <3> QED
      BY <1>4, <2>3, <3>1
  <2>6. m - 1 \in 0..7
    BY <2>3
  <2> HIDE DEF T
  <2>7. S = 1..(m - 1)
    BY <2>4, <2>5
  <2> QED
    BY <2>6, <2>7
<1>7. PICK n \in 0..7 : S = 1..n
  BY <1>6
<1>8. Cardinality(S) = n
  <2>1. Cardinality(1..n) = IF 1 > n THEN 0 ELSE n - 1 + 1
    BY FS_Interval
  <2>2. Cardinality(1..n) = n
    BY <2>1
  <2> HIDE DEF S
  <2> QED
    BY <1>7, <2>2
<1>9. Ray[sq][step] = [k \in 1..n |-> at(k)]
  <2>1. Ray[sq][step] = [k \in 1..Cardinality(S) |-> at(k)]
    BY DEF Ray, Away
  <2> QED
    BY <1>8, <2>1
<1>10. \A k \in 1..7 : k <= n <=> at(k) \in Squares
  <2> TAKE k \in 1..7
  <2>1. k \in 1..n <=> k \in S
    BY <1>7
  <2> QED
    BY <2>1
<1> HIDE DEF S
<1> QED
  BY <1>9, <1>10

\* All of it is on the board.
LEMMA RaySquares ==
    ASSUME NEW sq \in Squares, NEW step \in Diagonals \cup Verticals
    PROVE  /\ Len(Ray[sq][step]) \in Nat /\ DOMAIN Ray[sq][step] = 1..Len(Ray[sq][step])
           /\ \A k \in DOMAIN Ray[sq][step] : Ray[sq][step][k] \in Squares
<1>1. PICK n \in 0..7 :
        /\ Ray[sq][step] = [k \in 1..n |-> Away(sq, step, k)]
        /\ \A k \in 1..7 : k <= n <=> Away(sq, step, k) \in Squares
  BY RayIs
<1> DEFINE ray == Ray[sq][step]
<1>2. \A k \in 1..n : ray[k] = Away(sq, step, k) /\ k \in 1..7 /\ k <= n
  BY <1>1
<1>3. Len(ray) = n /\ DOMAIN ray = 1..n
  BY <1>1
<1> QED
  BY <1>1, <1>2, <1>3

\* A slide goes on over empty squares.
LEMMA SlideIs ==
    ASSUME NEW bd, NEW sq \in Squares, NEW step \in Diagonals \cup Verticals, NEW to
    PROVE  to \in Slide(bd, sq, step)
             <=> \E k \in 1..7 :
                   /\ to = Away(sq, step, k) /\ to \in Squares
                   /\ \A j \in 1..(k - 1) : bd.mBoard[Away(sq, step, j)] = NOPIECE
<1>1. PICK n \in 0..7 :
        /\ Ray[sq][step] = [k \in 1..n |-> Away(sq, step, k)]
        /\ \A k \in 1..7 : k <= n <=> Away(sq, step, k) \in Squares
  BY RayIs
<1> DEFINE ray == Ray[sq][step]
           met == {k \in DOMAIN ray : bd.mBoard[ray[k]] # NOPIECE}
           far == IF met = {} THEN Len(ray) ELSE Min(met)
           free(j) == bd.mBoard[Away(sq, step, j)] = NOPIECE
<1>2. \A k \in 1..n : ray[k] = Away(sq, step, k) /\ k \in 1..7 /\ k <= n
  BY <1>1
<1>3. Len(ray) = n /\ DOMAIN ray = 1..n
  BY <1>1
<1>4. met = {k \in 1..n : ~free(k)}
  BY <1>2, <1>3
<1>5. Slide(bd, sq, step) = {ray[k] : k \in 1..far}
  BY DEF Slide
<1>6. far \in 0..n /\ \A k \in 1..n : k <= far <=> \A j \in 1..(k - 1) : free(j)
  <2>1. CASE met = {}
    <3>1. far = n
      BY <1>3, <2>1
    <3> HIDE DEF far, met, free
    <3>2. \A k \in 1..n : free(k)
      BY <1>4, <2>1
    <3> QED
      BY <3>1, <3>2
  <2>2. CASE met # {}
    <3>1. met \in SUBSET Nat /\ met \subseteq 1..n
      BY <1>4
    <3>2. far = Min(met)
      BY <2>2
    <3> HIDE DEF far, met, free
    <3>3. \E m \in met : \A k \in met : m <= k
      BY <2>2, <3>1, LeastExists
    <3>4. far \in met /\ \A k \in met : far <= k
      BY <3>2, <3>3 DEF Min
    <3>5. far \in 1..n /\ ~free(far)
      BY <1>4, <3>4
    <3>6. \A k \in 1..n : k < far => free(k)
      BY <1>4, <3>4, <3>5
    <3> QED
      BY <3>5, <3>6
  <2> QED
    BY <2>1, <2>2
<1> HIDE DEF far, met
<1>7. ASSUME NEW k \in 1..far
      PROVE  /\ k \in 1..7 /\ ray[k] = Away(sq, step, k) /\ ray[k] \in Squares
             /\ \A j \in 1..(k - 1) : free(j)
  <2>1. k \in 1..n /\ k <= far
    BY <1>6
  <2> HIDE DEF ray, free
  <2> QED
    BY <1>1, <1>2, <1>6, <2>1
<1>8. ASSUME NEW k \in 1..7, Away(sq, step, k) \in Squares, \A j \in 1..(k - 1) : free(j)
      PROVE  k \in 1..far /\ ray[k] = Away(sq, step, k)
  <2>1. k \in 1..n
    BY <1>1, <1>8
  <2> HIDE DEF ray, free
  <2> QED
    BY <1>2, <1>6, <1>8, <2>1
<1> HIDE DEF ray, free
<1>9. to \in Slide(bd, sq, step)
        <=> \E k \in 1..7 : /\ to = Away(sq, step, k) /\ to \in Squares
                            /\ \A j \in 1..(k - 1) : free(j)
  BY <1>5, <1>7, <1>8
<1> QED
  BY <1>9 DEF free

\* A slide stays on the board.
LEMMA SlideSquares ==
    ASSUME NEW bd, NEW sq \in Squares, NEW step \in Diagonals \cup Verticals
    PROVE  Slide(bd, sq, step) \subseteq Squares
<1> DEFINE ray == Ray[sq][step]
           met == {k \in DOMAIN ray : bd.mBoard[ray[k]] # NOPIECE}
<1>1. /\ Len(ray) \in Nat /\ DOMAIN ray = 1..Len(ray)
      /\ \A k \in DOMAIN ray : ray[k] \in Squares
  BY RaySquares
<1>2. met # {} => Min(met) \in 1..Len(ray)
  <2> SUFFICES ASSUME met # {}
               PROVE  Min(met) \in 1..Len(ray)
    OBVIOUS
  <2>1. met \in SUBSET Nat /\ met \subseteq 1..Len(ray)
    BY <1>1
  <2> HIDE DEF met, ray
  <2>2. \E n \in met : \A m \in met : n <= m
    BY <2>1, LeastExists
  <2>3. Min(met) \in met
    BY <2>2 DEF Min
  <2> QED
    BY <2>1, <2>3
<1>3. Slide(bd, sq, step) = {ray[k] : k \in 1..(IF met = {} THEN Len(ray) ELSE Min(met))}
  BY DEF Slide
<1> HIDE DEF met, ray
<1> QED
  BY <1>1, <1>2, <1>3

\* What a piece sees is on the board.
LEMMA SeenSquares ==
    ASSUME NEW bd, NEW pce, NEW sq \in Squares
    PROVE  Seen(bd, pce, sq) \subseteq Squares
BY SlideSquares DEF Seen

\* A king sees only squares in the columns beside it.
LEMMA KingSees ==
    ASSUME NEW bd, NEW pce, isKing(pce), NEW sq \in Squares, NEW to \in Seen(bd, pce, sq)
    PROVE  to[2] \in {sq[2] - 1, sq[2], sq[2] + 1}
<1>1. pce \notin {WN, BN}
  BY DEF isKing, WK, BK, WN, BN
<1>2. PICK step \in Diagonals \cup Verticals : to = Offset(sq, step)
  BY <1>1 DEF Seen
<1>3. sq[2] \in 0..7 /\ step[2] \in {-1, 0, 1}
  BY SquarePairs DEF Diagonals, Verticals
<1>4. to[2] = sq[2] + step[2]
  BY <1>2 DEF Offset
<1> QED
  BY <1>3, <1>4

\* A move of a king or a piece to a square it sees.
LEMMA OrdinaryFits ==
    ASSUME NEW bd \in Boards, Playable(bd), NEW from \in Squares,
           bd.mBoard[from] \in PiecesOf(bd.side), ~isPawn(bd.mBoard[from]),
           NEW to \in Seen(bd, bd.mBoard[from], from), CanLand(bd, to),
           NEW move, move = getMove(bd, from, to, NOPIECE)
    PROVE  MoveFits(bd, move) /\ ~move.enpas
<1>1. /\ bd.side \in {WHITE, BLACK} /\ bd.mBoard[from] # Pawn(bd.side)
      /\ bd.mBoard[from] # NOPIECE /\ to \in Squares
  <2>1. bd.side \in {WHITE, BLACK}
    BY DEF Boards
  <2> QED
    BY <2>1, PawnsAndKings, SidesShare, SeenSquares
<1>2. /\ move \in Moves /\ move.from = from /\ move.to = to /\ move.promoted = NOPIECE
      /\ move.captured = bd.mBoard[to] /\ ~move.enpas /\ ~move.pawnstart
      /\ move.castle <=>
           (isKing(bd.mBoard[from]) /\ from[2] = 4 /\ to[2] \in {2, 6})
  BY <1>1, MoveFields
<1>3. ~move.castle
  <2> SUFFICES ASSUME isKing(bd.mBoard[from]), from[2] = 4, to[2] \in {2, 6}
               PROVE  FALSE
    BY <1>2
  <2>1. to[2] \in {from[2] - 1, from[2], from[2] + 1}
    BY KingSees
  <2> QED
    BY <2>1
<1>4. bd.mBoard[to] = NOPIECE \/ bd.mBoard[to] \in PiecesOf(1 - bd.side)
  BY <1>1, EnemyPiece DEF CanLand
<1>5. to # from
  BY <1>1, <1>4, SidesShare DEF Boards
<1>6. bd.mBoard[to] # King(1 - bd.side)
  BY <1>1, KingsAreSafe DEF Reach
<1>7. CaptureFits(bd, move)
  BY <1>2, <1>4, <1>6 DEF CaptureFits
<1>8. PawnFits(bd, move)
  BY <1>1, <1>2 DEF PawnFits
<1> QED
  BY <1>2, <1>3, <1>5, <1>7, <1>8 DEF MoveFits, EnpasFits, CastleFits, StartFits

\* Where a right stands, its king and rook are.
LEMMA RightHome ==
    ASSUME NEW bd \in Boards, Playable(bd), NEW right \in bd.castlePerm,
           SideOf(right) = bd.side, NEW from \in Squares,
           bd.mBoard[from] = King(bd.side)
    PROVE  /\ from = <<IF bd.side = WHITE THEN 7 ELSE 0, 4>>
           /\ bd.mBoard[RookHome(right)] = Rook(bd.side)
<1>1. bd.side \in {WHITE, BLACK}
  BY DEF Boards
<1>2. PICK sq \in Squares : {other \in Squares : bd.mBoard[other] = King(bd.side)} = {sq}
  BY <1>1 DEF Playable
<1>3. /\ bd.mBoard[KingHome(right)] = King(bd.side)
      /\ bd.mBoard[RookHome(right)] = Rook(bd.side)
  BY DEF Playable
<1>4. KingHome(right) = <<IF bd.side = WHITE THEN 7 ELSE 0, 4>>
  BY DEF KingHome, SideOf, WHITE, BLACK
<1>5. KingHome(right) \in Squares
  <2>1. (IF bd.side = WHITE THEN 7 ELSE 0) \in 0..7 /\ 4 \in 0..7
    OBVIOUS
  <2> QED
    BY <1>4, <2>1, SquarePairs
<1> QED
  BY <1>2, <1>3, <1>4, <1>5

\* Castling.
LEMMA CastleMovesFit ==
    ASSUME NEW bd \in Boards, Playable(bd), NEW from \in Squares,
           bd.mBoard[from] = King(bd.side), NEW move \in CastleMoves(bd, from)
    PROVE  MoveFits(bd, move) /\ move.captured = NOPIECE /\ move.from = from
<1>1. /\ bd.side \in {WHITE, BLACK} /\ King(bd.side) \in PiecesOf(bd.side)
      /\ isKing(King(bd.side)) /\ ~isPawn(King(bd.side))
      /\ King(bd.side) # Pawn(bd.side)
  <2>1. bd.side \in {WHITE, BLACK}
    BY DEF Boards
  <2>2. King(bd.side) \in PiecesOf(bd.side) /\ Pawn(bd.side) # King(bd.side)
    BY <2>1, SidesShare
  <2> QED
    BY <2>1, <2>2, PawnsAndKings
<1> DEFINE row == IF bd.side = WHITE THEN 7 ELSE 0
<1>2. ASSUME NEW right \in CastleRights, right \in bd.castlePerm, SideOf(right) = bd.side,
             NEW c \in {2, 6}, c = IF right \in {WKCA, BKCA} THEN 6 ELSE 2,
             bd.mBoard[<<row, c>>] = NOPIECE,
             bd.mBoard[<<row, IF c = 6 THEN 5 ELSE 3>>] = NOPIECE,
             move = getMove(bd, from, <<row, c>>, NOPIECE)
      PROVE  MoveFits(bd, move) /\ move.captured = NOPIECE /\ move.from = from
  <2>1. from = <<row, 4>> /\ bd.mBoard[RookHome(right)] = Rook(bd.side)
    BY <1>2, RightHome
  <2>2. <<row, c>> \in Squares
    <3>1. row \in 0..7 /\ c \in 0..7
      OBVIOUS
    <3> HIDE DEF row
    <3> QED
      BY <3>1, SquarePairs
  <2>3. /\ move \in Moves /\ move.from = from /\ move.to = <<row, c>>
        /\ move.promoted = NOPIECE /\ move.captured = NOPIECE
        /\ ~move.enpas /\ ~move.pawnstart
    BY <1>1, <1>2, <2>2, MoveFields
  <2>4. RookHome(right) = RookCorner(bd.side, <<row, c>>)
    BY <1>1, <1>2 DEF RookHome, RookCorner, KingHome, SideOf, WHITE, BLACK
  <2>5. RookLanding(bd.side, <<row, c>>) = <<row, IF c = 6 THEN 5 ELSE 3>>
    BY <1>2 DEF RookLanding
  <2>6. CastleFits(bd, move)
    BY <1>2, <2>1, <2>3, <2>4, <2>5 DEF CastleFits
  <2>7. CaptureFits(bd, move) /\ PawnFits(bd, move)
    BY <1>1, <1>2, <2>3 DEF CaptureFits, PawnFits
  <2>8. <<row, c>> # from
    BY <2>1
  <2> QED
    BY <1>1, <2>3, <2>6, <2>7, <2>8 DEF MoveFits, EnpasFits, StartFits
<1> DEFINE at(d) == <<from[1], from[2] + d>>
           kc == IF bd.side = WHITE THEN WKCA ELSE BKCA
           qc == IF bd.side = WHITE THEN WQCA ELSE BQCA
<1>3. /\ kc \in CastleRights /\ SideOf(kc) = bd.side /\ kc \in {WKCA, BKCA}
      /\ qc \in CastleRights /\ SideOf(qc) = bd.side /\ qc \notin {WKCA, BKCA}
  BY <1>1, ChessBoardAssumption
     DEF SideOf, WHITE, BLACK, WKCA, WQCA, BKCA, BQCA
<1>4. CASE /\ hasKcPerm(bd) /\ bd.mBoard[at(1)] = NOPIECE /\ bd.mBoard[at(2)] = NOPIECE
           /\ move = getMove(bd, from, at(2), NOPIECE)
  <2>1. kc \in bd.castlePerm
    BY <1>4 DEF hasKcPerm
  <2>2. from = <<row, 4>>
    BY <1>3, <2>1, RightHome
  <2>3. at(2) = <<row, 6>> /\ at(1) = <<row, 5>>
    BY <2>2
  <2> QED
    BY <1>2, <1>3, <1>4, <2>1, <2>3
<1>5. CASE /\ hasQcPerm(bd) /\ bd.mBoard[at(-1)] = NOPIECE /\ bd.mBoard[at(-2)] = NOPIECE
           /\ move = getMove(bd, from, at(-2), NOPIECE)
  <2>1. qc \in bd.castlePerm
    BY <1>5 DEF hasQcPerm
  <2>2. from = <<row, 4>>
    BY <1>3, <2>1, RightHome
  <2>3. at(-2) = <<row, 2>> /\ at(-1) = <<row, 3>>
    BY <2>2
  <2> QED
    BY <1>2, <1>3, <1>5, <2>1, <2>3
<1> QED
  BY <1>4, <1>5 DEF CastleMoves

\* The moves that take something, en passant among them.
IsCapture(bd, move) ==
    \/ move.captured # NOPIECE
    \/ isPawn(bd.mBoard[move.from]) /\ move.to = bd.enpas

\* A pawn's moves straight ahead.
LEMMA AdvancesFit ==
    ASSUME NEW bd \in Boards, Playable(bd), NEW from \in Squares,
           bd.mBoard[from] = Pawn(bd.side),
           NEW move \in PawnAdvances(bd, Pawn(bd.side), from)
    PROVE  MoveFits(bd, move) /\ ~IsCapture(bd, move)
<1> DEFINE step == PawnStep(Pawn(bd.side))
           one == <<from[1] + step, from[2]>>
           two == <<from[1] + 2 * step, from[2]>>
           start == IF bd.side = WHITE THEN 6 ELSE 1
<1>1. /\ bd.side \in {WHITE, BLACK} /\ isPawn(Pawn(bd.side)) /\ from[1] \in 1..6
      /\ from[2] \in 0..7
  <2>1. bd.side \in {WHITE, BLACK}
    BY DEF Boards
  <2> QED
    BY <2>1, PawnsAndKings, SidesShare, SquarePairs DEF Playable
<1>2. step = (IF bd.side = WHITE THEN -1 ELSE 1) /\ step \in {-1, 1}
  BY <1>1 DEF PawnStep, Pawn, WHITE, BLACK, WP, BP
<1>3. /\ Offset(from, <<step, 0>>) = one /\ Offset(one, <<step, 0>>) = two
      /\ (IF Pawn(bd.side) = WP THEN 6 ELSE 1) = start
  <2>1. from[1] + step + step = from[1] + 2 * step /\ from[2] + 0 = from[2]
    BY <1>1, <1>2
  <2>2. (IF Pawn(bd.side) = WP THEN 6 ELSE 1) = start
    BY <1>1 DEF Pawn, WHITE, BLACK, WP, BP
  <2> HIDE DEF step
  <2> QED
    BY <2>1, <2>2 DEF Offset
<1>4. \/ bd.mBoard[one] = NOPIECE /\ move \in PawnMovesTo(bd, Pawn(bd.side), from, one)
      \/ /\ bd.mBoard[one] = NOPIECE /\ from[1] = start /\ bd.mBoard[two] = NOPIECE
         /\ move = getMove(bd, from, two, NOPIECE)
  BY <1>3 DEF PawnAdvances
<1>5. one \in Squares
  <2>1. from[1] + step \in 0..7
    BY <1>1, <1>2
  <2> QED
    BY <1>1, <2>1, SquarePairs
<1>6. ASSUME from[1] = start
      PROVE  two \in Squares
  <2>1. from[1] + 2 * step \in 0..7
    BY <1>2, <1>6
  <2> HIDE DEF step
  <2> QED
    BY <1>1, <2>1, SquarePairs
<1>7. CASE bd.mBoard[one] = NOPIECE /\ move \in PawnMovesTo(bd, Pawn(bd.side), from, one)
  BY <1>5, <1>7, AdvanceFits DEF IsCapture
<1>8. CASE /\ bd.mBoard[one] = NOPIECE /\ from[1] = start /\ bd.mBoard[two] = NOPIECE
           /\ move = getMove(bd, from, two, NOPIECE)
  BY <1>6, <1>8, DoubleFits DEF IsCapture
<1> QED
  BY <1>4, <1>7, <1>8

\* A pawn's captures.
LEMMA PawnCapturesFit ==
    ASSUME NEW bd \in Boards, Playable(bd), NEW from \in Squares,
           bd.mBoard[from] = Pawn(bd.side),
           NEW move \in PawnCaptures(bd, Pawn(bd.side), from)
    PROVE  MoveFits(bd, move) /\ IsCapture(bd, move)
<1>1. bd.side \in {WHITE, BLACK}
  BY DEF Boards
<1>2. (IF Pawn(bd.side) = WP THEN 3 ELSE 4) = IF bd.side = WHITE THEN 3 ELSE 4
  BY <1>1 DEF Pawn, WHITE, BLACK, WP, BP
<1>3. PawnSides(Pawn(bd.side), from) \subseteq Squares
  BY DEF PawnSides
<1> DEFINE pce == Pawn(bd.side)
           fifth == IF pce = WP THEN 3 ELSE 4
<1>4. \/ \E to \in PawnSides(pce, from) :
           HasEnemy(bd, to) /\ move \in PawnMovesTo(bd, pce, from, to)
      \/ \E to \in PawnSides(pce, from) :
           from[1] = fifth /\ to = bd.enpas /\ move = getMove(bd, from, to, NOPIECE)
  <2>1. move \in PawnTakes(bd, pce, from) \/ move \in PawnPasses(bd, pce, from)
    BY DEF PawnCaptures
  <2>2. ASSUME move \in PawnTakes(bd, pce, from)
        PROVE  \E to \in PawnSides(pce, from) :
                  HasEnemy(bd, to) /\ move \in PawnMovesTo(bd, pce, from, to)
    BY <2>2 DEF PawnTakes
  <2>3. ASSUME move \in PawnPasses(bd, pce, from)
        PROVE  \E to \in PawnSides(pce, from) :
                  from[1] = fifth /\ to = bd.enpas /\ move = getMove(bd, from, to, NOPIECE)
    BY <2>3 DEF PawnPasses
  <2> QED
    BY <2>1, <2>2, <2>3
<1>5. CASE \E to \in PawnSides(pce, from) :
              HasEnemy(bd, to) /\ move \in PawnMovesTo(bd, pce, from, to)
  BY <1>3, <1>5, TakeFits DEF IsCapture
<1>6. CASE \E to \in PawnSides(pce, from) :
             from[1] = fifth /\ to = bd.enpas /\ move = getMove(bd, from, to, NOPIECE)
  BY <1>2, <1>3, <1>6, PassFits DEF IsCapture
<1> QED
  BY <1>4, <1>5, <1>6

\* What makeMove and takeBack rely on, every generated move has.
LEMMA GeneratedFits ==
    ASSUME NEW bd \in Boards, ListsMatch(bd), Playable(bd), NEW move \in generateMoves(bd)
    PROVE  MoveFits(bd, move)
<1>1. PICK pce \in PiecesOf(bd.side) :
        \E i \in DOMAIN bd.pList[pce] : move \in PieceMoves(bd, pce, bd.pList[pce][i])
  BY DEF generateMoves
<1>2. PICK i \in DOMAIN bd.pList[pce] : move \in PieceMoves(bd, pce, bd.pList[pce][i])
  BY <1>1
<1> DEFINE from == bd.pList[pce][i]
<1>3. /\ bd.side \in {WHITE, BLACK} /\ pce \in Pieces
      /\ from \in Squares /\ bd.mBoard[from] = pce
  <2>1. bd.side \in {WHITE, BLACK}
    BY DEF Boards
  <2>2. pce \in Pieces
    BY <2>1, SidesShare
  <2>3. bd.pList[pce] \in Seq(Squares)
    BY <2>2 DEF Boards
  <2> QED
    BY <2>1, <2>2, <2>3 DEF ListsMatch
<1> HIDE DEF from
<1>4. move \in PieceMoves(bd, pce, from)
  BY <1>2 DEF from
<1>5. CASE isPawn(pce)
  <2>1. pce = Pawn(bd.side)
    BY <1>3, <1>5, PawnsAndKings
  <2>2. move \in PawnAdvances(bd, pce, from) \/ move \in PawnCaptures(bd, pce, from)
    BY <1>4, <1>5 DEF PieceMoves
  <2> QED
    BY <1>3, <2>1, <2>2, AdvancesFit, PawnCapturesFit
<1>6. CASE ~isPawn(pce)
  <2>1. \/ \E to \in Seen(bd, pce, from) :
             CanLand(bd, to) /\ move = getMove(bd, from, to, NOPIECE)
        \/ isKing(pce) /\ move \in CastleMoves(bd, from)
    BY <1>4, <1>6 DEF PieceMoves
  <2>2. isKing(pce) => pce = King(bd.side)
    BY <1>3, PawnsAndKings
  <2>3. CASE isKing(pce) /\ move \in CastleMoves(bd, from)
    BY <1>3, <2>2, <2>3, CastleMovesFit
  <2>4. CASE \E to \in Seen(bd, pce, from) :
                CanLand(bd, to) /\ move = getMove(bd, from, to, NOPIECE)
    BY <1>3, <1>6, <2>4, OrdinaryFits
  <2> QED
    BY <2>1, <2>3, <2>4
<1> QED
  BY <1>5, <1>6

----------------------------------------------------------------------------
(* Castling rights lost and restored.                                      *)

OutFold(g, bd, T) ==
    g = [s \in SUBSET T |-> IF s = {} THEN bd
                            ELSE hashOutCastle(g[s \ {AnyOf(s)}], AnyOf(s))]

InFold(g, bd, T) ==
    g = [s \in SUBSET T |-> IF s = {} THEN bd
                            ELSE hashInCastle(g[s \ {AnyOf(s)}], AnyOf(s))]

\* What loseRights folds.
LEMMA OutFoldIs ==
    ASSUME NEW bd, NEW T
    PROVE  FoldSet(LAMBDA right, b : hashOutCastle(b, right), bd, T)
           = (CHOOSE g : OutFold(g, bd, T))[T]
BY DEF FoldSet, MapThenFoldSet, OutFold, AnyOf

\* What restoreRights folds.
LEMMA InFoldIs ==
    ASSUME NEW bd, NEW T
    PROVE  FoldSet(LAMBDA right, b : hashInCastle(b, right), bd, T)
           = (CHOOSE g : InFold(g, bd, T))[T]
BY DEF FoldSet, MapThenFoldSet, InFold, AnyOf

\* There are four rights.
LEMMA RightsFinite == IsFiniteSet(CastleRights)
<1>1. IsFiniteSet({WKCA})
  BY FS_EmptySet, FS_Singleton
<1>2. IsFiniteSet({WKCA} \cup {WQCA})
  BY <1>1, FS_AddElement
<1>3. IsFiniteSet(({WKCA} \cup {WQCA}) \cup {BKCA})
  BY <1>2, FS_AddElement
<1>4. IsFiniteSet((({WKCA} \cup {WQCA}) \cup {BKCA}) \cup {BQCA})
  BY <1>3, FS_AddElement
<1>5. CastleRights = (({WKCA} \cup {WQCA}) \cup {BKCA}) \cup {BQCA}
  BY ChessBoardAssumption
<1> QED
  BY <1>4, <1>5

\* Hashing out the rights of a set takes them all away.
LEMMA OutFoldAt ==
    ASSUME NEW bd, NEW m, NEW s, NEW c, NEW e, NEW h, NEW f, At(bd, m, s, c, e, h, f),
           NEW T \in SUBSET CastleRights
    PROVE  At(FoldSet(LAMBDA right, b : hashOutCastle(b, right), bd, T),
              m, s, c \ T, e, h, f)
<1> DEFINE B == Boards
           step == [v \in B \X T |-> hashOutCastle(v[1], v[2])]
           g == CHOOSE x : OutFold(x, bd, T)
           good == {t \in SUBSET T : At(g[t], m, s, c \ t, e, h, f)}
<1>1. IsFiniteSet(T) /\ bd \in B
  BY RightsFinite, FS_Subset DEF At, Consistent
<1>2. step \in [B \X T -> B] /\ \A b \in B : \A x \in T : step[<<b, x>>] = hashOutCastle(b, x)
  BY CastleType
<1> HIDE DEF B, step
<1>3. PICK k \in [SUBSET T -> B] : IsFold(k, bd, step, Anys(T), T)
  BY <1>1, <1>2, AnysTaken, FoldsExist
<1>4. ASSUME NEW t \in SUBSET T
      PROVE  k[t] = IF t = {} THEN bd ELSE hashOutCastle(k[t \ {AnyOf(t)}], AnyOf(t))
  <2>1. CASE t = {}
    BY <1>3, <2>1 DEF IsFold
  <2>2. CASE t # {}
    <3>1. Anys(T)[t] = AnyOf(t) /\ AnyOf(t) \in T /\ k[t \ {AnyOf(t)}] \in B
      BY <2>2, AnyIn DEF Anys
    <3>2. k[t] = step[<<k[t \ {Anys(T)[t]}], Anys(T)[t]>>]
      BY <1>3, <2>2 DEF IsFold
    <3> QED
      BY <1>2, <2>2, <3>1, <3>2
  <2> QED
    BY <2>1, <2>2
<1>5. OutFold(k, bd, T)
  BY <1>4 DEF OutFold
<1>6. OutFold(g, bd, T)
  BY <1>5
<1> HIDE DEF g
<1>7. \A t \in SUBSET T :
        g[t] = IF t = {} THEN bd ELSE hashOutCastle(g[t \ {AnyOf(t)}], AnyOf(t))
  BY <1>6 DEF OutFold
<1>8. {} \in good
  <2>1. g[{}] = bd /\ c \ {} = c
    BY <1>7
  <2> QED
    BY <2>1
<1>9. Reaches(good, Anys(T), T)
  <2> SUFFICES ASSUME NEW t \in SUBSET T, t # {}
               PROVE  /\ Anys(T)[t] \in t
                      /\ t \ {Anys(T)[t]} \in good => t \in good
    BY DEF Reaches
  <2> DEFINE x == AnyOf(t)
  <2>1. Anys(T)[t] = x /\ x \in t /\ x \in CastleRights
    BY AnyIn DEF Anys
  <2> HIDE DEF x
  <2>2. g[t] = hashOutCastle(g[t \ {x}], x)
    BY <1>7 DEF x
  <2>3. ASSUME t \ {x} \in good
        PROVE  t \in good
    <3>1. At(g[t \ {x}], m, s, c \ (t \ {x}), e, h, f)
      BY <2>3
    <3>2. At(g[t], m, s, (c \ (t \ {x})) \ {x}, e, h, f)
      BY <2>1, <2>2, <3>1, HashOutCastleAt
    <3>3. (c \ (t \ {x})) \ {x} = c \ t
      BY <2>1
    <3> QED
      BY <3>2, <3>3
  <2> QED
    BY <2>1, <2>3
<1>10. T \in good
  <2> HIDE DEF good
  <2> QED
    BY <1>1, <1>8, <1>9, PartsInduction
<1>11. FoldSet(LAMBDA right, b : hashOutCastle(b, right), bd, T) = g[T]
  BY OutFoldIs DEF g
<1> QED
  BY <1>10, <1>11

\* Hashing in the rights of a set adds them all.
LEMMA InFoldAt ==
    ASSUME NEW bd, NEW m, NEW s, NEW c, NEW e, NEW h, NEW f, At(bd, m, s, c, e, h, f),
           NEW T \in SUBSET CastleRights
    PROVE  At(FoldSet(LAMBDA right, b : hashInCastle(b, right), bd, T),
              m, s, c \cup T, e, h, f)
<1> DEFINE B == Boards
           step == [v \in B \X T |-> hashInCastle(v[1], v[2])]
           g == CHOOSE x : InFold(x, bd, T)
           good == {t \in SUBSET T : At(g[t], m, s, c \cup t, e, h, f)}
<1>1. IsFiniteSet(T) /\ bd \in B
  BY RightsFinite, FS_Subset DEF At, Consistent
<1>2. step \in [B \X T -> B] /\ \A b \in B : \A x \in T : step[<<b, x>>] = hashInCastle(b, x)
  BY CastleType
<1> HIDE DEF B, step
<1>3. PICK k \in [SUBSET T -> B] : IsFold(k, bd, step, Anys(T), T)
  BY <1>1, <1>2, AnysTaken, FoldsExist
<1>4. ASSUME NEW t \in SUBSET T
      PROVE  k[t] = IF t = {} THEN bd ELSE hashInCastle(k[t \ {AnyOf(t)}], AnyOf(t))
  <2>1. CASE t = {}
    BY <1>3, <2>1 DEF IsFold
  <2>2. CASE t # {}
    <3>1. Anys(T)[t] = AnyOf(t) /\ AnyOf(t) \in T /\ k[t \ {AnyOf(t)}] \in B
      BY <2>2, AnyIn DEF Anys
    <3>2. k[t] = step[<<k[t \ {Anys(T)[t]}], Anys(T)[t]>>]
      BY <1>3, <2>2 DEF IsFold
    <3> QED
      BY <1>2, <2>2, <3>1, <3>2
  <2> QED
    BY <2>1, <2>2
<1>5. InFold(k, bd, T)
  BY <1>4 DEF InFold
<1>6. InFold(g, bd, T)
  BY <1>5
<1> HIDE DEF g
<1>7. \A t \in SUBSET T :
        g[t] = IF t = {} THEN bd ELSE hashInCastle(g[t \ {AnyOf(t)}], AnyOf(t))
  BY <1>6 DEF InFold
<1>8. {} \in good
  <2>1. g[{}] = bd /\ c \cup {} = c
    BY <1>7
  <2> QED
    BY <2>1
<1>9. Reaches(good, Anys(T), T)
  <2> SUFFICES ASSUME NEW t \in SUBSET T, t # {}
               PROVE  /\ Anys(T)[t] \in t
                      /\ t \ {Anys(T)[t]} \in good => t \in good
    BY DEF Reaches
  <2> DEFINE x == AnyOf(t)
  <2>1. Anys(T)[t] = x /\ x \in t /\ x \in CastleRights
    BY AnyIn DEF Anys
  <2> HIDE DEF x
  <2>2. g[t] = hashInCastle(g[t \ {x}], x)
    BY <1>7 DEF x
  <2>3. ASSUME t \ {x} \in good
        PROVE  t \in good
    <3>1. At(g[t \ {x}], m, s, c \cup (t \ {x}), e, h, f)
      BY <2>3
    <3>2. At(g[t], m, s, (c \cup (t \ {x})) \cup {x}, e, h, f)
      BY <2>1, <2>2, <3>1, HashInCastleAt
    <3>3. (c \cup (t \ {x})) \cup {x} = c \cup t
      BY <2>1
    <3> QED
      BY <3>2, <3>3
  <2> QED
    BY <2>1, <2>3
<1>10. T \in good
  <2> HIDE DEF good
  <2> QED
    BY <1>1, <1>8, <1>9, PartsInduction
<1>11. FoldSet(LAMBDA right, b : hashInCastle(b, right), bd, T) = g[T]
  BY InFoldIs DEF g
<1> QED
  BY <1>10, <1>11

----------------------------------------------------------------------------
(* Making a move.                                                          *)

\* A position, and how the game came there.
Positions ==
    [mBoard : [Squares -> Pieces \cup {NOPIECE}], side : {WHITE, BLACK},
     castlePerm : SUBSET CastleRights, enpas : Squares \cup {OFFBOARD},
     history : Seq(Histories), fiftyMove : Nat]

\* The forms of bd agree and stand for pos.
Stands(bd, pos) ==
    At(bd, pos.mBoard, pos.side, pos.castlePerm, pos.enpas, pos.history, pos.fiftyMove)

\* The man a move puts down.
Placed(pos, move) ==
    IF move.promoted = NOPIECE THEN pos.mBoard[move.from] ELSE move.promoted

\* The squares when a pawn taken in passing is gone, a castling rook has moved.
SpecialSquares(pos, move) ==
    [sq \in Squares |->
        IF move.enpas /\ sq = Behind(move.to, pos.side) THEN NOPIECE
        ELSE IF move.castle /\ sq = RookCorner(pos.side, move.to) THEN NOPIECE
        ELSE IF move.castle /\ sq = RookLanding(pos.side, move.to) THEN Rook(pos.side)
        ELSE pos.mBoard[sq]]

MadeSquares(pos, move) ==
    [sq \in Squares |->
        IF sq = move.to THEN Placed(pos, move)
        ELSE IF sq = move.from THEN NOPIECE
        ELSE SpecialSquares(pos, move)[sq]]

Entry(pos, move) ==
    [posKey |-> KeyOf(pos), move |-> move, pce |-> pos.mBoard[move.from],
     castlePerm |-> pos.castlePerm, enpas |-> pos.enpas, fiftyMove |-> pos.fiftyMove]

Counts(pos, move) == move.captured # NOPIECE \/ isPawn(pos.mBoard[move.from])

\* The position after a move.
Made(pos, move) ==
    [mBoard     |-> MadeSquares(pos, move),
     side       |-> 1 - pos.side,
     castlePerm |-> pos.castlePerm
                      \ RightsLost(pos.side, pos.mBoard[move.from], move),
     enpas      |-> IF move.pawnstart THEN Behind(move.to, pos.side) ELSE OFFBOARD,
     history    |-> Append(pos.history, Entry(pos, move)),
     fiftyMove  |-> IF Counts(pos, move) THEN Len(pos.history) + 1 ELSE pos.fiftyMove]

\* What makeMove does before it judges.
Tried(bd, move) ==
    LET pce == bd.mBoard[move.from]
        special == makeSpecial(pushHistory(bd, move), move)
        passed == passSquare(loseRights(special, pce, move), move)
    IN  countFifty(changeSide(movePiece(passed, pce, move)), pce, move)

\* The squares a move touches.
LEMMA MoveSquares ==
    ASSUME NEW pos \in Positions, NEW move, MoveFits(pos, move)
    PROVE  /\ pos.side \in {WHITE, BLACK} /\ pos.mBoard \in [Squares -> Pieces \cup {NOPIECE}]
           /\ move.from \in Squares /\ move.to \in Squares /\ move.to # move.from
           /\ pos.mBoard[move.from] \in Pieces /\ pos.mBoard[move.from] # NOPIECE
           /\ move.promoted \in Pieces \cup {NOPIECE}
           /\ Placed(pos, move) \in Pieces /\ Placed(pos, move) \in PiecesOf(pos.side)
           /\ Placed(pos, move) # NOPIECE
<1>1. pos.side \in {WHITE, BLACK} /\ pos.mBoard \in [Squares -> Pieces \cup {NOPIECE}]
  BY DEF Positions
<1>2. move.from \in Squares /\ move.to \in Squares /\ move.promoted \in Pieces \cup {NOPIECE}
  BY ChessBoardAssumption DEF MoveFits, ChessMoves
<1>3. /\ pos.mBoard[move.from] \in PiecesOf(pos.side) /\ move.to # move.from
      /\ PawnFits(pos, move)
  BY DEF MoveFits
<1>4. Placed(pos, move) \in PiecesOf(pos.side)
  BY <1>3 DEF Placed, PawnFits
<1> QED
  BY <1>1, <1>2, <1>3, <1>4, SidesShare

\* A rook that castles stays on the board.
LEMMA RookSquares ==
    ASSUME NEW side, NEW to
    PROVE  RookCorner(side, to) \in Squares /\ RookLanding(side, to) \in Squares
<1> DEFINE row == IF side = WHITE THEN 7 ELSE 0
           corner == IF to[2] = 2 THEN 0 ELSE 7
           landing == IF to[2] = 2 THEN 3 ELSE 5
<1>1. row \in 0..7 /\ corner \in 0..7 /\ landing \in 0..7
  OBVIOUS
<1>2. RookCorner(side, to) = <<row, corner>> /\ RookLanding(side, to) = <<row, landing>>
  BY DEF RookCorner, RookLanding
<1> HIDE DEF row, corner, landing
<1> QED
  BY <1>1, <1>2, SquarePairs

\* What makeMove does beside its two squares.
LEMMA SpecialAt ==
    ASSUME NEW pos \in Positions, NEW move, MoveFits(pos, move),
           NEW bd, NEW c, NEW e, NEW h, NEW f, At(bd, pos.mBoard, pos.side, c, e, h, f)
    PROVE  At(makeSpecial(bd, move), SpecialSquares(pos, move), pos.side, c, e, h, f)
<1> DEFINE s == pos.side
           m == pos.mBoard
<1>1. /\ s \in {WHITE, BLACK} /\ bd.side = s /\ m \in [Squares -> Pieces \cup {NOPIECE}]
      /\ At(bd, m, s, c, e, h, f)
  BY MoveSquares DEF At
<1>2. CASE move.enpas
  <2> DEFINE sq == Behind(move.to, s)
  <2>1. sq \in Squares /\ m[sq] = Pawn(1 - s) /\ ~move.castle
    BY <1>2 DEF MoveFits, EnpasFits
  <2>2. m[sq] # NOPIECE
    BY <1>1, <2>1, SidesShare
  <2>3. makeSpecial(bd, move) = removePiece(bd, sq)
    BY <1>1, <1>2 DEF makeSpecial
  <2>4. SpecialSquares(pos, move) = [m EXCEPT ![sq] = NOPIECE]
    BY <1>1, <1>2, <2>1 DEF SpecialSquares
  <2> HIDE DEF s, m, sq
  <2>5. At(removePiece(bd, sq), [m EXCEPT ![sq] = NOPIECE], s, c, e, h, f)
    BY <1>1, <2>1, <2>2, RemovePieceAt
  <2> QED
    BY <2>3, <2>4, <2>5 DEF s
<1>3. CASE ~move.enpas /\ move.castle
  <2> DEFINE corner == RookCorner(s, move.to)
             landing == RookLanding(s, move.to)
             off == [m EXCEPT ![corner] = NOPIECE]
  <2>1. m[corner] = Rook(s) /\ m[landing] = NOPIECE
    BY <1>3 DEF MoveFits, CastleFits
  <2>2. corner \in Squares /\ landing \in Squares
    BY RookSquares
  <2>3. Rook(s) \in Pieces /\ m[corner] # NOPIECE
    BY <1>1, <2>1, SidesShare
  <2>4. makeSpecial(bd, move) = addPiece(removePiece(bd, corner), landing, Rook(s))
    BY <1>1, <1>3 DEF makeSpecial, moveRook
  <2>5. SpecialSquares(pos, move) = [off EXCEPT ![landing] = Rook(s)]
    BY <1>1, <1>3, <2>1, <2>2, <2>3 DEF SpecialSquares
  <2> HIDE DEF s, m, corner, landing
  <2>6. At(removePiece(bd, corner), off, s, c, e, h, f)
    BY <1>1, <2>2, <2>3, RemovePieceAt
  <2>7. off[landing] = NOPIECE
    BY <1>1, <2>1, <2>2
  <2> HIDE DEF off
  <2>8. At(addPiece(removePiece(bd, corner), landing, Rook(s)),
           [off EXCEPT ![landing] = Rook(s)], s, c, e, h, f)
    BY <2>2, <2>3, <2>6, <2>7, AddPieceAt
  <2> QED
    BY <2>4, <2>5, <2>8 DEF s
<1>4. CASE ~move.enpas /\ ~move.castle
  <2>1. makeSpecial(bd, move) = bd
    BY <1>4 DEF makeSpecial
  <2>2. SpecialSquares(pos, move) = m
    BY <1>1, <1>4 DEF SpecialSquares
  <2> QED
    BY <1>1, <2>1, <2>2
<1> QED
  BY <1>2, <1>3, <1>4

\* The two squares of a move keep their men until it is made.
LEMMA SpecialLeaves ==
    ASSUME NEW pos \in Positions, NEW move, MoveFits(pos, move)
    PROVE  /\ SpecialSquares(pos, move)[move.from] = pos.mBoard[move.from]
           /\ SpecialSquares(pos, move)[move.to] = pos.mBoard[move.to]
<1>1. /\ pos.side \in {WHITE, BLACK} /\ move.from \in Squares /\ move.to \in Squares
      /\ pos.mBoard[move.from] \in PiecesOf(pos.side)
      /\ move.captured = pos.mBoard[move.to]
  BY MoveSquares DEF MoveFits, CaptureFits
<1>2. ASSUME move.enpas
      PROVE  Behind(move.to, pos.side) \notin {move.from, move.to}
  <2>1. /\ pos.mBoard[Behind(move.to, pos.side)] = Pawn(1 - pos.side)
        /\ pos.mBoard[move.from] = Pawn(pos.side) /\ move.captured = NOPIECE
    BY <1>2 DEF MoveFits, EnpasFits
  <2>2. Pawn(1 - pos.side) # Pawn(pos.side) /\ Pawn(1 - pos.side) # NOPIECE
    BY <1>1, SidesShare
  <2> QED
    BY <1>1, <2>1, <2>2
<1>3. ASSUME move.castle
      PROVE  /\ RookCorner(pos.side, move.to) \notin {move.from, move.to}
             /\ RookLanding(pos.side, move.to) \notin {move.from, move.to}
  <2>1. /\ move.from[2] = 4 /\ move.to[2] \in {2, 6}
    BY <1>3 DEF MoveFits, CastleFits
  <2>2. /\ RookCorner(pos.side, move.to)[2] \in {0, 7}
        /\ RookLanding(pos.side, move.to)[2] \in {3, 5}
    BY DEF RookCorner, RookLanding
  <2> QED
    BY <2>1, <2>2
<1> QED
  BY <1>1, <1>2, <1>3 DEF SpecialSquares

\* The man moved, and what stood where it goes.
LEMMA MovedAt ==
    ASSUME NEW pos \in Positions, NEW move, MoveFits(pos, move),
           NEW bd, NEW c, NEW e, NEW h, NEW f,
           At(bd, SpecialSquares(pos, move), pos.side, c, e, h, f)
    PROVE  At(movePiece(bd, pos.mBoard[move.from], move),
              MadeSquares(pos, move), pos.side, c, e, h, f)
<1> DEFINE s == pos.side
           m == SpecialSquares(pos, move)
           man == Placed(pos, move)
           from == move.from
           to == move.to
           off == [m EXCEPT ![from] = NOPIECE]
           taken == removeCaptured(removePiece(bd, from), move)
           free == [off EXCEPT ![to] = NOPIECE]
<1>1. /\ from \in Squares /\ to \in Squares /\ to # from
      /\ m[from] # NOPIECE /\ m[to] = pos.mBoard[to]
      /\ man \in Pieces /\ DOMAIN m = Squares
      /\ move.captured = pos.mBoard[to]
  <2>1. DOMAIN m = Squares
    BY DEF SpecialSquares
  <2>2. move.captured = pos.mBoard[to]
    BY DEF MoveFits, CaptureFits
  <2>3. m[from] = pos.mBoard[from] /\ m[to] = pos.mBoard[to]
    BY SpecialLeaves
  <2> HIDE DEF m
  <2> QED
    BY <2>1, <2>2, <2>3, MoveSquares
<1>2. At(bd, m, s, c, e, h, f)
  OBVIOUS
<1>3. movePiece(bd, pos.mBoard[from], move) = addPiece(taken, to, man)
  BY DEF movePiece, Placed
<1>4. [free EXCEPT ![to] = man] = MadeSquares(pos, move)
  <2>1. m = [sq \in Squares |-> m[sq]]
    BY DEF SpecialSquares
  <2> DEFINE made == [sq \in Squares |-> IF sq = to THEN man
                                         ELSE IF sq = from THEN NOPIECE ELSE m[sq]]
  <2>2. made = MadeSquares(pos, move)
    BY DEF MadeSquares
  <2> HIDE DEF m, man, from, to
  <2>3. [free EXCEPT ![to] = man] = made
    BY <1>1, <2>1
  <2> QED
    BY <2>2, <2>3
<1> HIDE DEF s, m, man, from, to
<1>5. At(removePiece(bd, from), off, s, c, e, h, f)
  BY <1>1, <1>2, RemovePieceAt
<1>6. At(taken, free, s, c, e, h, f)
  <2>1. off[to] = m[to]
    BY <1>1
  <2>2. CASE move.captured = NOPIECE
    <3>1. taken = removePiece(bd, from)
      BY <2>2 DEF removeCaptured
    <3>2. free = off
      BY <1>1, <2>1, <2>2
    <3> QED
      BY <1>5, <3>1, <3>2
  <2>3. CASE move.captured # NOPIECE
    <3>1. taken = removePiece(removePiece(bd, from), to)
      BY <2>3 DEF removeCaptured, to
    <3> HIDE DEF off
    <3>2. At(removePiece(removePiece(bd, from), to), free, s, c, e, h, f)
      BY <1>1, <1>5, <2>1, <2>3, RemovePieceAt
    <3> QED
      BY <3>1, <3>2
  <2> QED
    BY <2>2, <2>3
<1>7. free[to] = NOPIECE
  BY <1>1
<1> HIDE DEF free, taken
<1>8. At(addPiece(taken, to, man), [free EXCEPT ![to] = man], s, c, e, h, f)
  BY <1>1, <1>6, <1>7, AddPieceAt
<1> QED
  BY <1>3, <1>4, <1>8 DEF s, from

\* The rights that a move costs are rights.
LEMMA LostRights ==
    ASSUME NEW side, NEW pce, NEW move
    PROVE  RightsLost(side, pce, move) \in SUBSET CastleRights
<1>1. {WKCA, WQCA, BKCA, BQCA} = CastleRights
  BY ChessBoardAssumption
<1>2. \A sq : CornerRight(sq) \in CastleRights
  BY <1>1 DEF CornerRight
<1> QED
  BY <1>1, <1>2 DEF RightsLost

\* A double step's square behind is on the board.
LEMMA StartBehind ==
    ASSUME NEW pos \in Positions, NEW move, MoveFits(pos, move), move.pawnstart
    PROVE  /\ Behind(move.to, pos.side) \in Squares
           /\ Behind(move.to, pos.side)
                = <<IF pos.side = WHITE THEN 5 ELSE 2, move.to[2]>>
           /\ move.to = <<IF pos.side = WHITE THEN 4 ELSE 3, move.to[2]>>
<1>1. /\ pos.side \in {WHITE, BLACK} /\ move.from[2] \in 0..7
      /\ move.to = <<IF pos.side = WHITE THEN 4 ELSE 3, move.from[2]>>
  BY MoveSquares, SquarePairs DEF MoveFits, StartFits
<1>2. Behind(move.to, pos.side) = <<IF pos.side = WHITE THEN 5 ELSE 2, move.to[2]>>
  BY <1>1 DEF Behind
<1>3. move.to = <<IF pos.side = WHITE THEN 4 ELSE 3, move.to[2]>>
  BY <1>1
<1> DEFINE row == IF pos.side = WHITE THEN 5 ELSE 2
<1>4. row \in 0..7 /\ move.to[2] \in 0..7
  BY <1>1
<1>5. <<row, move.to[2]>> \in Squares
  <2> HIDE DEF row
  <2> QED
    BY <1>4, SquarePairs
<1> QED
  BY <1>2, <1>3, <1>5

\* The whole of a move, before it is judged.
LEMMA TriedStands ==
    ASSUME NEW pos \in Positions, NEW move, MoveFits(pos, move),
           NEW bd, Stands(bd, pos)
    PROVE  Stands(Tried(bd, move), Made(pos, move))
<1> DEFINE s == pos.side
           m == pos.mBoard
           pce == m[move.from]
           lost == RightsLost(s, pce, move)
           h == Append(pos.history, Entry(pos, move))
           ep == IF move.pawnstart THEN Behind(move.to, s) ELSE OFFBOARD
           f == pos.fiftyMove
           pushed == pushHistory(bd, move)
           special == makeSpecial(pushed, move)
           lessened == loseRights(special, pce, move)
           passed == passSquare(lessened, move)
           turned == changeSide(movePiece(passed, pce, move))
<1>1. /\ move \in Moves /\ m[move.from] # NOPIECE /\ isPawn(pce) \in BOOLEAN
      /\ bd.mBoard[move.from] = pce
  BY MoveSquares DEF MoveFits, isPawn, Stands, At
<1>2. At(pushed, m, s, pos.castlePerm, pos.enpas, h, f)
  <2>1. KeyOf(bd) = KeyOf(pos)
    BY SameKey DEF Stands, At
  <2> QED
    BY <1>1, <2>1, PushHistoryAt DEF Stands, Entry
<1> HIDE DEF pushed, h, f
<1>3. At(special, SpecialSquares(pos, move), s, pos.castlePerm, pos.enpas, h, f)
  BY <1>2, SpecialAt
<1> HIDE DEF special
<1>4. At(lessened, SpecialSquares(pos, move), s, pos.castlePerm \ lost, OFFBOARD, h, f)
  <2>1. At(hashOutEp(special), SpecialSquares(pos, move), s, pos.castlePerm, OFFBOARD, h, f)
    BY <1>3, HashOutEpAt
  <2>2. special.side = s
    BY <1>3 DEF At
  <2>3. lessened = FoldSet(LAMBDA right, b : hashOutCastle(b, right), hashOutEp(special), lost)
    BY <2>2 DEF loseRights
  <2>4. lost \in SUBSET CastleRights
    BY LostRights
  <2> HIDE DEF lost, lessened
  <2> QED
    BY <2>1, <2>3, <2>4, OutFoldAt
<1> HIDE DEF lessened, lost
<1>5. At(passed, SpecialSquares(pos, move), s, pos.castlePerm \ lost, ep, h, f)
  <2>1. CASE move.pawnstart
    <3>1. passed = hashInEp(lessened, Behind(move.to, s))
      BY <1>4, <2>1 DEF passSquare, At
    <3>2. Behind(move.to, s) \in Squares
      BY <2>1, StartBehind
    <3>3. At(hashInEp(lessened, Behind(move.to, s)), SpecialSquares(pos, move), s,
             pos.castlePerm \ lost, Behind(move.to, s), h, f)
      BY <1>4, <3>2, HashInEpAt
    <3> QED
      BY <2>1, <3>1, <3>3
  <2>2. CASE ~move.pawnstart
    BY <1>4, <2>2 DEF passSquare
  <2> QED
    BY <2>1, <2>2
<1> HIDE DEF passed, ep
<1>6. At(turned, MadeSquares(pos, move), 1 - s, pos.castlePerm \ lost, ep, h, f)
  <2>1. At(movePiece(passed, pce, move), MadeSquares(pos, move), s,
           pos.castlePerm \ lost, ep, h, f)
    BY <1>5, MovedAt
  <2> QED
    BY <2>1, ChangeSideAt
<1> HIDE DEF turned
<1>7. Len(h) = Len(pos.history) + 1
  BY DEF h, Positions
<1>8. At(countFifty(turned, pce, move), MadeSquares(pos, move), 1 - s,
         pos.castlePerm \ lost, ep, h, Made(pos, move).fiftyMove)
  <2>1. CASE Counts(pos, move)
    <3>1. countFifty(turned, pce, move) = updateFiftyMove(turned)
      BY <2>1 DEF Counts, countFifty
    <3>2. Made(pos, move).fiftyMove = Len(h)
      BY <1>7, <2>1 DEF Made
    <3> QED
      BY <1>6, <3>1, <3>2, UpdateFiftyMoveAt
  <2>2. CASE ~Counts(pos, move)
    <3>1. countFifty(turned, pce, move) = turned
      BY <2>2 DEF Counts, countFifty
    <3>2. Made(pos, move).fiftyMove = f
      BY <2>2 DEF Made, f
    <3> QED
      BY <1>6, <3>1, <3>2
  <2> QED
    BY <2>1, <2>2
<1>9. Tried(bd, move) = countFifty(turned, pce, move)
  BY <1>1 DEF Tried, turned, passed, lessened, special, pushed
<1>10. /\ Made(pos, move).mBoard = MadeSquares(pos, move)
       /\ Made(pos, move).side = 1 - s
       /\ Made(pos, move).castlePerm = pos.castlePerm \ lost
       /\ Made(pos, move).enpas = ep
       /\ Made(pos, move).history = h
  BY DEF Made, lost, ep, h
<1> QED
  BY <1>8, <1>9, <1>10 DEF Stands

----------------------------------------------------------------------------
(* Taking a move back.                                                     *)

\* The squares with the move itself made, and nothing beside it.
HalfSquares(pos, move) ==
    [sq \in Squares |-> IF sq = move.to THEN Placed(pos, move)
                        ELSE IF sq = move.from THEN NOPIECE
                        ELSE pos.mBoard[sq]]

\* What takeBack restores beside the two squares.
LEMMA UnspecialAt ==
    ASSUME NEW pos \in Positions, NEW move, MoveFits(pos, move),
           NEW bd, NEW c, NEW e, NEW h, NEW f,
           At(bd, MadeSquares(pos, move), pos.side, c, e, h, f)
    PROVE  At(restoreSpecial(bd, move), HalfSquares(pos, move), pos.side, c, e, h, f)
<1> DEFINE s == pos.side
           m == MadeSquares(pos, move)
           half == HalfSquares(pos, move)
<1>1. /\ s \in {WHITE, BLACK} /\ bd.side = s
      /\ pos.mBoard \in [Squares -> Pieces \cup {NOPIECE}]
      /\ At(bd, m, s, c, e, h, f)
  BY MoveSquares DEF At
<1>2. /\ SpecialSquares(pos, move)[move.from] = pos.mBoard[move.from]
      /\ SpecialSquares(pos, move)[move.to] = pos.mBoard[move.to]
  BY SpecialLeaves
<1>3. /\ DOMAIN m = Squares /\ DOMAIN half = Squares
      /\ m = [sq \in Squares |-> m[sq]] /\ half = [sq \in Squares |-> half[sq]]
      /\ \A sq \in Squares \ {move.from, move.to} : half[sq] = pos.mBoard[sq]
      /\ \A sq \in Squares \ {move.from, move.to} : m[sq] = SpecialSquares(pos, move)[sq]
      /\ \A sq \in Squares \cap {move.from, move.to} : m[sq] = half[sq]
  BY DEF MadeSquares, HalfSquares
<1>4. CASE move.enpas
  <2> DEFINE sq == Behind(move.to, s)
  <2>1. sq \in Squares /\ pos.mBoard[sq] = Pawn(1 - s) /\ ~move.castle
    BY <1>4 DEF MoveFits, EnpasFits
  <2>2. Pawn(1 - s) \in Pieces /\ Pawn(1 - s) # NOPIECE
    BY <1>1, SidesShare
  <2>3. restoreSpecial(bd, move) = addPiece(bd, sq, Pawn(1 - s))
    BY <1>1, <1>4 DEF restoreSpecial
  <2>4. /\ SpecialSquares(pos, move)[sq] = NOPIECE
        /\ \A x \in Squares \ {sq} : SpecialSquares(pos, move)[x] = pos.mBoard[x]
    BY <1>4, <2>1 DEF SpecialSquares
  <2>5. sq \notin {move.from, move.to}
    <3>1. pos.mBoard[move.from] # NOPIECE /\ pos.mBoard[move.to] = NOPIECE
          /\ pos.mBoard[move.from] = Pawn(s) /\ Pawn(s) # Pawn(1 - s)
      BY <1>1, <1>4, SidesShare, MoveSquares DEF MoveFits, EnpasFits, CaptureFits
    <3> QED
      BY <2>1, <2>2, <3>1
  <2>6. m[sq] = NOPIECE
    BY <1>3, <2>1, <2>4, <2>5
  <2> HIDE DEF sq, s, m, half
  <2>7. half = [m EXCEPT ![sq] = Pawn(1 - s)]
    <3>1. \A x \in Squares : half[x] = [m EXCEPT ![sq] = Pawn(1 - s)][x]
      BY <1>3, <2>1, <2>4, <2>5
    <3> QED
      BY <1>3, <3>1
  <2>8. At(addPiece(bd, sq, Pawn(1 - s)), [m EXCEPT ![sq] = Pawn(1 - s)], s, c, e, h, f)
    BY <1>1, <2>1, <2>2, <2>6, AddPieceAt
  <2> QED
    BY <2>3, <2>7, <2>8 DEF half, s
<1>5. CASE ~move.enpas /\ move.castle
  <2> DEFINE corner == RookCorner(s, move.to)
             landing == RookLanding(s, move.to)
             off == [m EXCEPT ![landing] = NOPIECE]
  <2>1. /\ pos.mBoard[corner] = Rook(s) /\ pos.mBoard[landing] = NOPIECE
        /\ move.from[2] = 4 /\ move.to[2] \in {2, 6}
    BY <1>5 DEF MoveFits, CastleFits
  <2>2. corner \in Squares /\ landing \in Squares
    BY RookSquares
  <2>3. Rook(s) \in Pieces /\ Rook(s) # NOPIECE
    BY <1>1, SidesShare
  <2>4. restoreSpecial(bd, move) = addPiece(removePiece(bd, landing), corner, Rook(s))
    BY <1>1, <1>5 DEF restoreSpecial, moveRook
  <2>5. {corner, landing} \cap {move.from, move.to} = {} /\ corner # landing
    <3>1. corner[2] \in {0, 7} /\ landing[2] \in {3, 5}
      BY DEF RookCorner, RookLanding
    <3> HIDE DEF corner, landing
    <3> QED
      BY <2>1, <3>1
  <2>6. /\ SpecialSquares(pos, move)[corner] = NOPIECE
        /\ SpecialSquares(pos, move)[landing] = Rook(s)
        /\ \A x \in Squares \ {corner, landing} :
              SpecialSquares(pos, move)[x] = pos.mBoard[x]
    BY <1>5, <2>2, <2>5 DEF SpecialSquares
  <2> HIDE DEF s, m, half, corner, landing
  <2>7. m[landing] = Rook(s) /\ m[corner] = NOPIECE
    BY <1>3, <2>2, <2>5, <2>6
  <2>8. half = [off EXCEPT ![corner] = Rook(s)]
    <3>1. \A x \in Squares : half[x] = [off EXCEPT ![corner] = Rook(s)][x]
      BY <1>3, <2>1, <2>2, <2>5, <2>6
    <3>2. DOMAIN off = Squares /\ DOMAIN [off EXCEPT ![corner] = Rook(s)] = Squares
      BY <1>3
    <3>3. [off EXCEPT ![corner] = Rook(s)]
            = [x \in Squares |-> [off EXCEPT ![corner] = Rook(s)][x]]
      BY <3>2
    <3> QED
      BY <1>3, <3>1, <3>3
  <2>9. At(removePiece(bd, landing), off, s, c, e, h, f)
    BY <1>1, <2>2, <2>3, <2>7, RemovePieceAt
  <2>10. off[corner] = NOPIECE
    BY <1>3, <2>2, <2>5, <2>7
  <2> HIDE DEF off
  <2>11. At(addPiece(removePiece(bd, landing), corner, Rook(s)),
            [off EXCEPT ![corner] = Rook(s)], s, c, e, h, f)
    BY <2>2, <2>3, <2>9, <2>10, AddPieceAt
  <2> QED
    BY <2>4, <2>8, <2>11 DEF half, s
<1>6. CASE ~move.enpas /\ ~move.castle
  <2>1. restoreSpecial(bd, move) = bd
    BY <1>6 DEF restoreSpecial
  <2>2. \A x \in Squares : SpecialSquares(pos, move)[x] = pos.mBoard[x]
    BY <1>6 DEF SpecialSquares
  <2> HIDE DEF m, half
  <2>3. \A x \in Squares : m[x] = half[x]
    BY <1>3, <2>2
  <2>4. m = half
    BY <1>3, <2>3
  <2> QED
    BY <1>1, <2>1, <2>4 DEF half
<1> QED
  BY <1>4, <1>5, <1>6

\* The man moved back, and what he took.
LEMMA MovedBackAt ==
    ASSUME NEW pos \in Positions, NEW move, MoveFits(pos, move),
           NEW last, last.move = move, last.pce = pos.mBoard[move.from],
           NEW bd, NEW s, NEW c, NEW e, NEW h, NEW f,
           At(bd, HalfSquares(pos, move), s, c, e, h, f)
    PROVE  At(movePieceBack(bd, last), pos.mBoard, s, c, e, h, f)
<1> DEFINE m == HalfSquares(pos, move)
           from == move.from
           to == move.to
           pce == pos.mBoard[from]
           man == Placed(pos, move)
           pawn == Pawn(PceCol(pce))
           demoted == IF move.promoted = NOPIECE
                      THEN bd ELSE addPiece(removePiece(bd, to), to, pawn)
           old == IF move.promoted = NOPIECE THEN pce ELSE pawn
           moved == addPiece(removePiece(demoted, to), from, old)
           clear == [m EXCEPT ![to] = NOPIECE]
           back == [clear EXCEPT ![from] = pce]
<1>1. /\ from \in Squares /\ to \in Squares /\ to # from
      /\ pce \in Pieces /\ pce # NOPIECE /\ man \in Pieces /\ man # NOPIECE
      /\ pos.side \in {WHITE, BLACK} /\ pce \in PiecesOf(pos.side)
      /\ pos.mBoard \in [Squares -> Pieces \cup {NOPIECE}]
      /\ move.captured = pos.mBoard[to]
  <2>1. pce \in PiecesOf(pos.side) /\ move.captured = pos.mBoard[to]
    BY DEF MoveFits, CaptureFits
  <2> HIDE DEF man
  <2> QED
    BY <2>1, MoveSquares, NoPieceAssumption DEF man
<1>2. old = pce /\ pawn \in Pieces /\ pawn # NOPIECE
  <2>1. PceCol(pce) = pos.side
    BY <1>1, SidesShare
  <2>2. move.promoted # NOPIECE => pce = Pawn(pos.side)
    BY DEF MoveFits, PawnFits
  <2> HIDE DEF pce
  <2> QED
    BY <1>1, <2>1, <2>2, SidesShare
<1>3. /\ m = [sq \in Squares |-> m[sq]]
      /\ m[to] = man /\ m[from] = NOPIECE
      /\ \A sq \in Squares \ {from, to} : m[sq] = pos.mBoard[sq]
  BY <1>1 DEF HalfSquares
<1>4. movePieceBack(bd, last) = IF move.captured # NOPIECE
                                THEN addPiece(moved, to, move.captured) ELSE moved
  BY DEF movePieceBack
<1> HIDE DEF m, from, to, man, pce
<1>5. At(bd, m, s, c, e, h, f)
  BY DEF m
<1>6. At(removePiece(demoted, to), clear, s, c, e, h, f)
  <2>1. At(removePiece(bd, to), clear, s, c, e, h, f)
    BY <1>1, <1>3, <1>5, RemovePieceAt
  <2>2. CASE move.promoted = NOPIECE
    BY <2>1, <2>2
  <2>3. CASE move.promoted # NOPIECE
    <3> DEFINE down == [clear EXCEPT ![to] = pawn]
    <3>1. demoted = addPiece(removePiece(bd, to), to, pawn)
      BY <2>3
    <3>2. clear[to] = NOPIECE
      BY <1>1, <1>3
    <3>3. clear = [down EXCEPT ![to] = NOPIECE]
      BY <1>1, <1>3
    <3>4. down[to] = pawn
      BY <1>1, <1>3
    <3> HIDE DEF clear, demoted, pawn
    <3>5. At(demoted, down, s, c, e, h, f)
      BY <1>1, <1>2, <2>1, <3>1, <3>2, AddPieceAt
    <3> HIDE DEF down
    <3>6. At(removePiece(demoted, to), [down EXCEPT ![to] = NOPIECE], s, c, e, h, f)
      BY <1>1, <1>2, <3>4, <3>5, RemovePieceAt
    <3> QED
      BY <3>3, <3>6
  <2> QED
    BY <2>2, <2>3
<1>7. At(moved, back, s, c, e, h, f)
  <2>1. clear[from] = NOPIECE
    BY <1>1, <1>3
  <2> HIDE DEF clear, demoted
  <2>2. At(addPiece(removePiece(demoted, to), from, pce), back, s, c, e, h, f)
    BY <1>1, <1>6, <2>1, AddPieceAt
  <2> HIDE DEF old
  <2> QED
    BY <1>2, <2>2
<1>8. back[to] = NOPIECE /\ back = [sq \in Squares |-> back[sq]]
      /\ \A sq \in Squares \ {to} : back[sq] = pos.mBoard[sq]
  BY <1>1, <1>3 DEF pce
<1> HIDE DEF moved, back
<1>9. CASE move.captured # NOPIECE
  <2>1. pos.mBoard[to] \in Pieces
    BY <1>1, <1>9
  <2>2. At(addPiece(moved, to, pos.mBoard[to]), [back EXCEPT ![to] = pos.mBoard[to]],
           s, c, e, h, f)
    BY <1>1, <1>7, <1>8, <2>1, AddPieceAt
  <2>3. [back EXCEPT ![to] = pos.mBoard[to]] = pos.mBoard
    <3>1. \A sq \in Squares : [back EXCEPT ![to] = pos.mBoard[to]][sq] = pos.mBoard[sq]
      BY <1>1, <1>8
    <3> QED
      BY <1>1, <1>8, <3>1
  <2> QED
    BY <1>1, <1>4, <1>9, <2>2, <2>3
<1>10. CASE move.captured = NOPIECE
  <2>1. \A sq \in Squares : back[sq] = pos.mBoard[sq]
    BY <1>1, <1>8, <1>10
  <2>2. back = pos.mBoard
    BY <1>1, <1>8, <2>1
  <2> QED
    BY <1>4, <1>7, <1>10, <2>2
<1> QED
  BY <1>9, <1>10

\* takeBack undoes exactly the last move.
LEMMA TakenBackStands ==
    ASSUME NEW pos \in Positions, NEW move, MoveFits(pos, move),
           NEW bd, Stands(bd, Made(pos, move))
    PROVE  Stands(takeBack(bd), pos)
<1> DEFINE s == pos.side
           last == Entry(pos, move)
           h == Append(pos.history, last)
           f == Made(pos, move).fiftyMove
           c == Made(pos, move).castlePerm
           ep == Made(pos, move).enpas
           special == restoreSpecial(changeSide(bd), move)
           passed == restoreEnpas(special, last)
           rights == restoreRights(passed, last)
           moved == movePieceBack(rights, last)
<1>1. /\ s \in {WHITE, BLACK} /\ pos.mBoard[move.from] # NOPIECE
      /\ pos.history \in Seq(Histories) /\ pos.castlePerm \in SUBSET CastleRights
      /\ pos.enpas \in Squares \cup {OFFBOARD}
  BY MoveSquares DEF Positions
<1>2. getLastState(bd) = last /\ last.move = move /\ last.pce = pos.mBoard[move.from]
      /\ last.castlePerm = pos.castlePerm /\ last.enpas = pos.enpas
      /\ last.fiftyMove = pos.fiftyMove
  <2>1. last.move = move /\ last.pce = pos.mBoard[move.from]
        /\ last.castlePerm = pos.castlePerm /\ last.enpas = pos.enpas
        /\ last.fiftyMove = pos.fiftyMove
    BY DEF Entry
  <2>2. bd.history = h
    BY DEF Stands, At, Made
  <2> HIDE DEF last
  <2>3. h[Len(h)] = last
    BY <1>1
  <2> QED
    BY <2>1, <2>2, <2>3 DEF getLastState, hisPly
<1>3. takeBack(bd) = popHistory(moved)
  BY <1>1, <1>2 DEF takeBack
<1>4. h[Len(h)].fiftyMove = pos.fiftyMove /\ Len(h) > 0
      /\ SubSeq(h, 1, Len(h) - 1) = pos.history
  <2> HIDE DEF last
  <2> QED
    BY <1>1, <1>2
<1>5. At(bd, MadeSquares(pos, move), 1 - s, c, ep, h, f)
  BY DEF Stands, Made
<1>6. c \in SUBSET pos.castlePerm
  BY DEF Made
<1> HIDE DEF h, c, ep, f, last
<1>7. At(changeSide(bd), MadeSquares(pos, move), s, c, ep, h, f)
  <2>1. 1 - (1 - s) = s
    BY <1>1, SidesShare
  <2> QED
    BY <1>5, <2>1, ChangeSideAt
<1>8. At(special, HalfSquares(pos, move), s, c, ep, h, f)
  BY <1>7, UnspecialAt
<1> HIDE DEF special
<1>9. At(passed, HalfSquares(pos, move), s, c, pos.enpas, h, f)
  <2>1. At(hashOutEp(special), HalfSquares(pos, move), s, c, OFFBOARD, h, f)
    BY <1>8, HashOutEpAt
  <2>2. CASE pos.enpas = OFFBOARD
    BY <1>2, <2>1, <2>2 DEF restoreEnpas
  <2>3. CASE pos.enpas # OFFBOARD
    <3>1. passed = hashInEp(hashOutEp(special), pos.enpas)
      BY <1>2, <2>3 DEF restoreEnpas
    <3> QED
      BY <1>1, <2>1, <2>3, <3>1, HashInEpAt
  <2> QED
    BY <2>2, <2>3
<1> HIDE DEF passed
<1>10. At(rights, HalfSquares(pos, move), s, pos.castlePerm, pos.enpas, h, f)
  <2>1. rights = FoldSet(LAMBDA right, b : hashInCastle(b, right), passed, pos.castlePerm)
    BY <1>2 DEF restoreRights
  <2> DEFINE T == pos.castlePerm
  <2> HIDE DEF rights, T
  <2>2. At(rights, HalfSquares(pos, move), s, c \cup T, pos.enpas, h, f)
    <3>1. T \in SUBSET CastleRights
      BY <1>1 DEF T
    <3>2. rights = FoldSet(LAMBDA right, b : hashInCastle(b, right), passed, T)
      BY <2>1 DEF T
    <3> QED
      BY <1>9, <3>1, <3>2, InFoldAt
  <2>3. c \cup T = pos.castlePerm
    BY <1>6 DEF T
  <2> QED
    BY <2>2, <2>3
<1> HIDE DEF rights
<1>11. At(moved, pos.mBoard, s, pos.castlePerm, pos.enpas, h, f)
  BY <1>2, <1>10, MovedBackAt
<1> HIDE DEF moved
<1>12. At(popHistory(moved), pos.mBoard, s, pos.castlePerm, pos.enpas,
          SubSeq(h, 1, Len(h) - 1), h[Len(h)].fiftyMove)
  BY <1>4, <1>11, PopHistoryAt
<1> QED
  BY <1>3, <1>4, <1>12 DEF Stands

----------------------------------------------------------------------------
(* The position after a move is one of chess.                              *)

\* What a move does to a square that is not one of its two.
LEMMA Elsewhere ==
    ASSUME NEW pos \in Positions, NEW move, MoveFits(pos, move),
           NEW sq \in Squares \ {move.from, move.to}
    PROVE  LET now == Made(pos, move).mBoard[sq]
               was == pos.mBoard[sq]
           IN  \/ now = was
               \/ now = NOPIECE /\ was = Pawn(1 - pos.side)
               \/ /\ now = NOPIECE /\ was = Rook(pos.side)
                  /\ move.castle /\ sq = RookCorner(pos.side, move.to)
               \/ now = Rook(pos.side) /\ was = NOPIECE
<1> DEFINE now == Made(pos, move).mBoard[sq]
           was == pos.mBoard[sq]
<1>1. now = SpecialSquares(pos, move)[sq]
  BY DEF Made, MadeSquares
<1>2. CASE move.enpas /\ sq = Behind(move.to, pos.side)
  <2>1. was = Pawn(1 - pos.side)
    BY <1>2 DEF MoveFits, EnpasFits
  <2> QED
    BY <1>1, <1>2, <2>1 DEF SpecialSquares
<1>3. CASE ~(move.enpas /\ sq = Behind(move.to, pos.side))
           /\ move.castle /\ sq = RookCorner(pos.side, move.to)
  <2>1. was = Rook(pos.side)
    BY <1>3 DEF MoveFits, CastleFits
  <2> QED
    BY <1>1, <1>3, <2>1 DEF SpecialSquares
<1>4. CASE /\ ~(move.enpas /\ sq = Behind(move.to, pos.side))
           /\ ~(move.castle /\ sq = RookCorner(pos.side, move.to))
           /\ move.castle /\ sq = RookLanding(pos.side, move.to)
  <2>1. was = NOPIECE
    BY <1>4 DEF MoveFits, CastleFits
  <2>2. now = Rook(pos.side)
    BY <1>1, <1>4 DEF SpecialSquares
  <2> QED
    BY <2>1, <2>2
<1>5. CASE /\ ~(move.enpas /\ sq = Behind(move.to, pos.side))
           /\ ~(move.castle /\ sq = RookCorner(pos.side, move.to))
           /\ ~(move.castle /\ sq = RookLanding(pos.side, move.to))
  BY <1>1, <1>5 DEF SpecialSquares
<1> QED
  BY <1>2, <1>3, <1>4, <1>5

\* The two squares of a move.
LEMMA TwoSquares ==
    ASSUME NEW pos \in Positions, NEW move, MoveFits(pos, move)
    PROVE  /\ Made(pos, move).mBoard[move.to] = Placed(pos, move)
           /\ Made(pos, move).mBoard[move.from] = NOPIECE
           /\ pos.mBoard[move.to] = NOPIECE
                \/ pos.mBoard[move.to] \in PiecesOf(1 - pos.side) \ {King(1 - pos.side)}
           /\ Placed(pos, move) \in PiecesOf(pos.side)
           /\ Placed(pos, move) = King(pos.side)
                <=> pos.mBoard[move.from] = King(pos.side)
<1>1. /\ move.from \in Squares /\ move.to \in Squares /\ move.to # move.from
      /\ Placed(pos, move) \in PiecesOf(pos.side) /\ pos.side \in {WHITE, BLACK}
  BY MoveSquares
<1>2. pos.mBoard[move.to] = NOPIECE
        \/ pos.mBoard[move.to] \in PiecesOf(1 - pos.side) \ {King(1 - pos.side)}
  BY DEF MoveFits, CaptureFits
<1>3. Placed(pos, move) = King(pos.side) <=> pos.mBoard[move.from] = King(pos.side)
  <2>1. PawnFits(pos, move) /\ Pawn(pos.side) # King(pos.side)
    BY <1>1, SidesShare DEF MoveFits
  <2> QED
    BY <2>1 DEF Placed, PawnFits
<1> QED
  BY <1>1, <1>2, <1>3 DEF Made, MadeSquares

\* Each side still has one king.
LEMMA KingsStay ==
    ASSUME NEW pos \in Positions, Playable(pos), NEW move, MoveFits(pos, move),
           NEW side \in {WHITE, BLACK}
    PROVE  \E sq \in Squares :
              {x \in Squares : Made(pos, move).mBoard[x] = King(side)} = {sq}
<1> DEFINE s == pos.side
           now == Made(pos, move).mBoard
           was == pos.mBoard
           from == move.from
           to == move.to
<1>1. /\ s \in {WHITE, BLACK} /\ from \in Squares /\ to \in Squares /\ to # from
      /\ was[from] \in PiecesOf(s)
  BY MoveSquares DEF MoveFits
<1>2. /\ now[to] = Placed(pos, move) /\ now[from] = NOPIECE
      /\ was[to] = NOPIECE \/ was[to] \in PiecesOf(1 - s) \ {King(1 - s)}
      /\ Placed(pos, move) \in PiecesOf(s)
      /\ Placed(pos, move) = King(s) <=> was[from] = King(s)
  BY TwoSquares
<1>3. /\ King(side) \in PiecesOf(side) /\ King(side) # NOPIECE
      /\ King(side) \notin {Pawn(1 - s), Rook(s)}
      /\ side = s \/ side = 1 - s
      /\ \A pce \in PiecesOf(s) : pce \notin PiecesOf(1 - s) /\ pce \in Pieces
      /\ NOPIECE \notin PiecesOf(s) /\ NOPIECE \notin PiecesOf(1 - s)
  <2>1. King(side) \in PiecesOf(side) /\ King(side) # NOPIECE
    BY SidesShare
  <2>2. side = s \/ side = 1 - s
    BY <1>1 DEF WHITE, BLACK
  <2>3. \A pce \in PiecesOf(s) : pce \notin PiecesOf(1 - s) /\ pce \in Pieces
    BY <1>1, SidesShare
  <2>4. NOPIECE \notin PiecesOf(s) /\ NOPIECE \notin PiecesOf(1 - s)
    BY <1>1, SidesShare
  <2>5. /\ King(s) # Rook(s) /\ King(1 - s) # Pawn(1 - s)
        /\ Pawn(1 - s) \in PiecesOf(1 - s) /\ Rook(s) \in PiecesOf(s)
    BY <1>1, SidesShare
  <2>6. King(side) \notin {Pawn(1 - s), Rook(s)}
    BY <2>1, <2>2, <2>3, <2>5
  <2> QED
    BY <2>1, <2>2, <2>3, <2>4, <2>6
<1>4. \A x \in Squares \ {from, to} : now[x] = King(side) <=> was[x] = King(side)
  <2> TAKE x \in Squares \ {from, to}
  <2>1. \/ now[x] = was[x]
        \/ now[x] = NOPIECE /\ was[x] = Pawn(1 - s)
        \/ now[x] = NOPIECE /\ was[x] = Rook(s)
        \/ now[x] = Rook(s) /\ was[x] = NOPIECE
    BY Elsewhere
  <2> HIDE DEF now, was, s
  <2> QED
    BY <1>3, <2>1
<1>5. PICK k \in Squares : {x \in Squares : was[x] = King(side)} = {k}
  BY DEF Playable
<1> HIDE DEF now, was, s, from, to
<1>6. \A x \in Squares : was[x] = King(side) <=> x = k
  BY <1>5
<1>7. now[from] # King(side)
  BY <1>2, <1>3
<1>8. CASE side = s /\ k = from
  <2>1. was[from] = King(s)
    BY <1>6, <1>8
  <2>2. \A x \in Squares : now[x] = King(side) <=> x = to
    BY <1>1, <1>2, <1>4, <1>6, <1>7, <1>8, <2>1 DEF s
  <2>3. {x \in Squares : now[x] = King(side)} = {to}
    BY <1>1, <2>2
  <2> QED
    BY <1>1, <2>3 DEF now
<1>9. CASE ~(side = s /\ k = from)
  <2>1. now[to] # King(side)
    <3>1. CASE side = s
      <4>1. was[from] # King(s)
        BY <1>1, <1>6, <1>9, <3>1
      <4> QED
        BY <1>2, <3>1, <4>1
    <3>2. CASE side # s
      BY <1>2, <1>3, <3>2
    <3> QED
      BY <3>1, <3>2
  <2>2. was[to] # King(side)
    BY <1>2, <1>3
  <2>3. was[from] # King(side)
    <3>1. CASE side = s
      BY <1>1, <1>6, <1>9, <3>1
    <3>2. CASE side # s
      BY <1>1, <1>3, <3>2
    <3> QED
      BY <3>1, <3>2
  <2>4. \A x \in Squares : now[x] = King(side) <=> x = k
    BY <1>1, <1>4, <1>6, <1>7, <2>1, <2>2, <2>3
  <2>5. {x \in Squares : now[x] = King(side)} = {k}
    BY <2>4
  <2> QED
    BY <2>5 DEF now
<1> QED
  BY <1>8, <1>9

\* Pawns stay off the last rows.
LEMMA PawnsStay ==
    ASSUME NEW pos \in Positions, Playable(pos), NEW move, MoveFits(pos, move),
           NEW sq \in Squares, isPawn(Made(pos, move).mBoard[sq])
    PROVE  sq[1] \in 1..6
<1> DEFINE s == pos.side
           now == Made(pos, move).mBoard[sq]
<1>1. s \in {WHITE, BLACK} /\ pos.mBoard[move.from] \in PiecesOf(s)
  BY MoveSquares DEF MoveFits
<1>2. ~isPawn(NOPIECE) /\ ~isPawn(Rook(s))
  <2>1. ~isPawn(NOPIECE)
    BY ChessBoardAssumption DEF isPawn, WP, BP
  <2>2. Rook(s) \in PiecesOf(s) /\ Rook(s) # Pawn(s)
    BY <1>1, SidesShare
  <2> QED
    BY <1>1, <2>1, <2>2, PawnsAndKings
<1>3. CASE sq = move.to
  <2>1. now = Placed(pos, move) /\ Placed(pos, move) \in PiecesOf(s)
    BY <1>3, TwoSquares
  <2>2. Placed(pos, move) = Pawn(s)
    BY <1>1, <2>1, PawnsAndKings
  <2>3. PawnFits(pos, move)
    BY DEF MoveFits
  <2>4. move.promoted = NOPIECE /\ pos.mBoard[move.from] = Pawn(s)
    BY <2>2, <2>3 DEF Placed, PawnFits
  <2> QED
    BY <1>3, <2>3, <2>4 DEF PawnFits
<1>4. CASE sq = move.from
  BY <1>2, <1>4, TwoSquares
<1>5. CASE sq \notin {move.from, move.to}
  <2>1. now = pos.mBoard[sq] \/ now = NOPIECE \/ now = Rook(s)
    BY <1>5, Elsewhere
  <2>2. now = pos.mBoard[sq]
    BY <1>2, <2>1
  <2> QED
    BY <2>2 DEF Playable
<1> QED
  BY <1>3, <1>4, <1>5

\* A right that is not lost keeps its king and rook.
LEMMA RightsStay ==
    ASSUME NEW pos \in Positions, Playable(pos), NEW move, MoveFits(pos, move),
           NEW right \in Made(pos, move).castlePerm
    PROVE  /\ Made(pos, move).mBoard[KingHome(right)] = King(SideOf(right))
           /\ Made(pos, move).mBoard[RookHome(right)] = Rook(SideOf(right))
<1> DEFINE s == pos.side
           t == SideOf(right)
           pce == pos.mBoard[move.from]
           lost == RightsLost(s, pce, move)
<1>1. /\ s \in {WHITE, BLACK} /\ move.from \in Squares /\ move.to \in Squares
      /\ pce \in PiecesOf(s)
  BY MoveSquares DEF MoveFits
<1>2. /\ right \in pos.castlePerm /\ right \notin lost /\ right \in {WKCA, WQCA, BKCA, BQCA}
  BY ChessBoardAssumption DEF Made, Positions
<1>3. /\ t \in {WHITE, BLACK} /\ (t = s \/ t = 1 - s)
      /\ pos.mBoard[KingHome(right)] = King(t) /\ pos.mBoard[RookHome(right)] = Rook(t)
  BY <1>1, <1>2 DEF Playable, SideOf, WHITE, BLACK
<1>4. /\ RookHome(right) \in Corners /\ CornerRight(RookHome(right)) = right
      /\ KingHome(right) = <<IF t = WHITE THEN 7 ELSE 0, 4>>
      /\ RookHome(right)[1] = IF t = WHITE THEN 7 ELSE 0
      /\ RookHome(right)[2] \in {0, 7}
  BY <1>2 DEF RookHome, KingHome, SideOf, Corners, CornerRight, WHITE, BLACK,
              WKCA, WQCA, BKCA, BQCA
<1>5. KingHome(right) \in Squares /\ RookHome(right) \in Squares
  <2> DEFINE row == IF t = WHITE THEN 7 ELSE 0
  <2>1. row \in 0..7 /\ 4 \in 0..7
    OBVIOUS
  <2>2. KingHome(right) = <<row, 4>>
    BY <1>4
  <2>3. RookHome(right) \in ChessSquares
    BY <1>4 DEF Corners, ChessSquares
  <2> HIDE DEF row
  <2> QED
    BY <2>1, <2>2, <2>3, SquarePairs, ChessBoardAssumption
<1>6. ASSUME t = s
      PROVE  pce # King(s)
  <2> SUFFICES ASSUME pce = King(s)
               PROVE  FALSE
    OBVIOUS
  <2>1. isKing(pce)
    BY <1>1, PawnsAndKings
  <2>2. right \in lost
    BY <1>2, <1>6, <2>1 DEF RightsLost, SideOf, WHITE, BLACK
  <2> QED
    BY <1>2, <2>2
<1>7. RookHome(right) \notin {move.from, move.to}
  BY <1>2, <1>4 DEF RightsLost
<1>8. /\ King(t) \in PiecesOf(t) /\ Rook(t) \in PiecesOf(t) /\ King(t) # Rook(t)
      /\ King(t) # NOPIECE /\ Rook(t) # NOPIECE
      /\ King(t) # Rook(s) /\ King(t) # Pawn(1 - s) /\ Rook(t) # Pawn(1 - s)
      /\ t # s => King(t) \notin PiecesOf(s)
      /\ t = s => King(t) \notin PiecesOf(1 - s)
  <2>1. /\ King(t) \in PiecesOf(t) /\ Rook(t) \in PiecesOf(t) /\ King(t) # Rook(t)
        /\ King(t) # NOPIECE /\ Rook(t) # NOPIECE
        /\ King(t) # Pawn(t) /\ Rook(t) # Pawn(t)
    <3>1. t \in {WHITE, BLACK}
      BY <1>3
    <3> HIDE DEF t
    <3> QED
      BY <3>1, SidesShare
  <2>2. Pawn(1 - s) \in PiecesOf(1 - s) /\ Rook(s) \in PiecesOf(s)
    BY <1>1, SidesShare
  <2>3. \A p \in PiecesOf(s) : p \notin PiecesOf(1 - s)
    BY <1>1, SidesShare
  <2> HIDE DEF t, s
  <2> QED
    BY <1>3, <2>1, <2>2, <2>3
<1>9. KingHome(right) \notin {move.from, move.to}
  <2>1. KingHome(right) # move.from
    BY <1>1, <1>3, <1>6, <1>8
  <2>2. KingHome(right) # move.to
    <3>1. pos.mBoard[move.to] = NOPIECE
            \/ pos.mBoard[move.to] \in PiecesOf(1 - s) \ {King(1 - s)}
      BY TwoSquares
    <3> QED
      BY <1>3, <1>8, <3>1
  <2> QED
    BY <2>1, <2>2
<1>10. Made(pos, move).mBoard[KingHome(right)] = King(t)
  <2> DEFINE now == Made(pos, move).mBoard[KingHome(right)]
             was == pos.mBoard[KingHome(right)]
  <2>1. now = was \/ was = Pawn(1 - s) \/ was = Rook(s) \/ was = NOPIECE
    BY <1>5, <1>9, Elsewhere
  <2> HIDE DEF now, t, s
  <2> QED
    BY <1>3, <1>8, <2>1 DEF now
<1>11. Made(pos, move).mBoard[RookHome(right)] = Rook(t)
  <2> DEFINE now == Made(pos, move).mBoard[RookHome(right)]
             was == pos.mBoard[RookHome(right)]
  <2>1. \/ now = was \/ was = Pawn(1 - s) \/ was = NOPIECE
        \/ move.castle /\ RookHome(right) = RookCorner(s, move.to)
    BY <1>5, <1>7, Elsewhere
  <2>2. ASSUME move.castle, RookHome(right) = RookCorner(s, move.to)
        PROVE  FALSE
    <3>1. pce = King(s)
      BY <2>2 DEF MoveFits, CastleFits
    <3>2. t = s
      BY <1>1, <1>3, <1>4, <2>2 DEF RookCorner, WHITE, BLACK
    <3> QED
      BY <1>6, <3>1, <3>2
  <2> HIDE DEF now, t, s
  <2> QED
    BY <1>3, <1>8, <2>1, <2>2 DEF now
<1> QED
  BY <1>10, <1>11

\* The en passant square is behind the pawn of a double step.
LEMMA EnpasStays ==
    ASSUME NEW pos \in Positions, Playable(pos), NEW move, MoveFits(pos, move),
           NEW new, new = Made(pos, move), new.enpas # OFFBOARD
    PROVE  /\ new.mBoard[new.enpas] = NOPIECE
           /\ new.enpas[1] = IF new.side = WHITE THEN 2 ELSE 5
           /\ new.mBoard[<<IF new.side = WHITE THEN 3 ELSE 4, new.enpas[2]>>]
                 = Pawn(1 - new.side)
<1> DEFINE s == pos.side
           ep == Behind(move.to, s)
<1>1. /\ s \in {WHITE, BLACK} /\ move.to \in Squares /\ new.side = 1 - s
      /\ pos.mBoard[move.from] \in PiecesOf(s)
  BY MoveSquares DEF MoveFits, Made
<1>2. move.pawnstart /\ new.enpas = ep
  BY DEF Made
<1>3. /\ ep \in Squares /\ ep = <<IF s = WHITE THEN 5 ELSE 2, move.to[2]>>
      /\ move.to = <<IF s = WHITE THEN 4 ELSE 3, move.to[2]>>
  BY <1>2, StartBehind
<1>4. /\ pos.mBoard[ep] = NOPIECE /\ move.promoted = NOPIECE
      /\ pos.mBoard[move.from] = Pawn(s) /\ ~move.castle
  <2>1. pos.mBoard[ep] = NOPIECE /\ move.promoted = NOPIECE /\ pos.mBoard[move.from] = Pawn(s)
    BY <1>2 DEF MoveFits, StartFits
  <2>2. ~move.castle
    BY <1>2 DEF MoveFits, CastleFits
  <2> QED
    BY <2>1, <2>2
<1>5. ep # move.to
  BY <1>1, <1>3
<1>6. new.mBoard[ep] = NOPIECE
  BY <1>3, <1>4, <1>5 DEF Made, MadeSquares, SpecialSquares
<1>7. ep[1] = IF new.side = WHITE THEN 2 ELSE 5
  BY <1>1, <1>3 DEF WHITE, BLACK
<1>8. <<IF new.side = WHITE THEN 3 ELSE 4, ep[2]>> = move.to
  BY <1>1, <1>3 DEF WHITE, BLACK
<1>9. new.mBoard[move.to] = Pawn(s)
  BY <1>4, TwoSquares DEF Placed
<1>10. 1 - new.side = s
  BY <1>1, SidesShare
<1> QED
  BY <1>2, <1>6, <1>7, <1>8, <1>9, <1>10

\* A move that does not leave its king to be captured leads to a position of
\* chess.
LEMMA MadePlayable ==
    ASSUME NEW pos \in Positions, Playable(pos), NEW move, MoveFits(pos, move),
           \A sq \in Squares : Made(pos, move).mBoard[sq] = King(pos.side)
              => ~Threatened(Made(pos, move), sq, pos.side)
    PROVE  Playable(Made(pos, move))
<1> DEFINE new == Made(pos, move)
<1>1. 1 - new.side = pos.side
  <2>1. new.side = 1 - pos.side /\ pos.side \in {WHITE, BLACK}
    BY MoveSquares DEF Made
  <2> QED
    BY <2>1, SidesShare
<1>2. \A sq \in Squares :
         new.mBoard[sq] = King(1 - new.side) => ~Threatened(new, sq, 1 - new.side)
  BY <1>1
<1>3. \A side \in {WHITE, BLACK} : \E sq \in Squares :
         {other \in Squares : new.mBoard[other] = King(side)} = {sq}
  BY KingsStay
<1>4. \A sq \in Squares : isPawn(new.mBoard[sq]) => sq[1] \in 1..6
  BY PawnsStay
<1>5. \A right \in new.castlePerm :
         /\ new.mBoard[KingHome(right)] = King(SideOf(right))
         /\ new.mBoard[RookHome(right)] = Rook(SideOf(right))
  BY RightsStay
<1>6. new.enpas # OFFBOARD =>
         /\ new.mBoard[new.enpas] = NOPIECE
         /\ new.enpas[1] = IF new.side = WHITE THEN 2 ELSE 5
         /\ new.mBoard[<<IF new.side = WHITE THEN 3 ELSE 4, new.enpas[2]>>]
               = Pawn(1 - new.side)
  BY EnpasStays
<1> HIDE DEF new
<1>7. Playable(new)
  BY <1>2, <1>3, <1>4, <1>5, <1>6 DEF Playable
<1> QED
  BY <1>7 DEF new

----------------------------------------------------------------------------
(* makeMove, takeBack and gameWinner on a position of chess.               *)

\* A board's own fields are a position's.
LEMMA StandsFields ==
    ASSUME NEW pos \in Positions, NEW bd, Stands(bd, pos)
    PROVE  /\ bd \in Boards /\ ListsMatch(bd) /\ Consistent(bd)
           /\ bd.mBoard = pos.mBoard /\ bd.side = pos.side
           /\ bd.castlePerm = pos.castlePerm /\ bd.enpas = pos.enpas
           /\ bd.history = pos.history /\ bd.fiftyMove = pos.fiftyMove
BY DEF Stands, At, Consistent

\* Whether a board is playable, its position says.
LEMMA PlayableSame ==
    ASSUME NEW bd, NEW pos, bd.mBoard = pos.mBoard, bd.side = pos.side,
           bd.castlePerm = pos.castlePerm, bd.enpas = pos.enpas
    PROVE  Playable(bd) <=> Playable(pos)
<1>1. \A sq, side : Threatened(bd, sq, side) <=> Threatened(pos, sq, side)
  BY ThreatsSame
<1> QED
  BY <1>1 DEF Playable

\* Whether a move fits, the position says.
LEMMA FitsSame ==
    ASSUME NEW bd, NEW pos, bd.mBoard = pos.mBoard, bd.side = pos.side, NEW move
    PROVE  MoveFits(bd, move) <=> MoveFits(pos, move)
BY DEF MoveFits, CaptureFits, EnpasFits, CastleFits, StartFits, PawnFits

\* The position after a move is a position.
LEMMA MadePosition ==
    ASSUME NEW pos \in Positions, NEW move, MoveFits(pos, move), NEW bd, Stands(bd, pos)
    PROVE  Made(pos, move) \in Positions
<1> DEFINE new == Tried(bd, move)
<1>1. Stands(new, Made(pos, move))
  BY TriedStands
<1> HIDE DEF new
<1>2. /\ new \in Boards /\ new.mBoard = Made(pos, move).mBoard
      /\ new.side = Made(pos, move).side
      /\ new.castlePerm = Made(pos, move).castlePerm
      /\ new.enpas = Made(pos, move).enpas
      /\ new.history = Made(pos, move).history
      /\ new.fiftyMove = Made(pos, move).fiftyMove
  BY <1>1 DEF Stands, At, Consistent
<1> DEFINE made == [mBoard |-> new.mBoard, side |-> new.side, castlePerm |-> new.castlePerm,
                    enpas |-> new.enpas, history |-> new.history,
                    fiftyMove |-> new.fiftyMove]
<1>3. made \in Positions
  BY <1>2 DEF Boards, Positions
<1>4. made = Made(pos, move)
  BY <1>2 DEF Made
<1> QED
  BY <1>3, <1>4

\* Every generated move fits the position.
LEMMA MovesFit ==
    ASSUME NEW pos \in Positions, Playable(pos), NEW bd, Stands(bd, pos),
           NEW move \in generateMoves(bd)
    PROVE  MoveFits(pos, move)
BY StandsFields, PlayableSame, GeneratedFits, FitsSame

\* makeMove accepts the moves that leave its side's king unattacked.
LEMMA MakeMoveJudges ==
    ASSUME NEW pos \in Positions, Playable(pos), NEW bd, Stands(bd, pos),
           NEW move, MoveFits(pos, move)
    PROVE  makeMove(bd, move).legal
             <=> \A sq \in Squares : Made(pos, move).mBoard[sq] = King(pos.side)
                                       => ~Threatened(Made(pos, move), sq, pos.side)
<1> DEFINE new == Tried(bd, move)
           after == Made(pos, move)
           king == getKing(new, bd.side)
<1>1. Stands(new, after) /\ after \in Positions
  BY TriedStands, MadePosition
<1>2. makeMove(bd, move).legal <=> ~squareAttacked(new, king, bd.side)
  BY DEF makeMove, judge, Tried
<1>3. /\ new \in Boards /\ ListsMatch(new) /\ new.mBoard = after.mBoard
      /\ bd.side = pos.side /\ pos.side \in {WHITE, BLACK}
  <2>1. bd.side = pos.side /\ pos.side \in {WHITE, BLACK}
    BY MoveSquares, StandsFields
  <2> HIDE DEF new, after
  <2> QED
    BY <1>1, <2>1, StandsFields
<1> HIDE DEF new
<1>4. PICK k \in Squares : {x \in Squares : after.mBoard[x] = King(pos.side)} = {k}
  BY <1>3, KingsStay
<1> HIDE DEF after
<1>5. king = k
  BY <1>3, <1>4, KingFound
<1>6. squareAttacked(new, king, bd.side) <=> Threatened(after, k, pos.side)
  BY <1>3, <1>5, AttackedIsThreatened, ThreatsSame
<1>7. \A sq \in Squares : after.mBoard[sq] = King(pos.side) <=> sq = k
  <2> SUFFICES ASSUME NEW sq \in Squares
               PROVE  after.mBoard[sq] = King(pos.side) <=> sq = k
    OBVIOUS
  <2>1. sq \in {x \in Squares : after.mBoard[x] = King(pos.side)} <=> sq = k
    BY <1>4
  <2> QED
    BY <2>1
<1> QED
  BY <1>2, <1>6, <1>7 DEF after

\* What making a move does.
LEMMA MakeMoveStands ==
    ASSUME NEW pos \in Positions, Playable(pos), NEW bd, Stands(bd, pos),
           NEW move, MoveFits(pos, move), NEW made, made = makeMove(bd, move)
    PROVE  \/ /\ made.legal /\ Stands(made.board, Made(pos, move))
              /\ Made(pos, move) \in Positions /\ Playable(Made(pos, move))
           \/ ~made.legal /\ Stands(made.board, pos)
<1> DEFINE new == Tried(bd, move)
           after == Made(pos, move)
           king == getKing(new, bd.side)
<1>1. Stands(new, after) /\ after \in Positions
  BY TriedStands, MadePosition
<1>2. made = IF squareAttacked(new, king, bd.side)
             THEN [board |-> takeBack(new), legal |-> FALSE]
             ELSE [board |-> new, legal |-> TRUE]
  BY DEF makeMove, judge, Tried
<1>3. CASE squareAttacked(new, king, bd.side)
  <2>1. made.board = takeBack(new) /\ ~made.legal
    BY <1>2, <1>3
  <2>2. Stands(takeBack(new), pos)
    BY <1>1, TakenBackStands
  <2> QED
    BY <2>1, <2>2
<1>4. CASE ~squareAttacked(new, king, bd.side)
  <2>1. made.board = new /\ made.legal
    BY <1>2, <1>4
  <2>2. \A sq \in Squares :
           after.mBoard[sq] = King(pos.side) => ~Threatened(after, sq, pos.side)
    BY <2>1, MakeMoveJudges
  <2>3. Playable(after)
    BY <2>2, MadePlayable
  <2> QED
    BY <1>1, <2>1, <2>3
<1> QED
  BY <1>3, <1>4

\* There are finitely many moves.
LEMMA MovesFinite == IsFiniteSet(Moves)
<1> DEFINE men == Pieces \cup {NOPIECE}
           P == ((Squares \X Squares) \X (men \X men))
                   \X ((BOOLEAN \X BOOLEAN) \X BOOLEAN)
           f == [x \in Moves |-> << << <<x.from, x.to>>, <<x.captured, x.promoted>> >>,
                                   << <<x.enpas, x.pawnstart>>, x.castle>> >>]
<1> DEFINE lo == 0
           hi == 7
           top == 12
<1>0. IsFiniteSet(0..7) /\ IsFiniteSet(0..12)
  <2>1. lo \in Int /\ hi \in Int /\ top \in Int
    OBVIOUS
  <2> HIDE DEF lo, hi, top
  <2>2. IsFiniteSet(lo..hi) /\ IsFiniteSet(lo..top)
    BY <2>1, FS_Interval
  <2> QED
    BY <2>2 DEF lo, hi, top
<1>1. IsFiniteSet(Squares)
  <2>1. IsFiniteSet(0..7)
    BY <1>0
  <2>2. IsFiniteSet((0..7) \X (0..7))
    BY <2>1, FS_Product
  <2> QED
    BY <2>2, ChessBoardAssumption DEF ChessSquares
<1>2. IsFiniteSet(men)
  <2>1. men = 0..12
    BY ChessBoardAssumption DEF ChessPieces
  <2> HIDE DEF men
  <2> QED
    BY <1>0, <2>1
<1>3. IsFiniteSet(BOOLEAN)
  <2>1. IsFiniteSet({TRUE})
    BY FS_EmptySet, FS_Singleton
  <2>2. IsFiniteSet({TRUE} \cup {FALSE})
    BY <2>1, FS_AddElement
  <2>3. BOOLEAN = {TRUE} \cup {FALSE}
    OBVIOUS
  <2> QED
    BY <2>2, <2>3
<1>4. IsFiniteSet(P)
  <2> HIDE DEF men
  <2>1. IsFiniteSet(Squares \X Squares) /\ IsFiniteSet(men \X men)
    BY <1>1, <1>2, FS_Product
  <2>2. IsFiniteSet((Squares \X Squares) \X (men \X men))
    BY <2>1, FS_Product
  <2>3. IsFiniteSet(BOOLEAN \X BOOLEAN)
    BY <1>3, FS_Product
  <2>4. IsFiniteSet((BOOLEAN \X BOOLEAN) \X BOOLEAN)
    BY <1>3, <2>3, FS_Product
  <2> QED
    BY <2>2, <2>4, FS_Product
<1>5. Moves = [from : Squares, to : Squares, captured : men, enpas : BOOLEAN,
               pawnstart : BOOLEAN, promoted : men, castle : BOOLEAN]
  BY ChessBoardAssumption DEF ChessMoves
<1> HIDE DEF men
<1>6. f \in [Moves -> P]
  BY <1>5
<1>7. \A x, y \in Moves : f[x] = f[y] => x = y
  <2> SUFFICES ASSUME NEW x \in Moves, NEW y \in Moves, f[x] = f[y]
               PROVE  x = y
    OBVIOUS
  <2>1. /\ x.from = y.from /\ x.to = y.to /\ x.captured = y.captured
        /\ x.promoted = y.promoted /\ x.enpas = y.enpas
        /\ x.pawnstart = y.pawnstart /\ x.castle = y.castle
    OBVIOUS
  <2> DEFINE M == [from : Squares, to : Squares, captured : men, enpas : BOOLEAN,
                   pawnstart : BOOLEAN, promoted : men, castle : BOOLEAN]
  <2>2. x \in M /\ y \in M
    BY <1>5
  <2> HIDE DEF f
  <2> QED
    BY <2>1, <2>2
<1> HIDE DEF f, P
<1>8. f \in Injection(Moves, P)
  BY <1>6, <1>7 DEF Injection, IsInjective
<1> QED
  BY <1>4, <1>8, FS_Injection

\* A move that leaves its side's king unattacked.
Accepts(pos, move) ==
    \A sq \in Squares : Made(pos, move).mBoard[sq] = King(pos.side)
                         => ~Threatened(Made(pos, move), sq, pos.side)

\* One round of gameWinner's loop.
TryMove(acc, move) ==
    LET made == makeMove(acc.board, move)
    IN  IF made.legal
        THEN [board |-> takeBack(made.board), numMoves |-> acc.numMoves + 1]
        ELSE [board |-> made.board, numMoves |-> acc.numMoves]

WinnerFold(g, bd, T) ==
    g = [s \in SUBSET T |-> IF s = {} THEN [board |-> bd, numMoves |-> 0]
                            ELSE TryMove(g[s \ {AnyOf(s)}], AnyOf(s))]

\* What gameWinner folds.
LEMMA WinnerFoldIs ==
    ASSUME NEW bd, NEW acc,
           acc = (CHOOSE g : WinnerFold(g, bd, generateMoves(bd)))[generateMoves(bd)]
    PROVE  gameWinner(bd) = [board  |-> acc.board,
                             winner |-> Verdict(acc.board, acc.numMoves)]
BY DEF gameWinner, WinnerFold, TryMove, AnyOf

\* Each round leaves the position as it was.
LEMMA TryMoveStands ==
    ASSUME NEW pos \in Positions, Playable(pos), NEW acc, Stands(acc.board, pos),
           acc.numMoves \in Nat, NEW move, MoveFits(pos, move)
    PROVE  /\ TryMove(acc, move) \in [board : Boards, numMoves : Nat]
           /\ Stands(TryMove(acc, move).board, pos)
           /\ TryMove(acc, move).numMoves > 0 <=> acc.numMoves > 0 \/ Accepts(pos, move)
<1> DEFINE made == makeMove(acc.board, move)
           next == TryMove(acc, move)
<1>1. \/ made.legal /\ Stands(made.board, Made(pos, move))
      \/ ~made.legal /\ Stands(made.board, pos)
  <2> HIDE DEF made
  <2>1. made = makeMove(acc.board, move)
    BY DEF made
  <2> QED
    BY <2>1, MakeMoveStands
<1>2. next = IF made.legal
             THEN [board |-> takeBack(made.board), numMoves |-> acc.numMoves + 1]
             ELSE [board |-> made.board, numMoves |-> acc.numMoves]
  BY DEF TryMove
<1>3. made.legal <=> Accepts(pos, move)
  BY MakeMoveJudges DEF Accepts
<1> HIDE DEF made, next
<1>4. CASE made.legal /\ Stands(made.board, Made(pos, move))
  <2>1. Stands(takeBack(made.board), pos)
    BY <1>4, TakenBackStands
  <2>2. takeBack(made.board) \in Boards
    BY <2>1, StandsFields
  <2>3. next = [board |-> takeBack(made.board), numMoves |-> acc.numMoves + 1]
    BY <1>2, <1>4
  <2>4. next.numMoves = acc.numMoves + 1
    BY <2>3
  <2>5. next.numMoves > 0
    BY <2>4
  <2>6. next \in [board : Boards, numMoves : Nat] /\ Stands(next.board, pos)
    BY <2>1, <2>2, <2>3
  <2> QED
    BY <1>4, <1>3, <2>5, <2>6 DEF next
<1>5. CASE ~made.legal /\ Stands(made.board, pos)
  <2>1. made.board \in Boards
    BY <1>5, StandsFields
  <2>2. next = [board |-> made.board, numMoves |-> acc.numMoves]
    BY <1>2, <1>5
  <2>3. next.numMoves = acc.numMoves
    BY <2>2
  <2>4. next \in [board : Boards, numMoves : Nat] /\ Stands(next.board, pos)
    BY <1>5, <2>1, <2>2
  <2> QED
    BY <1>5, <1>3, <2>3, <2>4 DEF next
<1> QED
  BY <1>1, <1>4, <1>5

\* So does the whole loop, which finds whether a move is accepted.
LEMMA WinnerFolds ==
    ASSUME NEW pos \in Positions, Playable(pos), NEW bd, Stands(bd, pos)
    PROVE  \E acc \in [board : Boards, numMoves : Nat] :
              /\ Stands(acc.board, pos)
              /\ acc.numMoves > 0 <=> \E move \in generateMoves(bd) : Accepts(pos, move)
              /\ gameWinner(bd) = [board  |-> acc.board,
                                   winner |-> Verdict(acc.board, acc.numMoves)]
<1> DEFINE T == generateMoves(bd)
           B == {v \in [board : Boards, numMoves : Nat] : Stands(v.board, pos)}
           step == [v \in B \X T |-> TryMove(v[1], v[2])]
           base == [board |-> bd, numMoves |-> 0]
           g == CHOOSE x : WinnerFold(x, bd, T)
           good == {t \in SUBSET T :
                      /\ g[t] \in B
                      /\ g[t].numMoves > 0 <=> \E move \in t : Accepts(pos, move)}
<1>1. \A move \in T : MoveFits(pos, move)
  BY MovesFit
<1>2. IsFiniteSet(T)
  <2>1. T \subseteq Moves
    BY <1>1 DEF MoveFits
  <2> HIDE DEF T
  <2> QED
    BY <2>1, MovesFinite, FS_Subset
<1>3. base \in B
  BY StandsFields
<1>4. \A b \in B : \A x \in T :
        /\ TryMove(b, x) \in B
        /\ TryMove(b, x).numMoves > 0 <=> b.numMoves > 0 \/ Accepts(pos, x)
  <2> HIDE DEF T
  <2> TAKE b \in B
  <2> TAKE x \in T
  <2>1. Stands(b.board, pos) /\ b.numMoves \in Nat /\ MoveFits(pos, x)
    BY <1>1
  <2> QED
    BY <2>1, TryMoveStands
<1>5. step \in [B \X T -> B] /\ \A b \in B : \A x \in T : step[<<b, x>>] = TryMove(b, x)
  <2>1. \A b \in B : \A x \in T : TryMove(b, x) \in B
    BY <1>4
  <2> QED
    BY <2>1
<1>0. base.numMoves = 0
  OBVIOUS
<1> HIDE DEF B, step, T, base
<1>6. PICK k \in [SUBSET T -> B] : IsFold(k, base, step, Anys(T), T)
  BY <1>2, <1>3, <1>5, AnysTaken, FoldsExist
<1>7. ASSUME NEW t \in SUBSET T
      PROVE  k[t] = IF t = {} THEN base ELSE TryMove(k[t \ {AnyOf(t)}], AnyOf(t))
  <2>1. CASE t = {}
    BY <1>6, <2>1 DEF IsFold
  <2>2. CASE t # {}
    <3>1. Anys(T)[t] = AnyOf(t) /\ AnyOf(t) \in T /\ k[t \ {AnyOf(t)}] \in B
      BY <2>2, AnyIn DEF Anys
    <3>2. k[t] = step[<<k[t \ {Anys(T)[t]}], Anys(T)[t]>>]
      BY <1>6, <2>2 DEF IsFold
    <3> QED
      BY <1>5, <2>2, <3>1, <3>2
  <2> QED
    BY <2>1, <2>2
<1>8. WinnerFold(k, bd, T)
  BY <1>7 DEF WinnerFold, base
<1>9. WinnerFold(g, bd, T)
  BY <1>8
<1> HIDE DEF g
<1>10. \A t \in SUBSET T :
         g[t] = IF t = {} THEN base ELSE TryMove(g[t \ {AnyOf(t)}], AnyOf(t))
  BY <1>9 DEF WinnerFold, base
<1>11. {} \in good
  <2>1. g[{}] = base
    BY <1>10
  <2> QED
    BY <1>0, <1>3, <2>1
<1>12. Reaches(good, Anys(T), T)
  <2> SUFFICES ASSUME NEW t \in SUBSET T, t # {}
               PROVE  /\ Anys(T)[t] \in t
                      /\ t \ {Anys(T)[t]} \in good => t \in good
    BY DEF Reaches
  <2> DEFINE one == AnyOf(t)
             rest == t \ {one}
  <2>1. Anys(T)[t] = one /\ one \in t /\ one \in T
    BY AnyIn DEF Anys
  <2> HIDE DEF one
  <2>2. g[t] = TryMove(g[rest], one)
    BY <1>10 DEF one
  <2>3. ASSUME rest \in good
        PROVE  t \in good
    <3>1. g[rest] \in B
          /\ (g[rest].numMoves > 0 <=> \E move \in rest : Accepts(pos, move))
      BY <2>3
    <3>2. g[t] \in B
          /\ (g[t].numMoves > 0 <=> g[rest].numMoves > 0 \/ Accepts(pos, one))
      BY <1>4, <2>1, <2>2, <3>1
    <3>3. t = rest \cup {one}
      BY <2>1
    <3> QED
      BY <3>1, <3>2, <3>3
  <2> QED
    BY <2>1, <2>3
<1>13. T \in good
  <2> HIDE DEF good
  <2> QED
    BY <1>2, <1>11, <1>12, PartsInduction
<1>14. gameWinner(bd) = [board  |-> g[T].board,
                         winner |-> Verdict(g[T].board, g[T].numMoves)]
  <2>1. g[T] = (CHOOSE x : WinnerFold(x, bd, generateMoves(bd)))[generateMoves(bd)]
    BY DEF g, T
  <2> HIDE DEF g, T
  <2> QED
    BY <2>1, WinnerFoldIs
<1>15. /\ g[T] \in [board : Boards, numMoves : Nat] /\ Stands(g[T].board, pos)
       /\ g[T].numMoves > 0 <=> \E move \in T : Accepts(pos, move)
  BY <1>13 DEF B
<1> QED
  BY <1>14, <1>15 DEF T

\* gameWinner leaves the position as it was.
LEMMA WinnerStands ==
    ASSUME NEW pos \in Positions, Playable(pos), NEW bd, Stands(bd, pos)
    PROVE  Stands(gameWinner(bd).board, pos)
BY WinnerFolds

----------------------------------------------------------------------------
(* Reading a FEN.                                                          *)

\* One square of the placement, one letter of the castling rights.
Put(fen, bd, sq) ==
    IF fen.placement[sq] = NOPIECE THEN bd ELSE addPiece(bd, sq, fen.placement[sq])

Grant(bd, right) ==
    [bd EXCEPT !.castlePerm = @ \cup {right}, !.posKey = Xor(@, {CastleKey(right)})]

PutFold(g, fen) ==
    g = [s \in SUBSET DOMAIN RowMajor |->
            IF s = {} THEN ClearBoard
            ELSE Put(fen, g[s \ {Max(s)}], RowMajor[Max(s)])]

GrantFold(g, bd, letters) ==
    g = [s \in SUBSET DOMAIN letters |->
            IF s = {} THEN bd ELSE Grant(g[s \ {Max(s)}], letters[Max(s)])]

PutAll(fen) == (CHOOSE g : PutFold(g, fen))[DOMAIN RowMajor]

GrantAll(bd, letters) == (CHOOSE g : GrantFold(g, bd, letters))[DOMAIN letters]

\* What parseFen folds.
LEMMA ParseIs ==
    ASSUME NEW fen
    PROVE  LET placed == PutAll(fen)
               sided == IF fen.side = BLACK THEN changeSide(placed) ELSE placed
               castled == GrantAll(sided, fen.castle)
           IN  parseFen(fen) = IF fen.enpas = << >> THEN castled
                               ELSE hashInEp(castled, FenSquare(fen))
BY DEF parseFen, FoldLeft, MapThenFoldSet, PutAll, GrantAll, PutFold, GrantFold, Put, Grant

Maxes(T) == [s \in SUBSET T |-> Max(s)]

\* Some number is the greatest of a part of 1..n.
LEMMA MaxesTaken ==
    ASSUME NEW n \in Nat
    PROVE  Takes(Maxes(1..n), 1..n)
<1> SUFFICES ASSUME NEW s \in SUBSET (1..n), s # {}
             PROVE  Max(s) \in s
  <2> DEFINE T == 1..n
  <2>1. \A s \in SUBSET T : s # {} => Max(s) \in s
    OBVIOUS
  <2> HIDE DEF T
  <2>2. Takes(Maxes(T), T)
    BY <2>1 DEF Takes, Maxes
  <2> QED
    BY <2>2 DEF T
<1> DEFINE V == {n - k : k \in s}
<1>1. V \in SUBSET Nat /\ V # {}
  <2>1. \A k \in s : n - k \in Nat
    OBVIOUS
  <2> QED
    BY <2>1
<1>2. PICK v \in V : \A w \in V : v <= w
  <2> HIDE DEF V
  <2> QED
    BY <1>1, LeastExists
<1>3. PICK x \in s : v = n - x
  BY <1>2
<1>4. \A y \in s : x >= y
  <2> TAKE y \in s
  <2>1. n - y \in V /\ x \in 1..n /\ y \in 1..n
    OBVIOUS
  <2> QED
    BY <1>2, <1>3, <2>1
<1> QED
  BY <1>3, <1>4 DEF Max

\* Row by row every square is met, and only once.
LEMMA RowsMeetAll ==
    /\ DOMAIN RowMajor = 1..64
    /\ \A k \in 1..64 : RowMajor[k] \in Squares
    /\ \A k, j \in 1..64 : RowMajor[k] = RowMajor[j] => k = j
    /\ \A sq \in Squares : \E k \in 1..64 : RowMajor[k] = sq
<1>1. \A k \in 1..64 : (k - 1) \div 8 \in 0..7 /\ (k - 1) % 8 \in 0..7
                       /\ k - 1 = 8 * ((k - 1) \div 8) + ((k - 1) % 8)
  <2> TAKE k \in 1..64
  <2> DEFINE j == k - 1
  <2>1. j \in Int /\ 0 <= j /\ j < 64
    OBVIOUS
  <2> HIDE DEF j
  <2>2. j \div 8 \in Int /\ j % 8 \in 0..7 /\ j = 8 * (j \div 8) + (j % 8)
    BY <2>1
  <2>3. j \div 8 \in 0..7
    BY <2>1, <2>2
  <2> QED
    BY <2>2, <2>3 DEF j
<1>2. DOMAIN RowMajor = 1..64
      /\ \A k \in 1..64 : RowMajor[k] = <<(k - 1) \div 8, (k - 1) % 8>>
  BY DEF RowMajor
<1>3. \A k \in 1..64 : RowMajor[k] \in Squares
  <2> TAKE k \in 1..64
  <2>1. PICK r \in 0..7, c \in 0..7 : r = (k - 1) \div 8 /\ c = (k - 1) % 8
    BY <1>1
  <2>2. <<r, c>> \in Squares
    BY SquarePairs, Zenon
  <2>3. RowMajor[k] = <<r, c>>
    BY <1>2, <2>1
  <2> QED
    BY <2>2, <2>3, Zenon
<1>4. ASSUME NEW k \in 1..64, NEW j \in 1..64, RowMajor[k] = RowMajor[j]
      PROVE  k = j
  <2>1. (k - 1) \div 8 = (j - 1) \div 8 /\ (k - 1) % 8 = (j - 1) % 8
    BY <1>2, <1>4
  <2>2. k - 1 = j - 1
    BY <1>1, <2>1
  <2> QED
    BY <2>2
<1>5. ASSUME NEW sq \in Squares
      PROVE  \E k \in 1..64 : RowMajor[k] = sq
  <2> DEFINE r == sq[1]
             c == sq[2]
             k == 8 * r + c + 1
  <2>1. r \in 0..7 /\ c \in 0..7 /\ sq = <<r, c>>
    BY SquarePairs
  <2> HIDE DEF r, c
  <2>2. k \in 1..64 /\ (k - 1) \div 8 = r /\ (k - 1) % 8 = c
    BY <2>1
  <2> HIDE DEF k
  <2> QED
    BY <1>2, <2>1, <2>2
<1> QED
  BY <1>2, <1>3, <1>4, <1>5

Rest(fen, t) ==
    [sq \in Squares |-> IF \E k \in t : RowMajor[k] = sq
                        THEN fen.placement[sq] ELSE NOPIECE]

\* The placement is put on the board, one square after another.
LEMMA PutAllAt ==
    ASSUME NEW fen \in Fens
    PROVE  At(PutAll(fen), fen.placement, WHITE, {}, OFFBOARD, << >>, 0)
<1> DEFINE lo == 1
           hi == 64
           T == lo..hi
           B == Boards
           step == [v \in B \X T |-> Put(fen, v[1], RowMajor[v[2]])]
           g == CHOOSE x : PutFold(x, fen)
           good == {t \in SUBSET T : At(g[t], Rest(fen, t), WHITE, {}, OFFBOARD, << >>, 0)}
<1>1. DOMAIN RowMajor = T /\ IsFiniteSet(T) /\ ClearBoard \in B
      /\ Takes(Maxes(T), T)
  <2>1. lo \in Int /\ hi \in Nat /\ lo = 1
    OBVIOUS
  <2>2. DOMAIN RowMajor = T
    BY RowsMeetAll
  <2> HIDE DEF lo, hi
  <2>3. T = 1..hi
    BY <2>1
  <2> QED
    BY <2>1, <2>2, <2>3, FS_Interval, MaxesTaken, ClearBoardType
<1>2. \A x \in T : RowMajor[x] \in Squares /\ fen.placement[RowMajor[x]] \in Pieces \cup {NOPIECE}
  BY RowsMeetAll DEF Fens
<1>3. \A x, y \in T : RowMajor[x] = RowMajor[y] => x = y
  BY RowsMeetAll
<1>4. \A sq \in Squares : \E x \in T : RowMajor[x] = sq
  BY RowsMeetAll
<1> HIDE DEF T
<1>5. step \in [B \X T -> B]
      /\ \A b \in B : \A x \in T : step[<<b, x>>] = Put(fen, b, RowMajor[x])
  <2>1. \A b \in B : \A x \in T : Put(fen, b, RowMajor[x]) \in B
    BY <1>2, AddPieceType DEF Put
  <2> HIDE DEF B
  <2> QED
    BY <2>1
<1> HIDE DEF B, step
<1>6. PICK k \in [SUBSET T -> B] : IsFold(k, ClearBoard, step, Maxes(T), T)
  BY <1>1, <1>5, FoldsExist
<1>7. \A t \in SUBSET T : t # {} => Maxes(T)[t] = Max(t) /\ Max(t) \in t /\ Max(t) \in T
  BY <1>1 DEF Takes, Maxes
<1>8. ASSUME NEW t \in SUBSET T
      PROVE  k[t] = IF t = {} THEN ClearBoard
                    ELSE Put(fen, k[t \ {Max(t)}], RowMajor[Max(t)])
  <2>1. CASE t = {}
    BY <1>6, <2>1 DEF IsFold
  <2>2. CASE t # {}
    <3>1. Maxes(T)[t] = Max(t) /\ Max(t) \in T /\ k[t \ {Max(t)}] \in B
      BY <1>7, <2>2
    <3>2. k[t] = step[<<k[t \ {Maxes(T)[t]}], Maxes(T)[t]>>]
      BY <1>6, <2>2 DEF IsFold
    <3> QED
      BY <1>5, <2>2, <3>1, <3>2
  <2> QED
    BY <2>1, <2>2
<1>9. PutFold(k, fen)
  BY <1>1, <1>8 DEF PutFold
<1>10. PutFold(g, fen)
  BY <1>9
<1> HIDE DEF g
<1>11. \A t \in SUBSET T :
         g[t] = IF t = {} THEN ClearBoard
                ELSE Put(fen, g[t \ {Max(t)}], RowMajor[Max(t)])
  BY <1>1, <1>10 DEF PutFold
<1>12. {} \in good
  <2>1. g[{}] = ClearBoard /\ Rest(fen, {}) = [sq \in Squares |-> NOPIECE]
    BY <1>11 DEF Rest
  <2> QED
    BY <2>1, ClearBoardAt
<1>13. Reaches(good, Maxes(T), T)
  <2> SUFFICES ASSUME NEW t \in SUBSET T, t # {}
               PROVE  /\ Maxes(T)[t] \in t
                      /\ t \ {Maxes(T)[t]} \in good => t \in good
    BY DEF Reaches
  <2> DEFINE x == Max(t)
             u == t \ {x}
             sq == RowMajor[x]
             b == g[u]
  <2>1. Maxes(T)[t] = x /\ x \in t /\ x \in T
    BY <1>7
  <2>2. g[t] = Put(fen, b, sq)
    BY <1>11
  <2>3. sq \in Squares /\ fen.placement[sq] \in Pieces \cup {NOPIECE}
    BY <1>2, <2>1
  <2>4. ~ \E y \in u : RowMajor[y] = sq
    BY <1>3, <2>1
  <2>5. Rest(fen, u)[sq] = NOPIECE
    BY <2>3, <2>4 DEF Rest
  <2>6. Rest(fen, t) = [Rest(fen, u) EXCEPT ![sq] = fen.placement[sq]]
    <3>1. ASSUME NEW s \in Squares
          PROVE  Rest(fen, t)[s] = [Rest(fen, u) EXCEPT ![sq] = fen.placement[sq]][s]
      <4>1. CASE s = sq
        BY <2>1, <2>3, <4>1 DEF Rest
      <4>2. CASE s # sq
        <5>1. (\E y \in t : RowMajor[y] = s) <=> (\E y \in u : RowMajor[y] = s)
          BY <4>2
        <5> QED
          BY <4>2, <5>1 DEF Rest
      <4> QED
        BY <4>1, <4>2
    <3> QED
      BY <3>1 DEF Rest
  <2>7. ASSUME u \in good
        PROVE  t \in good
    <3>1. At(b, Rest(fen, u), WHITE, {}, OFFBOARD, << >>, 0)
      BY <2>7
    <3> HIDE DEF b, sq, u, x
    <3>2. CASE fen.placement[sq] = NOPIECE
      <4>1. g[t] = b
        BY <2>2, <3>2 DEF Put
      <4>2. Rest(fen, t) = Rest(fen, u)
        BY <2>3, <2>5, <2>6, <3>2 DEF Rest
      <4> QED
        BY <3>1, <4>1, <4>2
    <3>3. CASE fen.placement[sq] # NOPIECE
      <4>1. g[t] = addPiece(b, sq, fen.placement[sq]) /\ fen.placement[sq] \in Pieces
        BY <2>2, <2>3, <3>3 DEF Put
      <4>2. At(g[t], [Rest(fen, u) EXCEPT ![sq] = fen.placement[sq]], WHITE, {},
               OFFBOARD, << >>, 0)
        BY <2>3, <2>5, <3>1, <4>1, AddPieceAt
      <4> QED
        BY <2>6, <4>2
    <3> QED
      BY <3>2, <3>3
  <2> QED
    BY <2>1, <2>7
<1>14. T \in good
  <2> HIDE DEF good
  <2> QED
    BY <1>1, <1>12, <1>13, PartsInduction
<1>15. PutAll(fen) = g[T]
  BY <1>1 DEF PutAll, g
<1>16. Rest(fen, T) = fen.placement
  <2>1. fen.placement \in [Squares -> Pieces \cup {NOPIECE}]
    BY DEF Fens
  <2> QED
    BY <1>4, <2>1 DEF Rest
<1> QED
  BY <1>14, <1>15, <1>16

\* The letters of the castling rights are read, one after another.
LEMMA GrantAllAt ==
    ASSUME NEW bd, NEW m, NEW s, NEW e, NEW h, NEW f, At(bd, m, s, {}, e, h, f),
           NEW letters \in Seq(CastleRights),
           \A i, j \in DOMAIN letters : letters[i] = letters[j] => i = j
    PROVE  At(GrantAll(bd, letters), m, s, {letters[i] : i \in DOMAIN letters}, e, h, f)
<1> DEFINE T == 1..Len(letters)
           B == Boards
           step == [v \in B \X T |-> Grant(v[1], letters[v[2]])]
           g == CHOOSE x : GrantFold(x, bd, letters)
           Read(t) == {letters[i] : i \in t}
           good == {t \in SUBSET T : At(g[t], m, s, Read(t), e, h, f)}
<1>1. DOMAIN letters = T /\ IsFiniteSet(T) /\ bd \in B
      /\ Takes(Maxes(T), T)
  <2> DEFINE lo == 1
             n == Len(letters)
  <2>1. lo \in Int /\ n \in Nat /\ lo = 1 /\ DOMAIN letters = 1..n
    OBVIOUS
  <2> HIDE DEF lo, n
  <2>2. IsFiniteSet(lo..n) /\ Takes(Maxes(1..n), 1..n)
    BY <2>1, FS_Interval, MaxesTaken
  <2>3. DOMAIN letters = 1..n /\ IsFiniteSet(1..n) /\ T = 1..n
    BY <2>1, <2>2 DEF n
  <2> QED
    BY <2>2, <2>3 DEF At, Consistent
<1>2. \A x \in T : letters[x] \in CastleRights
  OBVIOUS
<1> HIDE DEF T
<1>5. step \in [B \X T -> B]
      /\ \A b \in B : \A x \in T : step[<<b, x>>] = Grant(b, letters[x])
  <2>1. \A b \in B : \A x \in T : Grant(b, letters[x]) \in B
    <3> TAKE b \in B
    <3> TAKE x \in T
    <3> DEFINE r == letters[x]
    <3>1. r \in CastleRights /\ CastleKey(r) \in Keys
      BY <1>2 DEF Keys
    <3> HIDE DEF r
    <3>2. Xor(b.posKey, {CastleKey(r)}) \in SUBSET Keys
      BY <3>1 DEF Xor, Boards
    <3>3. b.castlePerm \cup {r} \in SUBSET CastleRights
      BY <3>1 DEF Boards
    <3> QED
      BY <3>2, <3>3 DEF Grant, Boards, r
  <2> HIDE DEF B
  <2> QED
    BY <2>1
<1> HIDE DEF B, step
<1>6. PICK k \in [SUBSET T -> B] : IsFold(k, bd, step, Maxes(T), T)
  BY <1>1, <1>5, FoldsExist
<1>7. \A t \in SUBSET T : t # {} => Maxes(T)[t] = Max(t) /\ Max(t) \in t /\ Max(t) \in T
  BY <1>1 DEF Takes, Maxes
<1>8. ASSUME NEW t \in SUBSET T
      PROVE  k[t] = IF t = {} THEN bd ELSE Grant(k[t \ {Max(t)}], letters[Max(t)])
  <2>1. CASE t = {}
    BY <1>6, <2>1 DEF IsFold
  <2>2. CASE t # {}
    <3>1. Maxes(T)[t] = Max(t) /\ Max(t) \in T /\ k[t \ {Max(t)}] \in B
      BY <1>7, <2>2
    <3>2. k[t] = step[<<k[t \ {Maxes(T)[t]}], Maxes(T)[t]>>]
      BY <1>6, <2>2 DEF IsFold
    <3> QED
      BY <1>5, <2>2, <3>1, <3>2
  <2> QED
    BY <2>1, <2>2
<1>9. GrantFold(k, bd, letters)
  BY <1>1, <1>8 DEF GrantFold
<1>10. GrantFold(g, bd, letters)
  BY <1>9
<1> HIDE DEF g
<1>11. \A t \in SUBSET T :
         g[t] = IF t = {} THEN bd ELSE Grant(g[t \ {Max(t)}], letters[Max(t)])
  BY <1>1, <1>10 DEF GrantFold
<1>12. {} \in good
  <2>1. g[{}] = bd /\ Read({}) = {}
    BY <1>11
  <2> QED
    BY <2>1
<1>13. Reaches(good, Maxes(T), T)
  <2> SUFFICES ASSUME NEW t \in SUBSET T, t # {}
               PROVE  /\ Maxes(T)[t] \in t
                      /\ t \ {Maxes(T)[t]} \in good => t \in good
    BY DEF Reaches
  <2> DEFINE x == Max(t)
             u == t \ {x}
             r == letters[x]
             b == g[u]
  <2>1. Maxes(T)[t] = x /\ x \in t /\ x \in T
    BY <1>7
  <2>2. g[t] = Grant(b, r)
    BY <1>11
  <2>3. r \in CastleRights /\ r \notin Read(u)
    BY <1>1, <1>2, <2>1
  <2>4. Read(u) \cup {r} = Read(t)
    BY <2>1
  <2>5. ASSUME u \in good
        PROVE  t \in good
    <3>1. At(b, m, s, Read(u), e, h, f)
      BY <2>5
    <3> HIDE DEF b, r, u, x, Read
    <3>2. b.castlePerm = Read(u)
      BY <3>1 DEF At
    <3>3. g[t] = hashInCastle(b, r)
      BY <2>2, <2>3, <3>2 DEF Grant, hashInCastle
    <3>4. At(g[t], m, s, Read(u) \cup {r}, e, h, f)
      BY <2>3, <3>1, <3>3, HashInCastleAt
    <3> QED
      BY <2>4, <3>4
  <2> QED
    BY <2>1, <2>5
<1>14. T \in good
  <2> HIDE DEF good
  <2> QED
    BY <1>1, <1>12, <1>13, PartsInduction
<1> QED
  BY <1>1, <1>14 DEF GrantAll, g

\* The position a FEN stands for, at the start of a game.
Origin(fen) ==
    [mBoard |-> fen.placement, side |-> fen.side,
     castlePerm |-> {fen.castle[i] : i \in DOMAIN fen.castle},
     enpas |-> IF fen.enpas = << >> THEN OFFBOARD ELSE FenSquare(fen),
     history |-> << >>, fiftyMove |-> 0]

\* No right is written twice.
RightsOnce(fen) ==
    \A i, j \in DOMAIN fen.castle : fen.castle[i] = fen.castle[j] => i = j

\* A digit and a column name a square.
LEMMA FenSquares ==
    ASSUME NEW fen \in Fens, fen.enpas # << >>
    PROVE  FenSquare(fen) \in Squares
<1>1. fen.enpas \in (0..7) \X (1..8)
  BY DEF Fens
<1>2. 8 - fen.enpas[2] \in 0..7 /\ fen.enpas[1] \in 0..7
  BY <1>1
<1> QED
  BY <1>2, SquarePairs DEF FenSquare

\* The position of a FEN is a position.
LEMMA OriginPosition ==
    ASSUME NEW fen \in Fens
    PROVE  Origin(fen) \in Positions
<1>1. (IF fen.enpas = << >> THEN OFFBOARD ELSE FenSquare(fen)) \in Squares \cup {OFFBOARD}
  BY FenSquares
<1>2. {fen.castle[i] : i \in DOMAIN fen.castle} \in SUBSET CastleRights
  <2>1. fen.castle \in Seq(CastleRights)
    BY DEF Fens
  <2>2. \A i \in DOMAIN fen.castle : fen.castle[i] \in CastleRights
    BY <2>1
  <2> QED
    BY <2>2
<1>3. << >> \in Seq(Histories) /\ 0 \in Nat
  OBVIOUS
<1>4. fen.placement \in [Squares -> Pieces \cup {NOPIECE}] /\ fen.side \in {WHITE, BLACK}
  BY DEF Fens
<1> QED
  BY <1>1, <1>2, <1>3, <1>4 DEF Origin, Positions

\* parseFen gives a board that stands for the FEN.
LEMMA ParseStands ==
    ASSUME NEW fen \in Fens, RightsOnce(fen)
    PROVE  Stands(parseFen(fen), Origin(fen))
<1> DEFINE m == fen.placement
           rights == {fen.castle[i] : i \in DOMAIN fen.castle}
           placed == PutAll(fen)
           sided == IF fen.side = BLACK THEN changeSide(placed) ELSE placed
           castled == GrantAll(sided, fen.castle)
<1>1. fen.side \in {WHITE, BLACK} /\ fen.castle \in Seq(CastleRights)
  BY DEF Fens
<1>2. parseFen(fen) = IF fen.enpas = << >> THEN castled
                      ELSE hashInEp(castled, FenSquare(fen))
  BY ParseIs
<1>3. At(placed, m, WHITE, {}, OFFBOARD, << >>, 0)
  BY PutAllAt
<1> HIDE DEF placed, m
<1>4. At(sided, m, fen.side, {}, OFFBOARD, << >>, 0)
  <2>1. CASE fen.side = BLACK
    <3>1. sided = changeSide(placed) /\ 1 - WHITE = BLACK
      BY <2>1 DEF WHITE, BLACK
    <3> HIDE DEF sided
    <3> QED
      BY <1>3, <2>1, <3>1, ChangeSideAt
  <2>2. CASE fen.side = WHITE
    <3>1. sided = placed
      BY <2>2 DEF WHITE, BLACK
    <3> QED
      BY <1>3, <2>2, <3>1
  <2> QED
    BY <1>1, <2>1, <2>2
<1> HIDE DEF sided
<1>5. At(castled, m, fen.side, rights, OFFBOARD, << >>, 0)
  BY <1>1, <1>4, GrantAllAt DEF RightsOnce
<1> HIDE DEF castled, rights
<1>6. CASE fen.enpas = << >>
  <2>1. At(parseFen(fen), m, fen.side, rights, OFFBOARD, << >>, 0)
    BY <1>2, <1>5, <1>6
  <2> QED
    BY <1>6, <2>1 DEF Stands, Origin, m, rights
<1>7. CASE fen.enpas # << >>
  <2>1. At(parseFen(fen), m, fen.side, rights, FenSquare(fen), << >>, 0)
    BY <1>2, <1>5, <1>7, FenSquares, HashInEpAt
  <2> QED
    BY <1>7, <2>1 DEF Stands, Origin, m, rights
<1> QED
  BY <1>6, <1>7

\* A start position is one of chess.
LEMMA StartPlayable ==
    ASSUME NEW fen \in StartFens
    PROVE  /\ fen \in Fens /\ RightsOnce(fen)
           /\ Origin(fen) \in Positions /\ Playable(Origin(fen))
<1>1. fen \in Fens /\ RightsOnce(fen) /\ Playable(Meaning(fen))
  BY StartAssumption DEF RightsOnce
<1>2. Origin(fen).mBoard = Meaning(fen).mBoard /\ Origin(fen).side = Meaning(fen).side
      /\ Origin(fen).castlePerm = Meaning(fen).castlePerm
      /\ Origin(fen).enpas = Meaning(fen).enpas
  BY DEF Origin, Meaning
<1>3. Playable(Origin(fen))
  BY <1>1, <1>2, PlayableSame
<1> QED
  BY <1>1, <1>3, OriginPosition

----------------------------------------------------------------------------
(* Games of any length.                                                    *)

\* pos starts a game, or a move leads to it from a position among S.
Reached(pos, S) ==
    \/ pos.history = << >>
    \/ \E before \in S : \E move \in Moves :
          MoveFits(before, move) /\ pos = Made(before, move)

\* Positions of chess that contain, with each, those that were before it.
Past(S) ==
    /\ S \subseteq Positions
    /\ \A pos \in S : Playable(pos) /\ Reached(pos, S)

\* The inductive invariant: the board stands for a position of chess that
\* moves from another one have led to, back to a start.
Sound == \E S : Past(S) /\ \E pos \in S : Stands(board, pos)

\* More positions to come from do no harm.
LEMMA ReachedGrows ==
    ASSUME NEW S, NEW U, S \subseteq U, NEW pos, Reached(pos, S)
    PROVE  Reached(pos, U)
BY DEF Reached

\* Games start soundly.
LEMMA SoundInit == Init => Sound
<1> SUFFICES ASSUME NEW fen \in StartFens, board = parseFen(fen)
             PROVE  Sound
  BY DEF Init
<1> DEFINE pos == Origin(fen)
<1>1. pos \in Positions /\ Playable(pos) /\ Stands(board, pos)
  BY StartPlayable, ParseStands
<1>2. pos.history = << >>
  BY DEF Origin
<1> HIDE DEF pos
<1>3. Past({pos})
  BY <1>1, <1>2 DEF Past, Reached
<1> QED
  BY <1>1, <1>3 DEF Sound

\* MakeMove.
LEMMA SoundMake == Sound /\ MakeMove => Sound'
<1> SUFFICES ASSUME NEW S, Past(S), NEW pos \in S, Stands(board, pos),
                    NEW move \in generateMoves(board),
                    board' = makeMove(board, move).board
             PROVE  Sound'
  BY DEF Sound, MakeMove
<1> DEFINE made == makeMove(board, move)
           next == Made(pos, move)
<1>1. pos \in Positions /\ Playable(pos) /\ MoveFits(pos, move)
  BY MovesFit DEF Past
<1>2. \/ Stands(made.board, next) /\ next \in Positions /\ Playable(next)
      \/ Stands(made.board, pos)
  <2> HIDE DEF made, next
  <2>1. made = makeMove(board, move) /\ next = Made(pos, move)
    BY DEF made, next
  <2> QED
    BY <1>1, <2>1, MakeMoveStands
<1>3. move \in Moves
  BY <1>1 DEF MoveFits
<1>4. CASE Stands(made.board, pos)
  BY <1>4 DEF Sound
<1>5. CASE Stands(made.board, next) /\ next \in Positions /\ Playable(next)
  <2> DEFINE U == S \cup {next}
  <2>1. Reached(next, U)
    BY <1>1, <1>3 DEF Reached
  <2>2. \A q \in S : Reached(q, U)
    BY ReachedGrows DEF Past
  <2> HIDE DEF next
  <2>3. Past(U)
    BY <1>5, <2>1, <2>2 DEF Past
  <2> QED
    BY <1>5, <2>3 DEF Sound
<1> QED
  BY <1>2, <1>4, <1>5

\* TakeBack.
LEMMA SoundTake == Sound /\ TakeBack => Sound'
<1> SUFFICES ASSUME NEW S, Past(S), NEW pos \in S, Stands(board, pos),
                    hisPly(board) > 0, board' = takeBack(board)
             PROVE  Sound'
  BY DEF Sound, TakeBack
<1>1. pos \in Positions /\ Reached(pos, S)
  BY DEF Past
<1>2. pos.history # << >>
  <2>1. board.history = pos.history
    BY <1>1, StandsFields
  <2> QED
    BY <2>1 DEF hisPly
<1>3. PICK before \in S : \E move \in Moves :
        MoveFits(before, move) /\ pos = Made(before, move)
  BY <1>1, <1>2 DEF Reached
<1>4. PICK move \in Moves : MoveFits(before, move) /\ pos = Made(before, move)
  BY <1>3
<1>5. before \in Positions
  BY DEF Past
<1>6. Stands(takeBack(board), before)
  BY <1>4, <1>5, TakenBackStands
<1> QED
  BY <1>6 DEF Sound

\* GameWinner.
LEMMA SoundWinner == Sound /\ GameWinner => Sound'
<1> SUFFICES ASSUME NEW S, Past(S), NEW pos \in S, Stands(board, pos),
                    board' = gameWinner(board).board
             PROVE  Sound'
  BY DEF Sound, GameWinner
<1>1. pos \in Positions /\ Playable(pos)
  BY DEF Past
<1>2. Stands(gameWinner(board).board, pos)
  BY <1>1, WinnerStands
<1> QED
  BY <1>2 DEF Sound

\* However long the game, the board stands for a position of chess.
THEOREM AlwaysSound == RecordedSpec => []Sound
<1>1. RecordedInit => Sound
  BY SoundInit DEF RecordedInit
<1>2. Sound /\ [RecordedNext]_<<board, line>> => Sound'
  <2>1. ASSUME Sound, RecordedNext
        PROVE  Sound'
    BY <2>1, SoundMake, SoundTake, SoundWinner DEF RecordedNext, Next
  <2>2. ASSUME Sound, UNCHANGED <<board, line>>
        PROVE  Sound'
    BY <2>2 DEF Sound
  <2> QED
    BY <2>1, <2>2
<1> QED
  BY <1>1, <1>2, PTL DEF RecordedSpec

\* What the redundant forms of a sound board say.
LEMMA SoundConsistent == Sound => BoardConsistent
<1> SUFFICES ASSUME NEW S, Past(S), NEW pos \in S, Stands(board, pos)
             PROVE  BoardConsistent
  BY DEF Sound
<1>1. pos \in Positions /\ Playable(pos)
  BY DEF Past
<1>2. Consistent(board) /\ Playable(board)
  BY <1>1, StandsFields, PlayableSame
<1>3. board \in Boards /\ ListsMatch(board) /\ board.posKey = KeyOf(board)
      /\ ~board.exited /\ MaterialFits(board)
  BY <1>2 DEF Consistent
<1>4. board.material =
        MapThenSumSet(LAMBDA sq : Worth[board.mBoard[sq]], Occupied(board))
  <2>1. MapThenSumSet(LAMBDA sq : Worth[board.mBoard[sq]], Occupied(board))
        = Total(WorthOn(board), Occupied(board))
    BY SumIsTotal
  <2> QED
    BY <1>3, <2>1 DEF MaterialFits
<1>5. RightsMeanHome
  <2> SUFFICES ASSUME NEW right \in board.castlePerm
               PROVE  /\ getKing(board, SideOf(right)) = KingHome(right)
                      /\ board.mBoard[RookHome(right)] = Rook(SideOf(right))
    BY DEF RightsMeanHome
  <2>1. /\ board.mBoard[KingHome(right)] = King(SideOf(right))
        /\ board.mBoard[RookHome(right)] = Rook(SideOf(right))
    BY <1>2 DEF Playable
  <2>2. SideOf(right) \in {WHITE, BLACK} /\ KingHome(right) \in Squares
    <3>1. (IF right \in {WKCA, WQCA} THEN 7 ELSE 0) \in 0..7 /\ 4 \in 0..7
      OBVIOUS
    <3> QED
      BY <3>1, SquarePairs DEF SideOf, KingHome
  <2>3. PICK k \in Squares :
          {other \in Squares : board.mBoard[other] = King(SideOf(right))} = {k}
    BY <1>2, <2>2 DEF Playable
  <2>4. k = KingHome(right)
    BY <2>1, <2>2, <2>3
  <2>5. getKing(board, SideOf(right)) = k
    BY <1>3, <2>2, <2>3, KingFound
  <2> QED
    BY <2>1, <2>4, <2>5
<1> QED
  BY <1>3, <1>4, <1>5 DEF BoardConsistent

\* Whatever is made and taken back, in games of any length from any start
\* position of chess, the piece lists, the position key, the material and the
\* squares agree, rights have king and rook at home, and the process does not
\* end for want of a piece.
THEOREM BoardCorrect == RecordedSpec => []BoardConsistent
BY AlwaysSound, SoundConsistent, PTL

----------------------------------------------------------------------------
(* What is written is read again.                                          *)

\* The letters that getFen writes are the rights, each once.
LEMMA LettersOnce ==
    ASSUME NEW bd \in Boards
    PROVE  /\ Letters(bd) \in Seq(CastleRights)
           /\ \A i, j \in DOMAIN Letters(bd) : Letters(bd)[i] = Letters(bd)[j] => i = j
           /\ {Letters(bd)[i] : i \in DOMAIN Letters(bd)} = bd.castlePerm
<1>1. bd.castlePerm \subseteq {WKCA, WQCA, BKCA, BQCA}
      /\ CastleRights = {WKCA, WQCA, BKCA, BQCA}
  BY ChessBoardAssumption DEF Boards
<1> DEFINE a == Letter(bd, WKCA)
           b == Letter(bd, WQCA)
           c == Letter(bd, BKCA)
           d == Letter(bd, BQCA)
           Spells(w, R) == /\ w \in Seq(CastleRights)
                           /\ \A i, j \in 1..Len(w) : w[i] = w[j] => i = j
                           /\ \A i \in 1..Len(w) : w[i] \in R
                           /\ \A r \in R : \E i \in 1..Len(w) : w[i] = r
<1>2. ASSUME NEW w, NEW R, Spells(w, R), NEW right \in CastleRights, right \notin R
      PROVE  Spells(w \o Letter(bd, right), R \cup ({right} \cap bd.castlePerm))
  <2>1. CASE right \in bd.castlePerm
    <3> DEFINE v == w \o <<right>>
    <3>1. /\ v \in Seq(CastleRights) /\ Len(w) \in Nat /\ Len(v) = Len(w) + 1
          /\ \A i \in 1..Len(w) : v[i] = w[i]
          /\ v[Len(w) + 1] = right
      BY <1>2
    <3> HIDE DEF v
    <3>2. \A i, j \in 1..Len(v) : v[i] = v[j] => i = j
      <4> TAKE i, j \in 1..Len(v)
      <4>1. (i \in 1..Len(w) \/ i = Len(w) + 1) /\ (j \in 1..Len(w) \/ j = Len(w) + 1)
        BY <3>1
      <4> QED
        BY <1>2, <3>1, <4>1
    <3>3. \A i \in 1..Len(v) : v[i] \in R \cup {right}
      BY <1>2, <3>1
    <3>4. \A r \in R \cup {right} : \E i \in 1..Len(v) : v[i] = r
      <4> TAKE r \in R \cup {right}
      <4>1. CASE r = right
        BY <3>1, <4>1
      <4>2. CASE r \in R
        <5>1. PICK i \in 1..Len(w) : w[i] = r
          BY <1>2, <4>2
        <5>2. i \in 1..Len(v)
          BY <3>1
        <5> QED
          BY <3>1, <5>1, <5>2
      <4> QED
        BY <4>1, <4>2
    <3>5. w \o Letter(bd, right) = v /\ {right} \cap bd.castlePerm = {right}
      BY <2>1 DEF Letter, v
    <3> QED
      BY <3>1, <3>2, <3>3, <3>4, <3>5
  <2>2. CASE right \notin bd.castlePerm
    <3>1. w \o Letter(bd, right) = w /\ R \cup ({right} \cap bd.castlePerm) = R
      BY <1>2, <2>2 DEF Letter
    <3> QED
      BY <1>2, <3>1
  <2> QED
    BY <2>1, <2>2
<1>3. Spells(<< >>, {})
  OBVIOUS
<1> DEFINE A == {} \cup ({WKCA} \cap bd.castlePerm)
           B == A \cup ({WQCA} \cap bd.castlePerm)
           C == B \cup ({BKCA} \cap bd.castlePerm)
           D == C \cup ({BQCA} \cap bd.castlePerm)
<1>4. WQCA \notin A /\ BKCA \notin B /\ BQCA \notin C /\ D = bd.castlePerm
  BY <1>1 DEF WKCA, WQCA, BKCA, BQCA
<1> HIDE DEF Spells
<1>5. Spells(<< >> \o a, A)
  BY <1>1, <1>2, <1>3
<1> HIDE DEF A
<1>6. Spells((<< >> \o a) \o b, B)
  BY <1>1, <1>2, <1>4, <1>5
<1> HIDE DEF B
<1>7. Spells(((<< >> \o a) \o b) \o c, C)
  BY <1>1, <1>2, <1>4, <1>6
<1> HIDE DEF C
<1>8. Spells((((<< >> \o a) \o b) \o c) \o d, D)
  BY <1>1, <1>2, <1>4, <1>7
<1> HIDE DEF D
<1>9. a \in Seq(CastleRights) /\ b \in Seq(CastleRights) /\ c \in Seq(CastleRights)
      /\ d \in Seq(CastleRights)
  <2>1. \A right \in CastleRights : Letter(bd, right) \in Seq(CastleRights)
    BY DEF Letter
  <2>2. WKCA \in CastleRights /\ WQCA \in CastleRights /\ BKCA \in CastleRights
        /\ BQCA \in CastleRights
    BY <1>1
  <2> QED
    BY <2>1, <2>2
<1>10. << >> \o a = a
  <2> HIDE DEF a
  <2> QED
    BY <1>9
<1>11. Letters(bd) = (((<< >> \o a) \o b) \o c) \o d
  BY <1>10 DEF Letters
<1> HIDE DEF a, b, c, d
<1>12. Spells(Letters(bd), bd.castlePerm)
  BY <1>4, <1>8, <1>11
<1> DEFINE w == Letters(bd)
<1> HIDE DEF w
<1>13. Spells(w, bd.castlePerm)
  BY <1>12 DEF w
<1>14. /\ w \in Seq(CastleRights) /\ DOMAIN w = 1..Len(w)
       /\ \A i, j \in DOMAIN w : w[i] = w[j] => i = j
       /\ {w[i] : i \in DOMAIN w} = bd.castlePerm
  <2>1. w \in Seq(CastleRights) /\ DOMAIN w = 1..Len(w)
    BY <1>13 DEF Spells
  <2> QED
    BY <1>13, <2>1 DEF Spells
<1> QED
  BY <1>14 DEF w

\* getFen writes a FEN that stands for the board.
LEMMA WrittenFen ==
    ASSUME NEW bd \in Boards, Playable(bd)
    PROVE  LET fen == getFen(bd)
           IN  /\ fen \in Fens /\ RightsOnce(fen)
               /\ Origin(fen).mBoard = bd.mBoard /\ Origin(fen).side = bd.side
               /\ Origin(fen).castlePerm = bd.castlePerm
               /\ Origin(fen).enpas = bd.enpas
<1> DEFINE fen == getFen(bd)
<1>1. /\ fen.placement = bd.mBoard /\ fen.side = bd.side /\ fen.castle = Letters(bd)
      /\ fen.enpas = IF bd.enpas = OFFBOARD THEN << >>
                     ELSE <<bd.enpas[2], IF bd.side = WHITE THEN 6 ELSE 3>>
  BY DEF getFen
<1>2. fen = [placement |-> fen.placement, side |-> fen.side, castle |-> fen.castle,
             enpas |-> fen.enpas]
  BY DEF getFen
<1> HIDE DEF fen
<1>3. /\ bd.mBoard \in [Squares -> Pieces \cup {NOPIECE}] /\ bd.side \in {WHITE, BLACK}
      /\ bd.enpas \in Squares \cup {OFFBOARD}
  BY DEF Boards
<1>4. fen.enpas \in {<< >>} \cup ((0..7) \X (1..8))
      /\ (IF fen.enpas = << >> THEN OFFBOARD ELSE FenSquare(fen)) = bd.enpas
  <2>1. CASE bd.enpas = OFFBOARD
    BY <1>1, <2>1
  <2>2. CASE bd.enpas # OFFBOARD
    <3> DEFINE col == bd.enpas[2]
               digit == IF bd.side = WHITE THEN 6 ELSE 3
    <3>1. fen.enpas = <<col, digit>>
      BY <1>1, <2>2
    <3>2. bd.enpas[1] = 8 - digit
      BY <2>2 DEF Playable
    <3>3. col \in 0..7 /\ bd.enpas = <<bd.enpas[1], col>> /\ digit \in 1..8
      BY <1>3, <2>2, SquarePairs
    <3> HIDE DEF col, digit
    <3>4. fen.enpas \in (0..7) \X (1..8) /\ fen.enpas # << >>
          /\ fen.enpas[1] = col /\ fen.enpas[2] = digit
      BY <3>1, <3>3
    <3> QED
      BY <3>2, <3>3, <3>4 DEF FenSquare
  <2> QED
    BY <2>1, <2>2
<1>5. fen \in Fens
  <2>1. fen.castle \in Seq(CastleRights)
    BY <1>1, LettersOnce
  <2> QED
    BY <1>1, <1>2, <1>3, <1>4, <2>1 DEF Fens
<1>6. RightsOnce(fen)
  BY <1>1, LettersOnce DEF RightsOnce
<1>7. Origin(fen).castlePerm = bd.castlePerm
  BY <1>1, LettersOnce DEF Origin
<1>8. /\ Origin(fen).mBoard = bd.mBoard /\ Origin(fen).side = bd.side
      /\ Origin(fen).enpas = bd.enpas
  BY <1>1, <1>4 DEF Origin
<1> QED
  BY <1>5, <1>6, <1>7, <1>8 DEF fen

\* So what a sound board writes, parseFen reads again.
LEMMA SoundFen == Sound => FenRoundTrip
<1> SUFFICES ASSUME NEW S, Past(S), NEW pos \in S, Stands(board, pos)
             PROVE  FenRoundTrip
  BY DEF Sound
<1> DEFINE fen == getFen(board)
           read == parseFen(fen)
<1>1. /\ board \in Boards /\ Playable(board) /\ board.posKey = KeyOf(board)
  BY StandsFields, PlayableSame DEF Past, Consistent
<1>2. /\ fen \in Fens /\ RightsOnce(fen)
      /\ Origin(fen).mBoard = board.mBoard /\ Origin(fen).side = board.side
      /\ Origin(fen).castlePerm = board.castlePerm /\ Origin(fen).enpas = board.enpas
  BY <1>1, WrittenFen
<1> HIDE DEF fen
<1>3. Stands(read, Origin(fen)) /\ Origin(fen) \in Positions
  BY <1>2, ParseStands, OriginPosition
<1> HIDE DEF read
<1>4. /\ read.mBoard = board.mBoard /\ read.side = board.side
      /\ read.castlePerm = board.castlePerm /\ read.enpas = board.enpas
      /\ read.posKey = KeyOf(read)
  BY <1>2, <1>3, StandsFields DEF Consistent
<1>5. read.posKey = board.posKey
  BY <1>1, <1>4, SameKey
<1>6. PositionOf(read) = PositionOf(board)
  BY <1>4 DEF PositionOf, Occupied
<1> QED
  BY <1>5, <1>6 DEF FenRoundTrip, read, fen

\* In games of any length from any start position of chess, the position that
\* getFen writes is the one parseFen reads: the en passant square, whose rank
\* getFen takes from the side to move, and the position key included.
THEOREM FenCorrect == RecordedSpec => []FenRoundTrip
BY AlwaysSound, SoundFen, PTL

----------------------------------------------------------------------------
(* Captures.                                                               *)

\* Of an ordinary move, whether it captures.
LEMMA OrdinaryCaptures ==
    ASSUME NEW bd \in Boards, Playable(bd), NEW from \in Squares,
           bd.mBoard[from] \in PiecesOf(bd.side), ~isPawn(bd.mBoard[from]),
           NEW to \in Seen(bd, bd.mBoard[from], from)
    PROVE  /\ IsCapture(bd, getMove(bd, from, to, NOPIECE)) <=> bd.mBoard[to] # NOPIECE
           /\ HasEnemy(bd, to) <=> CanLand(bd, to) /\ bd.mBoard[to] # NOPIECE
<1> DEFINE move == getMove(bd, from, to, NOPIECE)
<1>1. move.from = from /\ move.captured = bd.mBoard[to]
  BY DEF getMove
<1>2. IsCapture(bd, move) <=> bd.mBoard[to] # NOPIECE
  BY <1>1 DEF IsCapture
<1> QED
  BY <1>2 DEF HasEnemy, CanLand

\* generateCaptures yields a man's capturing moves, and no others.
LEMMA PieceCapturesAre ==
    ASSUME NEW bd \in Boards, Playable(bd), NEW pce \in PiecesOf(bd.side),
           NEW from \in Squares, bd.mBoard[from] = pce, NEW move
    PROVE  move \in PieceCaptures(bd, pce, from)
              <=> move \in PieceMoves(bd, pce, from) /\ IsCapture(bd, move)
<1>1. bd.side \in {WHITE, BLACK}
  BY DEF Boards
<1>2. CASE isPawn(pce)
  <2>1. pce = Pawn(bd.side)
    BY <1>1, <1>2, PawnsAndKings
  <2>2. move \in PieceMoves(bd, pce, from)
          <=> move \in PawnAdvances(bd, pce, from) \/ move \in PawnCaptures(bd, pce, from)
    BY <1>2 DEF PieceMoves
  <2>3. move \in PieceCaptures(bd, pce, from) <=> move \in PawnCaptures(bd, pce, from)
    BY <1>2 DEF PieceCaptures
  <2>4. move \in PawnAdvances(bd, pce, from) => ~IsCapture(bd, move)
    BY <2>1, AdvancesFit
  <2>5. move \in PawnCaptures(bd, pce, from) => IsCapture(bd, move)
    BY <2>1, PawnCapturesFit
  <2> QED
    BY <2>2, <2>3, <2>4, <2>5
<1>3. CASE ~isPawn(pce)
  <2>1. move \in PieceMoves(bd, pce, from)
          <=> \/ \E to \in Seen(bd, pce, from) :
                    CanLand(bd, to) /\ move = getMove(bd, from, to, NOPIECE)
              \/ isKing(pce) /\ move \in CastleMoves(bd, from)
    BY <1>3 DEF PieceMoves
  <2>2. move \in PieceCaptures(bd, pce, from)
          <=> \E to \in Seen(bd, pce, from) :
                 HasEnemy(bd, to) /\ move = getMove(bd, from, to, NOPIECE)
    BY <1>3 DEF PieceCaptures
  <2>3. isKing(pce) /\ move \in CastleMoves(bd, from) => ~IsCapture(bd, move)
    <3> SUFFICES ASSUME isKing(pce), move \in CastleMoves(bd, from)
                 PROVE  ~IsCapture(bd, move)
      OBVIOUS
    <3>1. pce = King(bd.side)
      BY <1>1, PawnsAndKings
    <3>2. move.captured = NOPIECE /\ move.from = from
      BY <3>1, CastleMovesFit
    <3> QED
      BY <1>3, <3>2 DEF IsCapture
  <2>4. \A to \in Seen(bd, pce, from) :
          /\ IsCapture(bd, getMove(bd, from, to, NOPIECE)) <=> bd.mBoard[to] # NOPIECE
          /\ HasEnemy(bd, to) <=> CanLand(bd, to) /\ bd.mBoard[to] # NOPIECE
    BY <1>3, OrdinaryCaptures
  <2> QED
    BY <2>1, <2>2, <2>3, <2>4
<1> QED
  BY <1>2, <1>3

\* generateCaptures yields the capturing moves, and no others.
LEMMA CapturesAre ==
    ASSUME NEW bd \in Boards, ListsMatch(bd), Playable(bd)
    PROVE  generateCaptures(bd) = {move \in generateMoves(bd) : IsCapture(bd, move)}
<1>1. ASSUME NEW pce \in PiecesOf(bd.side), NEW i \in DOMAIN bd.pList[pce]
      PROVE  bd.pList[pce][i] \in Squares /\ bd.mBoard[bd.pList[pce][i]] = pce
  <2>1. bd.side \in {WHITE, BLACK}
    BY DEF Boards
  <2>2. pce \in Pieces
    BY <2>1, SidesShare
  <2>3. bd.pList[pce] \in Seq(Squares)
    BY <2>2 DEF Boards
  <2> QED
    BY <2>2, <2>3 DEF ListsMatch
<1>2. ASSUME NEW move
      PROVE  move \in generateCaptures(bd)
               <=> move \in generateMoves(bd) /\ IsCapture(bd, move)
  <2>1. move \in generateMoves(bd)
          <=> \E pce \in PiecesOf(bd.side) : \E i \in DOMAIN bd.pList[pce] :
                 move \in PieceMoves(bd, pce, bd.pList[pce][i])
    BY DEF generateMoves
  <2>2. move \in generateCaptures(bd)
          <=> \E pce \in PiecesOf(bd.side) : \E i \in DOMAIN bd.pList[pce] :
                 move \in PieceCaptures(bd, pce, bd.pList[pce][i])
    BY DEF generateCaptures
  <2>3. \A pce \in PiecesOf(bd.side) : \A i \in DOMAIN bd.pList[pce] :
          move \in PieceCaptures(bd, pce, bd.pList[pce][i])
            <=> move \in PieceMoves(bd, pce, bd.pList[pce][i]) /\ IsCapture(bd, move)
    BY <1>1, PieceCapturesAre
  <2> QED
    BY <2>1, <2>2, <2>3
<1> QED
  BY <1>2

\* What captures by the rules.
LEMMA RulesCapture ==
    ASSUME NEW bd \in Boards, Playable(bd), NEW move, MoveFits(bd, move)
    PROVE  Rules!Captures(PositionOf(bd), MoveOf(bd, move)) <=> IsCapture(bd, move)
<1>1. /\ move.from \in Squares /\ move.to \in Squares /\ bd.side \in {WHITE, BLACK}
      /\ bd.mBoard[move.from] \in PiecesOf(bd.side)
      /\ move.captured = bd.mBoard[move.to]
  BY ChessBoardAssumption DEF MoveFits, CaptureFits, ChessMoves, Boards
<1>2. move.from \in Occupied(bd) /\ bd.mBoard[move.from] \in ChessPieces
  BY <1>1, SidesShare, ChessBoardAssumption DEF Occupied
<1>3. \A pce \in ChessPieces : ManOf(pce)[2] = "pawn" <=> isPawn(pce)
  BY DEF ManOf, ChessPieces, isPawn, WP, BP
<1>4. PositionOf(bd).men[move.from] = ManOf(bd.mBoard[move.from])
      /\ DOMAIN PositionOf(bd).men = Occupied(bd)
      /\ PositionOf(bd).passed = {bd.enpas} \ {OFFBOARD}
  BY <1>2 DEF PositionOf
<1>5. MoveOf(bd, move).from = move.from /\ MoveOf(bd, move).to = move.to
  BY DEF MoveOf
<1>6. move.to \in Occupied(bd) <=> move.captured # NOPIECE
  BY <1>1 DEF Occupied
<1>7. move.to \in {bd.enpas} \ {OFFBOARD} <=> move.to = bd.enpas
  BY <1>1, OffboardAssumption
<1>8. Rules!Captures(PositionOf(bd), MoveOf(bd, move))
        <=> \/ move.to \in Occupied(bd)
            \/ /\ ManOf(bd.mBoard[move.from])[2] = "pawn"
               /\ move.to \in {bd.enpas} \ {OFFBOARD}
  BY <1>4, <1>5 DEF Rules!Captures, Rules!Taken, Rules!Kind
<1> QED
  BY <1>2, <1>3, <1>6, <1>7, <1>8 DEF IsCapture

\* The captures of a sound board are those of the rules.
LEMMA SoundCaptures == Sound => CapturesAreCaptures
<1> SUFFICES ASSUME NEW S, Past(S), NEW pos \in S, Stands(board, pos)
             PROVE  CapturesAreCaptures
  BY DEF Sound
<1>1. board \in Boards /\ ListsMatch(board) /\ Playable(board)
  BY StandsFields, PlayableSame DEF Past
<1>2. \A move \in generateMoves(board) :
        Rules!Captures(PositionOf(board), MoveOf(board, move)) <=> IsCapture(board, move)
  BY <1>1, GeneratedFits, RulesCapture
<1> QED
  BY <1>1, <1>2, CapturesAre DEF CapturesAreCaptures

\* In games of any length from any start position of chess, generateCaptures
\* yields exactly those of generateMoves that capture by the rules.
THEOREM CapturesCorrect == RecordedSpec => []CapturesAreCaptures
BY AlwaysSound, SoundCaptures, PTL

----------------------------------------------------------------------------
(* Moves and their keys.                                                   *)

\* A number of four bits is the sum of its bits.
LEMMA FourBits ==
    \A n \in 0..15 :
        n = (n % 2) + 2 * ((n \div 2) % 2) + 4 * ((n \div 4) % 2) + 8 * ((n \div 8) % 2)
OBVIOUS

\* The powers of two.
LEMMA Powers == 2^0 = 1 /\ 2^1 = 2 /\ 2^2 = 4 /\ 2^3 = 8
<1>1. 2^0 = 1
  OBVIOUS
<1>2. 2^1 = 2
  OBVIOUS
<1>3. 2^2 = 4
  OBVIOUS
<1>4. 2^3 = 8
  OBVIOUS
<1> QED
  BY <1>1, <1>2, <1>3, <1>4

\* Which bits of a key a field sets.
LEMMA BitsAre ==
    ASSUME NEW n \in 0..15, NEW shift \in Nat
    PROVE  /\ Packed!Bits(n, shift) \subseteq shift..(shift + 3)
           /\ shift \in Packed!Bits(n, shift) <=> n % 2 = 1
           /\ shift + 1 \in Packed!Bits(n, shift) <=> (n \div 2) % 2 = 1
           /\ shift + 2 \in Packed!Bits(n, shift) <=> (n \div 4) % 2 = 1
           /\ shift + 3 \in Packed!Bits(n, shift) <=> (n \div 8) % 2 = 1
<1> DEFINE set == {k \in 0..3 : (n \div 2^k) % 2 = 1}
<1>1. /\ 0 \in set <=> n % 2 = 1
      /\ 1 \in set <=> (n \div 2) % 2 = 1
      /\ 2 \in set <=> (n \div 4) % 2 = 1
      /\ 3 \in set <=> (n \div 8) % 2 = 1
  <2>1. n \div 1 = n
    OBVIOUS
  <2> QED
    BY <2>1, Powers
<1>2. set \subseteq 0..3
  OBVIOUS
<1>3. Packed!Bits(n, shift) = {shift + i : i \in set}
  BY DEF Packed!Bits
<1> HIDE DEF set
<1>4. \A k \in 0..3 : shift + k \in Packed!Bits(n, shift) <=> k \in set
  BY <1>2, <1>3
<1>5. Packed!Bits(n, shift) \subseteq shift..(shift + 3)
  BY <1>2, <1>3
<1> QED
  BY <1>1, <1>4, <1>5

\* What a field of four bits says.
LEMMA FieldFour ==
    ASSUME NEW key, NEW n \in 0..15, NEW first \in Nat,
           key \cap (first..(first + 3)) = Packed!Bits(n, first)
    PROVE  Packed!Field(key, first, first + 3) = n
<1> DEFINE bit(k) == IF first + k <= first + 3 /\ first + k \in key THEN 2^k ELSE 0
<1>1. \A k \in 0..3 : first + k \in key <=> first + k \in Packed!Bits(n, first)
  OBVIOUS
<1>2. /\ first \in key <=> n % 2 = 1
      /\ first + 1 \in key <=> (n \div 2) % 2 = 1
      /\ first + 2 \in key <=> (n \div 4) % 2 = 1
      /\ first + 3 \in key <=> (n \div 8) % 2 = 1
  <2> DEFINE B == Packed!Bits(n, first)
  <2>1. /\ first \in B <=> n % 2 = 1
        /\ first + 1 \in B <=> (n \div 2) % 2 = 1
        /\ first + 2 \in B <=> (n \div 4) % 2 = 1
        /\ first + 3 \in B <=> (n \div 8) % 2 = 1
    BY BitsAre
  <2>2. /\ first \in key <=> first \in B
        /\ first + 1 \in key <=> first + 1 \in B
        /\ first + 2 \in key <=> first + 2 \in B
        /\ first + 3 \in key <=> first + 3 \in B
    <3>1. first + 0 = first
      OBVIOUS
    <3> HIDE DEF B
    <3> QED
      BY <1>1, <3>1 DEF B
  <2> QED
    BY <2>1, <2>2
<1>3. /\ bit(0) = n % 2 /\ bit(1) = 2 * ((n \div 2) % 2)
      /\ bit(2) = 4 * ((n \div 4) % 2) /\ bit(3) = 8 * ((n \div 8) % 2)
  <2>1. first + 0 = first
    OBVIOUS
  <2>2. /\ n % 2 \in {0, 1} /\ (n \div 2) % 2 \in {0, 1}
        /\ (n \div 4) % 2 \in {0, 1} /\ (n \div 8) % 2 \in {0, 1}
    OBVIOUS
  <2> QED
    BY <1>2, <2>1, <2>2, Powers
<1>4. Packed!Field(key, first, first + 3) = bit(0) + bit(1) + bit(2) + bit(3)
  BY DEF Packed!Field
<1> HIDE DEF bit
<1> QED
  BY <1>3, <1>4, FourBits

\* What a field of three bits says.
LEMMA FieldThree ==
    ASSUME NEW key, NEW n \in 0..7, NEW first \in Nat,
           key \cap (first..(first + 2)) = Packed!Bits(n, first)
    PROVE  Packed!Field(key, first, first + 2) = n
<1> DEFINE bit(k) == IF first + k <= first + 2 /\ first + k \in key THEN 2^k ELSE 0
<1>1. \A k \in 0..2 : first + k \in key <=> first + k \in Packed!Bits(n, first)
  OBVIOUS
<1>2. /\ first \in key <=> n % 2 = 1
      /\ first + 1 \in key <=> (n \div 2) % 2 = 1
      /\ first + 2 \in key <=> (n \div 4) % 2 = 1
  <2> DEFINE B == Packed!Bits(n, first)
  <2>1. /\ first \in B <=> n % 2 = 1
        /\ first + 1 \in B <=> (n \div 2) % 2 = 1
        /\ first + 2 \in B <=> (n \div 4) % 2 = 1
    <3>1. n \in 0..15
      OBVIOUS
    <3> QED
      BY <3>1, BitsAre
  <2>2. /\ first \in key <=> first \in B
        /\ first + 1 \in key <=> first + 1 \in B
        /\ first + 2 \in key <=> first + 2 \in B
    <3>1. first + 0 = first
      OBVIOUS
    <3> HIDE DEF B
    <3> QED
      BY <1>1, <3>1 DEF B
  <2> QED
    BY <2>1, <2>2
<1>3. /\ bit(0) = n % 2 /\ bit(1) = 2 * ((n \div 2) % 2)
      /\ bit(2) = 4 * ((n \div 4) % 2) /\ bit(3) = 0
  <2>1. first + 0 = first /\ ~(first + 3 <= first + 2)
    OBVIOUS
  <2>2. /\ n % 2 \in {0, 1} /\ (n \div 2) % 2 \in {0, 1}
        /\ (n \div 4) % 2 \in {0, 1}
    OBVIOUS
  <2> QED
    BY <1>2, <2>1, <2>2, Powers
<1>4. Packed!Field(key, first, first + 2) = bit(0) + bit(1) + bit(2) + bit(3)
  BY DEF Packed!Field
<1> HIDE DEF bit
<1>5. n = (n % 2) + 2 * ((n \div 2) % 2) + 4 * ((n \div 4) % 2)
  OBVIOUS
<1> QED
  BY <1>3, <1>4, <1>5

\* What a flag says.
LEMMA FieldFlag ==
    ASSUME NEW key, NEW first \in Nat
    PROVE  Packed!Field(key, first, first) # 0 <=> first \in key
<1> DEFINE bit(k) == IF first + k <= first /\ first + k \in key THEN 2^k ELSE 0
<1>1. Packed!Field(key, first, first) = bit(0) + bit(1) + bit(2) + bit(3)
  BY DEF Packed!Field
<1>2. bit(1) = 0 /\ bit(2) = 0 /\ bit(3) = 0
  OBVIOUS
<1>3. bit(0) = IF first \in key THEN 1 ELSE 0
  <2>1. first + 0 = first
    OBVIOUS
  <2> QED
    BY <2>1, Powers
<1> HIDE DEF bit
<1> QED
  BY <1>1, <1>2, <1>3

\* A square's rows and columns take three bits.
LEMMA ThreeBits ==
    ASSUME NEW n \in 0..7, NEW shift \in Nat
    PROVE  Packed!Bits(n, shift) \subseteq shift..(shift + 2)
<1>1. n \in 0..15 /\ (n \div 8) % 2 = 0
  OBVIOUS
<1> DEFINE B == Packed!Bits(n, shift)
<1>2. B \subseteq shift..(shift + 3) /\ (shift + 3 \in B <=> (n \div 8) % 2 = 1)
  <2>1. n \in 0..15
    OBVIOUS
  <2> QED
    BY <2>1, BitsAre
<1> HIDE DEF B
<1>3. B \subseteq shift..(shift + 2)
  BY <1>1, <1>2
<1> QED
  BY <1>3 DEF B

\* What is packed is read again.
LEMMA ReadPacked ==
    ASSUME NEW move \in Moves
    PROVE  Packed!readMove(Packed!moveKey(move)) = move
<1> DEFINE key == Packed!moveKey(move)
           a == Packed!Bits(move.from[1], 0)
           b == Packed!Bits(move.from[2], 3)
           c == Packed!Bits(move.to[1], 6)
           d == Packed!Bits(move.to[2], 9)
           e == Packed!Bits(move.captured, 12)
           f == Packed!Flag(move.enpas, 16)
           g == Packed!Flag(move.pawnstart, 17)
           h == Packed!Bits(move.promoted, 18)
           l == Packed!Flag(move.castle, 22)
<1>1. /\ move.from \in Squares /\ move.to \in Squares
      /\ move.captured \in 0..15 /\ move.promoted \in 0..15
      /\ move.enpas \in BOOLEAN /\ move.pawnstart \in BOOLEAN /\ move.castle \in BOOLEAN
      /\ move = [from |-> move.from, to |-> move.to, captured |-> move.captured,
                 enpas |-> move.enpas, pawnstart |-> move.pawnstart,
                 promoted |-> move.promoted, castle |-> move.castle]
  <2>1. move \in [from : Squares, to : Squares, captured : Pieces \cup {NOPIECE},
                  enpas : BOOLEAN, pawnstart : BOOLEAN,
                  promoted : Pieces \cup {NOPIECE}, castle : BOOLEAN]
    BY ChessBoardAssumption DEF ChessMoves
  <2>2. Pieces \cup {NOPIECE} \subseteq 0..15
    BY ChessBoardAssumption DEF ChessPieces
  <2> QED
    BY <2>1, <2>2
<1>2. /\ move.from[1] \in 0..7 /\ move.from[2] \in 0..7
      /\ move.to[1] \in 0..7 /\ move.to[2] \in 0..7
      /\ move.from = <<move.from[1], move.from[2]>> /\ move.to = <<move.to[1], move.to[2]>>
  BY <1>1, SquarePairs
<1> DEFINE Within(s, lo, hi) == \A p \in s : p \in Int /\ lo <= p /\ p <= hi
<1>3. Within(a, 0, 2) /\ Within(b, 3, 5) /\ Within(c, 6, 8) /\ Within(d, 9, 11)
  <2>1. \A n \in 0..7 : \A shift \in Nat :
          Within(Packed!Bits(n, shift), shift, shift + 2)
    BY ThreeBits
  <2> QED
    BY <1>2, <2>1
<1>4. Within(e, 12, 15) /\ Within(h, 18, 21)
  <2>1. \A n \in 0..15 : \A shift \in Nat :
          Within(Packed!Bits(n, shift), shift, shift + 3)
    <3> TAKE n \in 0..15
    <3> TAKE shift \in Nat
    <3>1. Packed!Bits(n, shift) \subseteq shift..(shift + 3)
      BY BitsAre
    <3> QED
      BY <3>1
  <2> QED
    BY <1>1, <2>1
<1>5. f = (IF move.enpas THEN {16} ELSE {}) /\ g = (IF move.pawnstart THEN {17} ELSE {})
      /\ l = (IF move.castle THEN {22} ELSE {})
  BY DEF Packed!Flag
<1>6. key = a \cup b \cup c \cup d \cup e \cup f \cup g \cup h \cup l
  BY DEF Packed!moveKey
<1> HIDE DEF a, b, c, d, e, f, g, h, l, key
<1>7. /\ key \cap (0..(0 + 2)) = a /\ key \cap (3..(3 + 2)) = b
      /\ key \cap (6..(6 + 2)) = c /\ key \cap (9..(9 + 2)) = d
      /\ key \cap (12..(12 + 3)) = e /\ key \cap (18..(18 + 3)) = h
  <2>1. ASSUME NEW s, NEW lo \in Nat, NEW hi \in Nat, Within(s, lo, hi), s \subseteq key,
               \A p \in key : p \in Int /\ (lo <= p /\ p <= hi => p \in s)
        PROVE  key \cap (lo..hi) = s
    <3> HIDE DEF key
    <3> QED
      BY <2>1
  <2>2. /\ a \subseteq key /\ b \subseteq key /\ c \subseteq key /\ d \subseteq key
        /\ e \subseteq key /\ h \subseteq key
    BY <1>6
  <2>3. \A p \in key :
          /\ p \in Int
          /\ 0 <= p /\ p <= 2 => p \in a
          /\ 3 <= p /\ p <= 5 => p \in b
          /\ 6 <= p /\ p <= 8 => p \in c
          /\ 9 <= p /\ p <= 11 => p \in d
          /\ 12 <= p /\ p <= 15 => p \in e
          /\ 18 <= p /\ p <= 21 => p \in h
    BY <1>3, <1>4, <1>5, <1>6
  <2> HIDE DEF Within
  <2>4. /\ key \cap (0..2) = a /\ key \cap (3..5) = b /\ key \cap (6..8) = c
        /\ key \cap (9..11) = d /\ key \cap (12..15) = e /\ key \cap (18..21) = h
    BY <1>3, <1>4, <2>1, <2>2, <2>3
  <2> QED
    BY <2>4
<1>8. /\ 16 \in key <=> move.enpas
      /\ 17 \in key <=> move.pawnstart
      /\ 22 \in key <=> move.castle
  BY <1>3, <1>4, <1>5, <1>6
<1>9. /\ Packed!Field(key, 0, 2) = move.from[1] /\ Packed!Field(key, 3, 5) = move.from[2]
      /\ Packed!Field(key, 6, 8) = move.to[1] /\ Packed!Field(key, 9, 11) = move.to[2]
  <2>1. \A n \in 0..7 : \A first \in Nat :
          key \cap (first..(first + 2)) = Packed!Bits(n, first)
             => Packed!Field(key, first, first + 2) = n
    BY FieldThree
  <2>2. Packed!Field(key, 0, 0 + 2) = move.from[1]
    BY <1>2, <1>7, <2>1 DEF a
  <2>3. Packed!Field(key, 3, 3 + 2) = move.from[2]
    BY <1>2, <1>7, <2>1 DEF b
  <2>4. Packed!Field(key, 6, 6 + 2) = move.to[1]
    BY <1>2, <1>7, <2>1 DEF c
  <2>5. Packed!Field(key, 9, 9 + 2) = move.to[2]
    BY <1>2, <1>7, <2>1 DEF d
  <2> QED
    BY <2>2, <2>3, <2>4, <2>5
<1>10. Packed!Field(key, 12, 15) = move.captured /\ Packed!Field(key, 18, 21) = move.promoted
  <2>1. \A n \in 0..15 : \A first \in Nat :
          key \cap (first..(first + 3)) = Packed!Bits(n, first)
             => Packed!Field(key, first, first + 3) = n
    BY FieldFour
  <2>2. Packed!Field(key, 12, 12 + 3) = move.captured
    BY <1>1, <1>7, <2>1 DEF e
  <2>3. Packed!Field(key, 18, 18 + 3) = move.promoted
    BY <1>1, <1>7, <2>1 DEF h
  <2> QED
    BY <2>2, <2>3
<1>11. /\ (Packed!Field(key, 16, 16) # 0) = move.enpas
       /\ (Packed!Field(key, 17, 17) # 0) = move.pawnstart
       /\ (Packed!Field(key, 22, 22) # 0) = move.castle
  BY <1>1, <1>8, FieldFlag
<1>12. Packed!readMove(key) =
         [from |-> <<Packed!Field(key, 0, 2), Packed!Field(key, 3, 5)>>,
          to |-> <<Packed!Field(key, 6, 8), Packed!Field(key, 9, 11)>>,
          captured |-> Packed!Field(key, 12, 15),
          enpas |-> Packed!Field(key, 16, 16) # 0,
          pawnstart |-> Packed!Field(key, 17, 17) # 0,
          promoted |-> Packed!Field(key, 18, 21),
          castle |-> Packed!Field(key, 22, 22) # 0]
  BY DEF Packed!readMove
<1>13. Packed!readMove(key) = move
  BY <1>1, <1>2, <1>9, <1>10, <1>11, <1>12
<1> QED
  BY <1>13 DEF key

\* No move is the NOMOVE, whose squares would be the same.
LEMMA NoMoveIsNone ==
    ASSUME NEW move \in Moves, move.from # move.to
    PROVE  Packed!moveKey(move) # Packed!NOMOVE
<1> SUFFICES ASSUME Packed!moveKey(move) = Packed!NOMOVE
             PROVE  FALSE
  OBVIOUS
<1> DEFINE read == Packed!readMove(Packed!NOMOVE)
<1>1. move = read
  BY ReadPacked
<1>2. /\ Packed!Field(Packed!NOMOVE, 0, 2) = 0 /\ Packed!Field(Packed!NOMOVE, 3, 5) = 0
      /\ Packed!Field(Packed!NOMOVE, 6, 8) = 0 /\ Packed!Field(Packed!NOMOVE, 9, 11) = 0
  BY DEF Packed!Field, Packed!NOMOVE
<1>3. read.from = <<0, 0>> /\ read.to = <<0, 0>>
  BY <1>2 DEF Packed!readMove
<1> QED
  BY <1>1, <1>3

\* The moves of a sound board and their keys.
LEMMA SoundKeys == Sound => KeysIdentifyMoves
<1> SUFFICES ASSUME NEW S, Past(S), NEW pos \in S, Stands(board, pos)
             PROVE  KeysIdentifyMoves
  BY DEF Sound
<1>1. pos \in Positions /\ Playable(pos)
  BY DEF Past
<1>2. \A move \in generateMoves(board) : move \in Moves /\ move.from # move.to
  BY <1>1, MovesFit DEF MoveFits
<1> QED
  BY <1>2, ReadPacked, NoMoveIsNone DEF KeysIdentifyMoves

\* In games of any length from any start position of chess, no two moves share
\* a key and no move's key is that of no move.
THEOREM KeysCorrect == RecordedSpec => []KeysIdentifyMoves
BY AlwaysSound, SoundKeys, PTL

----------------------------------------------------------------------------
(* Attacks.                                                                *)

\* The eight directions.
LEMMA EightSteps ==
    ASSUME NEW step \in Diagonals \cup Verticals
    PROVE  /\ step[1] \in {-1, 0, 1} /\ step[2] \in {-1, 0, 1} /\ step = <<step[1], step[2]>>
           /\ step \in Diagonals <=> step[1] # 0 /\ step[2] # 0
           /\ step \in Verticals <=> (step[1] = 0) # (step[2] = 0)
<1>1. CASE step \in Diagonals
  BY <1>1 DEF Diagonals, Verticals
<1>2. CASE step \in Verticals
  <2>1. step = <<0, 1>> \/ step = <<0, -1>> \/ step = <<-1, 0>> \/ step = <<1, 0>>
    BY <1>2 DEF Verticals
  <2>2. CASE step = <<0, 1>>
    BY <2>2 DEF Diagonals, Verticals
  <2>3. CASE step = <<0, -1>>
    BY <2>3 DEF Diagonals, Verticals
  <2>4. CASE step = <<-1, 0>>
    BY <2>4 DEF Diagonals, Verticals
  <2>5. CASE step = <<1, 0>>
    BY <2>5 DEF Diagonals, Verticals
  <2> QED
    BY <2>1, <2>2, <2>3, <2>4, <2>5
<1> QED
  BY <1>1, <1>2

\* How far k steps lead, without a product.
Shift(r, x, k) == r + (k * x)

Gone(r, x, k) == IF x = 0 THEN r ELSE IF x = 1 THEN r + k ELSE r - k

\* The product-free form is the product, for the directions pieces go in.
LEMMA GoneIs == \A p, n \in Int : \A s \in {-1, 0, 1} : Shift(p, s, n) = Gone(p, s, n)
<1> SUFFICES ASSUME NEW p \in Int, NEW n \in Int, NEW s \in {-1, 0, 1}
             PROVE  Shift(p, s, n) = Gone(p, s, n)
  OBVIOUS
<1>1. n * s = IF s = 0 THEN 0 ELSE IF s = 1 THEN n ELSE -n
  OBVIOUS
<1> QED
  BY <1>1 DEF Gone, Shift

\* The rules' distances and squares between, along a direction.
LEMMA AlongIs ==
    ASSUME NEW a \in Squares, NEW b \in Squares, NEW step \in Diagonals \cup Verticals,
           NEW k \in 1..7, b = Away(a, step, k)
    PROVE  /\ Rules!Distance(a[1], b[1]) = IF step[1] = 0 THEN 0 ELSE k
           /\ Rules!Distance(a[2], b[2]) = IF step[2] = 0 THEN 0 ELSE k
           /\ Rules!Between(a, b) = {Away(a, step, j) : j \in 1..(k - 1)}
<1> DEFINE r == a[1]
           c == a[2]
           x == step[1]
           y == step[2]
           u == b[1]
           v == b[2]
<1>1. r \in 0..7 /\ c \in 0..7 /\ a = <<r, c>> /\ u \in 0..7 /\ v \in 0..7
  BY SquarePairs
<1>2. x \in {-1, 0, 1} /\ y \in {-1, 0, 1} /\ (x # 0 \/ y # 0)
  BY EightSteps
<1>3. u = Gone(r, x, k) /\ v = Gone(c, y, k)
  <2>1. step = <<x, y>>
    BY EightSteps
  <2>2. b = Away(<<r, c>>, <<x, y>>, k)
    BY <1>1, <2>1
  <2> HIDE DEF r, c, x, y
  <2>3. b = <<Gone(r, x, k), Gone(c, y, k)>>
    <3>1. Shift(r, x, k) = Gone(r, x, k) /\ Shift(c, y, k) = Gone(c, y, k)
      BY <1>1, <1>2, GoneIs
    <3> QED
      BY <2>2, <3>1 DEF Away, Shift
  <2> QED
    BY <2>3
<1> DEFINE n == IF u # r THEN Rules!Distance(r, u) ELSE Rules!Distance(c, v)
<1>4. Rules!Between(a, b)
        = {<<r + j * Rules!Sign(u - r), c + j * Rules!Sign(v - c)>> : j \in 1..(n - 1)}
  BY DEF Rules!Between
<1>5. \A j : Away(a, step, j) = <<r + j * x, c + j * y>>
  BY DEF Away
<1> HIDE DEF r, c, x, y, u, v
<1>6. /\ Rules!Distance(r, u) = IF x = 0 THEN 0 ELSE k
      /\ Rules!Distance(c, v) = IF y = 0 THEN 0 ELSE k
  BY <1>1, <1>2, <1>3 DEF Rules!Distance, Gone
<1>7. Rules!Sign(u - r) = x /\ Rules!Sign(v - c) = y
  BY <1>1, <1>2, <1>3 DEF Rules!Sign, Gone
<1>8. n = k
  BY <1>1, <1>2, <1>3, <1>6 DEF Gone
<1> HIDE DEF n
<1>9. Rules!Between(a, b) = {Away(a, step, j) : j \in 1..(k - 1)}
  BY <1>4, <1>5, <1>7, <1>8
<1> QED
  BY <1>6, <1>9 DEF r, c, x, y, u, v

\* The rules' squares on a line are those a direction leads to.
LEMMA LineTo ==
    ASSUME NEW a \in Squares, NEW b \in Squares
    PROVE  LET rows == Rules!Distance(a[1], b[1])
               cols == Rules!Distance(a[2], b[2])
           IN  /\ rows = cols /\ rows > 0 =>
                     \E step \in Diagonals : \E k \in 1..7 : b = Away(a, step, k)
               /\ (rows = 0) # (cols = 0) =>
                     \E step \in Verticals : \E k \in 1..7 : b = Away(a, step, k)
<1> DEFINE r == a[1]
           c == a[2]
           u == b[1]
           v == b[2]
           rows == Rules!Distance(r, u)
           cols == Rules!Distance(c, v)
           x == Rules!Sign(u - r)
           y == Rules!Sign(v - c)
           step == <<x, y>>
<1>1. r \in 0..7 /\ c \in 0..7 /\ a = <<r, c>> /\ u \in 0..7 /\ v \in 0..7 /\ b = <<u, v>>
  BY SquarePairs
<1> HIDE DEF r, c, u, v
<1>2. /\ rows \in 0..7 /\ cols \in 0..7
      /\ rows = 0 <=> x = 0
      /\ cols = 0 <=> y = 0
      /\ x \in {-1, 0, 1} /\ y \in {-1, 0, 1}
      /\ u = Gone(r, x, rows) /\ v = Gone(c, y, cols)
  BY <1>1 DEF Rules!Distance, Rules!Sign, Gone
<1> HIDE DEF rows, cols, x, y
<1>3. step = <<x, y>>
  OBVIOUS
<1>4. /\ x # 0 /\ y # 0 => step \in Diagonals
      /\ x = 0 /\ y # 0 => step \in Verticals
      /\ x # 0 /\ y = 0 => step \in Verticals
  BY <1>2 DEF Diagonals, Verticals
<1> HIDE DEF step
<1>5. ASSUME rows = cols, rows > 0
      PROVE  step \in Diagonals /\ rows \in 1..7 /\ b = Away(a, step, rows)
  <2>1. step \in Diagonals
    BY <1>2, <1>4, <1>5
  <2>2. Away(<<r, c>>, <<x, y>>, rows) = <<Gone(r, x, rows), Gone(c, y, rows)>>
    <3>1. Shift(r, x, rows) = Gone(r, x, rows) /\ Shift(c, y, rows) = Gone(c, y, rows)
      BY <1>1, <1>2, GoneIs
    <3> QED
      BY <3>1 DEF Away, Shift
  <2>3. b = Away(a, step, rows)
    BY <1>1, <1>2, <1>3, <1>5, <2>2
  <2> QED
    BY <1>2, <1>5, <2>1, <2>3
<1>6. ASSUME rows # 0, cols = 0
      PROVE  step \in Verticals /\ rows \in 1..7 /\ b = Away(a, step, rows)
  <2>1. step \in Verticals
    BY <1>2, <1>4, <1>6
  <2>2. Away(<<r, c>>, <<x, y>>, rows) = <<Gone(r, x, rows), Gone(c, y, rows)>>
    <3>1. Shift(r, x, rows) = Gone(r, x, rows) /\ Shift(c, y, rows) = Gone(c, y, rows)
      BY <1>1, <1>2, GoneIs
    <3> QED
      BY <3>1 DEF Away, Shift
  <2>3. Gone(c, y, rows) = Gone(c, y, cols)
    BY <1>2, <1>6 DEF Gone
  <2>4. b = Away(a, step, rows)
    BY <1>1, <1>2, <1>3, <2>2, <2>3
  <2> QED
    BY <1>2, <1>6, <2>1, <2>4
<1>7. ASSUME rows = 0, cols # 0
      PROVE  step \in Verticals /\ cols \in 1..7 /\ b = Away(a, step, cols)
  <2>1. step \in Verticals
    BY <1>2, <1>4, <1>7
  <2>2. Away(<<r, c>>, <<x, y>>, cols) = <<Gone(r, x, cols), Gone(c, y, cols)>>
    <3>1. Shift(r, x, cols) = Gone(r, x, cols) /\ Shift(c, y, cols) = Gone(c, y, cols)
      BY <1>1, <1>2, GoneIs
    <3> QED
      BY <3>1 DEF Away, Shift
  <2>3. Gone(r, x, cols) = Gone(r, x, rows)
    BY <1>2, <1>7 DEF Gone
  <2>4. b = Away(a, step, cols)
    BY <1>1, <1>2, <1>3, <2>2, <2>3
  <2> QED
    BY <1>2, <1>7, <2>1, <2>4
<1>8. /\ rows = cols /\ rows > 0 =>
            \E s \in Diagonals : \E k \in 1..7 : b = Away(a, s, k)
      /\ (rows = 0) # (cols = 0) =>
            \E s \in Verticals : \E k \in 1..7 : b = Away(a, s, k)
  BY <1>5, <1>6, <1>7
<1> QED
  BY <1>8 DEF rows, cols, r, c, u, v

\* The rules' name of a piece.
LEMMA ManIs ==
    ASSUME NEW pce \in Pieces
    PROVE  /\ ManOf(pce)[1] = ColourOf(PceCol(pce))
           /\ ManOf(pce)[2] = "pawn" <=> isPawn(pce)
           /\ ManOf(pce)[2] = "knight" <=> pce \in {WN, BN}
           /\ ManOf(pce)[2] = "bishop" <=> pce \in {WB, BB}
           /\ ManOf(pce)[2] = "rook" <=> pce \in {WR, BR}
           /\ ManOf(pce)[2] = "queen" <=> pce \in {WQ, BQ}
           /\ ManOf(pce)[2] = "king" <=> isKing(pce)
<1> DEFINE kinds == <<"pawn", "knight", "bishop", "rook", "queen", "king">>
           kind == kinds[1 + (pce % 6)]
<1>1. pce \in 0..11
  BY ChessBoardAssumption DEF ChessPieces
<1>2. (pce \in 0..5 /\ pce % 6 = pce) \/ (pce \in 6..11 /\ pce % 6 = pce - 6)
  BY <1>1
<1>3. /\ kinds[1] = "pawn" /\ kinds[2] = "knight" /\ kinds[3] = "bishop"
      /\ kinds[4] = "rook" /\ kinds[5] = "queen" /\ kinds[6] = "king"
  OBVIOUS
<1>4. ManOf(pce) = <<IF pce <= WK THEN "white" ELSE "black", kind>>
  BY DEF ManOf
<1>5. ManOf(pce)[1] = ColourOf(PceCol(pce)) /\ ManOf(pce)[2] = kind
  <2> HIDE DEF kind
  <2> QED
    BY <1>4 DEF ColourOf, PceCol, WHITE, BLACK
<1> HIDE DEF kinds
<1>6. /\ kind = "pawn" <=> pce \in {0, 6}
      /\ kind = "knight" <=> pce \in {1, 7}
      /\ kind = "bishop" <=> pce \in {2, 8}
      /\ kind = "rook" <=> pce \in {3, 9}
      /\ kind = "queen" <=> pce \in {4, 10}
      /\ kind = "king" <=> pce \in {5, 11}
  BY <1>1, <1>2, <1>3
<1> HIDE DEF kind
<1> QED
  BY <1>5, <1>6 DEF isPawn, isKing, WP, BP, WN, BN, WB, BB, WR, BR, WQ, BQ, WK, BK

\* The men of the position a board stands for.
LEMMA PositionIs ==
    ASSUME NEW bd
    PROVE  /\ Rules!Taken(PositionOf(bd)) = Occupied(bd)
           /\ \A sq \in Occupied(bd) :
                 /\ Rules!Kind(PositionOf(bd), sq) = ManOf(bd.mBoard[sq])[2]
                 /\ Rules!Colour(PositionOf(bd), sq) = ManOf(bd.mBoard[sq])[1]
           /\ PositionOf(bd).side = ColourOf(bd.side)
           /\ PositionOf(bd).passed = {bd.enpas} \ {OFFBOARD}
           /\ PositionOf(bd).rights = {RightOf(right) : right \in bd.castlePerm}
<1> DEFINE men == [sq \in Occupied(bd) |-> ManOf(bd.mBoard[sq])]
<1>1. /\ PositionOf(bd).men = men
      /\ PositionOf(bd).side = ColourOf(bd.side)
      /\ PositionOf(bd).passed = {bd.enpas} \ {OFFBOARD}
      /\ PositionOf(bd).rights = {RightOf(right) : right \in bd.castlePerm}
  BY DEF PositionOf
<1>2. DOMAIN men = Occupied(bd) /\ \A sq \in Occupied(bd) : men[sq] = ManOf(bd.mBoard[sq])
  OBVIOUS
<1> HIDE DEF men
<1> QED
  BY <1>1, <1>2 DEF Rules!Taken, Rules!Kind, Rules!Colour

\* The squares at given steps.
LEMMA OffsetIs ==
    ASSUME NEW a \in Squares, NEW b \in Squares, NEW S, S \subseteq Int \X Int
    PROVE  b \in {Offset(a, s) : s \in S} \cap Squares
             <=> <<b[1] - a[1], b[2] - a[2]>> \in S
<1> DEFINE x == a[1]
           y == a[2]
           u == b[1]
           v == b[2]
<1>1. x \in 0..7 /\ y \in 0..7 /\ u \in 0..7 /\ v \in 0..7 /\ b = <<u, v>>
  BY SquarePairs
<1>2. \A s : Offset(a, s) = <<x + s[1], y + s[2]>>
  BY DEF Offset
<1> HIDE DEF x, y, u, v
<1>3. ASSUME NEW s \in S, b = Offset(a, s)
      PROVE  <<u - x, v - y>> \in S
  <2>1. s[1] \in Int /\ s[2] \in Int /\ s = <<s[1], s[2]>>
    OBVIOUS
  <2>2. u = x + s[1] /\ v = y + s[2]
    BY <1>1, <1>2, <1>3
  <2>3. u - x = s[1] /\ v - y = s[2]
    <3> DEFINE p == s[1]
               q == s[2]
    <3>1. p \in Int /\ q \in Int /\ u = x + p /\ v = y + q
      BY <2>1, <2>2
    <3> HIDE DEF p, q
    <3>2. u - x = p /\ v - y = q
      BY <1>1, <3>1
    <3> QED
      BY <3>2 DEF p, q
  <2> QED
    BY <2>1, <2>3
<1>4. ASSUME <<u - x, v - y>> \in S
      PROVE  \E s \in S : b = Offset(a, s)
  <2>1. x + (u - x) = u /\ y + (v - y) = v
    BY <1>1
  <2>2. Offset(a, <<u - x, v - y>>) = b
    BY <1>1, <1>2, <2>1
  <2> QED
    BY <1>4, <2>2
<1>5. b \in {Offset(a, s) : s \in S} \cap Squares <=> <<u - x, v - y>> \in S
  BY <1>3, <1>4
<1> QED
  BY <1>5 DEF x, y, u, v

\* Sliding in one of several directions reaches the squares on an open line.
LEMMA SlidesTo ==
    ASSUME NEW bd, NEW a \in Squares, NEW b \in Squares,
           NEW D \in SUBSET (Diagonals \cup Verticals)
    PROVE  (\E step \in D : b \in Slide(bd, a, step))
             <=> /\ \E step \in D : \E k \in 1..7 : b = Away(a, step, k)
                 /\ Rules!Between(a, b) \cap Occupied(bd) = {}
<1>1. ASSUME NEW step \in D, NEW k \in 1..7, b = Away(a, step, k)
      PROVE  (\A j \in 1..(k - 1) : bd.mBoard[Away(a, step, j)] = NOPIECE)
               <=> Rules!Between(a, b) \cap Occupied(bd) = {}
  <2>1. Rules!Between(a, b) = {Away(a, step, j) : j \in 1..(k - 1)}
    BY <1>1, AlongIs
  <2>2. \A j \in 1..(k - 1) : Away(a, step, j) \in Squares
    <3> SUFFICES ASSUME NEW j \in 1..(k - 1)
                 PROVE  Away(a, step, j) \in Squares
      OBVIOUS
    <3> DEFINE r == a[1]
               c == a[2]
               x == step[1]
               y == step[2]
               u == b[1]
               v == b[2]
    <3>1. /\ r \in 0..7 /\ c \in 0..7 /\ x \in {-1, 0, 1} /\ y \in {-1, 0, 1}
          /\ u \in 0..7 /\ v \in 0..7
      BY SquarePairs, EightSteps
    <3>2. u = Shift(r, x, k) /\ v = Shift(c, y, k)
      BY <1>1 DEF Away, Shift
    <3>3. Away(a, step, j) = <<Shift(r, x, j), Shift(c, y, j)>>
      BY DEF Away, Shift
    <3> HIDE DEF r, c, x, y, u, v
    <3>4. /\ u = Gone(r, x, k) /\ v = Gone(c, y, k)
          /\ Shift(r, x, j) = Gone(r, x, j) /\ Shift(c, y, j) = Gone(c, y, j)
      BY <3>1, <3>2, GoneIs
    <3>5. Shift(r, x, j) \in 0..7 /\ Shift(c, y, j) \in 0..7
      BY <3>1, <3>4 DEF Gone
    <3> QED
      BY <3>3, <3>5, SquarePairs
  <2> QED
    BY <2>1, <2>2 DEF Occupied
<1>2. \A step \in D :
        b \in Slide(bd, a, step)
          <=> \E k \in 1..7 :
                /\ b = Away(a, step, k)
                /\ \A j \in 1..(k - 1) : bd.mBoard[Away(a, step, j)] = NOPIECE
  BY SlideIs
<1> QED
  BY <1>1, <1>2

\* The lines of the rules are the directions of the move generator.
LEMMA LineIs ==
    ASSUME NEW a \in Squares, NEW b \in Squares
    PROVE  LET rows == Rules!Distance(a[1], b[1])
               cols == Rules!Distance(a[2], b[2])
           IN  /\ (rows = cols /\ rows > 0)
                     <=> \E step \in Diagonals : \E k \in 1..7 : b = Away(a, step, k)
               /\ ((rows = 0) # (cols = 0))
                     <=> \E step \in Verticals : \E k \in 1..7 : b = Away(a, step, k)
<1> DEFINE rows == Rules!Distance(a[1], b[1])
           cols == Rules!Distance(a[2], b[2])
<1>1. \A step \in Diagonals \cup Verticals : \A k \in 1..7 : b = Away(a, step, k) =>
        /\ rows = IF step[1] = 0 THEN 0 ELSE k
        /\ cols = IF step[2] = 0 THEN 0 ELSE k
  BY AlongIs
<1>2. /\ rows = cols /\ rows > 0 =>
            \E step \in Diagonals : \E k \in 1..7 : b = Away(a, step, k)
      /\ (rows = 0) # (cols = 0) =>
            \E step \in Verticals : \E k \in 1..7 : b = Away(a, step, k)
  BY LineTo
<1> HIDE DEF rows, cols
<1>3. \A step \in Diagonals : \A k \in 1..7 :
        b = Away(a, step, k) => rows = cols /\ rows > 0
  <2> SUFFICES ASSUME NEW step \in Diagonals, NEW k \in 1..7, b = Away(a, step, k)
               PROVE  rows = cols /\ rows > 0
    OBVIOUS
  <2>1. step[1] # 0 /\ step[2] # 0
    BY EightSteps
  <2>2. rows = k /\ cols = k
    BY <1>1, <2>1
  <2> QED
    BY <2>2
<1>4. \A step \in Verticals : \A k \in 1..7 :
        b = Away(a, step, k) => (rows = 0) # (cols = 0)
  <2> SUFFICES ASSUME NEW step \in Verticals, NEW k \in 1..7, b = Away(a, step, k)
               PROVE  (rows = 0) # (cols = 0)
    OBVIOUS
  <2>1. (step[1] = 0) # (step[2] = 0)
    BY EightSteps
  <2>2. (rows = 0 <=> step[1] = 0) /\ (cols = 0 <=> step[2] = 0)
    BY <1>1
  <2> QED
    BY <2>1, <2>2
<1>5. /\ (rows = cols /\ rows > 0)
            <=> \E step \in Diagonals : \E k \in 1..7 : b = Away(a, step, k)
      /\ ((rows = 0) # (cols = 0))
            <=> \E step \in Verticals : \E k \in 1..7 : b = Away(a, step, k)
  BY <1>2, <1>3, <1>4
<1> QED
  BY <1>5 DEF rows, cols

\* A knight's and a king's steps.
LEMMA ShortSteps ==
    ASSUME NEW a \in Squares, NEW b \in Squares
    PROVE  LET rows == Rules!Distance(a[1], b[1])
               cols == Rules!Distance(a[2], b[2])
           IN  /\ b \in {Offset(a, s) : s \in KnightSteps} \cap Squares
                     <=> {rows, cols} = {1, 2}
               /\ b \in {Offset(a, s) : s \in Diagonals \cup Verticals} \cap Squares
                     <=> a # b /\ rows <= 1 /\ cols <= 1
<1> DEFINE r == a[1]
           c == a[2]
           u == b[1]
           v == b[2]
           rows == Rules!Distance(r, u)
           cols == Rules!Distance(c, v)
           x == u - r
           y == v - c
<1>1. r \in 0..7 /\ c \in 0..7 /\ u \in 0..7 /\ v \in 0..7 /\ a = <<r, c>> /\ b = <<u, v>>
  BY SquarePairs
<1>2. /\ b \in {Offset(a, s) : s \in KnightSteps} \cap Squares <=> <<x, y>> \in KnightSteps
      /\ b \in {Offset(a, s) : s \in Diagonals \cup Verticals} \cap Squares
            <=> <<x, y>> \in Diagonals \cup Verticals
  <2>1. KnightSteps \subseteq Int \X Int
    BY DEF KnightSteps
  <2>2. Diagonals \cup Verticals \subseteq Int \X Int
    BY DEF Diagonals, Verticals
  <2> QED
    BY <2>1, <2>2, OffsetIs
<1> HIDE DEF r, c, u, v
<1>3. /\ x \in Int /\ y \in Int
      /\ rows = (IF x < 0 THEN -x ELSE x) /\ cols = (IF y < 0 THEN -y ELSE y)
      /\ a # b <=> (x # 0 \/ y # 0)
  BY <1>1 DEF Rules!Distance
<1> HIDE DEF x, y, rows, cols
<1>4. <<x, y>> \in KnightSteps
        <=> (x \in {-1, 1} /\ y \in {-2, 2}) \/ (x \in {-2, 2} /\ y \in {-1, 1})
  BY DEF KnightSteps
<1>5. <<x, y>> \in Diagonals \cup Verticals
        <=> \/ x \in {-1, 1} /\ y \in {-1, 1}
            \/ x = 0 /\ y \in {-1, 1}
            \/ x \in {-1, 1} /\ y = 0
  BY DEF Diagonals, Verticals
<1>6. {rows, cols} = {1, 2} <=> (rows = 1 /\ cols = 2) \/ (rows = 2 /\ cols = 1)
  BY <1>3
<1>7. <<x, y>> \in KnightSteps <=> {rows, cols} = {1, 2}
  BY <1>3, <1>4, <1>6
<1>8. <<x, y>> \in Diagonals \cup Verticals <=> a # b /\ rows <= 1 /\ cols <= 1
  <2>1. (rows <= 1 <=> x \in {-1, 0, 1}) /\ (cols <= 1 <=> y \in {-1, 0, 1})
    BY <1>3
  <2> QED
    BY <1>3, <1>5, <2>1
<1>9. /\ b \in {Offset(a, s) : s \in KnightSteps} \cap Squares <=> {rows, cols} = {1, 2}
      /\ b \in {Offset(a, s) : s \in Diagonals \cup Verticals} \cap Squares
            <=> a # b /\ rows <= 1 /\ cols <= 1
  BY <1>2, <1>7, <1>8
<1> QED
  BY <1>9 DEF rows, cols, r, c, u, v

\* A pawn's sides.
LEMMA SidesAre ==
    ASSUME NEW a \in Squares, NEW b \in Squares, NEW pce
    PROVE  b \in PawnSides(pce, a)
             <=> Rules!Distance(a[2], b[2]) = 1 /\ b[1] = a[1] + PawnStep(pce)
<1> DEFINE r == a[1]
           c == a[2]
           u == b[1]
           v == b[2]
           s == PawnStep(pce)
<1>1. r \in 0..7 /\ c \in 0..7 /\ u \in 0..7 /\ v \in 0..7 /\ b = <<u, v>> /\ s \in {-1, 1}
  BY SquarePairs DEF PawnStep
<1>2. b \in PawnSides(pce, a) <=> b = <<r + s, c - 1>> \/ b = <<r + s, c + 1>>
  BY DEF PawnSides
<1> HIDE DEF r, c, u, v, s
<1>3. b \in PawnSides(pce, a) <=> u = r + s /\ (v = c - 1 \/ v = c + 1)
  BY <1>1, <1>2
<1>4. Rules!Distance(c, v) = 1 <=> (v = c - 1 \/ v = c + 1)
  BY <1>1 DEF Rules!Distance
<1>5. b \in PawnSides(pce, a) <=> Rules!Distance(c, v) = 1 /\ u = r + s
  BY <1>3, <1>4
<1> QED
  BY <1>5 DEF r, c, u, v, s

\* What a man reaches is what it attacks by the rules.
LEMMA ReachIsAttack ==
    ASSUME NEW bd, bd.mBoard \in [Squares -> Pieces \cup {NOPIECE}],
           NEW a \in Occupied(bd), NEW b \in Squares
    PROVE  b \in Reach(bd, bd.mBoard[a], a) <=> Rules!Attacks(PositionOf(bd), a, b)
<1> DEFINE pce == bd.mBoard[a]
           rows == Rules!Distance(a[1], b[1])
           cols == Rules!Distance(a[2], b[2])
           straight == (rows = 0) # (cols = 0)
           diagonal == rows = cols /\ rows > 0
           open == Rules!Between(a, b) \cap Occupied(bd) = {}
           kind == ManOf(pce)[2]
<1>1. a \in Squares /\ pce \in Pieces
  BY DEF Occupied
<1>2. /\ Rules!Kind(PositionOf(bd), a) = kind
      /\ Rules!Colour(PositionOf(bd), a) = ColourOf(PceCol(pce))
      /\ Rules!Taken(PositionOf(bd)) = Occupied(bd)
  BY <1>1, PositionIs, ManIs
<1>3. /\ kind = "pawn" => (Rules!Attacks(PositionOf(bd), a, b)
            <=> cols = 1 /\ b[1] = a[1] + Rules!Forward(ColourOf(PceCol(pce))))
      /\ kind = "knight" => (Rules!Attacks(PositionOf(bd), a, b) <=> {rows, cols} = {1, 2})
      /\ kind = "bishop" => (Rules!Attacks(PositionOf(bd), a, b) <=> diagonal /\ open)
      /\ kind = "rook" => (Rules!Attacks(PositionOf(bd), a, b) <=> straight /\ open)
      /\ kind = "queen" =>
            (Rules!Attacks(PositionOf(bd), a, b) <=> (diagonal \/ straight) /\ open)
      /\ kind = "king" =>
            (Rules!Attacks(PositionOf(bd), a, b) <=> a # b /\ rows <= 1 /\ cols <= 1)
  BY <1>2 DEF Rules!Attacks
<1>4. /\ kind = "pawn" <=> isPawn(pce)
      /\ kind = "knight" <=> pce \in {WN, BN}
      /\ kind = "bishop" <=> pce \in {WB, BB}
      /\ kind = "rook" <=> pce \in {WR, BR}
      /\ kind = "queen" <=> pce \in {WQ, BQ}
      /\ kind = "king" <=> isKing(pce)
  BY <1>1, ManIs
<1>5. /\ diagonal <=> \E step \in Diagonals : \E k \in 1..7 : b = Away(a, step, k)
      /\ straight <=> \E step \in Verticals : \E k \in 1..7 : b = Away(a, step, k)
  BY <1>1, LineIs
<1>6. /\ b \in {Offset(a, s) : s \in KnightSteps} \cap Squares <=> {rows, cols} = {1, 2}
      /\ b \in {Offset(a, s) : s \in Diagonals \cup Verticals} \cap Squares
            <=> a # b /\ rows <= 1 /\ cols <= 1
  BY <1>1, ShortSteps
<1>7. b \in PawnSides(pce, a) <=> cols = 1 /\ b[1] = a[1] + PawnStep(pce)
  BY <1>1, SidesAre
<1>8. \A D \in SUBSET (Diagonals \cup Verticals) :
        (\E step \in D : b \in Slide(bd, a, step))
          <=> /\ \E step \in D : \E k \in 1..7 : b = Away(a, step, k)
              /\ open
  BY <1>1, SlidesTo
<1>9. pce \in 0..11
  BY <1>1, ChessBoardAssumption DEF ChessPieces
<1> HIDE DEF pce, kind, rows, cols, straight, diagonal, open
<1>10. CASE isPawn(pce)
  <2>1. PawnStep(pce) = Rules!Forward(ColourOf(PceCol(pce)))
    BY <1>10 DEF isPawn, PawnStep, Rules!Forward, ColourOf, PceCol, WP, BP, WK, WHITE, BLACK
  <2>2. b \in Reach(bd, pce, a) <=> b \in PawnSides(pce, a)
    BY <1>10 DEF Reach
  <2> QED
    BY <1>3, <1>4, <1>7, <1>10, <2>1, <2>2 DEF pce
<1>11. CASE pce \in {WN, BN}
  <2>1. ~isPawn(pce)
    BY <1>11 DEF isPawn, WP, BP, WN, BN
  <2>2. b \in Reach(bd, pce, a) <=> b \in {Offset(a, s) : s \in KnightSteps} \cap Squares
    BY <1>11, <2>1 DEF Reach, Seen
  <2> QED
    BY <1>3, <1>4, <1>6, <1>11, <2>2 DEF pce
<1>12. CASE isKing(pce)
  <2>1. ~isPawn(pce) /\ pce \notin {WN, BN}
    BY <1>12 DEF isPawn, isKing, WP, BP, WN, BN, WK, BK
  <2>2. b \in Reach(bd, pce, a)
          <=> b \in {Offset(a, s) : s \in Diagonals \cup Verticals} \cap Squares
    BY <1>12, <2>1 DEF Reach, Seen
  <2> QED
    BY <1>3, <1>4, <1>6, <1>12, <2>2 DEF pce
<1>13. CASE pce \in {WB, BB, WR, BR, WQ, BQ}
  <2>1. ~isPawn(pce) /\ ~isKing(pce) /\ pce \notin {WN, BN}
    BY <1>13 DEF isPawn, isKing, WP, BP, WN, BN, WK, BK, WB, BB, WR, BR, WQ, BQ
  <2> DEFINE D == (IF doDiag(pce) THEN Diagonals ELSE {})
                     \cup (IF doVert(pce) THEN Verticals ELSE {})
  <2>2. b \in Reach(bd, pce, a) <=> \E step \in D : b \in Slide(bd, a, step)
    BY <2>1 DEF Reach, Seen
  <2>3. D \in SUBSET (Diagonals \cup Verticals)
    OBVIOUS
  <2>4. (\E step \in D : \E k \in 1..7 : b = Away(a, step, k))
          <=> (doDiag(pce) /\ diagonal) \/ (doVert(pce) /\ straight)
    BY <1>5
  <2> HIDE DEF D
  <2>5. b \in Reach(bd, pce, a)
          <=> ((doDiag(pce) /\ diagonal) \/ (doVert(pce) /\ straight)) /\ open
    BY <1>8, <2>2, <2>3, <2>4
  <2>6. /\ doDiag(pce) <=> pce \in {WB, BB} \/ pce \in {WQ, BQ}
        /\ doVert(pce) <=> pce \in {WR, BR} \/ pce \in {WQ, BQ}
    BY DEF doDiag, doVert
  <2>7. CASE pce \in {WB, BB}
    <3>1. doDiag(pce) /\ ~doVert(pce)
      BY <2>6, <2>7 DEF WB, BB, WR, BR, WQ, BQ
    <3> QED
      BY <1>3, <1>4, <2>5, <2>7, <3>1 DEF pce
  <2>8. CASE pce \in {WR, BR}
    <3>1. ~doDiag(pce) /\ doVert(pce)
      BY <2>6, <2>8 DEF WB, BB, WR, BR, WQ, BQ
    <3> QED
      BY <1>3, <1>4, <2>5, <2>8, <3>1 DEF pce
  <2>9. CASE pce \in {WQ, BQ}
    <3>1. doDiag(pce) /\ doVert(pce)
      BY <2>6, <2>9 DEF WB, BB, WR, BR, WQ, BQ
    <3> QED
      BY <1>3, <1>4, <2>5, <2>9, <3>1 DEF pce
  <2> QED
    BY <1>13, <2>7, <2>8, <2>9
<1>14. isPawn(pce) \/ pce \in {WN, BN} \/ isKing(pce) \/ pce \in {WB, BB, WR, BR, WQ, BQ}
  BY <1>9 DEF isPawn, isKing, WP, BP, WN, BN, WK, BK, WB, BB, WR, BR, WQ, BQ
<1> QED
  BY <1>10, <1>11, <1>12, <1>13, <1>14

\* The colours of the two sides.
LEMMA ColoursAre ==
    ASSUME NEW side \in {WHITE, BLACK}
    PROVE  /\ Rules!Other(ColourOf(side)) = ColourOf(1 - side)
           /\ \A other \in {WHITE, BLACK} : ColourOf(other) = ColourOf(side) <=> other = side
           /\ Rules!Forward(ColourOf(side)) = PawnStep(Pawn(side))
           /\ Rules!HomeRow(ColourOf(side)) = IF side = WHITE THEN 7 ELSE 0
BY DEF Rules!Other, ColourOf, Rules!Forward, Rules!HomeRow, PawnStep, Pawn, WHITE, BLACK, WP, BP

\* The men of a side.
LEMMA MenAre ==
    ASSUME NEW bd, bd.mBoard \in [Squares -> Pieces \cup {NOPIECE}],
           NEW side \in {WHITE, BLACK}, NEW sq
    PROVE  sq \in Rules!MenOf(PositionOf(bd), ColourOf(side))
             <=> sq \in Squares /\ bd.mBoard[sq] \in PiecesOf(side)
<1>1. sq \in Rules!MenOf(PositionOf(bd), ColourOf(side))
        <=> sq \in Occupied(bd) /\ ManOf(bd.mBoard[sq])[1] = ColourOf(side)
  BY PositionIs DEF Rules!MenOf
<1>2. sq \in Occupied(bd) <=> sq \in Squares /\ bd.mBoard[sq] \in Pieces
  BY NoPieceAssumption DEF Occupied
<1>3. \A pce \in Pieces : ManOf(pce)[1] = ColourOf(side) <=> pce \in PiecesOf(side)
  <2> SUFFICES ASSUME NEW pce \in Pieces
               PROVE  ManOf(pce)[1] = ColourOf(side) <=> pce \in PiecesOf(side)
    OBVIOUS
  <2>1. ManOf(pce)[1] = ColourOf(PceCol(pce))
    BY ManIs
  <2>2. PceCol(pce) \in {WHITE, BLACK}
    BY DEF PceCol
  <2>3. pce \in PiecesOf(side) <=> PceCol(pce) = side
    BY SidesShare
  <2> QED
    BY <2>1, <2>2, <2>3, ColoursAre
<1>4. PiecesOf(side) \subseteq Pieces
  BY SidesShare
<1> QED
  BY <1>1, <1>2, <1>3, <1>4

\* Whether a square is attacked, by the pieces and by the rules.
LEMMA ThreatIsAttack ==
    ASSUME NEW bd, bd.mBoard \in [Squares -> Pieces \cup {NOPIECE}],
           NEW side \in {WHITE, BLACK}, NEW sq \in Squares
    PROVE  Threatened(bd, sq, side)
             <=> Rules!Attacked(PositionOf(bd), sq, Rules!Other(ColourOf(side)))
<1>1. Rules!Other(ColourOf(side)) = ColourOf(1 - side) /\ 1 - side \in {WHITE, BLACK}
  BY ColoursAre, SidesShare
<1>2. Rules!Attacked(PositionOf(bd), sq, ColourOf(1 - side))
        <=> \E a \in Squares :
              /\ bd.mBoard[a] \in PiecesOf(1 - side)
              /\ Rules!Attacks(PositionOf(bd), a, sq)
  BY <1>1, MenAre DEF Rules!Attacked
<1>3. \A a \in Squares : bd.mBoard[a] \in PiecesOf(1 - side)
        <=> a \in Occupied(bd) /\ bd.mBoard[a] \notin PiecesOf(side)
  <2> SUFFICES ASSUME NEW a \in Squares
               PROVE  bd.mBoard[a] \in PiecesOf(1 - side)
                        <=> a \in Occupied(bd) /\ bd.mBoard[a] \notin PiecesOf(side)
    OBVIOUS
  <2>1. CASE bd.mBoard[a] = NOPIECE
    <3>1. NOPIECE \notin PiecesOf(1 - side)
      BY <1>1, SidesShare
    <3> QED
      BY <2>1, <3>1 DEF Occupied
  <2>2. CASE bd.mBoard[a] # NOPIECE
    <3>1. bd.mBoard[a] \in Pieces /\ a \in Occupied(bd)
      BY <2>2 DEF Occupied
    <3>2. bd.mBoard[a] \in PiecesOf(1 - side) <=> bd.mBoard[a] \notin PiecesOf(side)
      <4>1. \A pce \in Pieces : pce \in PiecesOf(side) <=> pce \notin PiecesOf(1 - side)
        BY SidesShare
      <4> QED
        BY <3>1, <4>1
    <3> QED
      BY <3>1, <3>2
  <2> QED
    BY <2>1, <2>2
<1>4. \A a \in Occupied(bd) : a \in Squares
  BY DEF Occupied
<1>5. \A a \in Occupied(bd) :
        sq \in Reach(bd, bd.mBoard[a], a) <=> Rules!Attacks(PositionOf(bd), a, sq)
  BY ReachIsAttack
<1> QED
  BY <1>1, <1>2, <1>3, <1>4, <1>5 DEF Threatened

\* Whether a side is in check.
LEMMA CheckIsThreat ==
    ASSUME NEW bd, bd.mBoard \in [Squares -> Pieces \cup {NOPIECE}],
           NEW side \in {WHITE, BLACK}
    PROVE  Rules!InCheck(PositionOf(bd), ColourOf(side))
             <=> \E sq \in Squares :
                   bd.mBoard[sq] = King(side) /\ Threatened(bd, sq, side)
<1>1. Rules!InCheck(PositionOf(bd), ColourOf(side))
        <=> \E k \in Squares :
              /\ bd.mBoard[k] \in PiecesOf(side)
              /\ Rules!Kind(PositionOf(bd), k) = "king"
              /\ Rules!Attacked(PositionOf(bd), k, Rules!Other(ColourOf(side)))
  BY MenAre DEF Rules!InCheck
<1>2. \A k \in Squares : bd.mBoard[k] \in PiecesOf(side) =>
        (Rules!Kind(PositionOf(bd), k) = "king" <=> bd.mBoard[k] = King(side))
  <2> SUFFICES ASSUME NEW k \in Squares, bd.mBoard[k] \in PiecesOf(side)
               PROVE  Rules!Kind(PositionOf(bd), k) = "king" <=> bd.mBoard[k] = King(side)
    OBVIOUS
  <2>1. bd.mBoard[k] \in Pieces /\ k \in Occupied(bd)
    BY SidesShare, NoPieceAssumption DEF Occupied
  <2>2. Rules!Kind(PositionOf(bd), k) = ManOf(bd.mBoard[k])[2]
    BY <2>1, PositionIs
  <2>3. ManOf(bd.mBoard[k])[2] = "king" <=> isKing(bd.mBoard[k])
    BY <2>1, ManIs
  <2>4. isKing(bd.mBoard[k]) <=> bd.mBoard[k] = King(side)
    BY PawnsAndKings
  <2> QED
    BY <2>2, <2>3, <2>4
<1>3. King(side) \in PiecesOf(side)
  BY SidesShare
<1> QED
  BY <1>1, <1>2, <1>3, ThreatIsAttack

----------------------------------------------------------------------------
(* Generated moves and the moves of the rules.                             *)

\* What a pawn may become on arriving.
Promotions(bd, to) ==
    IF to[1] = IF bd.side = WHITE THEN 0 ELSE 7
    THEN IF bd.side = WHITE THEN {WN, WB, WR, WQ} ELSE {BN, BB, BR, BQ}
    ELSE {NOPIECE}

\* A pawn's moves one row ahead.
LEMMA PawnMovesAre ==
    ASSUME NEW bd, bd.side \in {WHITE, BLACK}, NEW from, from[1] \in 0..7, NEW to,
           to[1] = from[1] + PawnStep(Pawn(bd.side)), NEW move
    PROVE  move \in PawnMovesTo(bd, Pawn(bd.side), from, to)
             <=> \E promoted \in Promotions(bd, to) : move = getMove(bd, from, to, promoted)
<1>1. CASE bd.side = WHITE
  <2>1. Pawn(bd.side) = WP /\ PawnStep(WP) = -1
    BY <1>1 DEF Pawn, PawnStep
  <2>2. from[1] = 1 <=> to[1] = 0
    BY <2>1
  <2>3. move \in PawnMovesTo(bd, WP, from, to)
          <=> \E promoted \in IF from[1] = 1 THEN {WN, WB, WR, WQ} ELSE {NOPIECE} :
                move = getMove(bd, from, to, promoted)
    BY DEF PawnMovesTo
  <2>4. Promotions(bd, to) = IF to[1] = 0 THEN {WN, WB, WR, WQ} ELSE {NOPIECE}
    BY <1>1 DEF Promotions
  <2> QED
    BY <2>1, <2>2, <2>3, <2>4
<1>2. CASE bd.side = BLACK
  <2>1. Pawn(bd.side) = BP /\ PawnStep(BP) = 1
    BY <1>2 DEF Pawn, PawnStep, WHITE, BLACK, WP, BP
  <2>2. from[1] = 6 <=> to[1] = 7
    BY <2>1
  <2>3. move \in PawnMovesTo(bd, BP, from, to)
          <=> \E promoted \in IF from[1] = 6 THEN {BN, BB, BR, BQ} ELSE {NOPIECE} :
                move = getMove(bd, from, to, promoted)
    BY DEF PawnMovesTo, WP, BP
  <2>4. Promotions(bd, to) = IF to[1] = 7 THEN {BN, BB, BR, BQ} ELSE {NOPIECE}
    BY <1>2 DEF Promotions, WHITE, BLACK
  <2> QED
    BY <2>1, <2>2, <2>3, <2>4
<1> QED
  BY <1>1, <1>2

\* A pawn takes on its two sides.
LEMMA TakesAre ==
    ASSUME NEW bd \in Boards, NEW from \in Squares, NEW move
    PROVE  move \in PawnTakes(bd, Pawn(bd.side), from)
             <=> \E to \in PawnSides(Pawn(bd.side), from) :
                   /\ HasEnemy(bd, to)
                   /\ \E promoted \in Promotions(bd, to) :
                        move = getMove(bd, from, to, promoted)
<1> DEFINE sides == PawnSides(Pawn(bd.side), from)
<1>1. bd.side \in {WHITE, BLACK} /\ from[1] \in 0..7
  BY SquarePairs DEF Boards
<1>2. \A to \in sides : to \in Squares /\ to[1] = from[1] + PawnStep(Pawn(bd.side))
  BY DEF PawnSides
<1>3. \A to \in sides : move \in PawnMovesTo(bd, Pawn(bd.side), from, to)
        <=> \E promoted \in Promotions(bd, to) : move = getMove(bd, from, to, promoted)
  BY <1>1, <1>2, PawnMovesAre
<1> QED
  BY <1>3 DEF PawnTakes

\* It takes in passing where the en passant square is.
LEMMA PassesAre ==
    ASSUME NEW bd \in Boards, Playable(bd), NEW from \in Squares, NEW move
    PROVE  move \in PawnPasses(bd, Pawn(bd.side), from)
             <=> \E to \in PawnSides(Pawn(bd.side), from) :
                   /\ to = bd.enpas
                   /\ \E promoted \in Promotions(bd, to) :
                        move = getMove(bd, from, to, promoted)
<1> DEFINE sides == PawnSides(Pawn(bd.side), from)
           fifth == IF Pawn(bd.side) = WP THEN 3 ELSE 4
<1>1. bd.side \in {WHITE, BLACK} /\ from[1] \in 0..7
  BY SquarePairs DEF Boards
<1>2. \A to \in sides : to \in Squares /\ to[1] = from[1] + PawnStep(Pawn(bd.side))
  BY DEF PawnSides
<1>3. move \in PawnPasses(bd, Pawn(bd.side), from)
        <=> \E to \in sides : /\ from[1] = fifth /\ to = bd.enpas
                              /\ move = getMove(bd, from, to, NOPIECE)
  BY DEF PawnPasses
<1>4. ASSUME NEW to \in sides, to = bd.enpas
      PROVE  from[1] = fifth /\ Promotions(bd, to) = {NOPIECE}
  <2>1. bd.enpas # OFFBOARD /\ to[1] = from[1] + PawnStep(Pawn(bd.side))
    BY <1>2, <1>4, OffboardAssumption
  <2>2. to[1] = IF bd.side = WHITE THEN 2 ELSE 5
    BY <1>4, <2>1 DEF Playable
  <2>3. CASE bd.side = WHITE
    <3>1. fifth = 3 /\ to[1] = 2 /\ PawnStep(Pawn(bd.side)) = -1
      BY <2>2, <2>3 DEF Pawn, PawnStep
    <3> QED
      BY <1>1, <2>1, <2>3, <3>1 DEF Promotions
  <2>4. CASE bd.side = BLACK
    <3>1. fifth = 4 /\ to[1] = 5 /\ PawnStep(Pawn(bd.side)) = 1
      BY <2>2, <2>4 DEF Pawn, PawnStep, WHITE, BLACK, WP, BP
    <3> QED
      BY <1>1, <2>1, <2>4, <3>1 DEF Promotions, WHITE, BLACK
  <2> QED
    BY <1>1, <2>3, <2>4
<1> HIDE DEF sides, fifth
<1>5. move \in PawnPasses(bd, Pawn(bd.side), from)
        <=> \E to \in sides :
              /\ to = bd.enpas
              /\ \E promoted \in Promotions(bd, to) : move = getMove(bd, from, to, promoted)
  BY <1>3, <1>4
<1> QED
  BY <1>5 DEF sides

\* The squares straight ahead to which a pawn may go.
Ahead(bd, from, to) ==
    LET step == PawnStep(Pawn(bd.side))
    IN  /\ to[2] = from[2] /\ bd.mBoard[to] = NOPIECE
        /\ \/ to[1] = from[1] + step
           \/ /\ from[1] = IF bd.side = WHITE THEN 6 ELSE 1
              /\ to[1] = from[1] + 2 * step
              /\ bd.mBoard[<<from[1] + step, from[2]>>] = NOPIECE

\* A pawn's advances are the moves to the squares ahead of it, each with
\* every piece it can become there.
LEMMA AdvancesAre ==
    ASSUME NEW bd \in Boards, NEW from \in Squares, from[1] \in 1..6, NEW move
    PROVE  move \in PawnAdvances(bd, Pawn(bd.side), from)
             <=> \E to \in Squares :
                   /\ Ahead(bd, from, to)
                   /\ \E promoted \in Promotions(bd, to) :
                        move = getMove(bd, from, to, promoted)
<1> DEFINE step == PawnStep(Pawn(bd.side))
           start == IF bd.side = WHITE THEN 6 ELSE 1
           one == <<from[1] + step, from[2]>>
           two == <<from[1] + 2 * step, from[2]>>
           free(sq) == bd.mBoard[sq] = NOPIECE
<1>1. bd.side \in {WHITE, BLACK} /\ from[2] \in 0..7 /\ from = <<from[1], from[2]>>
  BY SquarePairs DEF Boards
<1>2. (bd.side = WHITE /\ step = -1 /\ start = 6 /\ Pawn(bd.side) = WP)
        \/ (bd.side = BLACK /\ step = 1 /\ start = 1 /\ Pawn(bd.side) # WP)
  BY <1>1 DEF PawnStep, Pawn, WHITE, BLACK, WP, BP
<1>3. move \in PawnAdvances(bd, Pawn(bd.side), from)
        <=> \/ free(one) /\ move \in PawnMovesTo(bd, Pawn(bd.side), from, one)
            \/ /\ free(one) /\ from[1] = start /\ free(two)
               /\ move = getMove(bd, from, two, NOPIECE)
  <2>1. Offset(from, <<step, 0>>) = one
    BY <1>1 DEF Offset
  <2>2. Offset(one, <<step, 0>>) = two
    <3>1. (from[1] + step) + step = from[1] + 2 * step
      BY <1>2
    <3>2. from[2] + 0 = from[2]
      BY <1>1
    <3> QED
      BY <3>1, <3>2 DEF Offset
  <2>3. (IF Pawn(bd.side) = WP THEN 6 ELSE 1) = start
    BY <1>2
  <2> HIDE DEF one, two, start, step
  <2> QED
    BY <2>1, <2>2, <2>3 DEF PawnAdvances, step
<1>4. one \in Squares
  <2>1. from[1] + step \in 0..7
    BY <1>2
  <2> QED
    BY <1>1, <2>1, SquarePairs
<1>5. move \in PawnMovesTo(bd, Pawn(bd.side), from, one)
        <=> \E promoted \in Promotions(bd, one) : move = getMove(bd, from, one, promoted)
  <2>1. from[1] \in 0..7 /\ one[1] = from[1] + step
    OBVIOUS
  <2> HIDE DEF one
  <2> QED
    BY <1>1, <2>1, PawnMovesAre
<1>6. ASSUME from[1] = start
      PROVE  two \in Squares /\ Promotions(bd, two) = {NOPIECE}
  <2>1. from[1] + 2 * step \in {3, 4}
    BY <1>2, <1>6
  <2>2. two \in Squares
    <3>1. from[1] + 2 * step \in 0..7
      BY <2>1
    <3> QED
      BY <1>1, <3>1, SquarePairs
  <2>3. two[1] \in {3, 4}
    BY <2>1
  <2> HIDE DEF two
  <2> QED
    BY <2>2, <2>3 DEF Promotions
<1>7. \A to \in Squares : to = <<to[1], to[2]>>
  BY SquarePairs
<1>8. \A to \in Squares : Ahead(bd, from, to)
        <=> \/ to = one /\ free(one)
            \/ to = two /\ free(two) /\ from[1] = start /\ free(one)
  <2> SUFFICES ASSUME NEW to \in Squares
               PROVE  Ahead(bd, from, to)
                        <=> \/ to = one /\ free(one)
                            \/ to = two /\ free(two) /\ from[1] = start /\ free(one)
    OBVIOUS
  <2>1. to = one <=> to[1] = from[1] + step /\ to[2] = from[2]
    BY <1>7
  <2>2. to = two <=> to[1] = from[1] + 2 * step /\ to[2] = from[2]
    BY <1>7
  <2>3. Ahead(bd, from, to)
          <=> /\ to[2] = from[2] /\ free(to)
              /\ \/ to[1] = from[1] + step
                 \/ from[1] = start /\ to[1] = from[1] + 2 * step /\ free(one)
    BY DEF Ahead
  <2> HIDE DEF one, two, start, step
  <2> QED
    BY <2>1, <2>2, <2>3
<1> HIDE DEF one, two, start, step
<1> QED
  BY <1>3, <1>4, <1>5, <1>6, <1>8

\* Straight ahead by the rules.
LEMMA AheadIs ==
    ASSUME NEW bd \in Boards, NEW from \in Squares, from[1] \in 1..6, NEW to \in Squares,
           bd.mBoard[from] = Pawn(bd.side)
    PROVE  Rules!PawnMayGo(PositionOf(bd), from, to)
             <=> \/ /\ to \in PawnSides(Pawn(bd.side), from)
                    /\ to \in Occupied(bd) \/ to = bd.enpas
                 \/ Ahead(bd, from, to)
<1> DEFINE step == PawnStep(Pawn(bd.side))
           start == IF bd.side = WHITE THEN 6 ELSE 1
           pos == PositionOf(bd)
           one == <<from[1] + step, from[2]>>
<1>1. bd.side \in {WHITE, BLACK} /\ bd.mBoard \in [Squares -> Pieces \cup {NOPIECE}]
      /\ from[2] \in 0..7 /\ from = <<from[1], from[2]>>
      /\ to[1] \in 0..7 /\ to[2] \in 0..7 /\ to = <<to[1], to[2]>>
  BY SquarePairs DEF Boards
<1>2. (bd.side = WHITE /\ step = -1 /\ start = 6) \/ (bd.side = BLACK /\ step = 1 /\ start = 1)
  BY <1>1 DEF PawnStep, Pawn, WHITE, BLACK, WP, BP
<1>3. Pawn(bd.side) \in Pieces /\ Pawn(bd.side) # NOPIECE /\ isPawn(Pawn(bd.side))
      /\ PceCol(Pawn(bd.side)) = bd.side /\ from \in Occupied(bd)
  <2>1. Pawn(bd.side) \in PiecesOf(bd.side) /\ NOPIECE \notin PiecesOf(bd.side)
    BY <1>1, SidesShare
  <2>2. Pawn(bd.side) \in Pieces
    BY <1>1, <2>1, SidesShare
  <2> QED
    BY <1>1, <2>1, <2>2, SidesShare, PawnsAndKings DEF Occupied
<1>4. /\ Rules!Taken(pos) = Occupied(bd)
      /\ Rules!Colour(pos, from) = ColourOf(bd.side)
      /\ pos.passed = {bd.enpas} \ {OFFBOARD}
  BY <1>3, PositionIs, ManIs
<1>5. Rules!Forward(ColourOf(bd.side)) = step
      /\ Rules!HomeRow(ColourOf(bd.side)) + step = start
  <2>1. Rules!Forward(ColourOf(bd.side)) = step
    BY <1>1, ColoursAre
  <2>2. Rules!HomeRow(ColourOf(bd.side)) = IF bd.side = WHITE THEN 7 ELSE 0
    BY <1>1, ColoursAre
  <2> QED
    BY <1>2, <2>1, <2>2 DEF WHITE, BLACK
<1>6. Rules!Attacks(pos, from, to) <=> to \in PawnSides(Pawn(bd.side), from)
  <2>1. to \in Reach(bd, bd.mBoard[from], from) <=> Rules!Attacks(pos, from, to)
    BY <1>1, <1>3, ReachIsAttack
  <2> QED
    BY <1>3, <2>1 DEF Reach
<1>7. ASSUME from[2] = to[2], from[1] = start, to[1] = from[1] + 2 * step
      PROVE  Rules!Between(from, to) = {one}
  <2> DEFINE way == <<step, 0>>
  <2>1. way \in Diagonals \cup Verticals
    BY <1>2 DEF Verticals
  <2>2. to = Away(from, way, 2)
    BY <1>1, <1>2, <1>7 DEF Away
  <2>3. Away(from, way, 1) = one
    BY <1>1, <1>2 DEF Away
  <2>4. 2 \in 1..7 /\ 1..(2 - 1) = {1}
    OBVIOUS
  <2> HIDE DEF way, one
  <2>5. Rules!Between(from, to) = {Away(from, way, j) : j \in 1..(2 - 1)}
    BY <2>1, <2>2, <2>4, AlongIs
  <2> QED
    BY <2>3, <2>4, <2>5
<1>8. one \in Squares
  <2>1. from[1] + step \in 0..7
    BY <1>2
  <2> QED
    BY <1>1, <2>1, SquarePairs
<1>9. \A sq \in Squares : sq \notin Occupied(bd) <=> bd.mBoard[sq] = NOPIECE
  BY DEF Occupied
<1>10. Rules!PawnMayGo(pos, from, to)
         <=> \/ Rules!Attacks(pos, from, to) /\ (to \in Occupied(bd) \/ to \in pos.passed)
             \/ /\ from[2] = to[2] /\ to \notin Occupied(bd)
                /\ \/ to[1] = from[1] + step
                   \/ /\ from[1] = start /\ to[1] = from[1] + 2 * step
                      /\ Rules!Between(from, to) \cap Occupied(bd) = {}
  BY <1>4, <1>5 DEF Rules!PawnMayGo
<1>11. to \in pos.passed <=> to = bd.enpas
  BY <1>4, OffboardAssumption
<1>12. Ahead(bd, from, to)
         <=> /\ to[2] = from[2] /\ bd.mBoard[to] = NOPIECE
             /\ \/ to[1] = from[1] + step
                \/ from[1] = start /\ to[1] = from[1] + 2 * step /\ bd.mBoard[one] = NOPIECE
  BY DEF Ahead
<1> HIDE DEF one, step, start, pos
<1>13. ASSUME from[2] = to[2], from[1] = start, to[1] = from[1] + 2 * step
       PROVE  Rules!Between(from, to) \cap Occupied(bd) = {} <=> bd.mBoard[one] = NOPIECE
  BY <1>7, <1>8, <1>9, <1>13
<1> QED
  BY <1>6, <1>9, <1>10, <1>11, <1>12, <1>13 DEF pos

\* Where a man may land.
LEMMA LandsIs ==
    ASSUME NEW bd \in Boards, NEW to \in Squares
    PROVE  /\ CanLand(bd, to) <=> bd.mBoard[to] \notin PiecesOf(bd.side)
           /\ HasEnemy(bd, to) <=> to \in Occupied(bd) /\ CanLand(bd, to)
<1>1. bd.side \in {WHITE, BLACK} /\ bd.mBoard[to] \in Pieces \cup {NOPIECE}
  BY DEF Boards
<1>2. CASE bd.mBoard[to] = NOPIECE
  BY <1>1, <1>2, SidesShare DEF CanLand, HasEnemy, Occupied
<1>3. CASE bd.mBoard[to] # NOPIECE
  <2>1. bd.mBoard[to] \in PiecesOf(bd.side) <=> PceCol(bd.mBoard[to]) = bd.side
    BY <1>1, <1>3, SidesShare
  <2> QED
    BY <1>3, <2>1 DEF CanLand, HasEnemy, Occupied
<1> QED
  BY <1>2, <1>3

\* A pawn's generated moves.
LEMMA PawnGoes ==
    ASSUME NEW bd \in Boards, Playable(bd), NEW from \in Squares,
           bd.mBoard[from] = Pawn(bd.side), NEW move
    PROVE  move \in PieceMoves(bd, Pawn(bd.side), from)
             <=> \E to \in Squares :
                   /\ CanLand(bd, to) /\ Rules!PawnMayGo(PositionOf(bd), from, to)
                   /\ \E promoted \in Promotions(bd, to) :
                        move = getMove(bd, from, to, promoted)
<1> DEFINE P(to) == \E promoted \in Promotions(bd, to) : move = getMove(bd, from, to, promoted)
           sides == PawnSides(Pawn(bd.side), from)
<1>1. isPawn(Pawn(bd.side)) /\ from[1] \in 1..6
  <2>1. isPawn(Pawn(bd.side))
    BY SidesShare, PawnsAndKings DEF Boards
  <2> QED
    BY <2>1 DEF Playable
<1>2. move \in PieceMoves(bd, Pawn(bd.side), from)
        <=> \/ move \in PawnAdvances(bd, Pawn(bd.side), from)
            \/ move \in PawnTakes(bd, Pawn(bd.side), from)
            \/ move \in PawnPasses(bd, Pawn(bd.side), from)
  BY <1>1 DEF PieceMoves, PawnCaptures
<1>3. move \in PawnTakes(bd, Pawn(bd.side), from) <=> \E to \in sides : HasEnemy(bd, to) /\ P(to)
  BY TakesAre
<1>4. move \in PawnPasses(bd, Pawn(bd.side), from) <=> \E to \in sides : to = bd.enpas /\ P(to)
  BY PassesAre
<1>5. move \in PawnAdvances(bd, Pawn(bd.side), from)
        <=> \E to \in Squares : Ahead(bd, from, to) /\ P(to)
  BY <1>1, AdvancesAre
<1>6. \A to \in Squares : Rules!PawnMayGo(PositionOf(bd), from, to)
        <=> \/ to \in sides /\ (to \in Occupied(bd) \/ to = bd.enpas)
            \/ Ahead(bd, from, to)
  BY <1>1, AheadIs
<1>7. \A to \in Squares :
        /\ HasEnemy(bd, to) <=> to \in Occupied(bd) /\ CanLand(bd, to)
        /\ to = bd.enpas => CanLand(bd, to)
        /\ Ahead(bd, from, to) => CanLand(bd, to)
  <2> SUFFICES ASSUME NEW to \in Squares
               PROVE  /\ HasEnemy(bd, to) <=> to \in Occupied(bd) /\ CanLand(bd, to)
                      /\ to = bd.enpas => CanLand(bd, to)
                      /\ Ahead(bd, from, to) => CanLand(bd, to)
    OBVIOUS
  <2>1. to = bd.enpas => bd.mBoard[to] = NOPIECE
    BY OffboardAssumption DEF Playable
  <2>2. Ahead(bd, from, to) => bd.mBoard[to] = NOPIECE
    BY DEF Ahead
  <2>3. bd.mBoard[to] = NOPIECE => CanLand(bd, to)
    BY DEF CanLand
  <2> QED
    BY <2>1, <2>2, <2>3, LandsIs
<1>8. sides \subseteq Squares
  BY DEF PawnSides
<1> HIDE DEF P, sides
<1>9. move \in PieceMoves(bd, Pawn(bd.side), from)
        <=> \E to \in Squares :
              CanLand(bd, to) /\ Rules!PawnMayGo(PositionOf(bd), from, to) /\ P(to)
  BY <1>2, <1>3, <1>4, <1>5, <1>6, <1>7, <1>8
<1> QED
  BY <1>9 DEF P

\* The squares between king and rook, and those the king crosses.
LEMMA CastleWays ==
    ASSUME NEW row \in 0..7
    PROVE  /\ Rules!Between(<<row, 4>>, <<row, 7>>) = {<<row, 5>>, <<row, 6>>}
           /\ Rules!Between(<<row, 4>>, <<row, 6>>) = {<<row, 5>>}
           /\ Rules!Between(<<row, 4>>, <<row, 0>>) = {<<row, 3>>, <<row, 2>>, <<row, 1>>}
           /\ Rules!Between(<<row, 4>>, <<row, 2>>) = {<<row, 3>>}
<1> DEFINE a == <<row, 4>>
           e == <<0, 1>>
           w == <<0, -1>>
<1>1. \A c \in 0..7 : <<row, c>> \in Squares
  BY SquarePairs
<1>2. a \in Squares /\ <<row, 7>> \in Squares /\ <<row, 6>> \in Squares
      /\ <<row, 0>> \in Squares /\ <<row, 2>> \in Squares
  <2>1. 7 \in 0..7 /\ 6 \in 0..7 /\ 0 \in 0..7 /\ 2 \in 0..7 /\ 4 \in 0..7
    OBVIOUS
  <2> QED
    BY <1>1, <2>1
<1>3. e \in Diagonals \cup Verticals /\ w \in Diagonals \cup Verticals
  BY DEF Verticals
<1>4. /\ Away(a, e, 1) = <<row, 5>> /\ Away(a, e, 2) = <<row, 6>> /\ Away(a, e, 3) = <<row, 7>>
      /\ Away(a, w, 1) = <<row, 3>> /\ Away(a, w, 2) = <<row, 2>>
      /\ Away(a, w, 3) = <<row, 1>> /\ Away(a, w, 4) = <<row, 0>>
  BY DEF Away
<1> HIDE DEF a, e, w
<1>5. /\ 2 \in 1..7 /\ 3 \in 1..7 /\ 4 \in 1..7
      /\ 1..(2 - 1) = {1} /\ 1..(3 - 1) = {1, 2} /\ 1..(4 - 1) = {1, 2, 3}
  OBVIOUS
<1>6. Rules!Between(a, <<row, 7>>) = {<<row, 5>>, <<row, 6>>}
  <2>1. Rules!Between(a, <<row, 7>>) = {Away(a, e, j) : j \in 1..(3 - 1)}
    BY <1>2, <1>3, <1>4, <1>5, AlongIs
  <2> QED
    BY <1>4, <1>5, <2>1
<1>7. Rules!Between(a, <<row, 6>>) = {<<row, 5>>}
  <2>1. Rules!Between(a, <<row, 6>>) = {Away(a, e, j) : j \in 1..(2 - 1)}
    BY <1>2, <1>3, <1>4, <1>5, AlongIs
  <2> QED
    BY <1>4, <1>5, <2>1
<1>8. Rules!Between(a, <<row, 0>>) = {<<row, 3>>, <<row, 2>>, <<row, 1>>}
  <2>1. Rules!Between(a, <<row, 0>>) = {Away(a, w, j) : j \in 1..(4 - 1)}
    BY <1>2, <1>3, <1>4, <1>5, AlongIs
  <2> QED
    BY <1>4, <1>5, <2>1
<1>9. Rules!Between(a, <<row, 2>>) = {<<row, 3>>}
  <2>1. Rules!Between(a, <<row, 2>>) = {Away(a, w, j) : j \in 1..(2 - 1)}
    BY <1>2, <1>3, <1>4, <1>5, AlongIs
  <2> QED
    BY <1>4, <1>5, <2>1
<1> QED
  BY <1>6, <1>7, <1>8, <1>9 DEF a

\* A right of the board is a right of the rules.
LEMMA RightsAre ==
    ASSUME NEW bd \in Boards
    PROVE  /\ <<ColourOf(bd.side), "king">> \in PositionOf(bd).rights <=> hasKcPerm(bd)
           /\ <<ColourOf(bd.side), "queen">> \in PositionOf(bd).rights <=> hasQcPerm(bd)
<1>1. bd.castlePerm \subseteq {8, 4, 2, 1} /\ bd.side \in {WHITE, BLACK}
  BY ChessBoardAssumption DEF Boards, WKCA, WQCA, BKCA, BQCA
<1>2. PositionOf(bd).rights = {RightOf(right) : right \in bd.castlePerm}
  BY PositionIs
<1>3. /\ RightOf(8) = <<"white", "king">> /\ RightOf(4) = <<"white", "queen">>
      /\ RightOf(2) = <<"black", "king">> /\ RightOf(1) = <<"black", "queen">>
  BY DEF RightOf, WKCA, WQCA, BKCA, BQCA
<1>4. \A x : x \in PositionOf(bd).rights
        <=> \/ 8 \in bd.castlePerm /\ x = RightOf(8)
            \/ 4 \in bd.castlePerm /\ x = RightOf(4)
            \/ 2 \in bd.castlePerm /\ x = RightOf(2)
            \/ 1 \in bd.castlePerm /\ x = RightOf(1)
  BY <1>1, <1>2
<1>5. CASE bd.side = WHITE
  BY <1>3, <1>4, <1>5 DEF ColourOf, hasKcPerm, hasQcPerm, WKCA, WQCA
<1>6. CASE bd.side = BLACK
  BY <1>3, <1>4, <1>6 DEF ColourOf, hasKcPerm, hasQcPerm, BKCA, BQCA, WHITE, BLACK
<1> QED
  BY <1>1, <1>5, <1>6

\* Castling, by the generator and by the rules.
LEMMA CastlesAre ==
    ASSUME NEW bd \in Boards, ListsMatch(bd), Playable(bd), NEW from \in Squares,
           bd.mBoard[from] = King(bd.side), NEW move
    PROVE  move \in CastleMoves(bd, from)
             <=> \E to \in Squares :
                   /\ CanLand(bd, to) /\ Rules!MayCastle(PositionOf(bd), from, to)
                   /\ move = getMove(bd, from, to, NOPIECE)
<1> DEFINE pos == PositionOf(bd)
           row == IF bd.side = WHITE THEN 7 ELSE 0
           sq(c) == <<row, c>>
           empty(c) == bd.mBoard[sq(c)] = NOPIECE
           safe(c) == ~Threatened(bd, sq(c), bd.side)
           short == /\ from = sq(4) /\ hasKcPerm(bd)
                    /\ empty(5) /\ empty(6) /\ safe(4) /\ safe(5)
           long == /\ from = sq(4) /\ hasQcPerm(bd)
                   /\ empty(3) /\ empty(2) /\ empty(1) /\ safe(4) /\ safe(3)
<1>1. bd.side \in {WHITE, BLACK} /\ bd.mBoard \in [Squares -> Pieces \cup {NOPIECE}]
      /\ bd.castlePerm \subseteq CastleRights /\ row \in 0..7
  BY DEF Boards
<1>2. \A c \in 0..7 : sq(c) \in Squares
  BY <1>1, SquarePairs
<1>3. hasKcPerm(bd) \/ hasQcPerm(bd) => from = sq(4)
  <2>1. \A right \in bd.castlePerm : SideOf(right) = bd.side => from = sq(4)
    BY RightHome
  <2>2. hasKcPerm(bd) => \E right \in bd.castlePerm : SideOf(right) = bd.side
    BY <1>1 DEF hasKcPerm, SideOf, WKCA, WQCA, BKCA, BQCA
  <2>3. hasQcPerm(bd) => \E right \in bd.castlePerm : SideOf(right) = bd.side
    BY <1>1 DEF hasQcPerm, SideOf, WKCA, WQCA, BKCA, BQCA
  <2> QED
    BY <2>1, <2>2, <2>3
<1>4. move \in CastleMoves(bd, from)
        <=> \/ short /\ move = getMove(bd, from, sq(6), NOPIECE)
            \/ long /\ move = getMove(bd, from, sq(2), NOPIECE)
  <2> DEFINE at(c) == <<from[1], from[2] + c>>
  <2>1. move \in CastleMoves(bd, from)
          <=> \/ /\ hasKcPerm(bd)
                 /\ bd.mBoard[at(1)] = NOPIECE /\ bd.mBoard[at(2)] = NOPIECE
                 /\ ~squareAttacked(bd, at(0), bd.side) /\ ~squareAttacked(bd, at(1), bd.side)
                 /\ move = getMove(bd, from, at(2), NOPIECE)
              \/ /\ hasQcPerm(bd)
                 /\ bd.mBoard[at(-1)] = NOPIECE /\ bd.mBoard[at(-2)] = NOPIECE
                 /\ bd.mBoard[at(-3)] = NOPIECE
                 /\ ~squareAttacked(bd, at(0), bd.side) /\ ~squareAttacked(bd, at(-1), bd.side)
                 /\ move = getMove(bd, from, at(-2), NOPIECE)
    BY DEF CastleMoves
  <2>2. from = sq(4) => /\ at(0) = sq(4) /\ at(1) = sq(5) /\ at(2) = sq(6)
                        /\ at(-1) = sq(3) /\ at(-2) = sq(2) /\ at(-3) = sq(1)
    OBVIOUS
  <2>3. \A s : squareAttacked(bd, s, bd.side) <=> Threatened(bd, s, bd.side)
    BY AttackedIsThreatened
  <2> HIDE DEF at, sq
  <2> QED
    BY <1>3, <2>1, <2>2, <2>3
<1>5. \A s \in Squares :
        Rules!Attacked(pos, s, Rules!Other(pos.side)) <=> Threatened(bd, s, bd.side)
  BY <1>1, PositionIs, ThreatIsAttack
<1>6. /\ Rules!HomeRow(pos.side) = row /\ Rules!Taken(pos) = Occupied(bd)
      /\ <<pos.side, "king">> \in pos.rights <=> hasKcPerm(bd)
      /\ <<pos.side, "queen">> \in pos.rights <=> hasQcPerm(bd)
  <2>1. pos.side = ColourOf(bd.side) /\ Rules!Taken(pos) = Occupied(bd)
    BY PositionIs
  <2>2. Rules!HomeRow(ColourOf(bd.side)) = row
    BY <1>1, ColoursAre
  <2> QED
    BY <2>1, <2>2, RightsAre
<1>7. \A s \in Squares : s \in Occupied(bd) <=> bd.mBoard[s] # NOPIECE
  BY DEF Occupied
<1>8. 0 \in 0..7 /\ 1 \in 0..7 /\ 2 \in 0..7 /\ 3 \in 0..7 /\ 4 \in 0..7 /\ 5 \in 0..7
      /\ 6 \in 0..7 /\ 7 \in 0..7
  OBVIOUS
<1>9. /\ sq(1) \in Squares /\ sq(2) \in Squares /\ sq(3) \in Squares /\ sq(4) \in Squares
      /\ sq(5) \in Squares /\ sq(6) \in Squares
  BY <1>2, <1>8
<1>10. /\ Rules!Between(sq(4), sq(7)) = {sq(5), sq(6)}
       /\ Rules!Between(sq(4), sq(6)) = {sq(5)}
       /\ Rules!Between(sq(4), sq(0)) = {sq(3), sq(2), sq(1)}
       /\ Rules!Between(sq(4), sq(2)) = {sq(3)}
  BY <1>1, CastleWays
<1>11. Rules!MayCastle(pos, from, sq(6)) <=> short
  <2>1. Rules!MayCastle(pos, from, sq(6))
          <=> /\ from = sq(4) /\ <<pos.side, "king">> \in pos.rights
              /\ Rules!Between(from, sq(7)) \cap Rules!Taken(pos) = {}
              /\ \A s \in {from} \cup Rules!Between(from, sq(6)) :
                    ~Rules!Attacked(pos, s, Rules!Other(pos.side))
    BY <1>6 DEF Rules!MayCastle
  <2> HIDE DEF sq, pos
  <2> QED
    BY <1>5, <1>6, <1>7, <1>9, <1>10, <2>1
<1>12. Rules!MayCastle(pos, from, sq(2)) <=> long
  <2>1. Rules!MayCastle(pos, from, sq(2))
          <=> /\ from = sq(4) /\ <<pos.side, "queen">> \in pos.rights
              /\ Rules!Between(from, sq(0)) \cap Rules!Taken(pos) = {}
              /\ \A s \in {from} \cup Rules!Between(from, sq(2)) :
                    ~Rules!Attacked(pos, s, Rules!Other(pos.side))
    BY <1>6 DEF Rules!MayCastle
  <2> HIDE DEF sq, pos
  <2> QED
    BY <1>5, <1>6, <1>7, <1>9, <1>10, <2>1
<1>13. \A to : Rules!MayCastle(pos, from, to) => to \in {sq(2), sq(6)}
  BY <1>6 DEF Rules!MayCastle
<1>14. (empty(6) => CanLand(bd, sq(6))) /\ (empty(2) => CanLand(bd, sq(2)))
  BY DEF CanLand
<1> HIDE DEF sq, pos
<1> QED
  BY <1>4, <1>9, <1>11, <1>12, <1>13, <1>14 DEF pos

\* The generated moves of any man.
LEMMA ManGoes ==
    ASSUME NEW bd \in Boards, ListsMatch(bd), Playable(bd), NEW from \in Squares,
           bd.mBoard[from] \in PiecesOf(bd.side), NEW move
    PROVE  move \in PieceMoves(bd, bd.mBoard[from], from)
             <=> \E to \in Squares :
                   /\ CanLand(bd, to) /\ Rules!MayGo(PositionOf(bd), from, to)
                   /\ \E promoted \in IF isPawn(bd.mBoard[from])
                                      THEN Promotions(bd, to) ELSE {NOPIECE} :
                        move = getMove(bd, from, to, promoted)
<1> DEFINE pce == bd.mBoard[from]
           pos == PositionOf(bd)
<1>1. bd.side \in {WHITE, BLACK} /\ pce \in Pieces /\ from \in Occupied(bd)
      /\ bd.mBoard \in [Squares -> Pieces \cup {NOPIECE}]
  BY SidesShare, NoPieceAssumption DEF Boards, Occupied
<1>2. /\ Rules!Kind(pos, from) = "pawn" <=> isPawn(pce)
      /\ Rules!Kind(pos, from) = "king" <=> isKing(pce)
  <2>1. Rules!Kind(pos, from) = ManOf(pce)[2]
    BY <1>1, PositionIs
  <2> HIDE DEF pos, pce
  <2> QED
    BY <1>1, <2>1, ManIs
<1>3. CASE isPawn(pce)
  <2>1. pce = Pawn(bd.side)
    BY <1>1, <1>3, PawnsAndKings
  <2>2. \A to : Rules!MayGo(pos, from, to) <=> Rules!PawnMayGo(pos, from, to)
    BY <1>2, <1>3 DEF Rules!MayGo
  <2> QED
    BY <1>3, <2>1, <2>2, PawnGoes
<1>4. CASE ~isPawn(pce)
  <2>1. \A to \in Squares : to \in Seen(bd, pce, from) <=> Rules!Attacks(pos, from, to)
    BY <1>1, <1>4, ReachIsAttack DEF Reach
  <2>2. Seen(bd, pce, from) \subseteq Squares
    BY SeenSquares
  <2>3. move \in PieceMoves(bd, pce, from)
          <=> \/ \E to \in Seen(bd, pce, from) :
                    CanLand(bd, to) /\ move = getMove(bd, from, to, NOPIECE)
              \/ isKing(pce) /\ move \in CastleMoves(bd, from)
    BY <1>4 DEF PieceMoves
  <2>4. isKing(pce) => (move \in CastleMoves(bd, from)
          <=> \E to \in Squares :
                /\ CanLand(bd, to) /\ Rules!MayCastle(pos, from, to)
                /\ move = getMove(bd, from, to, NOPIECE))
    <3>1. isKing(pce) => pce = King(bd.side)
      BY <1>1, PawnsAndKings
    <3> QED
      BY <3>1, CastlesAre
  <2>5. \A to \in Squares : Rules!MayGo(pos, from, to)
          <=> \/ Rules!Attacks(pos, from, to)
              \/ isKing(pce) /\ Rules!MayCastle(pos, from, to)
    BY <1>2, <1>4 DEF Rules!MayGo
  <2> HIDE DEF pos, pce
  <2>6. move \in PieceMoves(bd, pce, from)
          <=> \E to \in Squares :
                CanLand(bd, to) /\ Rules!MayGo(pos, from, to)
                  /\ move = getMove(bd, from, to, NOPIECE)
    BY <2>1, <2>2, <2>3, <2>4, <2>5
  <2> QED
    BY <1>4, <2>6 DEF pos, pce
<1> QED
  BY <1>3, <1>4

\* What a man may become on arriving.
Becomes(bd, from, to) == IF isPawn(bd.mBoard[from]) THEN Promotions(bd, to) ELSE {NOPIECE}

\* A move of a man of the side to move, as the rules describe it.
Goes(bd, from, to) ==
    /\ bd.mBoard[from] \in PiecesOf(bd.side)
    /\ CanLand(bd, to)
    /\ Rules!MayGo(PositionOf(bd), from, to)

\* The generated moves, man by man.
LEMMA GeneratedAre ==
    ASSUME NEW bd \in Boards, ListsMatch(bd), Playable(bd), NEW move
    PROVE  move \in generateMoves(bd)
             <=> \E from \in Squares : \E to \in Squares :
                   /\ Goes(bd, from, to)
                   /\ \E promoted \in Becomes(bd, from, to) :
                        move = getMove(bd, from, to, promoted)
<1>1. PiecesOf(bd.side) \subseteq Pieces /\ NOPIECE \notin PiecesOf(bd.side)
  BY SidesShare DEF Boards
<1>2. ASSUME move \in generateMoves(bd)
      PROVE  \E from \in Squares : /\ bd.mBoard[from] \in PiecesOf(bd.side)
                                   /\ move \in PieceMoves(bd, bd.mBoard[from], from)
  <2>1. PICK pce \in PiecesOf(bd.side) :
          \E i \in DOMAIN bd.pList[pce] : move \in PieceMoves(bd, pce, bd.pList[pce][i])
    BY <1>2 DEF generateMoves
  <2>2. PICK i \in DOMAIN bd.pList[pce] : move \in PieceMoves(bd, pce, bd.pList[pce][i])
    BY <2>1
  <2>3. bd.pList[pce] \in Seq(Squares)
    BY <1>1 DEF Boards
  <2>4. bd.pList[pce][i] \in Squares /\ bd.mBoard[bd.pList[pce][i]] = pce
    BY <1>1, <2>3 DEF ListsMatch
  <2> QED
    BY <2>2, <2>4
<1>3. ASSUME NEW from \in Squares, bd.mBoard[from] \in PiecesOf(bd.side),
             move \in PieceMoves(bd, bd.mBoard[from], from)
      PROVE  move \in generateMoves(bd)
  <2>1. bd.mBoard[from] # NOPIECE
    BY <1>1, <1>3
  <2>2. PICK i \in 1..Len(bd.pList[bd.mBoard[from]]) : bd.pList[bd.mBoard[from]][i] = from
    BY <2>1 DEF ListsMatch
  <2>3. bd.pList[bd.mBoard[from]] \in Seq(Squares)
    BY <1>1, <1>3 DEF Boards
  <2>4. i \in DOMAIN bd.pList[bd.mBoard[from]]
    BY <2>3
  <2> QED
    BY <1>3, <2>2, <2>4 DEF generateMoves
<1>4. \A from \in Squares : bd.mBoard[from] \in PiecesOf(bd.side) =>
        (move \in PieceMoves(bd, bd.mBoard[from], from)
           <=> \E to \in Squares :
                 /\ CanLand(bd, to) /\ Rules!MayGo(PositionOf(bd), from, to)
                 /\ \E promoted \in Becomes(bd, from, to) :
                      move = getMove(bd, from, to, promoted))
  BY ManGoes DEF Becomes
<1> QED
  BY <1>2, <1>3, <1>4 DEF Goes

\* The rules' moves, man by man.
LEMMA PossibleAre ==
    ASSUME NEW bd \in Boards, NEW move
    PROVE  move \in Rules!PossibleMoves(PositionOf(bd))
             <=> \E from \in Squares : \E to \in Squares :
                   /\ Goes(bd, from, to)
                   /\ \E kind \in Rules!Arrivals(PositionOf(bd), from, to) :
                        move = [from |-> from, to |-> to, kind |-> kind]
<1> DEFINE pos == PositionOf(bd)
           men == Rules!MenOf(pos, pos.side)
<1>1. \A sq : sq \in men <=> sq \in Squares /\ bd.mBoard[sq] \in PiecesOf(bd.side)
  <2>1. bd.side \in {WHITE, BLACK} /\ bd.mBoard \in [Squares -> Pieces \cup {NOPIECE}]
    BY DEF Boards
  <2>2. pos.side = ColourOf(bd.side)
    BY PositionIs
  <2> QED
    BY <2>1, <2>2, MenAre
<1>2. \A sq : sq \in Rules!Chessboard <=> sq \in Squares
  BY ChessBoardAssumption DEF ChessSquares, Rules!Chessboard
<1>3. move \in Rules!PossibleMoves(pos)
        <=> \E a \in men : \E b \in Rules!Chessboard \ men :
              /\ Rules!MayGo(pos, a, b)
              /\ \E kind \in Rules!Arrivals(pos, a, b) :
                   move = [from |-> a, to |-> b, kind |-> kind]
  BY DEF Rules!PossibleMoves
<1>4. \A to \in Squares : CanLand(bd, to) <=> to \notin men
  BY <1>1, LandsIs
<1> HIDE DEF men, pos
<1>5. move \in Rules!PossibleMoves(pos)
        <=> \E from \in Squares : \E to \in Squares :
              /\ bd.mBoard[from] \in PiecesOf(bd.side) /\ CanLand(bd, to)
              /\ Rules!MayGo(pos, from, to)
              /\ \E kind \in Rules!Arrivals(pos, from, to) :
                   move = [from |-> from, to |-> to, kind |-> kind]
  BY <1>1, <1>2, <1>3, <1>4
<1> QED
  BY <1>5 DEF Goes, pos

\* A generated move as a move of the rules.
LEMMA MoveOfIs ==
    ASSUME NEW bd, NEW from, NEW to, NEW promoted
    PROVE  MoveOf(bd, getMove(bd, from, to, promoted))
             = [from |-> from, to |-> to,
                kind |-> ManOf(IF promoted = NOPIECE THEN bd.mBoard[from] ELSE promoted)[2]]
<1> DEFINE move == getMove(bd, from, to, promoted)
<1>1. move.from = from /\ move.to = to /\ move.promoted = promoted
  BY DEF getMove
<1> HIDE DEF move
<1> QED
  BY <1>1 DEF MoveOf, move

\* Arrivals are promotions.
LEMMA ArrivalsAre ==
    ASSUME NEW bd \in Boards, NEW from \in Squares, NEW to \in Squares,
           bd.mBoard[from] \in PiecesOf(bd.side)
    PROVE  /\ \A kind : kind \in Rules!Arrivals(PositionOf(bd), from, to)
                <=> \E promoted \in Becomes(bd, from, to) :
                      kind = ManOf(IF promoted = NOPIECE THEN bd.mBoard[from] ELSE promoted)[2]
           /\ \A p, q \in Becomes(bd, from, to) :
                ManOf(IF p = NOPIECE THEN bd.mBoard[from] ELSE p)[2]
                  = ManOf(IF q = NOPIECE THEN bd.mBoard[from] ELSE q)[2] => p = q
<1> DEFINE pce == bd.mBoard[from]
           pos == PositionOf(bd)
           last == IF bd.side = WHITE THEN 0 ELSE 7
           Kinds(p) == ManOf(IF p = NOPIECE THEN pce ELSE p)[2]
<1>1. bd.side \in {WHITE, BLACK} /\ pce \in Pieces /\ from \in Occupied(bd)
  BY SidesShare, NoPieceAssumption DEF Boards, Occupied
<1>2. Rules!Kind(pos, from) = ManOf(pce)[2] /\ pos.side = ColourOf(bd.side)
  BY <1>1, PositionIs
<1>3. Rules!HomeRow(Rules!Other(ColourOf(bd.side))) = last
  <2>1. Rules!Other(ColourOf(bd.side)) = ColourOf(1 - bd.side) /\ 1 - bd.side \in {WHITE, BLACK}
    BY <1>1, ColoursAre, SidesShare
  <2>2. Rules!HomeRow(ColourOf(1 - bd.side)) = IF 1 - bd.side = WHITE THEN 7 ELSE 0
    BY <2>1, ColoursAre
  <2>3. 1 - bd.side = WHITE <=> bd.side # WHITE
    BY <1>1 DEF WHITE, BLACK
  <2> QED
    BY <2>1, <2>2, <2>3
<1>4. ManOf(pce)[2] = "pawn" <=> isPawn(pce)
  BY <1>1, ManIs
<1>5. Rules!Arrivals(pos, from, to)
        = IF isPawn(pce) /\ to[1] = last
          THEN {"knight", "bishop", "rook", "queen"} ELSE {ManOf(pce)[2]}
  BY <1>2, <1>3, <1>4 DEF Rules!Arrivals
<1>6. Becomes(bd, from, to)
        = IF isPawn(pce) /\ to[1] = last
          THEN IF bd.side = WHITE THEN {WN, WB, WR, WQ} ELSE {BN, BB, BR, BQ}
          ELSE {NOPIECE}
  BY DEF Becomes, Promotions
<1>7. /\ ManOf(WN)[2] = "knight" /\ ManOf(WB)[2] = "bishop"
      /\ ManOf(WR)[2] = "rook" /\ ManOf(WQ)[2] = "queen"
      /\ ManOf(BN)[2] = "knight" /\ ManOf(BB)[2] = "bishop"
      /\ ManOf(BR)[2] = "rook" /\ ManOf(BQ)[2] = "queen"
  BY DEF ManOf, WN, WB, WR, WQ, BN, BB, BR, BQ
<1>8. /\ NOPIECE \notin {WN, WB, WR, WQ, BN, BB, BR, BQ}
      /\ \A p \in {WN, WB, WR, WQ, BN, BB, BR, BQ} : Kinds(p) = ManOf(p)[2]
      /\ Kinds(NOPIECE) = ManOf(pce)[2]
  BY ChessBoardAssumption DEF WN, WB, WR, WQ, BN, BB, BR, BQ
<1> HIDE DEF pce, pos, last, Kinds
<1>9. CASE isPawn(pce) /\ to[1] = last /\ bd.side = WHITE
  <2>1. /\ Kinds(WN) = "knight" /\ Kinds(WB) = "bishop"
        /\ Kinds(WR) = "rook" /\ Kinds(WQ) = "queen"
    BY <1>7, <1>8
  <2>2. Becomes(bd, from, to) = {WN, WB, WR, WQ}
        /\ Rules!Arrivals(pos, from, to) = {"knight", "bishop", "rook", "queen"}
    BY <1>5, <1>6, <1>9
  <2> QED
    BY <2>1, <2>2 DEF Kinds, pos, pce
<1>10. CASE isPawn(pce) /\ to[1] = last /\ bd.side # WHITE
  <2>1. /\ Kinds(BN) = "knight" /\ Kinds(BB) = "bishop"
        /\ Kinds(BR) = "rook" /\ Kinds(BQ) = "queen"
    BY <1>7, <1>8
  <2>2. Becomes(bd, from, to) = {BN, BB, BR, BQ}
        /\ Rules!Arrivals(pos, from, to) = {"knight", "bishop", "rook", "queen"}
    BY <1>5, <1>6, <1>10
  <2> QED
    BY <2>1, <2>2 DEF Kinds, pos, pce
<1>11. CASE ~(isPawn(pce) /\ to[1] = last)
  <2>1. Becomes(bd, from, to) = {NOPIECE}
        /\ Rules!Arrivals(pos, from, to) = {Kinds(NOPIECE)}
    BY <1>5, <1>6, <1>8, <1>11
  <2> QED
    BY <2>1 DEF Kinds, pos, pce
<1> QED
  BY <1>9, <1>10, <1>11

\* The generated moves are the possible moves of the rules, each once.
LEMMA MovesAre ==
    ASSUME NEW bd \in Boards, ListsMatch(bd), Playable(bd)
    PROVE  /\ \A move \in generateMoves(bd) :
                MoveOf(bd, move) \in Rules!PossibleMoves(PositionOf(bd))
           /\ \A move \in Rules!PossibleMoves(PositionOf(bd)) :
                \E made \in generateMoves(bd) : move = MoveOf(bd, made)
           /\ \A m, n \in generateMoves(bd) : MoveOf(bd, m) = MoveOf(bd, n) => m = n
<1> DEFINE pos == PositionOf(bd)
           Kind(from, p) == ManOf(IF p = NOPIECE THEN bd.mBoard[from] ELSE p)[2]
<1>1. \A from, to \in Squares : Goes(bd, from, to) =>
        /\ \A kind : kind \in Rules!Arrivals(pos, from, to)
              <=> \E promoted \in Becomes(bd, from, to) : kind = Kind(from, promoted)
        /\ \A p, q \in Becomes(bd, from, to) : Kind(from, p) = Kind(from, q) => p = q
  BY ArrivalsAre DEF Goes
<1>2. \A from, to, p : MoveOf(bd, getMove(bd, from, to, p))
                         = [from |-> from, to |-> to, kind |-> Kind(from, p)]
  BY MoveOfIs
<1> HIDE DEF pos, Kind
<1>3. \A move \in generateMoves(bd) : MoveOf(bd, move) \in Rules!PossibleMoves(pos)
  <2> SUFFICES ASSUME NEW move \in generateMoves(bd)
               PROVE  MoveOf(bd, move) \in Rules!PossibleMoves(pos)
    OBVIOUS
  <2>1. PICK from \in Squares : \E to \in Squares :
          /\ Goes(bd, from, to)
          /\ \E promoted \in Becomes(bd, from, to) : move = getMove(bd, from, to, promoted)
    BY GeneratedAre
  <2>2. PICK to \in Squares :
          /\ Goes(bd, from, to)
          /\ \E promoted \in Becomes(bd, from, to) : move = getMove(bd, from, to, promoted)
    BY <2>1
  <2>3. PICK promoted \in Becomes(bd, from, to) : move = getMove(bd, from, to, promoted)
    BY <2>2
  <2>4. MoveOf(bd, move) = [from |-> from, to |-> to, kind |-> Kind(from, promoted)]
    BY <1>2, <2>3
  <2>5. Kind(from, promoted) \in Rules!Arrivals(pos, from, to)
    BY <1>1, <2>2
  <2> QED
    BY <2>2, <2>4, <2>5, PossibleAre DEF pos
<1>4. \A move \in Rules!PossibleMoves(pos) :
        \E made \in generateMoves(bd) : move = MoveOf(bd, made)
  <2> SUFFICES ASSUME NEW move \in Rules!PossibleMoves(pos)
               PROVE  \E made \in generateMoves(bd) : move = MoveOf(bd, made)
    OBVIOUS
  <2>1. PICK from \in Squares : \E to \in Squares :
          /\ Goes(bd, from, to)
          /\ \E kind \in Rules!Arrivals(pos, from, to) :
               move = [from |-> from, to |-> to, kind |-> kind]
    BY PossibleAre DEF pos
  <2>2. PICK to \in Squares :
          /\ Goes(bd, from, to)
          /\ \E kind \in Rules!Arrivals(pos, from, to) :
               move = [from |-> from, to |-> to, kind |-> kind]
    BY <2>1
  <2>3. PICK kind \in Rules!Arrivals(pos, from, to) :
          move = [from |-> from, to |-> to, kind |-> kind]
    BY <2>2
  <2>4. PICK promoted \in Becomes(bd, from, to) : kind = Kind(from, promoted)
    BY <1>1, <2>2
  <2>5. getMove(bd, from, to, promoted) \in generateMoves(bd)
    BY <2>2, GeneratedAre
  <2> QED
    BY <1>2, <2>3, <2>4, <2>5
<1>5. \A m, n \in generateMoves(bd) : MoveOf(bd, m) = MoveOf(bd, n) => m = n
  <2> SUFFICES ASSUME NEW m \in generateMoves(bd), NEW n \in generateMoves(bd),
                      MoveOf(bd, m) = MoveOf(bd, n)
               PROVE  m = n
    OBVIOUS
  <2>1. PICK from \in Squares : \E to \in Squares :
          /\ Goes(bd, from, to)
          /\ \E p \in Becomes(bd, from, to) : m = getMove(bd, from, to, p)
    BY GeneratedAre
  <2>2. PICK to \in Squares :
          /\ Goes(bd, from, to)
          /\ \E p \in Becomes(bd, from, to) : m = getMove(bd, from, to, p)
    BY <2>1
  <2>3. PICK p \in Becomes(bd, from, to) : m = getMove(bd, from, to, p)
    BY <2>2
  <2>4. PICK a \in Squares : \E b \in Squares :
          /\ Goes(bd, a, b)
          /\ \E q \in Becomes(bd, a, b) : n = getMove(bd, a, b, q)
    BY GeneratedAre
  <2>5. PICK b \in Squares :
          /\ Goes(bd, a, b)
          /\ \E q \in Becomes(bd, a, b) : n = getMove(bd, a, b, q)
    BY <2>4
  <2>6. PICK q \in Becomes(bd, a, b) : n = getMove(bd, a, b, q)
    BY <2>5
  <2>7. [from |-> from, to |-> to, kind |-> Kind(from, p)]
          = [from |-> a, to |-> b, kind |-> Kind(a, q)]
    BY <1>2, <2>3, <2>6
  <2>8. a = from /\ b = to /\ Kind(from, p) = Kind(a, q)
    BY <2>7
  <2>9. p = q
    BY <1>1, <2>2, <2>6, <2>8
  <2> QED
    BY <2>3, <2>6, <2>8, <2>9
<1> QED
  BY <1>3, <1>4, <1>5 DEF pos

\* What the flags of a move say.
FlagsTell(bd, move) ==
    LET pce == bd.mBoard[move.from]
        a == move.from
        b == move.to
    IN  /\ move.castle <=> isKing(pce) /\ Rules!Distance(a[2], b[2]) = 2
        /\ move.pawnstart <=> isPawn(pce) /\ Rules!Distance(a[1], b[1]) = 2
        /\ move.enpas <=> isPawn(pce) /\ b = bd.enpas
        /\ move.enpas => a[1] = Behind(b, bd.side)[1]

\* The flags of every generated move say what kind of move it is.
LEMMA FlagsAre ==
    ASSUME NEW bd \in Boards, ListsMatch(bd), Playable(bd), NEW move \in generateMoves(bd)
    PROVE  FlagsTell(bd, move)
<1>1. PICK from \in Squares : \E to \in Squares :
        /\ Goes(bd, from, to)
        /\ \E promoted \in Becomes(bd, from, to) : move = getMove(bd, from, to, promoted)
  BY GeneratedAre
<1>2. PICK to \in Squares :
        /\ Goes(bd, from, to)
        /\ \E promoted \in Becomes(bd, from, to) : move = getMove(bd, from, to, promoted)
  BY <1>1
<1>3. PICK promoted \in Becomes(bd, from, to) : move = getMove(bd, from, to, promoted)
  BY <1>2
<1> DEFINE pce == bd.mBoard[from]
           rows == Rules!Distance(from[1], to[1])
           cols == Rules!Distance(from[2], to[2])
<1>4. /\ bd.side \in {WHITE, BLACK} /\ pce \in Pieces /\ pce \in PiecesOf(bd.side)
      /\ from \in Occupied(bd) /\ bd.mBoard \in [Squares -> Pieces \cup {NOPIECE}]
  BY <1>2, SidesShare, NoPieceAssumption DEF Goes, Boards, Occupied
<1>5. promoted \in Pieces \cup {NOPIECE}
  <2>1. Becomes(bd, from, to) \subseteq {WN, WB, WR, WQ, BN, BB, BR, BQ} \cup {NOPIECE}
    BY DEF Becomes, Promotions
  <2>2. {WN, WB, WR, WQ, BN, BB, BR, BQ} \subseteq Pieces
    BY ChessBoardAssumption DEF ChessPieces, WN, WB, WR, WQ, BN, BB, BR, BQ
  <2> QED
    BY <2>1, <2>2
<1>6. /\ move.from = from /\ move.to = to
      /\ move.enpas <=> (isPawn(pce) /\ to = bd.enpas /\ from[1] \in {3, 4})
      /\ move.pawnstart <=> (isPawn(pce) /\ (to[1] = from[1] + 2 \/ to[1] = from[1] - 2))
      /\ move.castle <=> (isKing(pce) /\ from[2] = 4 /\ to[2] \in {2, 6})
  BY <1>3, <1>5, MoveFields
<1>7. /\ from[1] \in 0..7 /\ from[2] \in 0..7 /\ from = <<from[1], from[2]>>
      /\ to[1] \in 0..7 /\ to[2] \in 0..7 /\ to = <<to[1], to[2]>>
  BY SquarePairs
<1>8. rows = 2 <=> (to[1] = from[1] + 2 \/ to[1] = from[1] - 2)
  BY <1>7 DEF Rules!Distance
<1>9. cols = 2 <=> (to[2] = from[2] + 2 \/ to[2] = from[2] - 2)
  BY <1>7 DEF Rules!Distance
<1>10. move.castle <=> isKing(pce) /\ cols = 2
  <2>1. move.castle => isKing(pce) /\ cols = 2
    BY <1>6, <1>9
  <2>2. ASSUME isKing(pce), cols = 2
        PROVE  move.castle
    <3>1. ManOf(pce)[2] = "king" /\ Rules!Kind(PositionOf(bd), from) = "king"
      BY <1>4, <2>2, ManIs, PositionIs
    <3>2. ~Rules!Attacks(PositionOf(bd), from, to)
      <4>1. Rules!Attacks(PositionOf(bd), from, to) => cols <= 1
        BY <3>1 DEF Rules!Attacks
      <4> QED
        BY <2>2, <4>1
    <3>3. Rules!MayCastle(PositionOf(bd), from, to)
      BY <1>2, <3>1, <3>2 DEF Goes, Rules!MayGo
    <3>4. from[2] = 4 /\ to[2] \in {2, 6}
      BY <3>3 DEF Rules!MayCastle
    <3> QED
      BY <1>6, <2>2, <3>4
  <2> QED
    BY <2>1, <2>2
<1>11. ASSUME isPawn(pce), to = bd.enpas
       PROVE  from[1] \in {3, 4} /\ from[1] = Behind(to, bd.side)[1]
  <2>1. pce = Pawn(bd.side) /\ from[1] \in 1..6
    BY <1>4, <1>11, PawnsAndKings DEF Playable
  <2>2. Rules!Kind(PositionOf(bd), from) = "pawn"
    BY <1>4, <1>11, ManIs, PositionIs
  <2>3. Rules!PawnMayGo(PositionOf(bd), from, to)
    BY <1>2, <2>2 DEF Goes, Rules!MayGo
  <2>4. \/ to \in PawnSides(Pawn(bd.side), from)
        \/ Ahead(bd, from, to)
    BY <2>1, <2>3, AheadIs
  <2>5. /\ to[1] = IF bd.side = WHITE THEN 2 ELSE 5
        /\ bd.mBoard[<<IF bd.side = WHITE THEN 3 ELSE 4, to[2]>>] = Pawn(1 - bd.side)
    <3>1. bd.enpas # OFFBOARD
      BY <1>11, OffboardAssumption
    <3> QED
      BY <1>11, <3>1 DEF Playable
  <2> DEFINE step == PawnStep(Pawn(bd.side))
  <2>6. step = IF bd.side = WHITE THEN -1 ELSE 1
    BY <1>4 DEF PawnStep, Pawn, WHITE, BLACK, WP, BP
  <2>7. Behind(to, bd.side)[1] = IF bd.side = WHITE THEN 3 ELSE 4
    BY <1>4, <2>5 DEF Behind, WHITE, BLACK
  <2>8. ASSUME to[1] = from[1] + step
        PROVE  from[1] = IF bd.side = WHITE THEN 3 ELSE 4
    BY <1>4, <1>7, <2>5, <2>6, <2>8
  <2>9. CASE to \in PawnSides(Pawn(bd.side), from)
    <3>1. to[1] = from[1] + step
      BY <2>9 DEF PawnSides
    <3> HIDE DEF step
    <3> QED
      BY <1>4, <2>7, <2>8, <3>1
  <2>10. CASE Ahead(bd, from, to)
    <3>1. /\ to[2] = from[2]
          /\ \/ to[1] = from[1] + step
             \/ /\ from[1] = IF bd.side = WHITE THEN 6 ELSE 1
                /\ to[1] = from[1] + 2 * step
      BY <2>10 DEF Ahead
    <3>2. to[1] # from[1] + step
      <4> SUFFICES ASSUME to[1] = from[1] + step
                   PROVE  FALSE
        OBVIOUS
      <4>1. from[1] = IF bd.side = WHITE THEN 3 ELSE 4
        BY <2>8
      <4>2. <<IF bd.side = WHITE THEN 3 ELSE 4, to[2]>> = from
        BY <1>7, <3>1, <4>1
      <4>3. Pawn(bd.side) = Pawn(1 - bd.side)
        BY <2>1, <2>5, <4>2
      <4> QED
        BY <1>4, <4>3, SidesShare
    <3>3. ~(/\ from[1] = IF bd.side = WHITE THEN 6 ELSE 1
            /\ to[1] = from[1] + 2 * step)
      BY <1>4, <2>5, <2>6
    <3> QED
      BY <3>1, <3>2, <3>3
  <2> QED
    BY <2>4, <2>9, <2>10
<1> HIDE DEF rows, cols
<1>12. /\ move.castle <=> isKing(pce) /\ cols = 2
       /\ move.pawnstart <=> isPawn(pce) /\ rows = 2
       /\ move.enpas <=> isPawn(pce) /\ to = bd.enpas
       /\ move.enpas => from[1] = Behind(to, bd.side)[1]
  BY <1>6, <1>8, <1>10, <1>11
<1> QED
  BY <1>6, <1>12 DEF FlagsTell, rows, cols

\* The rights a square holds.
LEMMA RightsAtIs ==
    ASSUME NEW right \in CastleRights, NEW sq
    PROVE  RightOf(right) \in Rules!RightsAt(sq)
             <=> sq = KingHome(right) \/ sq = RookHome(right)
<1>1. right \in {8, 4, 2, 1}
  BY ChessBoardAssumption DEF WKCA, WQCA, BKCA, BQCA
<1>2. CASE right = 8
  BY <1>2 DEF RightOf, Rules!RightsAt, Rules!HomeRow, Rules!Colours, KingHome, RookHome,
              WKCA, WQCA, BKCA, BQCA
<1>3. CASE right = 4
  BY <1>3 DEF RightOf, Rules!RightsAt, Rules!HomeRow, Rules!Colours, KingHome, RookHome,
              WKCA, WQCA, BKCA, BQCA
<1>4. CASE right = 2
  BY <1>4 DEF RightOf, Rules!RightsAt, Rules!HomeRow, Rules!Colours, KingHome, RookHome,
              WKCA, WQCA, BKCA, BQCA
<1>5. CASE right = 1
  BY <1>5 DEF RightOf, Rules!RightsAt, Rules!HomeRow, Rules!Colours, KingHome, RookHome,
              WKCA, WQCA, BKCA, BQCA
<1> QED
  BY <1>1, <1>2, <1>3, <1>4, <1>5

\* The rights a move loses.
LEMMA LostAre ==
    ASSUME NEW right \in CastleRights, NEW side \in {WHITE, BLACK}, NEW pce, NEW move,
           move.from \in Squares, move.to \in Squares
    PROVE  right \in RightsLost(side, pce, move)
             <=> \/ isKing(pce) /\ SideOf(right) = side
                 \/ move.from = RookHome(right) \/ move.to = RookHome(right)
<1>1. right \in {8, 4, 2, 1}
  BY ChessBoardAssumption DEF WKCA, WQCA, BKCA, BQCA
<1>2. \A sq \in Squares : (sq \in Corners /\ CornerRight(sq) = right) <=> sq = RookHome(right)
  <2> SUFFICES ASSUME NEW sq \in Squares
               PROVE  (sq \in Corners /\ CornerRight(sq) = right) <=> sq = RookHome(right)
    OBVIOUS
  <2> DEFINE r == sq[1]
             c == sq[2]
  <2>1. r \in 0..7 /\ c \in 0..7 /\ sq = <<r, c>>
    BY SquarePairs
  <2>2. CornerRight(sq) = IF r = 7 THEN IF c = 7 THEN 8 ELSE 4 ELSE IF c = 7 THEN 2 ELSE 1
    BY DEF CornerRight, WKCA, WQCA, BKCA, BQCA
  <2> HIDE DEF r, c
  <2>3. sq \in Corners <=> r \in {0, 7} /\ c \in {0, 7}
    BY <2>1 DEF Corners
  <2>4. RookHome(right) = <<IF right \in {8, 4} THEN 7 ELSE 0, IF right \in {8, 2} THEN 7 ELSE 0>>
    BY DEF RookHome, KingHome, WKCA, WQCA, BKCA, BQCA
  <2>5. sq = RookHome(right)
          <=> r = (IF right \in {8, 4} THEN 7 ELSE 0) /\ c = (IF right \in {8, 2} THEN 7 ELSE 0)
    BY <2>1, <2>4
  <2> QED
    BY <1>1, <2>1, <2>2, <2>3, <2>5
<1>3. right \in (IF ~isKing(pce) THEN {}
                 ELSE IF side = WHITE THEN {WKCA, WQCA} ELSE {BKCA, BQCA})
        <=> isKing(pce) /\ SideOf(right) = side
  BY <1>1 DEF SideOf, WKCA, WQCA, BKCA, BQCA, WHITE, BLACK
<1>4. right \in {CornerRight(sq) : sq \in {move.from, move.to} \cap Corners}
        <=> move.from = RookHome(right) \/ move.to = RookHome(right)
  BY <1>2
<1> QED
  BY <1>3, <1>4 DEF RightsLost

\* The rights after a move, by the rules.
LEMMA RightsAfter ==
    ASSUME NEW pos \in Positions, Playable(pos), NEW move, MoveFits(pos, move)
    PROVE  PositionOf(Made(pos, move)).rights
             = PositionOf(pos).rights
                 \ (Rules!RightsAt(move.from) \cup Rules!RightsAt(move.to))
<1> DEFINE a == move.from
           b == move.to
           pce == pos.mBoard[a]
           lost == RightsLost(pos.side, pce, move)
           gone == Rules!RightsAt(a) \cup Rules!RightsAt(b)
<1>1. /\ a \in Squares /\ b \in Squares /\ pos.side \in {WHITE, BLACK}
      /\ pce \in PiecesOf(pos.side)
  BY MoveSquares DEF MoveFits
<1>2. pos.castlePerm \subseteq CastleRights
  BY DEF Positions
<1>3. ASSUME NEW right \in pos.castlePerm
      PROVE  right \in lost <=> RightOf(right) \in gone
  <2>1. right \in CastleRights /\ SideOf(right) \in {WHITE, BLACK}
    BY <1>2 DEF SideOf
  <2>2. right \in lost
          <=> \/ isKing(pce) /\ SideOf(right) = pos.side
              \/ a = RookHome(right) \/ b = RookHome(right)
    BY <1>1, <2>1, LostAre
  <2>3. RightOf(right) \in gone
          <=> \/ a = KingHome(right) \/ a = RookHome(right)
              \/ b = KingHome(right) \/ b = RookHome(right)
    BY <2>1, RightsAtIs
  <2>4. pos.mBoard[KingHome(right)] = King(SideOf(right))
    BY DEF Playable
  <2>5. KingHome(right) \in Squares
    <3>1. KingHome(right)[1] \in 0..7 /\ KingHome(right) = <<KingHome(right)[1], 4>> /\ 4 \in 0..7
      BY DEF KingHome
    <3> QED
      BY <3>1, SquarePairs
  <2>6. ASSUME isKing(pce), SideOf(right) = pos.side
        PROVE  a = KingHome(right)
    <3>1. pce = King(pos.side)
      BY <1>1, <2>6, PawnsAndKings
    <3>2. PICK k \in Squares : {x \in Squares : pos.mBoard[x] = King(pos.side)} = {k}
      BY <1>1 DEF Playable
    <3> QED
      BY <1>1, <2>4, <2>5, <2>6, <3>1, <3>2
  <2>7. ASSUME a = KingHome(right)
        PROVE  isKing(pce) /\ SideOf(right) = pos.side
    <3>1. pce = King(SideOf(right))
      BY <2>4, <2>7
    <3>2. King(SideOf(right)) \in PiecesOf(SideOf(right))
          /\ isKing(King(SideOf(right)))
      BY <2>1, SidesShare, PawnsAndKings
    <3>3. SideOf(right) = pos.side
      <4>1. PiecesOf(pos.side) \subseteq Pieces
        BY <1>1, SidesShare
      <4>2. PceCol(pce) = pos.side /\ PceCol(pce) = SideOf(right)
        BY <1>1, <2>1, <3>1, <3>2, <4>1, SidesShare
      <4> QED
        BY <4>2
    <3> QED
      BY <3>1, <3>2, <3>3
  <2>8. b # KingHome(right)
    <3> SUFFICES ASSUME b = KingHome(right)
                 PROVE  FALSE
      OBVIOUS
    <3>1. pos.mBoard[b] = King(SideOf(right))
      BY <2>4
    <3>2. pos.mBoard[b] = NOPIECE
            \/ pos.mBoard[b] \in PiecesOf(1 - pos.side) \ {King(1 - pos.side)}
      BY TwoSquares
    <3>3. SideOf(right) = pos.side \/ SideOf(right) = 1 - pos.side
      BY <1>1, <2>1 DEF WHITE, BLACK
    <3>4. /\ King(pos.side) \in PiecesOf(pos.side) /\ NOPIECE \notin PiecesOf(pos.side)
          /\ 1 - pos.side \in {WHITE, BLACK} /\ PiecesOf(pos.side) \subseteq Pieces
          /\ King(1 - pos.side) \in PiecesOf(1 - pos.side)
          /\ NOPIECE \notin PiecesOf(1 - pos.side)
      BY <1>1, SidesShare
    <3>5. King(pos.side) \notin PiecesOf(1 - pos.side)
      BY <1>1, <3>4, SidesShare
    <3> QED
      BY <3>1, <3>2, <3>3, <3>4, <3>5
  <2> QED
    BY <2>2, <2>3, <2>6, <2>7, <2>8
<1>4. PositionOf(Made(pos, move)).rights = {RightOf(right) : right \in pos.castlePerm \ lost}
  <2>1. Made(pos, move).castlePerm = pos.castlePerm \ lost
    BY DEF Made
  <2> QED
    BY <2>1, PositionIs
<1>5. PositionOf(pos).rights = {RightOf(right) : right \in pos.castlePerm}
  BY PositionIs
<1> HIDE DEF lost, gone
<1> QED
  BY <1>3, <1>4, <1>5 DEF gone

\* The square a pawn passes over, by the rules.
LEMMA PassedAfter ==
    ASSUME NEW pos \in Positions, NEW move, MoveFits(pos, move)
    PROVE  PositionOf(Made(pos, move)).passed
             = IF move.pawnstart THEN Rules!Between(move.from, move.to) ELSE {}
<1> DEFINE new == Made(pos, move)
<1>1. new.enpas = IF move.pawnstart THEN Behind(move.to, pos.side) ELSE OFFBOARD
  BY DEF Made
<1>2. PositionOf(new).passed = {new.enpas} \ {OFFBOARD}
  BY PositionIs
<1> HIDE DEF new
<1>3. CASE ~move.pawnstart
  BY <1>1, <1>2, <1>3 DEF new
<1>4. CASE move.pawnstart
  <2> DEFINE a == move.from
             b == move.to
             c == a[2]
             step == IF pos.side = WHITE THEN <<-1, 0>> ELSE <<1, 0>>
             mid == <<IF pos.side = WHITE THEN 5 ELSE 2, c>>
  <2>1. /\ a \in Squares /\ b \in Squares /\ c \in 0..7
        /\ a = <<IF pos.side = WHITE THEN 6 ELSE 1, c>>
        /\ b = <<IF pos.side = WHITE THEN 4 ELSE 3, c>>
    BY <1>4, MoveSquares, SquarePairs DEF MoveFits, StartFits
  <2>2. Behind(b, pos.side) \in Squares
        /\ Behind(b, pos.side) = <<IF pos.side = WHITE THEN 5 ELSE 2, b[2]>>
    BY <1>4, StartBehind
  <2>3. b[2] = c
    BY <2>1
  <2>4. step \in Diagonals \cup Verticals
    BY DEF Verticals
  <2>5. Away(a, step, 1) = mid /\ Away(a, step, 2) = b
    <3> HIDE DEF c
    <3>1. CASE pos.side = WHITE
      <4>1. a = <<6, c>> /\ b = <<4, c>> /\ step = <<-1, 0>> /\ mid = <<5, c>>
        BY <2>1, <3>1
      <4> QED
        BY <2>1, <4>1 DEF Away
    <3>2. CASE pos.side # WHITE
      <4>1. a = <<1, c>> /\ b = <<3, c>> /\ step = <<1, 0>> /\ mid = <<2, c>>
        BY <2>1, <3>2
      <4> QED
        BY <2>1, <4>1 DEF Away
    <3> QED
      BY <3>1, <3>2
  <2>6. 2 \in 1..7 /\ 1..(2 - 1) = {1}
    OBVIOUS
  <2>7. Behind(b, pos.side) = mid
    BY <2>2, <2>3
  <2> HIDE DEF a, b, step, mid
  <2>8. Rules!Between(a, b) = {mid}
    <3>1. Rules!Between(a, b) = {Away(a, step, j) : j \in 1..(2 - 1)}
      BY <2>1, <2>4, <2>5, <2>6, AlongIs
    <3> QED
      BY <2>5, <2>6, <3>1
  <2>9. PositionOf(new).passed = {mid}
    BY <1>1, <1>2, <1>4, <2>2, <2>7, OffboardAssumption DEF b
  <2> QED
    BY <1>4, <2>8, <2>9 DEF a, b, new
<1> QED
  BY <1>3, <1>4

\* The squares that a move leaves empty, and those it fills, by the rules.
Corner(move) == <<move.from[1], IF move.to[2] = 6 THEN 7 ELSE 0>>

Beside(move) == <<move.from[1], IF move.to[2] = 6 THEN 5 ELSE 3>>

Emptied(move) ==
    {move.from} \cup (IF move.enpas THEN {<<move.from[1], move.to[2]>>} ELSE {})
                \cup (IF move.castle THEN {Corner(move)} ELSE {})

Filled(move) == {move.to} \cup (IF move.castle THEN {Beside(move)} ELSE {})

\* The men after a move, by the rules: where they are, and which they are.
LEMMA MenAfter ==
    ASSUME NEW pos \in Positions, NEW move, MoveFits(pos, move), FlagsTell(pos, move)
    PROVE  /\ Occupied(Made(pos, move)) = (Occupied(pos) \ Emptied(move)) \cup Filled(move)
           /\ \A sq \in Occupied(Made(pos, move)) :
                Made(pos, move).mBoard[sq]
                  = IF sq = move.to THEN Placed(pos, move)
                    ELSE IF sq \in Filled(move) THEN Rook(pos.side) ELSE pos.mBoard[sq]
<1> DEFINE corner == Corner(move)
           beside == Beside(move)
           gone == Emptied(move)
           come == Filled(move)
           victim == IF move.enpas THEN {<<move.from[1], move.to[2]>>} ELSE {}
           a == move.from
           b == move.to
           new == Made(pos, move).mBoard
           back == Behind(b, pos.side)
           from == RookCorner(pos.side, b)
           to == RookLanding(pos.side, b)
<1>1. /\ a \in Squares /\ b \in Squares /\ a # b /\ pos.side \in {WHITE, BLACK}
      /\ pos.mBoard[a] # NOPIECE /\ Placed(pos, move) # NOPIECE
  BY MoveSquares
<1>2. Rook(pos.side) # NOPIECE
  BY <1>1, SidesShare
<1>3. \A sq \in Squares :
        new[sq] = IF sq = b THEN Placed(pos, move)
                  ELSE IF sq = a THEN NOPIECE
                  ELSE IF move.enpas /\ sq = back THEN NOPIECE
                  ELSE IF move.castle /\ sq = from THEN NOPIECE
                  ELSE IF move.castle /\ sq = to THEN Rook(pos.side)
                  ELSE pos.mBoard[sq]
  BY DEF Made, MadeSquares, SpecialSquares
<1>4. ASSUME move.enpas
      PROVE  ~move.castle /\ back = <<a[1], b[2]>> /\ pos.mBoard[b] = NOPIECE
             /\ back \in Squares
  <2>1. ~move.castle /\ move.captured = NOPIECE /\ back \in Squares
    BY <1>4 DEF MoveFits, EnpasFits
  <2>2. a[1] = back[1]
    BY <1>4 DEF FlagsTell
  <2>3. back = <<back[1], b[2]>>
    BY DEF Behind
  <2>4. pos.mBoard[b] = NOPIECE
    BY <2>1 DEF MoveFits, CaptureFits
  <2> QED
    BY <2>1, <2>2, <2>3, <2>4
<1>5. ASSUME move.castle
      PROVE  /\ from = corner /\ to = beside /\ from # to
             /\ to # a /\ to # b /\ from # b /\ from # a
             /\ from \in Squares /\ to \in Squares
  <2> DEFINE row == IF pos.side = WHITE THEN 7 ELSE 0
  <2>1. a = <<row, 4>> /\ b \in {<<row, 2>>, <<row, 6>>}
    BY <1>5 DEF MoveFits, CastleFits
  <2>2. /\ from = <<row, IF b[2] = 2 THEN 0 ELSE 7>>
        /\ to = <<row, IF b[2] = 2 THEN 3 ELSE 5>>
        /\ corner = <<a[1], IF b[2] = 6 THEN 7 ELSE 0>>
        /\ beside = <<a[1], IF b[2] = 6 THEN 5 ELSE 3>>
    BY DEF RookCorner, RookLanding, Corner, Beside
  <2>3. a[1] = row /\ (b[2] = 2 \/ b[2] = 6) /\ b = <<row, b[2]>>
    BY <2>1
  <2>4. from \in Squares /\ to \in Squares
    BY RookSquares
  <2> HIDE DEF row
  <2>5. CASE b[2] = 2
    BY <2>1, <2>2, <2>3, <2>4, <2>5
  <2>6. CASE b[2] = 6
    BY <2>1, <2>2, <2>3, <2>4, <2>6
  <2> QED
    BY <2>3, <2>5, <2>6
<1>6. \A sq : sq \in Occupied(Made(pos, move)) <=> sq \in Squares /\ new[sq] # NOPIECE
  BY DEF Occupied
<1>7. \A sq : sq \in Occupied(pos) <=> sq \in Squares /\ pos.mBoard[sq] # NOPIECE
  BY DEF Occupied
<1> HIDE DEF new, back, from, to, a, b
<1>8. gone = {a} \cup victim \cup (IF move.castle THEN {corner} ELSE {})
      /\ come = {b} \cup (IF move.castle THEN {beside} ELSE {})
      /\ victim = IF move.enpas THEN {<<a[1], b[2]>>} ELSE {}
  BY DEF a, b, Emptied, Filled
<1> HIDE DEF corner, beside, gone, come, victim
<1>9. CASE move.enpas
  <2>1. gone = {a, back} /\ come = {b} /\ back # b
    <3>1. back # b
      <4>1. b[1] \in 0..7 /\ back = <<b[1] + (IF pos.side = WHITE THEN 1 ELSE -1), b[2]>>
        BY <1>1, SquarePairs DEF back, Behind
      <4> QED
        BY <4>1
    <3> QED
      BY <1>4, <1>8, <1>9, <3>1
  <2>2. ~move.castle /\ back \in Squares
    BY <1>4, <1>9
  <2>3. \A sq \in Squares :
          new[sq] = IF sq = b THEN Placed(pos, move)
                    ELSE IF sq = a \/ sq = back THEN NOPIECE ELSE pos.mBoard[sq]
    BY <1>3, <1>9, <2>2
  <2>4. Occupied(Made(pos, move)) = (Occupied(pos) \ gone) \cup come
    BY <1>1, <1>6, <1>7, <2>1, <2>3
  <2>5. \A sq \in Occupied(Made(pos, move)) :
          new[sq] = IF sq = b THEN Placed(pos, move)
                    ELSE IF sq \in come THEN Rook(pos.side) ELSE pos.mBoard[sq]
    BY <1>6, <2>1, <2>3
  <2> QED
    BY <2>4, <2>5 DEF new, b, gone, come
<1>10. CASE move.castle
  <2>1. ~move.enpas
    BY <1>4, <1>10
  <2>2. gone = {a, from} /\ come = {b, to}
    BY <1>5, <1>8, <1>10, <2>1
  <2>3. \A sq \in Squares :
          new[sq] = IF sq = b THEN Placed(pos, move)
                    ELSE IF sq = a \/ sq = from THEN NOPIECE
                    ELSE IF sq = to THEN Rook(pos.side) ELSE pos.mBoard[sq]
    BY <1>3, <1>10, <2>1
  <2>4. Occupied(Made(pos, move)) = (Occupied(pos) \ gone) \cup come
    BY <1>1, <1>2, <1>5, <1>6, <1>7, <1>10, <2>2, <2>3
  <2>5. \A sq \in Occupied(Made(pos, move)) :
          new[sq] = IF sq = b THEN Placed(pos, move)
                    ELSE IF sq \in come THEN Rook(pos.side) ELSE pos.mBoard[sq]
    BY <1>5, <1>6, <1>10, <2>2, <2>3
  <2> QED
    BY <2>4, <2>5 DEF new, b, gone, come
<1>11. CASE ~move.enpas /\ ~move.castle
  <2>1. gone = {a} /\ come = {b}
    BY <1>8, <1>11
  <2>2. \A sq \in Squares :
          new[sq] = IF sq = b THEN Placed(pos, move)
                    ELSE IF sq = a THEN NOPIECE ELSE pos.mBoard[sq]
    BY <1>3, <1>11
  <2>3. Occupied(Made(pos, move)) = (Occupied(pos) \ gone) \cup come
    BY <1>1, <1>6, <1>7, <2>1, <2>2
  <2>4. \A sq \in Occupied(Made(pos, move)) :
          new[sq] = IF sq = b THEN Placed(pos, move)
                    ELSE IF sq \in come THEN Rook(pos.side) ELSE pos.mBoard[sq]
    BY <1>6, <2>1, <2>2
  <2> QED
    BY <2>3, <2>4 DEF new, b, gone, come
<1> QED
  BY <1>9, <1>10, <1>11

\* A move leads where the rules say.
LEMMA AfterIs ==
    ASSUME NEW pos \in Positions, Playable(pos), NEW move, MoveFits(pos, move),
           FlagsTell(pos, move)
    PROVE  PositionOf(Made(pos, move)) = Rules!After(PositionOf(pos), MoveOf(pos, move))
<1> DEFINE old == PositionOf(pos)
           new == Made(pos, move)
           m == MoveOf(pos, move)
           a == move.from
           b == move.to
           pce == pos.mBoard[a]
           corner == Corner(move)
           beside == Beside(move)
           gone == Emptied(move)
           come == Filled(move)
           men == [sq \in (Occupied(pos) \ gone) \cup come |->
                     IF sq = b THEN <<old.side, m.kind>>
                     ELSE IF sq \in come THEN <<old.side, "rook">>
                     ELSE old.men[sq]]
<1>1. /\ a \in Squares /\ b \in Squares /\ pos.side \in {WHITE, BLACK}
      /\ pce \in Pieces /\ pce # NOPIECE /\ a \in Occupied(pos)
      /\ Placed(pos, move) \in Pieces /\ Placed(pos, move) \in PiecesOf(pos.side)
  BY MoveSquares DEF Occupied
<1>2. m.from = a /\ m.to = b /\ m.kind = ManOf(Placed(pos, move))[2]
  BY DEF MoveOf, Placed
<1>3. /\ Rules!Kind(old, a) = ManOf(pce)[2]
      /\ Rules!Taken(old) = Occupied(pos)
      /\ old.side = ColourOf(pos.side)
      /\ old.passed = {pos.enpas} \ {OFFBOARD}
  BY <1>1, PositionIs
<1>4. /\ Rules!Kind(old, a) = "king" <=> isKing(pce)
      /\ Rules!Kind(old, a) = "pawn" <=> isPawn(pce)
  <2> HIDE DEF pce, old
  <2> QED
    BY <1>1, <1>3, ManIs
<1>5. /\ (Rules!Kind(old, a) = "king" /\ Rules!Distance(a[2], b[2]) = 2) <=> move.castle
      /\ (Rules!Kind(old, a) = "pawn" /\ Rules!Distance(a[1], b[1]) = 2) <=> move.pawnstart
      /\ (Rules!Kind(old, a) = "pawn" /\ b \in old.passed) <=> move.enpas
  <2>1. /\ move.castle <=> isKing(pce) /\ Rules!Distance(a[2], b[2]) = 2
        /\ move.pawnstart <=> isPawn(pce) /\ Rules!Distance(a[1], b[1]) = 2
        /\ move.enpas <=> isPawn(pce) /\ b = pos.enpas
    BY DEF FlagsTell
  <2>2. b \in old.passed <=> b = pos.enpas
    BY <1>1, <1>3, OffboardAssumption
  <2> HIDE DEF a, b, pce, old
  <2> QED
    BY <1>4, <2>1, <2>2
<1>6. Rules!After(old, m)
        = [men    |-> men,
           side   |-> Rules!Other(old.side),
           rights |-> old.rights \ (Rules!RightsAt(a) \cup Rules!RightsAt(b)),
           passed |-> IF move.pawnstart THEN Rules!Between(a, b) ELSE {}]
  <2> DEFINE castles == Rules!Kind(old, a) = "king" /\ Rules!Distance(a[2], b[2]) = 2
             starts == Rules!Kind(old, a) = "pawn" /\ Rules!Distance(a[1], b[1]) = 2
             passes == Rules!Kind(old, a) = "pawn" /\ b \in old.passed
             lost == {a} \cup (IF passes THEN {<<a[1], b[2]>>} ELSE {})
                         \cup (IF castles THEN {corner} ELSE {})
             put == {b} \cup (IF castles THEN {beside} ELSE {})
  <2>1. Rules!After(old, m)
          = [men |-> [sq \in (Rules!Taken(old) \ lost) \cup put |->
                        IF sq = b THEN <<old.side, m.kind>>
                        ELSE IF sq \in put THEN <<old.side, "rook">>
                        ELSE old.men[sq]],
             side |-> Rules!Other(old.side),
             rights |-> old.rights \ (Rules!RightsAt(a) \cup Rules!RightsAt(b)),
             passed |-> IF starts THEN Rules!Between(a, b) ELSE {}]
    <3>1. /\ corner = <<a[1], IF b[2] = 6 THEN 7 ELSE 0>>
          /\ beside = <<a[1], IF b[2] = 6 THEN 5 ELSE 3>>
      BY DEF Corner, Beside
    <3> HIDE DEF m, a, b, old, corner, beside
    <3> QED
      BY <1>2, <3>1 DEF Rules!After
  <2>2. (castles <=> move.castle) /\ (starts <=> move.pawnstart) /\ (passes <=> move.enpas)
    BY <1>5
  <2> HIDE DEF castles, starts, passes, m, old
  <2>3. lost = gone /\ put = come
    BY <2>2 DEF Emptied, Filled, a, b, corner, beside
  <2> HIDE DEF lost, put, gone, come, a, b
  <2> QED
    BY <1>3, <2>1, <2>2, <2>3
<1>7. /\ Occupied(new) = (Occupied(pos) \ gone) \cup come
      /\ \A sq \in Occupied(new) :
            new.mBoard[sq] = IF sq = b THEN Placed(pos, move)
                             ELSE IF sq \in come THEN Rook(pos.side) ELSE pos.mBoard[sq]
  BY MenAfter
<1>8. /\ ManOf(Placed(pos, move)) = <<old.side, m.kind>>
      /\ ManOf(Rook(pos.side)) = <<old.side, "rook">>
  <2>1. \A pce1 \in PiecesOf(pos.side) : ManOf(pce1) = <<ColourOf(pos.side), ManOf(pce1)[2]>>
    <3> SUFFICES ASSUME NEW pce1 \in PiecesOf(pos.side)
                 PROVE  ManOf(pce1) = <<ColourOf(pos.side), ManOf(pce1)[2]>>
      OBVIOUS
    <3>1. pce1 \in Pieces /\ PceCol(pce1) = pos.side
      BY <1>1, SidesShare
    <3>2. ManOf(pce1)[1] = ColourOf(pos.side)
      BY <3>1, ManIs
    <3>3. ManOf(pce1) = <<ManOf(pce1)[1], ManOf(pce1)[2]>>
      BY DEF ManOf
    <3> QED
      BY <3>2, <3>3
  <2>2. Rook(pos.side) \in PiecesOf(pos.side)
    BY <1>1, SidesShare
  <2>3. Rook(pos.side) \in {WR, BR} /\ Rook(pos.side) \in Pieces
    BY <1>1, <2>2, SidesShare DEF Rook
  <2>4. ManOf(Rook(pos.side))[2] = "rook"
    BY <2>3, ManIs
  <2> QED
    BY <1>1, <1>2, <1>3, <2>1, <2>2, <2>4
<1>9. \A sq \in Occupied(pos) : old.men[sq] = ManOf(pos.mBoard[sq])
  BY DEF PositionOf
<1>10. [sq \in Occupied(new) |-> ManOf(new.mBoard[sq])] = men
  <2> DEFINE f == [sq \in Occupied(new) |-> ManOf(new.mBoard[sq])]
  <2>1. DOMAIN f = Occupied(new) /\ DOMAIN men = Occupied(new)
    BY <1>7
  <2>2. ASSUME NEW sq \in Occupied(new)
        PROVE  f[sq] = men[sq]
    <3>1. f[sq] = ManOf(new.mBoard[sq])
      OBVIOUS
    <3>2. men[sq] = IF sq = b THEN <<old.side, m.kind>>
                    ELSE IF sq \in come THEN <<old.side, "rook">> ELSE old.men[sq]
      BY <1>7
    <3>3. sq # b /\ sq \notin come => sq \in Occupied(pos)
      BY <1>7
    <3> HIDE DEF f, men, come, m, old, b, new
    <3> QED
      BY <1>7, <1>8, <1>9, <3>1, <3>2, <3>3
  <2>3. f = [sq \in Occupied(new) |-> f[sq]] /\ men = [sq \in Occupied(new) |-> men[sq]]
    BY <1>7
  <2> HIDE DEF f, men
  <2> QED
    BY <2>1, <2>2, <2>3 DEF f
<1>11. new.side = 1 - pos.side
  BY DEF Made
<1>12. PositionOf(new)
         = [men    |-> [sq \in Occupied(new) |-> ManOf(new.mBoard[sq])],
            side   |-> ColourOf(new.side),
            rights |-> PositionOf(new).rights,
            passed |-> PositionOf(new).passed]
  BY DEF PositionOf
<1>13. ColourOf(new.side) = Rules!Other(old.side)
  BY <1>1, <1>3, <1>11, ColoursAre
<1>14. PositionOf(new).rights = old.rights \ (Rules!RightsAt(a) \cup Rules!RightsAt(b))
  BY RightsAfter
<1>15. PositionOf(new).passed = IF move.pawnstart THEN Rules!Between(a, b) ELSE {}
  BY PassedAfter
<1> HIDE DEF old, new, m, a, b, men
<1> QED
  BY <1>6, <1>10, <1>12, <1>13, <1>14, <1>15 DEF old, new, m

\* A board says the same as the position it stands for.
LEMMA SameView ==
    ASSUME NEW pos \in Positions, NEW bd, Stands(bd, pos)
    PROVE  /\ PositionOf(bd) = PositionOf(pos)
           /\ \A move : MoveOf(bd, move) = MoveOf(pos, move)
           /\ \A move : FlagsTell(bd, move) <=> FlagsTell(pos, move)
<1>1. /\ bd.mBoard = pos.mBoard /\ bd.side = pos.side
      /\ bd.castlePerm = pos.castlePerm /\ bd.enpas = pos.enpas
  BY StandsFields
<1>2. Occupied(bd) = Occupied(pos)
  BY <1>1 DEF Occupied
<1>3. PositionOf(bd) = PositionOf(pos)
  BY <1>1, <1>2 DEF PositionOf
<1>4. \A move : MoveOf(bd, move) = MoveOf(pos, move)
  BY <1>1 DEF MoveOf
<1>5. \A move : FlagsTell(bd, move) <=> FlagsTell(pos, move)
  BY <1>1 DEF FlagsTell
<1> QED
  BY <1>3, <1>4, <1>5

\* makeMove accepts a generated move that leaves no check to its own side.
LEMMA LegalIs ==
    ASSUME NEW pos \in Positions, Playable(pos), NEW bd, Stands(bd, pos),
           NEW move \in generateMoves(bd)
    PROVE  makeMove(bd, move).legal
             <=> ~Rules!InCheck(Rules!After(PositionOf(bd), MoveOf(bd, move)),
                                PositionOf(bd).side)
<1> DEFINE after == Made(pos, move)
<1>1. MoveFits(pos, move)
  BY MovesFit
<1>2. FlagsTell(bd, move)
  BY StandsFields, PlayableSame, FlagsAre
<1>3. PositionOf(after) = Rules!After(PositionOf(bd), MoveOf(bd, move))
  BY <1>1, <1>2, SameView, AfterIs
<1>4. after \in Positions
  BY <1>1, MadePosition
<1>5. after.mBoard \in [Squares -> Pieces \cup {NOPIECE}] /\ pos.side \in {WHITE, BLACK}
      /\ PositionOf(bd).side = ColourOf(pos.side)
  <2>1. PositionOf(bd).side = ColourOf(pos.side)
    BY SameView DEF PositionOf
  <2> HIDE DEF after
  <2> QED
    BY <1>4, <2>1 DEF Positions
<1>6. makeMove(bd, move).legal
        <=> \A sq \in Squares : after.mBoard[sq] = King(pos.side)
                                  => ~Threatened(after, sq, pos.side)
  BY <1>1, MakeMoveJudges
<1> HIDE DEF after
<1>7. Rules!InCheck(PositionOf(after), ColourOf(pos.side))
        <=> \E sq \in Squares :
              after.mBoard[sq] = King(pos.side) /\ Threatened(after, sq, pos.side)
  BY <1>5, CheckIsThreat
<1> QED
  BY <1>3, <1>5, <1>6, <1>7

\* A sound board accepts the legal moves.
LEMMA SoundMoves == Sound => AcceptsLegalMoves
<1> SUFFICES ASSUME NEW S, Past(S), NEW pos \in S, Stands(board, pos)
             PROVE  AcceptsLegalMoves
  BY DEF Sound
<1> DEFINE all == generateMoves(board)
           accepted == {move \in all : makeMove(board, move).legal}
           moves == {MoveOf(board, move) : move \in accepted}
           view == PositionOf(board)
<1>1. pos \in Positions /\ Playable(pos)
  BY DEF Past
<1>2. board \in Boards /\ ListsMatch(board) /\ Playable(board)
  BY <1>1, StandsFields, PlayableSame
<1>3. /\ \A move \in all : MoveOf(board, move) \in Rules!PossibleMoves(view)
      /\ \A move \in Rules!PossibleMoves(view) :
           \E made \in all : move = MoveOf(board, made)
      /\ \A m, n \in all : MoveOf(board, m) = MoveOf(board, n) => m = n
  BY <1>2, MovesAre
<1>4. \A move \in all : makeMove(board, move).legal
        <=> ~Rules!InCheck(Rules!After(view, MoveOf(board, move)), view.side)
  BY <1>1, LegalIs
<1>5. IsFiniteSet(accepted)
  <2>1. all \subseteq Moves
    BY <1>1, MovesFit DEF MoveFits
  <2>2. accepted \subseteq Moves
    BY <2>1
  <2> HIDE DEF accepted
  <2> QED
    BY <2>2, MovesFinite, FS_Subset
<1> HIDE DEF all, view
<1>6. moves = Rules!LegalMoves(view)
  <2>1. ASSUME NEW move \in moves
        PROVE  move \in Rules!LegalMoves(view)
    BY <1>3, <1>4 DEF Rules!LegalMoves
  <2>2. ASSUME NEW move \in Rules!LegalMoves(view)
        PROVE  move \in moves
    <3>1. /\ move \in Rules!PossibleMoves(view)
          /\ ~Rules!InCheck(Rules!After(view, move), view.side)
      BY DEF Rules!LegalMoves
    <3>2. PICK made \in all : move = MoveOf(board, made)
      BY <1>3, <3>1
    <3>3. made \in accepted
      BY <1>4, <3>1, <3>2
    <3> QED
      BY <3>2, <3>3
  <2> QED
    BY <2>1, <2>2
<1>7. Cardinality(moves) = Cardinality(accepted)
  <2> DEFINE f == [move \in accepted |-> MoveOf(board, move)]
  <2>1. f \in [accepted -> moves] /\ \A move \in accepted : f[move] = MoveOf(board, move)
    OBVIOUS
  <2>2. \A move \in moves : \E made \in accepted : move = MoveOf(board, made)
    OBVIOUS
  <2>3. accepted \subseteq all
    OBVIOUS
  <2> HIDE DEF f, accepted, moves
  <2>4. \A m, n \in accepted : f[m] = f[n] => m = n
    BY <1>3, <2>1, <2>3
  <2>5. \A move \in moves : \E made \in accepted : f[made] = move
    BY <2>1, <2>2
  <2>6. f \in Bijection(accepted, moves)
    BY <2>1, <2>4, <2>5 DEF Bijection, Injection, Surjection, IsInjective
  <2> QED
    BY <1>5, <2>6, FS_Bijection DEF ExistsBijection
<1> QED
  BY <1>6, <1>7 DEF AcceptsLegalMoves, all, view

\* In games of any length from any start position of chess, of the generated
\* moves makeMove accepts exactly the legal ones, each once.
THEOREM MovesCorrect == RecordedSpec => []AcceptsLegalMoves
BY AlwaysSound, SoundMoves, PTL

\* A side is in check when its king is attacked.
LEMMA CheckIs ==
    ASSUME NEW pos \in Positions, Playable(pos), NEW bd, Stands(bd, pos)
    PROVE  squareAttacked(bd, getKing(bd, bd.side), bd.side)
             <=> Rules!InCheck(PositionOf(bd), ColourOf(bd.side))
<1>1. bd \in Boards /\ ListsMatch(bd) /\ Playable(bd)
  BY StandsFields, PlayableSame
<1>2. bd.side \in {WHITE, BLACK} /\ bd.mBoard \in [Squares -> Pieces \cup {NOPIECE}]
  BY <1>1 DEF Boards
<1> DEFINE s == bd.side
<1>3. PICK k \in Squares : {x \in Squares : bd.mBoard[x] = King(s)} = {k}
  BY <1>1, <1>2 DEF Playable
<1>4. getKing(bd, s) = k
  BY <1>1, <1>2, <1>3, KingFound
<1>5. squareAttacked(bd, getKing(bd, s), s) <=> Threatened(bd, k, s)
  BY <1>1, <1>4, AttackedIsThreatened
<1>6. Rules!InCheck(PositionOf(bd), ColourOf(s))
        <=> \E sq \in Squares : bd.mBoard[sq] = King(s) /\ Threatened(bd, sq, s)
  BY <1>2, CheckIsThreat
<1>7. \A sq \in Squares : bd.mBoard[sq] = King(s) <=> sq = k
  <2> SUFFICES ASSUME NEW sq \in Squares
               PROVE  bd.mBoard[sq] = King(s) <=> sq = k
    OBVIOUS
  <2>1. sq \in {x \in Squares : bd.mBoard[x] = King(s)} <=> sq = k
    BY <1>3
  <2> QED
    BY <2>1
<1> HIDE DEF s
<1>8. squareAttacked(bd, getKing(bd, s), s) <=> Rules!InCheck(PositionOf(bd), ColourOf(s))
  BY <1>5, <1>6, <1>7
<1> QED
  BY <1>8 DEF s

\* There is a legal move when makeMove accepts a generated one.
LEMMA LegalExists ==
    ASSUME NEW pos \in Positions, Playable(pos), NEW bd, Stands(bd, pos)
    PROVE  Rules!LegalMoves(PositionOf(bd)) # {}
             <=> \E move \in generateMoves(bd) : Accepts(pos, move)
<1> DEFINE view == PositionOf(bd)
           all == generateMoves(bd)
<1>1. bd \in Boards /\ ListsMatch(bd) /\ Playable(bd)
  BY StandsFields, PlayableSame
<1>2. /\ \A move \in all : MoveOf(bd, move) \in Rules!PossibleMoves(view)
      /\ \A move \in Rules!PossibleMoves(view) : \E made \in all : move = MoveOf(bd, made)
  BY <1>1, MovesAre
<1>3. \A move \in all : Accepts(pos, move)
        <=> ~Rules!InCheck(Rules!After(view, MoveOf(bd, move)), view.side)
  <2> TAKE move \in all
  <2>1. MoveFits(pos, move)
    BY MovesFit
  <2>2. makeMove(bd, move).legal <=> Accepts(pos, move)
    BY <2>1, MakeMoveJudges DEF Accepts
  <2> QED
    BY <2>2, LegalIs
<1> HIDE DEF all, view
<1>4. Rules!LegalMoves(view) # {} <=> \E move \in all : Accepts(pos, move)
  BY <1>2, <1>3 DEF Rules!LegalMoves
<1> QED
  BY <1>4 DEF all, view

\* On a sound board gameWinner tells the outcome.
LEMMA SoundOutcome == Sound => WinnerIsOutcome
<1> SUFFICES ASSUME NEW S, Past(S), NEW pos \in S, Stands(board, pos)
             PROVE  WinnerIsOutcome
  BY DEF Sound
<1>1. pos \in Positions /\ Playable(pos)
  BY DEF Past
<1>2. PICK acc \in [board : Boards, numMoves : Nat] :
        /\ Stands(acc.board, pos)
        /\ acc.numMoves > 0 <=> \E move \in generateMoves(board) : Accepts(pos, move)
        /\ gameWinner(board) = [board  |-> acc.board,
                                winner |-> Verdict(acc.board, acc.numMoves)]
  BY <1>1, WinnerFolds
<1> DEFINE winner == Verdict(acc.board, acc.numMoves)
           check == squareAttacked(acc.board, getKing(acc.board, acc.board.side),
                                   acc.board.side)
           view == PositionOf(board)
           side == board.side
<1>3. gameWinner(board).winner = winner
  BY <1>2
<1>4. side \in {WHITE, BLACK} /\ view.side = ColourOf(side) /\ acc.board.side = side
      /\ PositionOf(acc.board) = view
  <2>1. board \in Boards /\ board.side = pos.side /\ acc.board.side = pos.side
    BY <1>1, <1>2, StandsFields
  <2>2. view.side = ColourOf(side)
    BY DEF PositionOf
  <2>3. PositionOf(acc.board) = view
    BY <1>1, <1>2, SameView
  <2> QED
    BY <2>1, <2>2, <2>3 DEF Boards
<1>5. acc.numMoves > 0 <=> Rules!LegalMoves(view) # {}
  BY <1>1, <1>2, LegalExists
<1>6. check <=> Rules!InCheck(view, view.side)
  <2>1. check <=> Rules!InCheck(PositionOf(acc.board), ColourOf(acc.board.side))
    BY <1>1, <1>2, CheckIs
  <2> HIDE DEF check, view
  <2> QED
    BY <1>4, <2>1
<1>7. winner = IF acc.numMoves > 0 THEN -1 ELSE IF check THEN 1 - side ELSE NEITHER
  <2> HIDE DEF side, view
  <2> QED
    BY <1>4 DEF Verdict
<1> HIDE DEF winner, check, view, side
<1>8. OutcomeOf(winner) = Rules!Outcome(view)
  <2>1. Rules!Other(view.side) = ColourOf(1 - side) /\ 1 - side \in {0, 1}
    BY <1>4, ColoursAre DEF WHITE, BLACK
  <2>2. CASE acc.numMoves > 0
    <3>1. winner = -1
      BY <1>7, <2>2
    <3>2. OutcomeOf(winner) = "open"
      BY <3>1 DEF OutcomeOf, NEITHER
    <3> QED
      BY <1>5, <2>2, <3>2 DEF Rules!Outcome
  <2>3. CASE ~(acc.numMoves > 0) /\ check
    <3>1. winner = 1 - side /\ winner # -1 /\ winner # NEITHER
      BY <1>7, <2>1, <2>3 DEF NEITHER
    <3>2. OutcomeOf(winner) = ColourOf(winner)
      BY <3>1 DEF OutcomeOf
    <3> QED
      BY <1>5, <1>6, <2>1, <2>3, <3>1, <3>2 DEF Rules!Outcome
  <2>4. CASE ~(acc.numMoves > 0) /\ ~check
    <3>1. winner = NEITHER /\ winner # -1
      BY <1>7, <2>4 DEF NEITHER
    <3>2. OutcomeOf(winner) = "draw"
      BY <3>1 DEF OutcomeOf
    <3> QED
      BY <1>5, <1>6, <2>4, <3>2 DEF Rules!Outcome
  <2> QED
    BY <2>2, <2>3, <2>4
<1> QED
  BY <1>3, <1>8 DEF WinnerIsOutcome, view

\* In games of any length from any start position of chess, gameWinner tells
\* checkmate, stalemate and an open game apart as the rules do.
THEOREM OutcomeCorrect == RecordedSpec => []WinnerIsOutcome
BY AlwaysSound, SoundOutcome, PTL

\* The two forms of the rules, with and without a game, are one.
LEMMA GameRules ==
    /\ \A game : Game!Position(game) = game[Len(game)]
    /\ \A pos, move : Game!After(pos, move) = Rules!After(pos, move)
    /\ \A pos : Game!LegalMoves(pos) = Rules!LegalMoves(pos)
<1>1. \A game : Game!Position(game) = game[Len(game)]
  BY DEF Game!Position
<1> USE DEF Game!Kind, Rules!Kind, Game!Distance, Rules!Distance, Game!Taken, Rules!Taken,
            Game!Other, Rules!Other, Game!Between, Rules!Between, Game!HomeRow,
            Rules!HomeRow, Game!Sign, Rules!Sign, Game!Colour, Rules!Colour
<1>2. \A pos, move : Game!After(pos, move) = Rules!After(pos, move)
  BY DEF Game!After, Rules!After, Game!RightsAt, Rules!RightsAt, Game!Colours,
         Rules!Colours
<1> USE DEF Game!Forward, Rules!Forward, Game!MenOf, Rules!MenOf,
            Game!Attacks, Rules!Attacks, Game!Attacked, Rules!Attacked
<1>3. \A pos, colour : Game!InCheck(pos, colour) = Rules!InCheck(pos, colour)
  BY DEF Game!InCheck, Rules!InCheck
<1>4. \A pos : Game!PossibleMoves(pos) = Rules!PossibleMoves(pos)
  BY DEF Game!PossibleMoves, Rules!PossibleMoves, Game!Chessboard, Rules!Chessboard,
         Game!MayGo, Rules!MayGo, Game!PawnMayGo, Rules!PawnMayGo, Game!MayCastle,
         Rules!MayCastle, Game!Arrivals, Rules!Arrivals
<1> QED
  BY <1>1, <1>2, <1>3, <1>4 DEF Game!LegalMoves, Rules!LegalMoves

----------------------------------------------------------------------------
(* The line of a game.                                                     *)

\* The boards that taking back move after move finds.
Unwinds(back, bd) ==
    back = [k \in 0..hisPly(bd) |-> IF k = 0 THEN bd ELSE takeBack(back[k - 1])]

Unwound(back, bd) ==
    LET n == hisPly(bd)
    IN  [i \in 1..(n + 1) |-> PositionOf(back[n + 1 - i])]

\* Whichever board stands for pos, its line is game.
Traced(pos, game) ==
    \A bd : Stands(bd, pos) =>
        /\ \E back : Unwinds(back, bd)
        /\ \A back : Unwinds(back, bd) => Unwound(back, bd) = game

\* What LineOf finds.
LEMMA TracedLine ==
    ASSUME NEW pos, NEW game, Traced(pos, game), NEW bd, Stands(bd, pos)
    PROVE  LineOf(bd) = game
<1>1. LineOf(bd) = Unwound(CHOOSE back : Unwinds(back, bd), bd)
  BY DEF LineOf, Unwound, Unwinds
<1>2. Unwinds(CHOOSE back : Unwinds(back, bd), bd)
  BY DEF Traced
<1> QED
  BY <1>1, <1>2 DEF Traced

\* A game starts with one position.
LEMMA TracedStart ==
    ASSUME NEW pos \in Positions, pos.history = << >>
    PROVE  Traced(pos, <<PositionOf(pos)>>)
<1> SUFFICES ASSUME NEW bd, Stands(bd, pos)
             PROVE  /\ \E back : Unwinds(back, bd)
                    /\ \A back : Unwinds(back, bd) => Unwound(back, bd) = <<PositionOf(pos)>>
  BY DEF Traced
<1>1. hisPly(bd) = 0 /\ PositionOf(bd) = PositionOf(pos)
  BY StandsFields, SameView DEF hisPly
<1>2. Unwinds([k \in 0..0 |-> bd], bd)
  BY <1>1 DEF Unwinds
<1>3. ASSUME NEW back, Unwinds(back, bd)
      PROVE  Unwound(back, bd) = <<PositionOf(pos)>>
  <2>1. back[0] = bd
    BY <1>1, <1>3 DEF Unwinds
  <2>2. Unwound(back, bd) = [i \in 1..1 |-> PositionOf(back[1 - i])]
    BY <1>1 DEF Unwound
  <2>3. \A i \in 1..1 : PositionOf(back[1 - i]) = PositionOf(pos)
    BY <1>1, <2>1
  <2>4. <<PositionOf(pos)>> = [i \in 1..1 |-> PositionOf(pos)]
    OBVIOUS
  <2> QED
    BY <2>2, <2>3, <2>4
<1> QED
  BY <1>2, <1>3

\* A move lengthens the line by one position.
LEMMA TracedMade ==
    ASSUME NEW pos \in Positions, NEW move, MoveFits(pos, move),
           Made(pos, move) \in Positions,
           NEW V, NEW game \in Seq(V), Len(game) = Len(pos.history) + 1, Traced(pos, game),
           PositionOf(Made(pos, move)) \in V
    PROVE  Traced(Made(pos, move), Append(game, PositionOf(Made(pos, move))))
<1> DEFINE after == Made(pos, move)
           last == PositionOf(after)
           n == Len(pos.history)
<1> SUFFICES ASSUME NEW bd, Stands(bd, after)
             PROVE  /\ \E back : Unwinds(back, bd)
                    /\ \A back : Unwinds(back, bd) => Unwound(back, bd) = Append(game, last)
  BY DEF Traced
<1> DEFINE prev == takeBack(bd)
<1>1. Stands(prev, pos)
  BY TakenBackStands
<1>2. n \in Nat /\ hisPly(prev) = n /\ hisPly(bd) = n + 1 /\ PositionOf(bd) = last
  <2>1. pos.history \in Seq(Histories) /\ bd.history = after.history
        /\ prev.history = pos.history
    BY <1>1, StandsFields DEF Positions
  <2>2. after.history = Append(pos.history, Entry(pos, move))
    BY DEF Made
  <2>3. n \in Nat /\ Len(after.history) = n + 1
    BY <2>1, <2>2
  <2>4. PositionOf(bd) = last
    BY SameView
  <2> QED
    BY <2>1, <2>3, <2>4 DEF hisPly
<1> HIDE DEF n, after, last, prev
<1>3. PICK undo : Unwinds(undo, prev)
  BY <1>1 DEF Traced
<1>4. \A k \in 0..n : undo[k] = IF k = 0 THEN prev ELSE takeBack(undo[k - 1])
  BY <1>2, <1>3 DEF Unwinds
<1>5. Unwinds([k \in 0..(n + 1) |-> IF k = 0 THEN bd ELSE undo[k - 1]], bd)
  <2> DEFINE back == [k \in 0..(n + 1) |-> IF k = 0 THEN bd ELSE undo[k - 1]]
  <2>1. \A k \in 0..(n + 1) :
           back[k] = IF k = 0 THEN bd ELSE takeBack(back[k - 1])
    <3> TAKE k \in 0..(n + 1)
    <3>1. CASE k = 0
      BY <3>1
    <3>2. CASE k = 1
      <4>1. back[k] = undo[0] /\ back[k - 1] = bd
        BY <1>2, <3>2
      <4>2. undo[0] = prev
        BY <1>2, <1>4
      <4> QED
        BY <3>2, <4>1, <4>2 DEF prev
    <3>3. CASE k > 1
      <4>1. k - 1 \in 1..n /\ k - 1 \in 0..(n + 1) /\ k - 1 # 0
        BY <1>2, <3>3
      <4>2. back[k] = undo[k - 1] /\ back[k - 1] = undo[k - 1 - 1]
        BY <1>2, <3>3, <4>1
      <4>3. undo[k - 1] = takeBack(undo[k - 1 - 1])
        BY <1>2, <1>4, <4>1
      <4> QED
        BY <3>3, <4>2, <4>3
    <3> QED
      BY <1>2, <3>1, <3>2, <3>3
  <2>2. back = [k \in 0..(n + 1) |-> IF k = 0 THEN bd ELSE takeBack(back[k - 1])]
    BY <2>1
  <2> QED
    BY <1>2, <2>2 DEF Unwinds
<1>6. ASSUME NEW back, Unwinds(back, bd)
      PROVE  Unwound(back, bd) = Append(game, last)
  <2> DEFINE rest == [k \in 0..n |-> back[k + 1]]
  <2>1. \A k \in 0..(n + 1) : back[k] = IF k = 0 THEN bd ELSE takeBack(back[k - 1])
    BY <1>2, <1>6 DEF Unwinds
  <2>2. \A k \in 0..n : rest[k] = IF k = 0 THEN prev ELSE takeBack(rest[k - 1])
    <3> TAKE k \in 0..n
    <3>1. k + 1 \in 0..(n + 1) /\ 0 \in 0..(n + 1) /\ rest[k] = back[k + 1] /\ k + 1 # 0
          /\ k + 1 - 1 = k
      BY <1>2
    <3>2. back[k + 1] = takeBack(back[k]) /\ back[0] = bd
      BY <2>1, <3>1
    <3>3. CASE k = 0
      BY <3>1, <3>2, <3>3 DEF prev
    <3>4. CASE k # 0
      <4>1. rest[k - 1] = back[k]
        BY <1>2, <3>4
      <4> QED
        BY <3>1, <3>2, <3>4, <4>1
    <3> QED
      BY <3>3, <3>4
  <2>3. Unwinds(rest, prev)
    BY <1>2, <2>2 DEF Unwinds
  <2> HIDE DEF rest
  <2>4. Unwound(rest, prev) = game
    BY <1>1, <2>3 DEF Traced
  <2>5. \A i \in 1..(n + 1) : game[i] = PositionOf(rest[n + 1 - i])
    BY <1>2, <2>4 DEF Unwound
  <2>6. \A i \in 1..(n + 1) : PositionOf(back[n + 2 - i]) = game[i]
    <3> TAKE i \in 1..(n + 1)
    <3>1. n + 1 - i \in 0..n /\ n + 1 - i + 1 = n + 2 - i
      BY <1>2
    <3>2. rest[n + 1 - i] = back[n + 2 - i]
      BY <3>1 DEF rest
    <3> QED
      BY <2>5, <3>2
  <2>7. back[0] = bd
    BY <1>2, <2>1
  <2> DEFINE ext == Append(game, last)
  <2>8. /\ Len(game) = n + 1 /\ ext \in Seq(V) /\ Len(ext) = n + 2
        /\ \A i \in 1..(n + 1) : ext[i] = game[i]
        /\ ext[n + 2] = last
    <3>1. Len(game) = n + 1 /\ last \in V
      BY DEF n, last, after
    <3> QED
      BY <1>2, <3>1
  <2> HIDE DEF ext
  <2>9. ext = [i \in 1..(n + 2) |-> ext[i]]
    BY <2>8
  <2>10. Unwound(back, bd) = [i \in 1..(n + 2) |-> PositionOf(back[n + 2 - i])]
    <3>1. n + 1 + 1 = n + 2
      BY <1>2
    <3> QED
      BY <1>2, <3>1 DEF Unwound
  <2>11. \A i \in 1..(n + 2) : PositionOf(back[n + 2 - i]) = ext[i]
    <3> TAKE i \in 1..(n + 2)
    <3>1. CASE i \in 1..(n + 1)
      BY <2>6, <2>8, <3>1
    <3>2. CASE i = n + 2
      <4>1. n + 2 - i = 0
        BY <1>2, <3>2
      <4> QED
        BY <1>2, <2>7, <2>8, <3>2, <4>1
    <3> QED
      BY <1>2, <3>1, <3>2
  <2> QED
    BY <2>9, <2>10, <2>11 DEF ext
<1> QED
  BY <1>5, <1>6

----------------------------------------------------------------------------
(* Irreversible moves.                                                     *)

\* What play uses up: a man, and each row that a pawn has still to go.
Weight(pce, sq) ==
    IF pce = NOPIECE THEN 0
    ELSE IF pce = WP THEN 1 + sq[1]
    ELSE IF pce = BP THEN 8 - sq[1]
    ELSE 1

Weights(squares) == [sq \in Squares |-> Weight(squares[sq], sq)]

Budget(squares) == Total(Weights(squares), Squares)

\* There are finitely many squares.
LEMMA SquaresFinite == IsFiniteSet(Squares)
<1> DEFINE lo == 0
           hi == 7
<1>1. IsFiniteSet(0..7)
  <2>1. lo \in Int /\ hi \in Int
    OBVIOUS
  <2> HIDE DEF lo, hi
  <2>2. IsFiniteSet(lo..hi)
    BY <2>1, FS_Interval
  <2> QED
    BY <2>2 DEF lo, hi
<1>2. IsFiniteSet((0..7) \X (0..7))
  BY <1>1, FS_Product
<1> QED
  BY <1>2, ChessBoardAssumption DEF ChessSquares

\* Every man weighs something.
LEMMA WeightType ==
    ASSUME NEW pce, NEW sq \in Squares
    PROVE  /\ Weight(pce, sq) \in Int /\ Weight(pce, sq) >= 0
           /\ Weight(pce, sq) > 0 <=> pce # NOPIECE
           /\ ~isPawn(pce) /\ pce # NOPIECE => Weight(pce, sq) = 1
<1>1. sq[1] \in 0..7
  BY SquarePairs
<1>2. isPawn(WP) /\ isPawn(BP)
  BY DEF isPawn
<1> QED
  BY <1>1, <1>2 DEF Weight

\* What a change on two squares changes.
LEMMA BudgetTwo ==
    ASSUME NEW m, NEW n, NEW a \in Squares, NEW b \in Squares, a # b,
           \A sq \in Squares \ {a, b} : m[sq] = n[sq]
    PROVE  /\ Budget(m) \in Int /\ Budget(n) \in Int
           /\ Budget(n) - Budget(m)
                = (Weight(n[a], a) + Weight(n[b], b)) - (Weight(m[a], a) + Weight(m[b], b))
<1> DEFINE v == Weights(m)
           w == Weights(n)
           U == Squares \ {a}
           R == U \ {b}
<1>1. /\ \A sq \in Squares : v[sq] = Weight(m[sq], sq) /\ v[sq] \in Int
      /\ \A sq \in Squares : w[sq] = Weight(n[sq], sq) /\ w[sq] \in Int
  BY WeightType DEF Weights
<1>2. IsFiniteSet(Squares) /\ IsFiniteSet(U) /\ b \in U
  BY SquaresFinite, FS_Subset
<1>3. \A sq \in R : v[sq] = w[sq]
  BY <1>1
<1> HIDE DEF v, w
<1>4. Total(v, R) = Total(w, R)
  BY <1>3, TotalSame
<1>5. Total(v, Squares) = v[a] + Total(v, U) /\ Total(w, Squares) = w[a] + Total(w, U)
  BY <1>1, <1>2, TotalAdd
<1>6. /\ \A sq \in U : v[sq] \in Int
      /\ \A sq \in U : w[sq] \in Int
  BY <1>1
<1> HIDE DEF U
<1>7. /\ Total(v, U) = v[b] + Total(v, R) /\ Total(v, R) \in Int
      /\ Total(w, U) = w[b] + Total(w, R) /\ Total(w, R) \in Int
  BY <1>2, <1>6, TotalAdd
<1> HIDE DEF R
<1> DEFINE va == v[a]
           vb == v[b]
           wa == w[a]
           wb == w[b]
<1>8. va \in Int /\ vb \in Int /\ wa \in Int /\ wb \in Int
  BY <1>1
<1>9. /\ Budget(m) = va + (vb + Total(v, R)) /\ Budget(n) = wa + (wb + Total(v, R))
      /\ Total(v, R) \in Int
  BY <1>4, <1>5, <1>7 DEF Budget, v, w
<1>10. va = Weight(m[a], a) /\ vb = Weight(m[b], b) /\ wa = Weight(n[a], a)
       /\ wb = Weight(n[b], b)
  BY <1>1
<1> HIDE DEF va, vb, wa, wb
<1>11. Budget(n) - Budget(m) = (wa + wb) - (va + vb)
  BY <1>8, <1>9
<1> QED
  BY <1>8, <1>9, <1>10, <1>11

\* A budget is a number.
LEMMA BudgetType ==
    ASSUME NEW m
    PROVE  Budget(m) \in Int
<1> DEFINE a == <<0, 0>>
           b == <<0, 1>>
<1>1. a \in Squares /\ b \in Squares /\ a # b
  BY SquarePairs
<1> HIDE DEF a, b
<1> QED
  BY <1>1, BudgetTwo

\* Pawns go ahead.
PawnAhead(pos, move) ==
    isPawn(pos.mBoard[move.from]) =>
        /\ pos.mBoard[move.from] = Pawn(pos.side)
        /\ move.from[1] \in 1..6
        /\ IF pos.side = WHITE THEN move.to[1] < move.from[1] ELSE move.to[1] > move.from[1]

\* Every generated pawn move goes ahead, from where a pawn can stand.
LEMMA PawnsGoAhead ==
    ASSUME NEW bd \in Boards, ListsMatch(bd), Playable(bd), NEW move \in generateMoves(bd)
    PROVE  PawnAhead(bd, move)
<1> SUFFICES ASSUME isPawn(bd.mBoard[move.from])
             PROVE  /\ bd.mBoard[move.from] = Pawn(bd.side)
                    /\ move.from[1] \in 1..6
                    /\ IF bd.side = WHITE THEN move.to[1] < move.from[1]
                       ELSE move.to[1] > move.from[1]
  BY DEF PawnAhead
<1>1. PICK from \in Squares : \E to \in Squares :
        /\ Goes(bd, from, to)
        /\ \E promoted \in Becomes(bd, from, to) : move = getMove(bd, from, to, promoted)
  BY GeneratedAre
<1>2. PICK to \in Squares :
        /\ Goes(bd, from, to)
        /\ \E promoted \in Becomes(bd, from, to) : move = getMove(bd, from, to, promoted)
  BY <1>1
<1>3. PICK promoted \in Becomes(bd, from, to) : move = getMove(bd, from, to, promoted)
  BY <1>2
<1> DEFINE pce == bd.mBoard[from]
           step == PawnStep(Pawn(bd.side))
<1>4. move.from = from /\ move.to = to
  BY <1>3 DEF getMove
<1>5. /\ bd.side \in {WHITE, BLACK} /\ pce \in Pieces /\ pce \in PiecesOf(bd.side)
      /\ from \in Occupied(bd) /\ isPawn(pce)
  BY <1>2, <1>4, SidesShare, NoPieceAssumption DEF Goes, Boards, Occupied
<1>6. pce = Pawn(bd.side) /\ from[1] \in 1..6
  BY <1>5, PawnsAndKings DEF Playable
<1>7. Rules!Kind(PositionOf(bd), from) = "pawn"
  BY <1>5, ManIs, PositionIs
<1>8. Rules!PawnMayGo(PositionOf(bd), from, to)
  BY <1>2, <1>7 DEF Goes, Rules!MayGo
<1>9. to \in PawnSides(Pawn(bd.side), from) \/ Ahead(bd, from, to)
  BY <1>6, <1>8, AheadIs
<1>10. step = IF bd.side = WHITE THEN -1 ELSE 1
  BY <1>5 DEF PawnStep, Pawn, WHITE, BLACK, WP, BP
<1>11. to[1] = from[1] + step \/ to[1] = from[1] + 2 * step
  <2>1. CASE to \in PawnSides(Pawn(bd.side), from)
    BY <2>1 DEF PawnSides
  <2>2. CASE Ahead(bd, from, to)
    BY <2>2 DEF Ahead
  <2> QED
    BY <1>9, <2>1, <2>2
<1>12. from[1] \in 0..7 /\ to[1] \in 0..7
  BY SquarePairs
<1> HIDE DEF step, pce
<1>13. IF bd.side = WHITE THEN to[1] < from[1] ELSE to[1] > from[1]
  BY <1>10, <1>11, <1>12
<1> QED
  BY <1>4, <1>6, <1>13 DEF pce

\* What happens beside the two squares of a move uses up nothing back.
LEMMA SpecialBudget ==
    ASSUME NEW pos \in Positions, NEW move, MoveFits(pos, move)
    PROVE  /\ Budget(SpecialSquares(pos, move)) \in Int /\ Budget(pos.mBoard) \in Int
           /\ Budget(SpecialSquares(pos, move)) <= Budget(pos.mBoard)
           /\ SpecialSquares(pos, move)[move.from] = pos.mBoard[move.from]
           /\ SpecialSquares(pos, move)[move.to] = pos.mBoard[move.to]
<1> DEFINE s == pos.side
           m == pos.mBoard
           n == SpecialSquares(pos, move)
           a == move.from
           b == move.to
<1>1. /\ s \in {WHITE, BLACK} /\ a \in Squares /\ b \in Squares /\ b # a
      /\ m[a] \in PiecesOf(s) /\ m[a] # NOPIECE
      /\ \A sq \in Squares : m[sq] \in Pieces \cup {NOPIECE}
  BY MoveSquares DEF MoveFits
<1>2. CASE move.enpas
  <2> DEFINE v == Behind(b, s)
  <2>1. v \in Squares /\ m[v] = Pawn(1 - s) /\ ~move.castle
    BY <1>2 DEF MoveFits, EnpasFits
  <2>2. v # a
    BY <1>1, <2>1, SidesShare
  <2>3. v # b
    <3>1. b[1] \in 0..7
      BY <1>1, SquarePairs
    <3>2. v[1] = b[1] + (IF s = WHITE THEN 1 ELSE -1)
      BY DEF Behind
    <3> HIDE DEF v
    <3> QED
      BY <3>1, <3>2
  <2>4. \A sq \in Squares : n[sq] = IF sq = v THEN NOPIECE ELSE m[sq]
    BY <1>2, <2>1 DEF SpecialSquares
  <2> HIDE DEF m, n, s, a, b, v
  <2>5. /\ Budget(m) \in Int /\ Budget(n) \in Int
        /\ Budget(n) - Budget(m)
             = (Weight(n[a], a) + Weight(n[v], v)) - (Weight(m[a], a) + Weight(m[v], v))
    BY <1>1, <2>1, <2>2, <2>4, BudgetTwo
  <2>6. n[a] = m[a] /\ n[b] = m[b] /\ n[v] = NOPIECE
    BY <1>1, <2>1, <2>2, <2>3, <2>4
  <2> DEFINE x == Weight(n[a], a)
             y == Weight(n[v], v)
             z == Weight(m[v], v)
  <2>7. x \in Int /\ y = 0 /\ z \in Int /\ z >= 0 /\ x = Weight(m[a], a)
    BY <1>1, <2>1, <2>6, WeightType DEF Weight
  <2>8. Budget(n) - Budget(m) = (x + y) - (x + z)
    BY <2>5, <2>7
  <2> HIDE DEF x, y, z
  <2>9. Budget(n) <= Budget(m)
    BY <2>5, <2>7, <2>8
  <2> QED
    BY <2>5, <2>6, <2>9 DEF m, n, a, b
<1>3. CASE ~move.enpas /\ move.castle
  <2> DEFINE corner == RookCorner(s, b)
             landing == RookLanding(s, b)
  <2>1. /\ m[corner] = Rook(s) /\ m[landing] = NOPIECE /\ m[a] = King(s)
        /\ m[b] = NOPIECE
    BY <1>3 DEF MoveFits, CastleFits, CaptureFits
  <2>2. corner \in Squares /\ landing \in Squares
    BY RookSquares
  <2>3. Rook(s) # NOPIECE /\ ~isPawn(Rook(s)) /\ Rook(s) # King(s)
    <3>1. Rook(s) \in PiecesOf(s) /\ Rook(s) # Pawn(s) /\ Rook(s) # King(s)
          /\ NOPIECE \notin PiecesOf(s)
      BY <1>1, SidesShare
    <3> QED
      BY <1>1, <3>1, PawnsAndKings
  <2>4. corner # landing /\ corner # a /\ corner # b /\ landing # a
    BY <1>1, <2>1, <2>3
  <2>5. landing # b
    <3>1. b[2] \in {2, 6}
      BY <1>3 DEF MoveFits, CastleFits
    <3>2. landing[2] = IF b[2] = 2 THEN 3 ELSE 5
      BY DEF RookLanding
    <3> HIDE DEF landing
    <3> QED
      BY <3>1, <3>2
  <2>6. \A sq \in Squares :
          n[sq] = IF sq = corner THEN NOPIECE ELSE IF sq = landing THEN Rook(s) ELSE m[sq]
    BY <1>3 DEF SpecialSquares
  <2> HIDE DEF m, n, s, a, b, corner, landing
  <2>7. /\ Budget(m) \in Int /\ Budget(n) \in Int
        /\ Budget(n) - Budget(m)
             = (Weight(n[corner], corner) + Weight(n[landing], landing))
                 - (Weight(m[corner], corner) + Weight(m[landing], landing))
    BY <2>2, <2>4, <2>6, BudgetTwo
  <2>8. /\ n[a] = m[a] /\ n[b] = m[b] /\ n[corner] = NOPIECE
        /\ n[landing] = Rook(s)
    BY <1>1, <2>2, <2>4, <2>5, <2>6
  <2>9. /\ Weight(n[corner], corner) = 0 /\ Weight(m[landing], landing) = 0
        /\ Weight(n[landing], landing) = 1 /\ Weight(m[corner], corner) = 1
    <3>1. Weight(NOPIECE, corner) = 0 /\ Weight(NOPIECE, landing) = 0
      BY DEF Weight
    <3>2. Weight(Rook(s), corner) = 1 /\ Weight(Rook(s), landing) = 1
      BY <2>2, <2>3, WeightType
    <3> QED
      BY <2>1, <2>8, <3>1, <3>2
  <2>10. Budget(n) <= Budget(m)
    BY <2>7, <2>9
  <2> QED
    BY <2>7, <2>8, <2>10 DEF m, n, a, b
<1>4. CASE ~move.enpas /\ ~move.castle
  <2>1. \A sq \in Squares : n[sq] = m[sq]
    BY <1>4 DEF SpecialSquares
  <2> HIDE DEF m, n, s, a, b
  <2>2. /\ Budget(m) \in Int /\ Budget(n) \in Int
        /\ Budget(n) - Budget(m)
             = (Weight(n[a], a) + Weight(n[b], b)) - (Weight(m[a], a) + Weight(m[b], b))
    BY <1>1, <2>1, BudgetTwo
  <2>3. n[a] = m[a] /\ n[b] = m[b]
    BY <1>1, <2>1
  <2>4. Weight(m[a], a) \in Int /\ Weight(m[b], b) \in Int
    BY <1>1, WeightType
  <2>5. Budget(n) <= Budget(m)
    BY <2>2, <2>3, <2>4
  <2> QED
    BY <2>2, <2>3, <2>5 DEF m, n, a, b
<1> QED
  BY <1>2, <1>3, <1>4

\* A move uses up nothing back, an irreversible one something.
LEMMA BudgetMade ==
    ASSUME NEW pos \in Positions, NEW move, MoveFits(pos, move), PawnAhead(pos, move)
    PROVE  /\ Budget(Made(pos, move).mBoard) \in Int /\ Budget(pos.mBoard) \in Int
           /\ Budget(Made(pos, move).mBoard) <= Budget(pos.mBoard)
           /\ Counts(pos, move) => Budget(Made(pos, move).mBoard) < Budget(pos.mBoard)
<1> DEFINE s == pos.side
           m == pos.mBoard
           n == SpecialSquares(pos, move)
           now == Made(pos, move).mBoard
           a == move.from
           b == move.to
           placed == Placed(pos, move)
<1>1. /\ s \in {WHITE, BLACK} /\ a \in Squares /\ b \in Squares /\ b # a
      /\ m[a] \in PiecesOf(s) /\ m[a] # NOPIECE /\ placed # NOPIECE
      /\ placed \in PiecesOf(s)
  BY MoveSquares DEF MoveFits
<1>2. /\ Budget(n) \in Int /\ Budget(m) \in Int /\ Budget(n) <= Budget(m)
      /\ n[a] = m[a] /\ n[b] = m[b]
  BY SpecialBudget
<1>3. now[a] = NOPIECE /\ now[b] = placed
      /\ \A sq \in Squares \ {a, b} : n[sq] = now[sq]
  BY <1>1 DEF Made, MadeSquares
<1> DEFINE left == Weight(m[a], a)
           come == Weight(placed, b)
           lost == Weight(m[b], b)
<1>4. /\ Budget(now) \in Int
      /\ Budget(now) - Budget(n) = come - (left + lost)
  <2> HIDE DEF s, m, n, now, a, b, placed
  <2>1. /\ Budget(now) \in Int
        /\ Budget(now) - Budget(n)
             = (Weight(now[a], a) + Weight(now[b], b)) - (Weight(n[a], a) + Weight(n[b], b))
    BY <1>1, <1>3, BudgetTwo
  <2>2. Weight(now[a], a) = 0 /\ Weight(now[b], b) = come
    BY <1>3 DEF Weight
  <2>3. Weight(n[a], a) = left /\ Weight(n[b], b) = lost
    BY <1>2
  <2>4. left \in Int /\ lost \in Int /\ come \in Int
    BY <1>1, WeightType
  <2> QED
    BY <2>1, <2>2, <2>3, <2>4
<1>5. left \in Int /\ come \in Int /\ lost \in Int /\ lost >= 0
      /\ (lost > 0 <=> m[b] # NOPIECE)
  BY <1>1, WeightType
<1>6. ASSUME ~isPawn(m[a])
      PROVE  come = left
  <2>1. placed = m[a]
    <3>1. isPawn(Pawn(s))
      BY <1>1, SidesShare, PawnsAndKings
    <3>2. m[a] # Pawn(s)
      BY <1>6, <3>1
    <3> QED
      BY <3>2 DEF MoveFits, PawnFits, Placed
  <2> HIDE DEF m, a, b, placed
  <2> QED
    BY <1>1, <1>6, <2>1, WeightType
<1>7. ASSUME isPawn(m[a])
      PROVE  come < left
  <2>1. /\ m[a] = Pawn(s) /\ a[1] \in 1..6
        /\ IF s = WHITE THEN b[1] < a[1] ELSE b[1] > a[1]
    BY <1>7 DEF PawnAhead
  <2>2. b[1] \in 0..7 /\ a[1] \in 0..7
    BY <1>1, SquarePairs
  <2>3. left = IF s = WHITE THEN 1 + a[1] ELSE 8 - a[1]
    <3>1. CASE s = WHITE
      <4>1. m[a] = WP
        BY <2>1, <3>1 DEF Pawn
      <4> HIDE DEF m, a, s
      <4> QED
        BY <1>1, <3>1, <4>1 DEF Weight
    <3>2. CASE s # WHITE
      <4>1. m[a] = BP /\ BP # WP
        BY <2>1, <3>2 DEF Pawn, WP, BP
      <4> HIDE DEF m, a, s
      <4> QED
        BY <1>1, <3>2, <4>1 DEF Weight
    <3> QED
      BY <3>1, <3>2
  <2>4. CASE isPawn(placed)
    <3>1. placed = Pawn(s)
      BY <1>1, <2>4, PawnsAndKings
    <3>2. come = IF s = WHITE THEN 1 + b[1] ELSE 8 - b[1]
      <4>1. CASE s = WHITE
        <5>1. placed = WP
          BY <3>1, <4>1 DEF Pawn
        <5> HIDE DEF placed, b, s
        <5> QED
          BY <1>1, <4>1, <5>1 DEF Weight
      <4>2. CASE s # WHITE
        <5>1. placed = BP /\ BP # WP
          BY <3>1, <4>2 DEF Pawn, WP, BP
        <5> HIDE DEF placed, b, s
        <5> QED
          BY <1>1, <4>2, <5>1 DEF Weight
      <4> QED
        BY <4>1, <4>2
    <3> HIDE DEF come, left, s, a, b
    <3> QED
      BY <2>1, <2>2, <2>3, <3>2
  <2>5. CASE ~isPawn(placed)
    <3>1. come = 1
      <4> HIDE DEF placed, b
      <4> QED
        BY <1>1, <2>5, WeightType
    <3> HIDE DEF come, left, s, a, b
    <3> QED
      BY <2>1, <2>2, <2>3, <3>1
  <2> QED
    BY <2>4, <2>5
<1>8. Counts(pos, move) <=> m[b] # NOPIECE \/ isPawn(m[a])
  BY DEF Counts, MoveFits, CaptureFits
<1> HIDE DEF left, come, lost, s, m, n, now, a, b, placed
<1>9. /\ Budget(now) <= Budget(m)
      /\ m[b] # NOPIECE \/ isPawn(m[a]) => Budget(now) < Budget(m)
  BY <1>2, <1>4, <1>5, <1>6, <1>7
<1> QED
  BY <1>2, <1>4, <1>8, <1>9 DEF now, m

----------------------------------------------------------------------------
(* Positions that come back.                                               *)

\* All that a position says.
Alike(p, q) ==
    /\ p.mBoard = q.mBoard /\ p.side = q.side
    /\ p.castlePerm = q.castlePerm /\ p.enpas = q.enpas

\* Keys tell positions apart.
LEMMA KeyTells ==
    ASSUME NEW p \in Positions, NEW q \in Positions
    PROVE  KeyOf(p) = KeyOf(q) <=> Alike(p, q)
<1>1. \A x \in Positions :
        /\ \A sq \in Squares : \A pce \in Pieces :
             PceKey(sq, pce) \in KeyOf(x) <=> x.mBoard[sq] = pce
        /\ \A right \in CastleRights : CastleKey(right) \in KeyOf(x) <=> right \in x.castlePerm
        /\ \A sq \in Squares : EnpasKey(sq) \in KeyOf(x) <=> x.enpas = sq
        /\ SideKey \in KeyOf(x) <=> x.side = WHITE
  <2> TAKE x \in Positions
  <2> DEFINE men == PieceKeys(x)
             rights == CastleKeys(x)
             passed == EnpasKeys(x)
             side == SideKeys(x)
  <2>1. \A sq, pce : /\ PceKey(sq, pce) \notin rights
                     /\ PceKey(sq, pce) \notin passed
                     /\ PceKey(sq, pce) \notin side
    BY DEF PceKey, CastleKeys, CastleKey, EnpasKeys, EnpasKey, SideKeys, SideKey
  <2>2. \A right : /\ CastleKey(right) \notin men
                   /\ CastleKey(right) \notin passed
                   /\ CastleKey(right) \notin side
    BY DEF PieceKeys, PceKey, CastleKey, EnpasKeys, EnpasKey, SideKeys, SideKey
  <2>3. \A sq : /\ EnpasKey(sq) \notin men
                /\ EnpasKey(sq) \notin rights
                /\ EnpasKey(sq) \notin side
    BY DEF PieceKeys, PceKey, CastleKeys, CastleKey, EnpasKey, SideKeys, SideKey
  <2>4. SideKey \notin men /\ SideKey \notin rights /\ SideKey \notin passed
    BY DEF PieceKeys, PceKey, CastleKeys, CastleKey, EnpasKeys, EnpasKey, SideKey
  <2>5. \A sq \in Squares : \A pce \in Pieces :
          PceKey(sq, pce) \in men <=> x.mBoard[sq] = pce
    <3> TAKE sq \in Squares
    <3> TAKE pce \in Pieces
    <3>1. \A other : PceKey(sq, pce) = PceKey(other, x.mBoard[other])
                       <=> sq = other /\ pce = x.mBoard[other]
      BY DEF PceKey
    <3>2. PceKey(sq, pce) \in men <=> sq \in Occupied(x) /\ pce = x.mBoard[sq]
      BY <3>1 DEF PieceKeys
    <3> QED
      BY <3>2, NoPieceAssumption DEF Occupied
  <2>6. \A right \in CastleRights : CastleKey(right) \in rights <=> right \in x.castlePerm
    <3>1. \A right, other : CastleKey(right) = CastleKey(other) <=> right = other
      BY DEF CastleKey
    <3> QED
      BY <3>1 DEF CastleKeys
  <2>7. \A sq \in Squares : EnpasKey(sq) \in passed <=> x.enpas = sq
    <3>1. \A sq, other : EnpasKey(sq) = EnpasKey(other) <=> sq = other
      BY DEF EnpasKey
    <3> QED
      BY <3>1, OffboardAssumption DEF EnpasKeys
  <2>8. SideKey \in side <=> x.side = WHITE
    BY DEF SideKeys
  <2>9. KeyOf(x) = men \cup rights \cup passed \cup side
    BY DEF KeyOf
  <2> HIDE DEF men, rights, passed, side
  <2> QED
    BY <2>1, <2>2, <2>3, <2>4, <2>5, <2>6, <2>7, <2>8, <2>9
<1>2. /\ p.mBoard \in [Squares -> Pieces \cup {NOPIECE}]
      /\ q.mBoard \in [Squares -> Pieces \cup {NOPIECE}]
      /\ p.side \in {WHITE, BLACK} /\ q.side \in {WHITE, BLACK}
      /\ p.castlePerm \subseteq CastleRights /\ q.castlePerm \subseteq CastleRights
      /\ p.enpas \in Squares \cup {OFFBOARD} /\ q.enpas \in Squares \cup {OFFBOARD}
  BY DEF Positions
<1>3. ASSUME KeyOf(p) = KeyOf(q)
      PROVE  Alike(p, q)
  <2>1. \A sq \in Squares : p.mBoard[sq] = q.mBoard[sq]
    <3> TAKE sq \in Squares
    <3>1. \A pce \in Pieces : p.mBoard[sq] = pce <=> q.mBoard[sq] = pce
      BY <1>1, <1>3
    <3> QED
      BY <1>2, <3>1
  <2>2. p.mBoard = q.mBoard
    BY <1>2, <2>1
  <2>3. p.castlePerm = q.castlePerm
    <3>1. \A right \in CastleRights : right \in p.castlePerm <=> right \in q.castlePerm
      BY <1>1, <1>3
    <3> QED
      BY <1>2, <3>1
  <2>4. p.enpas = q.enpas
    <3>1. \A sq \in Squares : p.enpas = sq <=> q.enpas = sq
      BY <1>1, <1>3
    <3> QED
      BY <1>2, <3>1
  <2>5. p.side = q.side
    <3>1. p.side = WHITE <=> q.side = WHITE
      BY <1>1, <1>3
    <3> QED
      BY <1>2, <3>1
  <2> QED
    BY <2>2, <2>3, <2>4, <2>5 DEF Alike
<1>4. ASSUME Alike(p, q)
      PROVE  KeyOf(p) = KeyOf(q)
  BY <1>4 DEF Alike, KeyOf, PieceKeys, CastleKeys, EnpasKeys, SideKeys, Occupied
<1> QED
  BY <1>3, <1>4

\* No two pieces, rights or sides are the same by the rules.
LEMMA NamesTell ==
    /\ \A p, q \in Pieces : ManOf(p) = ManOf(q) => p = q
    /\ \A p, q \in CastleRights : RightOf(p) = RightOf(q) => p = q
    /\ \A p, q \in {WHITE, BLACK} : ColourOf(p) = ColourOf(q) => p = q
<1>1. ASSUME NEW p \in Pieces, NEW q \in Pieces, ManOf(p) = ManOf(q)
      PROVE  p = q
  <2>1. ManOf(p)[1] = ManOf(q)[1] /\ ManOf(p)[2] = ManOf(q)[2]
    BY <1>1
  <2>2. PceCol(p) = PceCol(q)
    <3>1. PceCol(p) \in {WHITE, BLACK} /\ PceCol(q) \in {WHITE, BLACK}
      BY DEF PceCol
    <3> QED
      BY <2>1, <3>1, ManIs, ColoursAre
  <2>3. /\ isPawn(p) <=> isPawn(q)
        /\ p \in {WN, BN} <=> q \in {WN, BN}
        /\ p \in {WB, BB} <=> q \in {WB, BB}
        /\ p \in {WR, BR} <=> q \in {WR, BR}
        /\ p \in {WQ, BQ} <=> q \in {WQ, BQ}
        /\ isKing(p) <=> isKing(q)
    BY <2>1, ManIs
  <2> QED
    BY <2>2, <2>3, ChessBoardAssumption
    DEF ChessPieces, PceCol, isPawn, isKing, WHITE, BLACK,
        WP, WN, WB, WR, WQ, WK, BP, BN, BB, BR, BQ, BK
<1>2. ASSUME NEW p \in CastleRights, NEW q \in CastleRights, RightOf(p) = RightOf(q)
      PROVE  p = q
  <2>1. RightOf(p)[1] = RightOf(q)[1] /\ RightOf(p)[2] = RightOf(q)[2]
    BY <1>2
  <2>2. \A r \in CastleRights : /\ RightOf(r)[1] = "white" <=> r \in {WKCA, WQCA}
                                /\ RightOf(r)[2] = "king" <=> r \in {WKCA, BKCA}
    BY DEF RightOf
  <2>3. /\ p \in {WKCA, WQCA} <=> q \in {WKCA, WQCA}
        /\ p \in {WKCA, BKCA} <=> q \in {WKCA, BKCA}
    BY <2>1, <2>2
  <2> QED
    BY <2>3, ChessBoardAssumption DEF WKCA, WQCA, BKCA, BQCA
<1>3. \A p, q \in {WHITE, BLACK} : ColourOf(p) = ColourOf(q) => p = q
  BY ColoursAre
<1> QED
  BY <1>1, <1>2, <1>3

\* Positions are the same to the rules when they are alike.
LEMMA ViewTells ==
    ASSUME NEW p \in Positions, NEW q \in Positions
    PROVE  PositionOf(p) = PositionOf(q) <=> Alike(p, q)
<1>1. /\ p.mBoard \in [Squares -> Pieces \cup {NOPIECE}]
      /\ q.mBoard \in [Squares -> Pieces \cup {NOPIECE}]
      /\ p.side \in {WHITE, BLACK} /\ q.side \in {WHITE, BLACK}
      /\ p.castlePerm \subseteq CastleRights /\ q.castlePerm \subseteq CastleRights
      /\ p.enpas \in Squares \cup {OFFBOARD} /\ q.enpas \in Squares \cup {OFFBOARD}
  BY DEF Positions
<1>2. ASSUME PositionOf(p) = PositionOf(q)
      PROVE  Alike(p, q)
  <2>1. /\ [sq \in Occupied(p) |-> ManOf(p.mBoard[sq])]
             = [sq \in Occupied(q) |-> ManOf(q.mBoard[sq])]
        /\ ColourOf(p.side) = ColourOf(q.side)
        /\ {RightOf(right) : right \in p.castlePerm} = {RightOf(right) : right \in q.castlePerm}
        /\ {p.enpas} \ {OFFBOARD} = {q.enpas} \ {OFFBOARD}
    BY <1>2 DEF PositionOf
  <2>2. Occupied(p) = Occupied(q)
        /\ \A sq \in Occupied(p) : ManOf(p.mBoard[sq]) = ManOf(q.mBoard[sq])
    <3> DEFINE f == [sq \in Occupied(p) |-> ManOf(p.mBoard[sq])]
               g == [sq \in Occupied(q) |-> ManOf(q.mBoard[sq])]
    <3>1. /\ DOMAIN f = Occupied(p) /\ \A sq \in Occupied(p) : f[sq] = ManOf(p.mBoard[sq])
          /\ DOMAIN g = Occupied(q) /\ \A sq \in Occupied(q) : g[sq] = ManOf(q.mBoard[sq])
      OBVIOUS
    <3>2. f = g
      BY <2>1
    <3> HIDE DEF f, g
    <3> QED
      BY <3>1, <3>2
  <2>3. \A sq \in Squares : p.mBoard[sq] = q.mBoard[sq]
    <3> TAKE sq \in Squares
    <3>1. CASE sq \in Occupied(p)
      <4>1. p.mBoard[sq] \in Pieces /\ q.mBoard[sq] \in Pieces
        BY <1>1, <2>2, <3>1 DEF Occupied
      <4> QED
        BY <2>2, <3>1, <4>1, NamesTell
    <3>2. CASE sq \notin Occupied(p)
      BY <2>2, <3>2 DEF Occupied
    <3> QED
      BY <3>1, <3>2
  <2>4. p.mBoard = q.mBoard
    BY <1>1, <2>3
  <2>5. p.side = q.side
    BY <1>1, <2>1, NamesTell
  <2>6. p.castlePerm = q.castlePerm
    <3>1. \A right \in p.castlePerm : right \in q.castlePerm
      <4> TAKE right \in p.castlePerm
      <4>1. PICK other \in q.castlePerm : RightOf(right) = RightOf(other)
        BY <2>1
      <4> QED
        BY <1>1, <4>1, NamesTell
    <3>2. \A right \in q.castlePerm : right \in p.castlePerm
      <4> TAKE right \in q.castlePerm
      <4>1. PICK other \in p.castlePerm : RightOf(right) = RightOf(other)
        BY <2>1
      <4> QED
        BY <1>1, <4>1, NamesTell
    <3> QED
      BY <3>1, <3>2
  <2>7. p.enpas = q.enpas
    <3> DEFINE A == {p.enpas} \ {OFFBOARD}
               B == {q.enpas} \ {OFFBOARD}
    <3>1. A = B
      BY <2>1
    <3>2. (\A x : x \in A <=> x = p.enpas /\ x # OFFBOARD)
          /\ (\A x : x \in B <=> x = q.enpas /\ x # OFFBOARD)
      OBVIOUS
    <3> HIDE DEF A, B
    <3> QED
      BY <3>1, <3>2
  <2> QED
    BY <2>4, <2>5, <2>6, <2>7 DEF Alike
<1>3. ASSUME Alike(p, q)
      PROVE  PositionOf(p) = PositionOf(q)
  BY <1>3 DEF Alike, PositionOf, Occupied
<1> QED
  BY <1>2, <1>3

Views == {PositionOf(q) : q \in Positions}

\* q was there, and play has used up something of it since, if so noted.
Remembered(q, view, key, pos, used) ==
    /\ q \in Positions /\ view = PositionOf(q) /\ key = KeyOf(q)
    /\ Budget(pos.mBoard) <= Budget(q.mBoard)
    /\ used => Budget(pos.mBoard) < Budget(q.mBoard)

\* The history of pos has the keys of its line, and the positions up to the
\* last irreversible move had more to use up.
Recalls(pos, game) ==
    /\ game \in Seq(Views)
    /\ Len(game) = Len(pos.history) + 1
    /\ game[Len(game)] = PositionOf(pos)
    /\ pos.fiftyMove <= Len(pos.history)
    /\ \A i \in 1..Len(pos.history) :
          \E q : Remembered(q, game[i], pos.history[i].posKey, pos, i <= pos.fiftyMove)

\* A start recalls itself.
LEMMA RecallsStart ==
    ASSUME NEW pos \in Positions, pos.history = << >>, pos.fiftyMove = 0
    PROVE  Recalls(pos, <<PositionOf(pos)>>)
<1> DEFINE view == PositionOf(pos)
           game == <<view>>
<1>1. view \in Views
  BY DEF Views
<1> HIDE DEF view
<1>2. game \in Seq(Views) /\ Len(game) = 1 /\ game[1] = view
  BY <1>1
<1> HIDE DEF game
<1>3. Len(pos.history) = 0
  OBVIOUS
<1> QED
  BY <1>2, <1>3 DEF Recalls, game, view

\* A move adds the position it left.
LEMMA RecallsMade ==
    ASSUME NEW pos \in Positions, NEW move, MoveFits(pos, move), PawnAhead(pos, move),
           Made(pos, move) \in Positions, NEW game, Recalls(pos, game)
    PROVE  Recalls(Made(pos, move), Append(game, PositionOf(Made(pos, move))))
<1> DEFINE after == Made(pos, move)
           view == PositionOf(after)
           next == Append(game, view)
           n == Len(pos.history)
           old == pos.history
           h == Append(old, Entry(pos, move))
           now == Budget(after.mBoard)
           was == Budget(pos.mBoard)
<1>1. /\ after.history = h
      /\ after.fiftyMove = IF Counts(pos, move) THEN n + 1 ELSE pos.fiftyMove
      /\ Entry(pos, move).posKey = KeyOf(pos)
  BY DEF Made, Entry
<1>2. old \in Seq(Histories) /\ pos.fiftyMove \in Nat /\ after.history \in Seq(Histories)
  BY DEF Positions
<1>3. now \in Int /\ was \in Int /\ now <= was /\ (Counts(pos, move) => now < was)
  BY BudgetMade
<1>4. view \in Views
  BY DEF Views
<1>5. /\ game \in Seq(Views) /\ Len(game) = n + 1 /\ game[n + 1] = PositionOf(pos)
      /\ pos.fiftyMove <= n
      /\ \A i \in 1..n :
           \E q : Remembered(q, game[i], old[i].posKey, pos, i <= pos.fiftyMove)
  BY DEF Recalls
<1> HIDE DEF after, view, now, was, n, old
<1>6. /\ n \in Nat /\ Len(h) = n + 1 /\ h[n + 1] = Entry(pos, move)
      /\ \A i \in 1..n : h[i] = old[i]
  BY <1>2 DEF n, old
<1>7. /\ next \in Seq(Views) /\ Len(next) = n + 2 /\ next[n + 2] = view
      /\ \A i \in 1..(n + 1) : next[i] = game[i]
  BY <1>4, <1>5, <1>6
<1> HIDE DEF next, h
<1>8. ASSUME NEW i \in 1..(n + 1)
      PROVE  \E q : Remembered(q, next[i], h[i].posKey, after, i <= after.fiftyMove)
  <2>1. CASE i \in 1..n
    <3>1. PICK q : Remembered(q, game[i], old[i].posKey, pos, i <= pos.fiftyMove)
      BY <1>5, <2>1
    <3> DEFINE then == Budget(q.mBoard)
    <3>2. /\ q \in Positions /\ next[i] = PositionOf(q) /\ h[i].posKey = KeyOf(q)
          /\ was <= then /\ (i <= pos.fiftyMove => was < then)
      BY <1>6, <1>7, <2>1, <3>1 DEF Remembered, was
    <3>3. then \in Int
      BY BudgetType
    <3> HIDE DEF then
    <3>4. now <= then /\ (i <= after.fiftyMove => now < then)
      BY <1>1, <1>3, <3>2, <3>3
    <3> QED
      BY <3>2, <3>4 DEF Remembered, now, then
  <2>2. CASE i = n + 1
    <3>1. next[i] = PositionOf(pos) /\ h[i].posKey = KeyOf(pos)
      BY <1>1, <1>5, <1>6, <1>7, <2>2
    <3>2. i <= after.fiftyMove => now < was
      BY <1>1, <1>2, <1>3, <1>5, <1>6, <2>2
    <3>3. Remembered(pos, next[i], h[i].posKey, after, i <= after.fiftyMove)
      BY <1>3, <3>1, <3>2 DEF Remembered, now, was
    <3> QED
      BY <3>3
  <2> QED
    BY <1>6, <2>1, <2>2
<1>9. after.fiftyMove <= n + 1
  BY <1>1, <1>2, <1>5, <1>6
<1>10. Len(after.history) = n + 1 /\ Len(next) = Len(after.history) + 1
       /\ next[Len(next)] = PositionOf(after)
  <2>1. Len(after.history) = n + 1
    BY <1>1, <1>6
  <2>2. n + 1 + 1 = n + 2
    BY <1>6
  <2> QED
    BY <1>7, <2>1, <2>2 DEF view
<1>11. Recalls(after, next)
  BY <1>1, <1>7, <1>8, <1>9, <1>10 DEF Recalls
<1> QED
  BY <1>11 DEF after, next, view

\* numRep counts what the line holds.
LEMMA RepetitionsAre ==
    ASSUME NEW pos \in Positions, NEW game, Recalls(pos, game), NEW bd, Stands(bd, pos)
    PROVE  LET n == hisPly(bd)
               earlier == Cardinality({i \in 1..n : game[i] = game[n + 1]})
           IN  numRep(bd) = IF earlier > 2 THEN 2 ELSE earlier
<1> DEFINE n == hisPly(bd)
           same == {i \in 1..n : game[i] = game[n + 1]}
           seen == {i \in (bd.fiftyMove + 1)..n : bd.history[i].posKey = bd.posKey}
<1>1. /\ bd.history = pos.history /\ bd.fiftyMove = pos.fiftyMove /\ bd.posKey = KeyOf(pos)
      /\ n = Len(pos.history) /\ n \in Nat /\ pos.fiftyMove \in Nat
  <2>1. /\ bd.history = pos.history /\ bd.fiftyMove = pos.fiftyMove /\ bd.posKey = KeyOf(bd)
        /\ bd.mBoard = pos.mBoard /\ bd.side = pos.side
        /\ bd.castlePerm = pos.castlePerm /\ bd.enpas = pos.enpas
    BY StandsFields DEF Consistent
  <2>2. KeyOf(bd) = KeyOf(pos)
    BY <2>1 DEF KeyOf, PieceKeys, CastleKeys, EnpasKeys, SideKeys, Occupied
  <2>3. pos.history \in Seq(Histories) /\ pos.fiftyMove \in Nat
    BY DEF Positions
  <2> QED
    BY <2>1, <2>2, <2>3 DEF hisPly
<1>2. /\ game[n + 1] = PositionOf(pos) /\ pos.fiftyMove <= n
      /\ \A i \in 1..n : \E q :
           Remembered(q, game[i], pos.history[i].posKey, pos, i <= pos.fiftyMove)
  BY <1>1 DEF Recalls
<1> HIDE DEF n
<1>3. ASSUME NEW i \in 1..n
      PROVE  game[i] = game[n + 1]
               <=> i \in (pos.fiftyMove + 1)..n /\ pos.history[i].posKey = KeyOf(pos)
  <2>1. PICK q : Remembered(q, game[i], pos.history[i].posKey, pos, i <= pos.fiftyMove)
    BY <1>2
  <2>2. q \in Positions /\ game[i] = PositionOf(q) /\ pos.history[i].posKey = KeyOf(q)
    BY <2>1 DEF Remembered
  <2>3. game[i] = game[n + 1] <=> Alike(q, pos)
    BY <1>2, <2>2, ViewTells
  <2>4. pos.history[i].posKey = KeyOf(pos) <=> Alike(q, pos)
    BY <2>2, KeyTells
  <2>5. i <= pos.fiftyMove => ~Alike(q, pos)
    <3>1. i <= pos.fiftyMove => Budget(pos.mBoard) < Budget(q.mBoard)
      BY <2>1 DEF Remembered
    <3>2. Alike(q, pos) => Budget(pos.mBoard) = Budget(q.mBoard)
      BY DEF Alike
    <3>3. Budget(pos.mBoard) \in Int
      BY BudgetType
    <3> QED
      BY <3>1, <3>2, <3>3
  <2> QED
    BY <1>1, <2>3, <2>4, <2>5
<1>4. same = seen
  <2>1. seen = {i \in (pos.fiftyMove + 1)..n : pos.history[i].posKey = KeyOf(pos)}
    BY <1>1
  <2>2. (pos.fiftyMove + 1)..n \subseteq 1..n
    BY <1>1
  <2> QED
    BY <1>3, <2>1, <2>2
<1>5. numRep(bd) = CASE seen = {} -> 0
                     [] \E i \in seen : seen = {i} -> 1
                     [] OTHER -> 2
  BY DEF numRep, n
<1>6. IsFiniteSet(seen)
  <2>1. seen \in SUBSET Nat /\ \A i \in seen : i <= n
    BY <1>1
  <2> HIDE DEF seen
  <2> QED
    BY <1>1, <2>1, FS_BoundedSetOfNaturals
<1> HIDE DEF seen
<1> DEFINE size == Cardinality(seen)
<1>7. /\ size \in Nat
      /\ size = 0 <=> seen = {}
      /\ size = 1 <=> \E i \in seen : seen = {i}
  BY <1>6, FS_CardinalityType, FS_EmptySet, FS_Singleton
<1> HIDE DEF size
<1>8. numRep(bd) = IF size > 2 THEN 2 ELSE size
  <2>1. CASE size = 0
    <3>1. numRep(bd) = 0
      <4>1. seen = {} /\ ~ \E i \in seen : seen = {i}
        BY <1>7, <2>1
      <4> QED
        BY <1>5, <4>1
    <3> QED
      BY <2>1, <3>1
  <2>2. CASE size = 1
    <3>1. numRep(bd) = 1
      <4>1. seen # {} /\ \E i \in seen : seen = {i}
        BY <1>7, <2>2
      <4> QED
        BY <1>5, <4>1
    <3> QED
      BY <2>2, <3>1
  <2>3. CASE size \notin {0, 1}
    <3>1. numRep(bd) = 2
      <4>1. seen # {} /\ ~ \E i \in seen : seen = {i}
        BY <1>7, <2>3
      <4> QED
        BY <1>5, <4>1
    <3> QED
      BY <1>7, <2>3, <3>1
  <2> QED
    BY <2>1, <2>2, <2>3
<1> QED
  BY <1>4, <1>8 DEF size, n

\* Positions of chess, each with its line.
Lines(S) ==
    /\ Past(S)
    /\ \A pos \in S : \E game : Traced(pos, game) /\ Recalls(pos, game)

\* The inductive invariant of a game: the board stands for one of them, and
\* line is its line.
Recorded ==
    /\ line = LineOf(board)
    /\ \E S : Lines(S) /\ \E pos \in S : Stands(board, pos)

\* Games start with a line of one position.
LEMMA RecordedStart == RecordedInit => Recorded /\ Game!Init
<1> SUFFICES ASSUME NEW fen \in StartFens, board = parseFen(fen), line = LineOf(board)
             PROVE  Recorded /\ Game!Init
  BY DEF RecordedInit, Init
<1> DEFINE pos == Origin(fen)
           game == <<PositionOf(pos)>>
<1>1. pos \in Positions /\ Playable(pos) /\ Stands(board, pos)
  BY StartPlayable, ParseStands
<1>2. pos.history = << >> /\ pos.fiftyMove = 0
  BY DEF Origin
<1> HIDE DEF pos
<1>3. Traced(pos, game) /\ Recalls(pos, game)
  BY <1>1, <1>2, TracedStart, RecallsStart
<1>4. Lines({pos})
  BY <1>1, <1>2, <1>3 DEF Lines, Past, Reached
<1>5. line = <<PositionOf(board)>>
  BY <1>1, <1>3, TracedLine, SameView
<1>6. Game!Init
  BY <1>5 DEF Game!Init
<1> QED
  BY <1>1, <1>4, <1>6 DEF Recorded

\* A legal move continues the game.
LEMMA LegalContinues ==
    ASSUME NEW pos \in Positions, Playable(pos), NEW bd, Stands(bd, pos),
           NEW move \in generateMoves(bd), makeMove(bd, move).legal,
           NEW game, Recalls(pos, game)
    PROVE  Append(game, PositionOf(Made(pos, move))) \in Game!Continuations(game)
<1> DEFINE view == PositionOf(bd)
           m == MoveOf(bd, move)
<1>1. bd \in Boards /\ ListsMatch(bd) /\ Playable(bd)
  BY StandsFields, PlayableSame
<1>2. m \in Rules!PossibleMoves(view)
  BY <1>1, MovesAre
<1>3. ~Rules!InCheck(Rules!After(view, m), view.side)
  BY LegalIs
<1>4. view = PositionOf(pos) /\ m = MoveOf(pos, move) /\ FlagsTell(pos, move)
  BY <1>1, SameView, FlagsAre
<1>5. PositionOf(Made(pos, move)) = Rules!After(view, m)
  BY <1>4, MovesFit, AfterIs
<1>6. Game!Position(game) = view
  BY <1>4, GameRules DEF Recalls
<1> HIDE DEF view, m
<1>7. m \in Game!LegalMoves(view)
  BY <1>2, <1>3, GameRules DEF Rules!LegalMoves
<1>8. PositionOf(Made(pos, move)) = Game!After(view, m)
  BY <1>5, GameRules
<1> QED
  BY <1>6, <1>7, <1>8 DEF Game!Continuations

\* MakeMove plays a move, or leaves the game as it was.
LEMMA RecordedMake ==
    Recorded /\ MakeMove /\ line' = LineOf(board') => Recorded' /\ [Game!Next]_line
<1> SUFFICES ASSUME line = LineOf(board), NEW S, Lines(S), NEW pos \in S,
                    Stands(board, pos), NEW move \in generateMoves(board),
                    board' = makeMove(board, move).board, line' = LineOf(board')
             PROVE  Recorded' /\ [Game!Next]_line
  BY DEF Recorded, MakeMove
<1> DEFINE made == makeMove(board, move)
           next == Made(pos, move)
<1>1. pos \in Positions /\ Playable(pos) /\ MoveFits(pos, move) /\ move \in Moves
  BY MovesFit DEF Lines, Past, MoveFits
<1>2. PawnAhead(pos, move)
  <2>1. /\ board \in Boards /\ ListsMatch(board) /\ Playable(board)
        /\ board.mBoard = pos.mBoard /\ board.side = pos.side
    BY <1>1, StandsFields, PlayableSame
  <2>2. PawnAhead(board, move)
    BY <2>1, PawnsGoAhead
  <2> QED
    BY <2>1, <2>2 DEF PawnAhead
<1>3. PICK game : Traced(pos, game) /\ Recalls(pos, game)
  BY DEF Lines
<1>4. line = game
  BY <1>3, TracedLine
<1>5. \/ made.legal /\ Stands(made.board, next) /\ next \in Positions /\ Playable(next)
      \/ Stands(made.board, pos)
  <2> HIDE DEF made, next
  <2>1. made = makeMove(board, move) /\ next = Made(pos, move)
    BY DEF made, next
  <2> QED
    BY <1>1, <2>1, MakeMoveStands
<1>6. CASE Stands(made.board, pos)
  <2>1. LineOf(made.board) = game
    BY <1>3, <1>6, TracedLine
  <2>2. line' = line
    BY <1>4, <2>1
  <2> QED
    BY <1>6, <2>2 DEF Recorded
<1>7. CASE made.legal /\ Stands(made.board, next) /\ next \in Positions /\ Playable(next)
  <2> DEFINE longer == Append(game, PositionOf(next))
             U == S \cup {next}
  <2>1. Recalls(next, longer)
    BY <1>1, <1>2, <1>3, <1>7, RecallsMade
  <2>2. Traced(next, longer)
    <3>1. /\ game \in Seq(Views) /\ Len(game) = Len(pos.history) + 1
          /\ PositionOf(next) \in Views
      BY <1>3, <1>7 DEF Recalls, Views
    <3> QED
      BY <1>1, <1>3, <1>7, <3>1, TracedMade
  <2>3. longer \in Game!Continuations(game)
    BY <1>1, <1>3, <1>7, LegalContinues
  <2>4. LineOf(made.board) = longer
    BY <1>7, <2>2, TracedLine
  <2>5. Reached(next, U)
    BY <1>1 DEF Reached
  <2>6. \A q \in S : Reached(q, U)
    BY ReachedGrows DEF Lines, Past
  <2> HIDE DEF next, longer, made
  <2>7. Lines(U)
    BY <1>7, <2>1, <2>2, <2>5, <2>6 DEF Lines, Past
  <2>8. board' = made.board
    BY DEF made
  <2>9. Recorded'
    BY <1>7, <2>7, <2>8 DEF Recorded
  <2>10. Game!Play
    BY <1>4, <2>3, <2>4, <2>8 DEF Game!Play
  <2> QED
    BY <2>9, <2>10 DEF Game!Next
<1> QED
  BY <1>5, <1>6, <1>7

\* TakeBack undoes one.
LEMMA RecordedTake ==
    Recorded /\ TakeBack /\ line' = LineOf(board') => Recorded' /\ [Game!Next]_line
<1> SUFFICES ASSUME line = LineOf(board), NEW S, Lines(S), NEW pos \in S,
                    Stands(board, pos), hisPly(board) > 0, board' = takeBack(board),
                    line' = LineOf(board')
             PROVE  Recorded' /\ [Game!Next]_line
  BY DEF Recorded, TakeBack
<1>1. pos \in Positions /\ Reached(pos, S)
  BY DEF Lines, Past
<1>2. pos.history # << >>
  <2>1. board.history = pos.history
    BY <1>1, StandsFields
  <2> QED
    BY <2>1 DEF hisPly
<1>3. PICK before \in S : \E move \in Moves :
        MoveFits(before, move) /\ pos = Made(before, move)
  BY <1>1, <1>2 DEF Reached
<1>4. PICK move \in Moves : MoveFits(before, move) /\ pos = Made(before, move)
  BY <1>3
<1>5. before \in Positions
  BY DEF Lines, Past
<1>6. Stands(takeBack(board), before)
  BY <1>4, <1>5, TakenBackStands
<1>7. PICK game : Traced(before, game) /\ Recalls(before, game)
  BY DEF Lines
<1> DEFINE longer == Append(game, PositionOf(pos))
<1>8. game \in Seq(Views) /\ Len(game) = Len(before.history) + 1 /\ PositionOf(pos) \in Views
      /\ Len(before.history) \in Nat
  <2>1. before.history \in Seq(Histories)
    BY <1>5 DEF Positions
  <2> QED
    BY <1>1, <1>7, <2>1 DEF Recalls, Views
<1>9. Traced(pos, longer)
  BY <1>1, <1>4, <1>5, <1>7, <1>8, TracedMade
<1>10. line = longer
  BY <1>9, TracedLine
<1>11. LineOf(takeBack(board)) = game
  BY <1>6, <1>7, TracedLine
<1>12. Len(longer) > 1 /\ game = SubSeq(longer, 1, Len(longer) - 1)
  <2> DEFINE view == PositionOf(pos)
  <2> HIDE DEF view
  <2>1. view \in Views /\ longer = Append(game, view)
    BY <1>8 DEF view
  <2>2. /\ longer \in Seq(Views) /\ Len(longer) = Len(game) + 1 /\ Len(game) \in Nat
        /\ \A i \in 1..Len(game) : longer[i] = game[i]
    BY <1>8, <2>1
  <2>3. Len(longer) > 1
    BY <1>8, <2>2
  <2> HIDE DEF longer
  <2> DEFINE part == SubSeq(longer, 1, Len(longer) - 1)
  <2>4. /\ part \in Seq(Views) /\ Len(part) = Len(game)
        /\ \A i \in 1..Len(game) : part[i] = longer[i]
    BY <2>2
  <2>5. part = game
    <3> HIDE DEF part
    <3> QED
      BY <1>8, <2>2, <2>4
  <2> QED
    BY <2>3, <2>5
<1>13. Recorded'
  BY <1>6 DEF Recorded
<1>14. Game!Undo
  BY <1>10, <1>11, <1>12 DEF Game!Undo
<1> QED
  BY <1>13, <1>14 DEF Game!Next

\* gameWinner leaves the game as it was.
LEMMA RecordedWinner ==
    Recorded /\ GameWinner /\ line' = LineOf(board') => Recorded' /\ [Game!Next]_line
<1> SUFFICES ASSUME line = LineOf(board), NEW S, Lines(S), NEW pos \in S,
                    Stands(board, pos), board' = gameWinner(board).board,
                    line' = LineOf(board')
             PROVE  Recorded' /\ [Game!Next]_line
  BY DEF Recorded, GameWinner
<1>1. pos \in Positions /\ Playable(pos)
  BY DEF Lines, Past
<1>2. Stands(gameWinner(board).board, pos)
  BY <1>1, WinnerStands
<1>3. PICK game : Traced(pos, game) /\ Recalls(pos, game)
  BY DEF Lines
<1>4. line' = line
  BY <1>2, <1>3, TracedLine
<1> QED
  BY <1>2, <1>4 DEF Recorded

\* However long the game, line is the line of the position of chess that the
\* board stands for.
LEMMA AlwaysRecorded == RecordedSpec => []Recorded
<1>1. RecordedInit => Recorded
  BY RecordedStart
<1>2. Recorded /\ [RecordedNext]_<<board, line>> => Recorded'
  <2>1. ASSUME Recorded, RecordedNext
        PROVE  Recorded'
    BY <2>1, RecordedMake, RecordedTake, RecordedWinner DEF RecordedNext, Next
  <2>2. ASSUME Recorded, UNCHANGED <<board, line>>
        PROVE  Recorded'
    BY <2>2 DEF Recorded
  <2> QED
    BY <2>1, <2>2
<1> QED
  BY <1>1, <1>2, PTL DEF RecordedSpec

\* The engine plays chess, in games of any length from any start position of
\* chess: an accepted makeMove is a legal move to the position the rules give,
\* a rejected one changes nothing, and takeBack undoes exactly the last move.
THEOREM GameCorrect == RecordedSpec => PlaysChess
<1>1. RecordedInit => Game!Init
  BY RecordedStart
<1>2. Recorded /\ [RecordedNext]_<<board, line>> => [Game!Next]_line
  <2>1. ASSUME Recorded, RecordedNext
        PROVE  [Game!Next]_line
    BY <2>1, RecordedMake, RecordedTake, RecordedWinner DEF RecordedNext, Next
  <2>2. ASSUME UNCHANGED <<board, line>>
        PROVE  [Game!Next]_line
    BY <2>2
  <2> QED
    BY <2>1, <2>2
<1> QED
  BY <1>1, <1>2, AlwaysRecorded, PTL DEF RecordedSpec, PlaysChess, Game!Spec

\* What numRep says of a recorded game.
LEMMA RecordedRepetitions == Recorded => RepetitionsFound
<1> SUFFICES ASSUME line = LineOf(board), NEW S, Lines(S), NEW pos \in S,
                    Stands(board, pos)
             PROVE  RepetitionsFound
  BY DEF Recorded
<1>1. pos \in Positions
  BY DEF Lines, Past
<1>2. PICK game : Traced(pos, game) /\ Recalls(pos, game)
  BY DEF Lines
<1>3. line = game
  BY <1>2, TracedLine
<1> QED
  BY <1>1, <1>2, <1>3, RepetitionsAre DEF RepetitionsFound

\* In games of any length, numRep, which looks back only to the last
\* irreversible move and compares keys, finds every earlier occurrence of the
\* position.
THEOREM RepetitionsCorrect == RecordedSpec => []RepetitionsFound
BY AlwaysRecorded, RecordedRepetitions, PTL

============================================================================

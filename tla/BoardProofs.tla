---------------------------- MODULE BoardProofs ----------------------------
(***************************************************************************)
(* Proofs about the Board class for every set of squares, pieces and       *)
(* castling rights: type correctness, agreement of the piece lists, of the *)
(* position key and of the material with the squares, and the bound on the *)
(* fifty-move ply.                                                         *)
(***************************************************************************)
EXTENDS BoardContract, BoardLemmas

----------------------------------------------------------------------------
(* Types.                                                                  *)

\* Every call keeps the type of the board.
LEMMA TypeStep == TypeOK /\ [Next]_board => TypeOK'
<1> SUFFICES ASSUME TypeOK, [Next]_board
             PROVE  TypeOK'
  OBVIOUS
<1> USE DEF TypeOK
<1>1. ASSUME NEW sq \in Squares, NEW pce \in Pieces, AddPiece(sq, pce)
      PROVE  TypeOK'
  BY <1>1, AddPieceType DEF AddPiece
<1>2. ASSUME NEW sq \in Squares, RemovePiece(sq)
      PROVE  TypeOK'
  BY <1>2, RemovePieceType DEF RemovePiece
<1>3. ASSUME NEW right \in CastleRights,
             HashInCastle(right) \/ HashOutCastle(right)
      PROVE  TypeOK'
  BY <1>3, CastleType DEF HashInCastle, HashOutCastle
<1>4. ASSUME NEW sq \in Squares, HashInEp(sq)
      PROVE  TypeOK'
  BY <1>4, HashInEpType DEF HashInEp
<1>5. CASE HashOutEp
  BY <1>5, HashOutEpType DEF HashOutEp
<1>6. CASE ChangeSide
  BY <1>6, ChangeSideType DEF ChangeSide
<1>7. ASSUME NEW move \in Moves, PushHistory(move)
      PROVE  TypeOK'
  BY <1>7, HistoryType DEF PushHistory
<1>8. CASE PopHistory
  BY <1>8, PopHistoryType DEF PopHistory
<1>9. CASE UpdateFiftyMove
  BY <1>9, UpdateFiftyMoveType DEF UpdateFiftyMove
<1>10. CASE Clear
  BY <1>10, ClearBoardType DEF Clear
<1>11. CASE UNCHANGED board
  BY <1>11
<1> QED
  BY <1>1, <1>2, <1>3, <1>4, <1>5, <1>6, <1>7, <1>8, <1>9, <1>10, <1>11
     DEF Next

\* Every call of a Board method, in any order, leaves a well-formed board.
THEOREM TypeCorrect == Spec => []TypeOK
<1>1. Init => TypeOK
  BY ClearBoardType DEF Init, TypeOK
<1> QED
  BY <1>1, TypeStep, PTL DEF Spec

----------------------------------------------------------------------------
(* Piece lists.                                                            *)

\* No call makes a list disagree with the squares.
LEMMA ListsStep == TypeOK /\ ListsMatchBoard /\ [Next]_board => ListsMatchBoard'
<1> SUFFICES ASSUME board \in Boards, ListsMatch(board), [Next]_board
             PROVE  ListsMatch(board')
  BY DEF TypeOK, ListsMatchBoard
<1>1. ASSUME NEW sq \in Squares, NEW pce \in Pieces, AddPiece(sq, pce)
      PROVE  ListsMatch(board')
  BY <1>1, AddPieceLists DEF AddPiece
<1>2. ASSUME NEW sq \in Squares, RemovePiece(sq)
      PROVE  ListsMatch(board')
  BY <1>2, RemovePieceLists DEF RemovePiece
<1>3. CASE Clear
  BY <1>3 DEF Clear, ClearBoard, ListsMatch
<1>4. CASE board'.mBoard = board.mBoard /\ board'.pList = board.pList
  BY <1>4 DEF ListsMatch
<1>5. ASSUME NEW right \in CastleRights,
             HashInCastle(right) \/ HashOutCastle(right)
      PROVE  board'.mBoard = board.mBoard /\ board'.pList = board.pList
  BY <1>5 DEF HashInCastle, HashOutCastle, hashInCastle, hashOutCastle, Boards
<1>6. ASSUME NEW sq \in Squares, HashInEp(sq)
      PROVE  board'.mBoard = board.mBoard /\ board'.pList = board.pList
  BY <1>6 DEF HashInEp, hashInEp, Boards
<1>7. ASSUME HashOutEp \/ ChangeSide
      PROVE  board'.mBoard = board.mBoard /\ board'.pList = board.pList
  BY <1>7 DEF HashOutEp, hashOutEp, ChangeSide, changeSide, Boards
<1>8. ASSUME NEW move \in Moves, PushHistory(move)
      PROVE  board'.mBoard = board.mBoard /\ board'.pList = board.pList
  BY <1>8 DEF PushHistory, pushHistory, Boards
<1>9. ASSUME PopHistory \/ UpdateFiftyMove
      PROVE  board'.mBoard = board.mBoard /\ board'.pList = board.pList
  BY <1>9 DEF PopHistory, popHistory, UpdateFiftyMove, updateFiftyMove, Boards
<1>10. CASE UNCHANGED board
  BY <1>10
<1> QED
  BY <1>1, <1>2, <1>3, <1>4, <1>5, <1>6, <1>7, <1>8, <1>9, <1>10 DEF Next

\* The piece lists always name exactly the squares of each piece: the swap
\* in removePiece is right for every board and every order of calls.
THEOREM ListsCorrect == Spec => []ListsMatchBoard
<1>1. Init => ListsMatchBoard
  BY DEF Init, ClearBoard, ListsMatchBoard, ListsMatch
<1>2. Spec => []TypeOK
  BY TypeCorrect
<1> QED
  BY <1>1, <1>2, ListsStep, PTL DEF Spec

----------------------------------------------------------------------------
(* Position key.                                                           *)

\* No call makes the key disagree with the position.
LEMMA KeyStep == TypeOK /\ PosKeyMatchesBoard /\ [Next]_board => PosKeyMatchesBoard'
<1> SUFFICES ASSUME board \in Boards, board.posKey = KeyOf(board), [Next]_board
             PROVE  board'.posKey = KeyOf(board')
  BY DEF TypeOK, PosKeyMatchesBoard
<1>1. ASSUME NEW sq \in Squares, NEW pce \in Pieces, AddPiece(sq, pce)
      PROVE  board'.posKey = KeyOf(board')
  BY <1>1, AddPieceKey DEF AddPiece
<1>2. ASSUME NEW sq \in Squares, RemovePiece(sq)
      PROVE  board'.posKey = KeyOf(board')
  BY <1>2, RemovePieceKey DEF RemovePiece
<1>3. ASSUME NEW right \in CastleRights,
             HashInCastle(right) \/ HashOutCastle(right)
      PROVE  board'.posKey = KeyOf(board')
  BY <1>3, CastleKeyStep DEF HashInCastle, HashOutCastle
<1>4. ASSUME NEW sq \in Squares, HashInEp(sq)
      PROVE  board'.posKey = KeyOf(board')
  BY <1>4, HashInEpKey DEF HashInEp
<1>5. CASE HashOutEp
  BY <1>5, HashOutEpKey DEF HashOutEp
<1>6. CASE ChangeSide
  BY <1>6, ChangeSideKey DEF ChangeSide
<1>7. ASSUME /\ board'.mBoard = board.mBoard
             /\ board'.castlePerm = board.castlePerm
             /\ board'.enpas = board.enpas
             /\ board'.side = board.side
             /\ board'.posKey = board.posKey
      PROVE  board'.posKey = KeyOf(board')
  <2>1. /\ PieceKeys(board') = PieceKeys(board)
        /\ CastleKeys(board') = CastleKeys(board)
        /\ EnpasKeys(board') = EnpasKeys(board)
        /\ SideKeys(board') = SideKeys(board)
    BY <1>7 DEF PieceKeys, Occupied, CastleKeys, EnpasKeys, SideKeys
  <2> QED
    BY <1>7, <2>1 DEF KeyOf
<1>8. ASSUME NEW move \in Moves, PushHistory(move)
      PROVE  board'.posKey = KeyOf(board')
  BY <1>7, <1>8 DEF PushHistory, pushHistory, Boards
<1>9. CASE PopHistory \/ UpdateFiftyMove
  BY <1>7, <1>9 DEF PopHistory, popHistory, UpdateFiftyMove, updateFiftyMove, Boards
<1>10. CASE Clear
  BY <1>10, ClearBoardKey DEF Clear
<1>11. CASE UNCHANGED board
  BY <1>11
<1> QED
  BY <1>1, <1>2, <1>3, <1>4, <1>5, <1>6, <1>8, <1>9, <1>10, <1>11 DEF Next

\* The position key that is kept by XORing changes in and out is always the
\* key of the position, so equal positions always have equal keys.
THEOREM PosKeyCorrect == Spec => []PosKeyMatchesBoard
<1>1. Init => PosKeyMatchesBoard
  BY ClearBoardKey DEF Init, PosKeyMatchesBoard
<1>2. Spec => []TypeOK
  BY TypeCorrect
<1> QED
  BY <1>1, <1>2, KeyStep, PTL DEF Spec

----------------------------------------------------------------------------
(* Fifty-move ply.  What popHistory restores must be in range too, so the  *)
(* invariant speaks of every entry of history.                             *)

FiftyInv ==
    /\ FiftyMoveInPast
    /\ \A i \in 1..hisPly(board) : board.history[i].fiftyMove \in 0..(i - 1)

\* No call moves the last irreversible move past the present.
LEMMA FiftyStep == TypeOK /\ FiftyInv /\ [Next]_board => FiftyInv'
<1> SUFFICES ASSUME board \in Boards, FiftyInv, [Next]_board
             PROVE  FiftyInv'
  BY DEF TypeOK
<1> USE DEF FiftyInv, FiftyMoveInPast, hisPly
<1>0. board.history \in Seq(Histories)
  BY DEF Boards
<1>1. ASSUME board'.history = board.history, board'.fiftyMove = board.fiftyMove
      PROVE  FiftyInv'
  BY <1>1
<1>2. ASSUME NEW sq \in Squares, NEW pce \in Pieces, AddPiece(sq, pce)
      PROVE  FiftyInv'
  BY <1>1, <1>2 DEF AddPiece, addPiece, Boards
<1>3. ASSUME NEW sq \in Squares, RemovePiece(sq)
      PROVE  FiftyInv'
  BY <1>1, <1>3 DEF RemovePiece, removePiece, Boards
<1>4. ASSUME NEW right \in CastleRights,
             HashInCastle(right) \/ HashOutCastle(right)
      PROVE  FiftyInv'
  BY <1>1, <1>4 DEF HashInCastle, HashOutCastle, hashInCastle, hashOutCastle, Boards
<1>5. ASSUME NEW sq \in Squares, HashInEp(sq)
      PROVE  FiftyInv'
  BY <1>1, <1>5 DEF HashInEp, hashInEp, Boards
<1>6. CASE HashOutEp \/ ChangeSide
  BY <1>1, <1>6 DEF HashOutEp, hashOutEp, ChangeSide, changeSide, Boards
<1>7. ASSUME NEW move \in Moves, PushHistory(move)
      PROVE  FiftyInv'
  <2>1. /\ board'.history = Append(board.history, HistoryEntry(board, move))
        /\ board'.fiftyMove = board.fiftyMove
    BY <1>7 DEF PushHistory, pushHistory, Boards
  <2>2. HistoryEntry(board, move).fiftyMove = board.fiftyMove
    BY DEF HistoryEntry
  <2> QED
    BY <1>0, <2>1, <2>2
<1>8. CASE PopHistory
  <2>1. /\ Len(board.history) > 0
        /\ board'.history = SubSeq(board.history, 1, Len(board.history) - 1)
        /\ board'.fiftyMove = board.history[Len(board.history)].fiftyMove
    BY <1>8 DEF PopHistory, popHistory, getLastState, Boards
  <2> QED
    BY <1>0, <2>1
<1>9. CASE UpdateFiftyMove
  <2>1. board'.history = board.history /\ board'.fiftyMove = Len(board.history)
    BY <1>9 DEF UpdateFiftyMove, updateFiftyMove, Boards
  <2> QED
    BY <1>0, <2>1
<1>10. CASE Clear
  BY <1>10 DEF Clear, ClearBoard
<1>11. CASE UNCHANGED board
  BY <1>1, <1>11
<1> QED
  BY <1>2, <1>3, <1>4, <1>5, <1>6, <1>7, <1>8, <1>9, <1>10, <1>11 DEF Next

\* The ply of the last irreversible move is never in the future, in any
\* nesting of pushHistory, updateFiftyMove and popHistory.
THEOREM FiftyMoveCorrect == Spec => []FiftyMoveInPast
<1>1. Init => FiftyInv
  BY DEF Init, ClearBoard, FiftyInv, FiftyMoveInPast, hisPly
<1>2. Spec => []TypeOK
  BY TypeCorrect
<1>3. FiftyInv => FiftyMoveInPast
  BY DEF FiftyInv
<1> QED
  BY <1>1, <1>2, <1>3, FiftyStep, PTL DEF Spec

----------------------------------------------------------------------------
(* Material.                                                               *)

MaterialInv == MaterialFits(board)

\* The sum is kept, whichever the call is.
LEMMA MaterialStep == TypeOK /\ MaterialInv /\ [Next]_board => MaterialInv'
<1> SUFFICES ASSUME board \in Boards, MaterialFits(board), [Next]_board
             PROVE  MaterialFits(board')
  BY DEF TypeOK, MaterialInv
<1>1. ASSUME NEW sq \in Squares, NEW pce \in Pieces, AddPiece(sq, pce)
      PROVE  MaterialFits(board')
  BY <1>1, AddPieceMaterial DEF AddPiece
<1>2. ASSUME NEW sq \in Squares, RemovePiece(sq)
      PROVE  MaterialFits(board')
  BY <1>2, RemovePieceMaterial DEF RemovePiece
<1>3. ASSUME NEW right \in CastleRights, HashInCastle(right) \/ HashOutCastle(right)
      PROVE  MaterialFits(board')
  BY <1>3, OthersMaterial
     DEF HashInCastle, HashOutCastle, hashInCastle, hashOutCastle, Boards
<1>4. ASSUME NEW sq \in Squares, HashInEp(sq)
      PROVE  MaterialFits(board')
  BY <1>4, OthersMaterial DEF HashInEp, hashInEp, Boards
<1>5. CASE HashOutEp \/ ChangeSide
  BY <1>5, OthersMaterial
     DEF HashOutEp, hashOutEp, ChangeSide, changeSide, Boards
<1>6. ASSUME NEW move \in Moves, PushHistory(move)
      PROVE  MaterialFits(board')
  BY <1>6, OthersMaterial DEF PushHistory, pushHistory, Boards
<1>7. CASE PopHistory \/ UpdateFiftyMove
  BY <1>7, OthersMaterial
     DEF PopHistory, popHistory, UpdateFiftyMove, updateFiftyMove, Boards
<1>8. CASE Clear
  <2>1. board'.material = 0 /\ board' = ClearBoard
    BY <1>8 DEF Clear, ClearBoard
  <2> QED
    BY <2>1, ClearMaterial, FS_EmptySet DEF MaterialFits
<1>9. CASE UNCHANGED board
  BY <1>9, OthersMaterial
<1> QED
  BY <1>1, <1>2, <1>3, <1>4, <1>5, <1>6, <1>7, <1>8, <1>9 DEF Next

\* For any squares and pieces, however many calls and in whatever order: the
\* balance that addPiece and removePiece keep up is the sum over the board.
THEOREM MaterialCorrect == Spec => []MaterialMatchesBoard
<1>1. Init => MaterialInv
  <2> SUFFICES ASSUME Init
               PROVE  MaterialInv
    OBVIOUS
  <2>1. board.material = 0 /\ board = ClearBoard
    BY DEF Init, ClearBoard
  <2> QED
    BY <2>1, ClearMaterial, FS_EmptySet DEF MaterialInv, MaterialFits
<1>2. MaterialInv => MaterialMatchesBoard
  BY SumIsTotal DEF MaterialInv, MaterialFits, MaterialMatchesBoard
<1>3. Init => TypeOK
  BY ClearBoardType DEF Init, TypeOK
<1> QED
  BY <1>1, <1>2, <1>3, TypeStep, MaterialStep, PTL DEF Spec

============================================================================

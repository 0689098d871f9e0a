---------------------------- MODULE BoardLemmas ----------------------------
(***************************************************************************)
(* What each method of the Board class keeps, for every set of squares,    *)
(* pieces, rights and moves: the type of a board, and the agreement of     *)
(* piece lists, position key and material with the squares.  Whoever       *)
(* drives a board (BoardContract, Movegen) rests on these.                 *)
(***************************************************************************)
EXTENDS Board, FiniteSets, FiniteSetsExt, FiniteSetTheorems,
        WellFoundedInduction, TLAPS

----------------------------------------------------------------------------
(* Types.                                                                  *)

\* An empty board is well formed.
LEMMA ClearBoardType == ClearBoard \in Boards
BY WorthAssumption DEF ClearBoard, Boards, Keys, WHITE, BLACK

\* addPiece keeps a board well formed.
LEMMA AddPieceType ==
    ASSUME NEW bd \in Boards, NEW sq \in Squares, NEW pce \in Pieces
    PROVE  addPiece(bd, sq, pce) \in Boards
<1>1. Append(bd.pList[pce], sq) \in Seq(Squares)
  BY DEF Boards
<1>2. Xor(bd.posKey, {PceKey(sq, pce)}) \in SUBSET Keys
  BY DEF Boards, Xor, Keys
<1>3. bd.material + Worth[pce] \in Int
  BY WorthAssumption DEF Boards
<1> QED
  BY <1>1, <1>2, <1>3 DEF addPiece, Boards

\* Dropping a square leaves a list of squares.
LEMMA DropFromListType ==
    ASSUME NEW list \in Seq(Squares), NEW sq
    PROVE  DropFromList(list, sq) \in Seq(Squares)
<1>1. CASE Len(list) = 0
  BY <1>1 DEF DropFromList
<1>2. CASE Len(list) # 0
  BY <1>2 DEF DropFromList
<1> QED
  BY <1>1, <1>2

\* removePiece keeps a board well formed, on an empty square too.
LEMMA RemovePieceType ==
    ASSUME NEW bd \in Boards, NEW sq \in Squares
    PROVE  removePiece(bd, sq) \in Boards
<1>1. CASE bd.mBoard[sq] = NOPIECE
  BY <1>1 DEF removePiece, Boards
<1>2. CASE bd.mBoard[sq] # NOPIECE
  <2> DEFINE pce == bd.mBoard[sq]
  <2>1. pce \in Pieces
    BY <1>2 DEF Boards
  <2>2. DropFromList(bd.pList[pce], sq) \in Seq(Squares)
    BY <2>1, DropFromListType DEF Boards
  <2>3. Xor(bd.posKey, {PceKey(sq, pce)}) \in SUBSET Keys
    BY <2>1 DEF Boards, Xor, Keys
  <2>4. bd.material - Worth[pce] \in Int
    BY <2>1, WorthAssumption DEF Boards
  <2> QED
    BY <1>2, <2>1, <2>2, <2>3, <2>4 DEF removePiece, Boards
<1> QED
  BY <1>1, <1>2

\* Hashing a castling right in or out keeps a board well formed.
LEMMA CastleType ==
    ASSUME NEW bd \in Boards, NEW right \in CastleRights
    PROVE  /\ hashInCastle(bd, right) \in Boards
           /\ hashOutCastle(bd, right) \in Boards
<1>1. Xor(bd.posKey, {CastleKey(right)}) \in SUBSET Keys
  BY DEF Boards, Xor, Keys
<1> QED
  BY <1>1 DEF hashInCastle, hashOutCastle, Boards

\* hashInEp keeps a board well formed.
LEMMA HashInEpType ==
    ASSUME NEW bd \in Boards, NEW sq \in Squares
    PROVE  hashInEp(bd, sq) \in Boards
<1>1. Xor(bd.posKey, {EnpasKey(sq)}) \in SUBSET Keys
  BY DEF Boards, Xor, Keys
<1> QED
  BY <1>1 DEF hashInEp, Boards

\* hashOutEp keeps a board well formed.
LEMMA HashOutEpType ==
    ASSUME NEW bd \in Boards
    PROVE  hashOutEp(bd) \in Boards
<1>1. \A s \in Squares : Xor(bd.posKey, {EnpasKey(s)}) \in SUBSET Keys
  BY DEF Boards, Xor, Keys
<1> QED
  BY <1>1 DEF hashOutEp, Boards

\* changeSide keeps a board well formed.
LEMMA ChangeSideType ==
    ASSUME NEW bd \in Boards
    PROVE  changeSide(bd) \in Boards
<1>1. Xor(bd.posKey, {SideKey}) \in SUBSET Keys
  BY DEF Boards, Xor, Keys
<1> QED
  BY <1>1 DEF changeSide, Boards

\* pushHistory keeps a board well formed.
LEMMA HistoryType ==
    ASSUME NEW bd \in Boards, NEW move \in Moves
    PROVE  pushHistory(bd, move) \in Boards
<1>1. HistoryEntry(bd, move) \in Histories
  BY MovesAssumption DEF HistoryEntry, Histories, Boards
<1>2. Append(bd.history, HistoryEntry(bd, move)) \in Seq(Histories)
  BY <1>1 DEF Boards
<1> QED
  BY <1>2 DEF pushHistory, Boards

\* popHistory keeps a board well formed when there is history to pop.
LEMMA PopHistoryType ==
    ASSUME NEW bd \in Boards, hisPly(bd) > 0
    PROVE  popHistory(bd) \in Boards
<1>1. bd.history[Len(bd.history)] \in Histories
  BY DEF Boards, hisPly
<1>2. bd.history[Len(bd.history)].fiftyMove \in Nat
  BY <1>1 DEF Histories
<1>3. SubSeq(bd.history, 1, Len(bd.history) - 1) \in Seq(Histories)
  BY DEF Boards, hisPly
<1> QED
  BY <1>2, <1>3 DEF popHistory, getLastState, hisPly, Boards

\* updateFiftyMove keeps a board well formed.
LEMMA UpdateFiftyMoveType ==
    ASSUME NEW bd \in Boards
    PROVE  updateFiftyMove(bd) \in Boards
BY DEF updateFiftyMove, hisPly, Boards

----------------------------------------------------------------------------
(* Piece lists.                                                            *)

NoRepeats(list) == \A j, k \in 1..Len(list) : list[j] = list[k] => j = k

\* new is list without its i-th entry, in some order.
Without(new, list, i) ==
    /\ Len(new) = Len(list) - 1
    /\ \A k \in 1..Len(new) : \E j \in 1..Len(list) : new[k] = list[j] /\ j # i
    /\ \A j \in 1..Len(list) : j # i => \E k \in 1..Len(new) : new[k] = list[j]

\* What one list of removePiece becomes: the removed square is gone, every
\* other square stays, and still no square occurs twice.
LEMMA DropFromListRange ==
    ASSUME NEW list \in Seq(Squares), NEW i \in 1..Len(list), NoRepeats(list)
    PROVE  LET new == DropFromList(list, list[i])
           IN  Without(new, list, i) /\ NoRepeats(new)
<1> DEFINE new == DropFromList(list, list[i])
<1> DEFINE n == Len(list)
<1>1. n \in Nat \ {0} /\ i \in 1..n
  OBVIOUS
<1>2. \A k \in 1..(n - 1) :
        (list[k] = list[i] /\ \A j \in 1..(k - 1) : list[j] # list[i]) <=> k = i
  BY <1>1 DEF NoRepeats
<1>3. new = [k \in 1..(n - 1) |-> IF k = i THEN list[n] ELSE list[k]]
  BY <1>2 DEF DropFromList
<1> HIDE DEF new
<1>4. Len(new) = n - 1
  BY <1>1, <1>3
<1>5. \A k \in 1..(n - 1) : new[k] = IF k = i THEN list[n] ELSE list[k]
  BY <1>3
<1>6. \A k \in 1..(n - 1) : \E j \in 1..n : new[k] = list[j] /\ j # i
  <2> TAKE k \in 1..(n - 1)
  <2>1. CASE k = i
    <3> WITNESS n \in 1..n
    <3> QED
      BY <1>1, <1>5, <2>1
  <2>2. CASE k # i
    <3> WITNESS k \in 1..n
    <3> QED
      BY <1>5, <2>2
  <2> QED
    BY <2>1, <2>2
<1>7. \A j \in 1..n : j # i => \E k \in 1..(n - 1) : new[k] = list[j]
  <2> TAKE j \in 1..n
  <2> HAVE j # i
  <2>1. CASE j = n
    <3> i \in 1..(n - 1)
      BY <1>1, <2>1
    <3> WITNESS i \in 1..(n - 1)
    <3> QED
      BY <1>5, <2>1
  <2>2. CASE j # n
    <3> j \in 1..(n - 1)
      BY <1>1, <2>2
    <3> WITNESS j \in 1..(n - 1)
    <3> QED
      BY <1>5
  <2> QED
    BY <2>1, <2>2
<1>8. \A j, k \in 1..(n - 1) : new[j] = new[k] => j = k
  BY <1>1, <1>5 DEF NoRepeats
<1>9. Without(new, list, i) /\ NoRepeats(new)
  BY <1>4, <1>6, <1>7, <1>8 DEF Without, NoRepeats
<1> QED
  BY <1>9 DEF new

\* addPiece appends the square to the list of its piece and to no other.
LEMMA AddPieceLists ==
    ASSUME NEW bd \in Boards, NEW sq \in Squares, NEW pce \in Pieces,
           ListsMatch(bd), bd.mBoard[sq] = NOPIECE
    PROVE  ListsMatch(addPiece(bd, sq, pce))
<1> DEFINE new == addPiece(bd, sq, pce)
<1>1. /\ new.mBoard = [bd.mBoard EXCEPT ![sq] = pce]
      /\ new.pList = [bd.pList EXCEPT ![pce] = Append(@, sq)]
  BY DEF addPiece, Boards
<1> HIDE DEF new
<1>2. /\ bd.mBoard \in [Squares -> Pieces \cup {NOPIECE}]
      /\ bd.pList \in [Pieces -> Seq(Squares)]
  BY DEF Boards
<1> DEFINE n == Len(bd.pList[pce])
<1>3. /\ Len(new.pList[pce]) = n + 1
      /\ new.pList[pce][n + 1] = sq
      /\ \A i \in 1..n : new.pList[pce][i] = bd.pList[pce][i]
      /\ n \in Nat
  BY <1>1, <1>2
<1>4. \A p \in Pieces \ {pce} : new.pList[p] = bd.pList[p]
  BY <1>1, <1>2
<1>5. \A p \in Pieces : \A i \in 1..Len(bd.pList[p]) : bd.pList[p][i] # sq
  BY NoPieceAssumption DEF ListsMatch
<1>6. \A p \in Pieces : \A i \in 1..Len(new.pList[p]) :
        new.mBoard[new.pList[p][i]] = p
  <2> TAKE p \in Pieces
  <2> TAKE i \in 1..Len(new.pList[p])
  <2>1. CASE p = pce /\ i = n + 1
    BY <1>1, <1>2, <1>3, <2>1
  <2>2. CASE p = pce /\ i # n + 1
    <3>1. i \in 1..n /\ new.pList[p][i] = bd.pList[p][i]
      BY <1>3, <2>2
    <3>2. bd.pList[p][i] \in Squares \ {sq} /\ bd.mBoard[bd.pList[p][i]] = p
      BY <1>2, <1>5, <2>2, <3>1 DEF ListsMatch
    <3> QED
      BY <1>1, <1>2, <3>1, <3>2
  <2>3. CASE p # pce
    <3>1. bd.pList[p][i] \in Squares \ {sq} /\ bd.mBoard[bd.pList[p][i]] = p
      BY <1>2, <1>4, <1>5, <2>3 DEF ListsMatch
    <3> QED
      BY <1>1, <1>2, <1>4, <2>3, <3>1
  <2> QED
    BY <2>1, <2>2, <2>3
<1>7. \A p \in Pieces : \A i, j \in 1..Len(new.pList[p]) :
        new.pList[p][i] = new.pList[p][j] => i = j
  <2> TAKE p \in Pieces
  <2>1. CASE p = pce
    <3> TAKE i, j \in 1..Len(new.pList[p])
    <3> HAVE new.pList[p][i] = new.pList[p][j]
    <3>1. CASE i \in 1..n /\ j \in 1..n
      <4>1. \A k, m \in 1..n : bd.pList[pce][k] = bd.pList[pce][m] => k = m
        BY DEF ListsMatch
      <4>2. bd.pList[pce][i] = bd.pList[pce][j]
        BY <1>3, <2>1, <3>1
      <4> QED
        BY <3>1, <4>1, <4>2
    <3>2. CASE i = n + 1 /\ j \in 1..n
      BY <1>3, <1>5, <2>1, <3>2
    <3>3. CASE i \in 1..n /\ j = n + 1
      BY <1>3, <1>5, <2>1, <3>3
    <3> QED
      BY <1>3, <2>1, <3>1, <3>2, <3>3
  <2>2. CASE p # pce
    BY <1>4, <2>2 DEF ListsMatch
  <2> QED
    BY <2>1, <2>2
<1>8. \A s \in Squares : new.mBoard[s] # NOPIECE =>
        \E i \in 1..Len(new.pList[new.mBoard[s]]) :
            new.pList[new.mBoard[s]][i] = s
  <2> TAKE s \in Squares
  <2> HAVE new.mBoard[s] # NOPIECE
  <2>1. CASE s = sq
    BY <1>1, <1>2, <1>3, <2>1
  <2>2. CASE s # sq
    <3> DEFINE p == bd.mBoard[s]
    <3>1. new.mBoard[s] = p /\ p \in Pieces
      BY <1>1, <1>2, <2>2
    <3>2. PICK i \in 1..Len(bd.pList[p]) : bd.pList[p][i] = s
      BY <3>1 DEF ListsMatch
    <3>3. i \in 1..Len(new.pList[p]) /\ new.pList[p][i] = s
      BY <1>3, <1>4, <3>1, <3>2
    <3> QED
      BY <3>1, <3>3
  <2> QED
    BY <2>1, <2>2
<1> QED
  BY <1>6, <1>7, <1>8 DEF ListsMatch, new

\* removePiece takes the square off the list of its piece and no other.
LEMMA RemovePieceLists ==
    ASSUME NEW bd \in Boards, NEW sq \in Squares,
           ListsMatch(bd), bd.mBoard[sq] # NOPIECE
    PROVE  ListsMatch(removePiece(bd, sq))
<1> DEFINE new == removePiece(bd, sq)
           pce == bd.mBoard[sq]
           list == bd.pList[pce]
<1>1. /\ bd.mBoard \in [Squares -> Pieces \cup {NOPIECE}]
      /\ bd.pList \in [Pieces -> Seq(Squares)]
      /\ pce \in Pieces
      /\ list \in Seq(Squares)
  BY DEF Boards
<1>2. /\ new.mBoard = [bd.mBoard EXCEPT ![sq] = NOPIECE]
      /\ new.pList = [bd.pList EXCEPT ![pce] = DropFromList(list, sq)]
  BY DEF removePiece, Boards
<1> HIDE DEF new
<1>3. PICK at \in 1..Len(list) : list[at] = sq
  BY DEF ListsMatch
<1>4. NoRepeats(list)
  BY <1>1 DEF ListsMatch, NoRepeats
<1>5. Without(new.pList[pce], list, at) /\ NoRepeats(new.pList[pce])
  <2>1. new.pList[pce] = DropFromList(list, list[at])
    BY <1>1, <1>2, <1>3
  <2>2. list \in Seq(Squares)
    BY <1>1
  <2> HIDE DEF list, pce
  <2> QED
    BY <1>4, <2>1, <2>2, DropFromListRange
<1>6. \A p \in Pieces \ {pce} : new.pList[p] = bd.pList[p]
  BY <1>1, <1>2
<1>7. \A p \in Pieces : \A i \in 1..Len(new.pList[p]) :
        new.mBoard[new.pList[p][i]] = p
  <2> TAKE p \in Pieces
  <2> TAKE i \in 1..Len(new.pList[p])
  <2>1. CASE p = pce
    <3>1. PICK j \in 1..Len(list) : new.pList[pce][i] = list[j] /\ j # at
      BY <1>5, <2>1 DEF Without
    <3>2. list[j] \in Squares \ {sq} /\ bd.mBoard[list[j]] = pce
      BY <1>1, <1>3, <1>4, <3>1 DEF ListsMatch, NoRepeats
    <3> QED
      BY <1>1, <1>2, <2>1, <3>1, <3>2
  <2>2. CASE p # pce
    <3>1. i \in 1..Len(bd.pList[p]) /\ new.pList[p][i] = bd.pList[p][i]
      BY <1>6, <2>2
    <3>2. bd.pList[p][i] \in Squares /\ bd.mBoard[bd.pList[p][i]] = p
      BY <1>1, <3>1 DEF ListsMatch
    <3> QED
      BY <1>1, <1>2, <2>2, <3>1, <3>2
  <2> QED
    BY <2>1, <2>2
<1>8. \A p \in Pieces : \A i, j \in 1..Len(new.pList[p]) :
        new.pList[p][i] = new.pList[p][j] => i = j
  <2> TAKE p \in Pieces
  <2>1. CASE p = pce
    BY <1>5, <2>1 DEF NoRepeats
  <2>2. CASE p # pce
    BY <1>6, <2>2 DEF ListsMatch
  <2> QED
    BY <2>1, <2>2
<1>9. \A s \in Squares : new.mBoard[s] # NOPIECE =>
        \E i \in 1..Len(new.pList[new.mBoard[s]]) :
            new.pList[new.mBoard[s]][i] = s
  <2> TAKE s \in Squares
  <2> HAVE new.mBoard[s] # NOPIECE
  <2> DEFINE p == bd.mBoard[s]
  <2>1. s # sq /\ new.mBoard[s] = p /\ p \in Pieces
    BY <1>1, <1>2
  <2>2. PICK j \in 1..Len(bd.pList[p]) : bd.pList[p][j] = s
    BY <2>1 DEF ListsMatch
  <2>3. CASE p = pce
    <3>1. j # at
      BY <1>3, <2>1, <2>2, <2>3
    <3>2. PICK k \in 1..Len(new.pList[pce]) : new.pList[pce][k] = list[j]
      BY <1>5, <2>2, <2>3, <3>1 DEF Without
    <3>3. new.pList[pce][k] = s /\ new.mBoard[s] = pce
      BY <2>1, <2>2, <2>3, <3>2
    <3> QED
      BY <3>2, <3>3
  <2>4. CASE p # pce
    BY <1>6, <2>1, <2>2, <2>4
  <2> QED
    BY <2>3, <2>4
<1> QED
  BY <1>7, <1>8, <1>9 DEF ListsMatch, new

----------------------------------------------------------------------------
(* Position key.                                                           *)

\* XORing a name that is absent puts it in, one that is present takes it out.
LEMMA XorIsToggle ==
    ASSUME NEW key, NEW name
    PROVE  /\ name \notin key => Xor(key, {name}) = key \cup {name}
           /\ name \in key => Xor(key, {name}) = key \ {name}
BY DEF Xor

\* addPiece toggles the one key that the new piece adds to the position.
LEMMA AddPieceKey ==
    ASSUME NEW bd \in Boards, NEW sq \in Squares, NEW pce \in Pieces,
           bd.mBoard[sq] = NOPIECE, bd.posKey = KeyOf(bd)
    PROVE  addPiece(bd, sq, pce).posKey = KeyOf(addPiece(bd, sq, pce))
<1> DEFINE new == addPiece(bd, sq, pce)
<1>1. /\ bd.mBoard \in [Squares -> Pieces \cup {NOPIECE}]
      /\ new.mBoard = [bd.mBoard EXCEPT ![sq] = pce]
      /\ new.posKey = Xor(bd.posKey, {PceKey(sq, pce)})
      /\ new.castlePerm = bd.castlePerm
      /\ new.enpas = bd.enpas
      /\ new.side = bd.side
  BY DEF addPiece, Boards
<1> HIDE DEF new
<1>2. Occupied(new) = Occupied(bd) \cup {sq}
  BY <1>1, NoPieceAssumption DEF Occupied
<1>3. PieceKeys(new) = PieceKeys(bd) \cup {PceKey(sq, pce)}
  <2>1. \A s \in Occupied(bd) : new.mBoard[s] = bd.mBoard[s]
    BY <1>1 DEF Occupied
  <2>2. new.mBoard[sq] = pce
    BY <1>1
  <2> QED
    BY <1>2, <2>1, <2>2 DEF PieceKeys
<1>4. PceKey(sq, pce) \notin KeyOf(bd)
  <2>1. PceKey(sq, pce) \notin PieceKeys(bd)
    BY DEF PieceKeys, PceKey, Occupied
  <2>2. PceKey(sq, pce) \notin CastleKeys(bd) \cup EnpasKeys(bd) \cup SideKeys(bd)
    BY DEF PceKey, CastleKeys, CastleKey, EnpasKeys, EnpasKey, SideKeys, SideKey
  <2> QED
    BY <2>1, <2>2 DEF KeyOf
<1>5. /\ CastleKeys(new) = CastleKeys(bd)
      /\ EnpasKeys(new) = EnpasKeys(bd)
      /\ SideKeys(new) = SideKeys(bd)
  BY <1>1 DEF CastleKeys, EnpasKeys, SideKeys
<1>6. new.posKey = KeyOf(bd) \cup {PceKey(sq, pce)}
  BY <1>1, <1>4, XorIsToggle
<1> QED
  BY <1>3, <1>5, <1>6 DEF KeyOf, new

\* removePiece toggles the one key that the piece leaves behind.
LEMMA RemovePieceKey ==
    ASSUME NEW bd \in Boards, NEW sq \in Squares,
           bd.mBoard[sq] # NOPIECE, bd.posKey = KeyOf(bd)
    PROVE  removePiece(bd, sq).posKey = KeyOf(removePiece(bd, sq))
<1> DEFINE new == removePiece(bd, sq)
           pce == bd.mBoard[sq]
<1>1. /\ bd.mBoard \in [Squares -> Pieces \cup {NOPIECE}]
      /\ new.mBoard = [bd.mBoard EXCEPT ![sq] = NOPIECE]
      /\ new.posKey = Xor(bd.posKey, {PceKey(sq, pce)})
      /\ new.castlePerm = bd.castlePerm
      /\ new.enpas = bd.enpas
      /\ new.side = bd.side
  BY DEF removePiece, Boards
<1> HIDE DEF new
<1>2. Occupied(new) = Occupied(bd) \ {sq} /\ sq \in Occupied(bd)
  BY <1>1 DEF Occupied
<1>3. PceKey(sq, pce) \in PieceKeys(bd)
  BY <1>2 DEF PieceKeys
<1>4. PieceKeys(new) = PieceKeys(bd) \ {PceKey(sq, pce)}
  <2>1. \A s \in Occupied(bd) \ {sq} :
          /\ new.mBoard[s] = bd.mBoard[s]
          /\ PceKey(s, bd.mBoard[s]) # PceKey(sq, pce)
    BY <1>1 DEF Occupied, PceKey
  <2> QED
    BY <1>2, <2>1 DEF PieceKeys
<1>5. PceKey(sq, pce) \notin CastleKeys(bd) \cup EnpasKeys(bd) \cup SideKeys(bd)
  BY DEF PceKey, CastleKeys, CastleKey, EnpasKeys, EnpasKey, SideKeys, SideKey
<1>6. /\ CastleKeys(new) = CastleKeys(bd)
      /\ EnpasKeys(new) = EnpasKeys(bd)
      /\ SideKeys(new) = SideKeys(bd)
  BY <1>1 DEF CastleKeys, EnpasKeys, SideKeys
<1>7. new.posKey = KeyOf(bd) \ {PceKey(sq, pce)}
  BY <1>1, <1>3, XorIsToggle DEF KeyOf
<1> QED
  BY <1>4, <1>5, <1>6, <1>7 DEF KeyOf, new

\* A castling right and its key come and go together.
LEMMA CastleKeyStep ==
    ASSUME NEW bd \in Boards, NEW right \in CastleRights, bd.posKey = KeyOf(bd)
    PROVE  /\ hashInCastle(bd, right).posKey = KeyOf(hashInCastle(bd, right))
           /\ hashOutCastle(bd, right).posKey = KeyOf(hashOutCastle(bd, right))
<1>1. CastleKey(right) \notin PieceKeys(bd) \cup EnpasKeys(bd) \cup SideKeys(bd)
  BY DEF PceKey, PieceKeys, CastleKey, EnpasKeys, EnpasKey, SideKeys, SideKey
<1>2. CastleKey(right) \in CastleKeys(bd) <=> right \in bd.castlePerm
  BY DEF CastleKeys, CastleKey
<1>3. ASSUME NEW new \in Boards,
             new.mBoard = bd.mBoard, new.enpas = bd.enpas, new.side = bd.side
      PROVE  /\ PieceKeys(new) = PieceKeys(bd)
             /\ EnpasKeys(new) = EnpasKeys(bd)
             /\ SideKeys(new) = SideKeys(bd)
  BY <1>3 DEF PieceKeys, Occupied, EnpasKeys, SideKeys
<1>4. CASE right \in bd.castlePerm
  <2> DEFINE new == hashOutCastle(bd, right)
  <2>1. /\ new.castlePerm = bd.castlePerm \ {right}
        /\ new.posKey = Xor(bd.posKey, {CastleKey(right)})
        /\ new.mBoard = bd.mBoard /\ new.enpas = bd.enpas /\ new.side = bd.side
    BY <1>4 DEF hashOutCastle, Boards
  <2>2. new \in Boards /\ hashInCastle(bd, right) = bd
    BY <1>4, CastleType DEF hashInCastle
  <2> HIDE DEF new
  <2>3. CastleKeys(new) = CastleKeys(bd) \ {CastleKey(right)}
    BY <2>1 DEF CastleKeys, CastleKey
  <2>4. new.posKey = KeyOf(bd) \ {CastleKey(right)}
    BY <1>2, <1>4, <2>1, XorIsToggle DEF KeyOf
  <2>5. new.posKey = KeyOf(new)
    BY <1>1, <1>3, <2>1, <2>2, <2>3, <2>4 DEF KeyOf
  <2> QED
    BY <2>2, <2>5 DEF new
<1>5. CASE right \notin bd.castlePerm
  <2> DEFINE new == hashInCastle(bd, right)
  <2>1. /\ new.castlePerm = bd.castlePerm \cup {right}
        /\ new.posKey = Xor(bd.posKey, {CastleKey(right)})
        /\ new.mBoard = bd.mBoard /\ new.enpas = bd.enpas /\ new.side = bd.side
    BY <1>5 DEF hashInCastle, Boards
  <2>2. new \in Boards /\ hashOutCastle(bd, right) = bd
    BY <1>5, CastleType DEF hashOutCastle
  <2> HIDE DEF new
  <2>3. CastleKeys(new) = CastleKeys(bd) \cup {CastleKey(right)}
    BY <2>1 DEF CastleKeys
  <2>4. new.posKey = KeyOf(bd) \cup {CastleKey(right)}
    BY <1>1, <1>2, <1>5, <2>1, XorIsToggle DEF KeyOf
  <2>5. new.posKey = KeyOf(new)
    BY <1>3, <2>1, <2>2, <2>3, <2>4 DEF KeyOf
  <2> QED
    BY <2>2, <2>5 DEF new
<1> QED
  BY <1>4, <1>5

\* hashInEp adds the key of the square where there was none.
LEMMA HashInEpKey ==
    ASSUME NEW bd \in Boards, NEW sq \in Squares,
           bd.enpas = OFFBOARD, bd.posKey = KeyOf(bd)
    PROVE  hashInEp(bd, sq).posKey = KeyOf(hashInEp(bd, sq))
<1> DEFINE new == hashInEp(bd, sq)
<1>1. /\ new.enpas = sq
      /\ new.posKey = Xor(bd.posKey, {EnpasKey(sq)})
      /\ new.mBoard = bd.mBoard /\ new.castlePerm = bd.castlePerm
      /\ new.side = bd.side
  BY DEF hashInEp, Boards
<1> HIDE DEF new
<1>2. EnpasKey(sq) \notin PieceKeys(bd) \cup CastleKeys(bd) \cup SideKeys(bd)
  BY DEF PceKey, PieceKeys, CastleKey, CastleKeys, EnpasKey, SideKeys, SideKey
<1>3. EnpasKeys(bd) = {} /\ EnpasKeys(new) = {EnpasKey(sq)}
  BY <1>1, OffboardAssumption DEF EnpasKeys
<1>4. /\ PieceKeys(new) = PieceKeys(bd)
      /\ CastleKeys(new) = CastleKeys(bd)
      /\ SideKeys(new) = SideKeys(bd)
  BY <1>1 DEF PieceKeys, Occupied, CastleKeys, SideKeys
<1>5. new.posKey = KeyOf(bd) \cup {EnpasKey(sq)}
  BY <1>1, <1>2, <1>3, XorIsToggle DEF KeyOf
<1> QED
  BY <1>3, <1>4, <1>5 DEF KeyOf, new

\* hashOutEp takes the key of the square out with the square.
LEMMA HashOutEpKey ==
    ASSUME NEW bd \in Boards, bd.posKey = KeyOf(bd)
    PROVE  hashOutEp(bd).posKey = KeyOf(hashOutEp(bd))
<1>1. CASE bd.enpas = OFFBOARD
  BY <1>1 DEF hashOutEp
<1>2. CASE bd.enpas # OFFBOARD
  <2> DEFINE new == hashOutEp(bd)
             name == EnpasKey(bd.enpas)
  <2>1. /\ new.enpas = OFFBOARD
        /\ new.posKey = Xor(bd.posKey, {name})
        /\ new.mBoard = bd.mBoard /\ new.castlePerm = bd.castlePerm
        /\ new.side = bd.side
    BY <1>2 DEF hashOutEp, Boards
  <2> HIDE DEF new
  <2>2. name \notin PieceKeys(bd) \cup CastleKeys(bd) \cup SideKeys(bd)
    BY DEF PceKey, PieceKeys, CastleKey, CastleKeys, EnpasKey, SideKeys, SideKey
  <2>3. EnpasKeys(bd) = {name} /\ EnpasKeys(new) = {}
    BY <1>2, <2>1 DEF EnpasKeys
  <2>4. /\ PieceKeys(new) = PieceKeys(bd)
        /\ CastleKeys(new) = CastleKeys(bd)
        /\ SideKeys(new) = SideKeys(bd)
    BY <2>1 DEF PieceKeys, Occupied, CastleKeys, SideKeys
  <2>5. new.posKey = KeyOf(bd) \ {name}
    BY <2>1, <2>3, XorIsToggle DEF KeyOf
  <2> QED
    BY <2>2, <2>3, <2>4, <2>5 DEF KeyOf, new
<1> QED
  BY <1>1, <1>2

\* changeSide toggles the key of the side to move.
LEMMA ChangeSideKey ==
    ASSUME NEW bd \in Boards, bd.posKey = KeyOf(bd)
    PROVE  changeSide(bd).posKey = KeyOf(changeSide(bd))
<1> DEFINE new == changeSide(bd)
<1>1. /\ bd.side \in {WHITE, BLACK}
      /\ new.side = IF bd.side = WHITE THEN BLACK ELSE WHITE
      /\ new.posKey = Xor(bd.posKey, {SideKey})
      /\ new.mBoard = bd.mBoard /\ new.castlePerm = bd.castlePerm
      /\ new.enpas = bd.enpas
  BY DEF changeSide, Boards
<1> HIDE DEF new
<1>2. SideKey \notin PieceKeys(bd) \cup CastleKeys(bd) \cup EnpasKeys(bd)
  BY DEF PceKey, PieceKeys, CastleKey, CastleKeys, EnpasKey, EnpasKeys, SideKey
<1>3. /\ PieceKeys(new) = PieceKeys(bd)
      /\ CastleKeys(new) = CastleKeys(bd)
      /\ EnpasKeys(new) = EnpasKeys(bd)
  BY <1>1 DEF PieceKeys, Occupied, CastleKeys, EnpasKeys
<1>4. CASE bd.side = WHITE
  <2>1. SideKeys(bd) = {SideKey} /\ SideKeys(new) = {}
    BY <1>1, <1>4 DEF SideKeys, WHITE, BLACK
  <2>2. new.posKey = KeyOf(bd) \ {SideKey}
    BY <1>1, <2>1, XorIsToggle DEF KeyOf
  <2> QED
    BY <1>2, <1>3, <2>1, <2>2 DEF KeyOf, new
<1>5. CASE bd.side = BLACK
  <2>1. SideKeys(bd) = {} /\ SideKeys(new) = {SideKey}
    BY <1>1, <1>5 DEF SideKeys, WHITE, BLACK
  <2>2. new.posKey = KeyOf(bd) \cup {SideKey}
    BY <1>1, <1>2, <2>1, XorIsToggle DEF KeyOf
  <2> QED
    BY <1>3, <2>1, <2>2 DEF KeyOf, new
<1> QED
  BY <1>1, <1>4, <1>5

\* The key of the empty board is empty.
LEMMA ClearBoardKey == ClearBoard.posKey = KeyOf(ClearBoard)
BY DEF ClearBoard, KeyOf, PieceKeys, Occupied, CastleKeys, EnpasKeys, SideKeys

----------------------------------------------------------------------------
(* Finite sets taken apart one element after another.                      *)

\* Of some numbers one is the least.
LEMMA LeastExists ==
    ASSUME NEW V \in SUBSET Nat, V # {}
    PROVE  \E n \in V : \A m \in V : n <= m
<1> DEFINE less == {p \in Nat \X Nat : p[1] < p[2]}
<1>1. IsWellFoundedOn(less, Nat)
  BY NatLessThanWellFounded DEF OpToRel
<1>2. \E n \in V : \A m \in V : ~(<<m, n>> \in less)
  <2> HIDE DEF less
  <2> QED
    BY <1>1, WFMin
<1>3. PICK n \in V : \A m \in V : ~(<<m, n>> \in less)
  BY <1>2
<1>4. ASSUME NEW m \in V
      PROVE  n <= m
  <2>1. n \in Nat /\ m \in Nat /\ ~(m < n)
    BY <1>3
  <2> QED
    BY <2>1
<1> QED
  BY <1>4

\* Taking an element away makes a finite set smaller by one.
LEMMA OneLess ==
    ASSUME NEW s, IsFiniteSet(s), NEW x \in s
    PROVE  /\ IsFiniteSet(s \ {x}) /\ Cardinality(s) \in Nat
           /\ Cardinality(s \ {x}) \in Nat /\ Cardinality(s \ {x}) = Cardinality(s) - 1
BY FS_RemoveElement, FS_CardinalityType

\* Each part of T is good if it is good whenever it is without its element that
\* is taken first.
Reaches(good, first, T) ==
    \A s \in SUBSET T : s # {} => /\ first[s] \in s
                                  /\ s \ {first[s]} \in good => s \in good

\* Induction over the parts of a finite set.
LEMMA PartsInduction ==
    ASSUME NEW T, IsFiniteSet(T), NEW good, {} \in good, NEW first, Reaches(good, first, T)
    PROVE  SUBSET T \subseteq good
<1> DEFINE bad == {s \in SUBSET T : s \notin good}
           V == {Cardinality(s) : s \in bad}
<1>1. \A s \in SUBSET T : IsFiniteSet(s) /\ Cardinality(s) \in Nat
  BY FS_Subset, FS_CardinalityType
<1>2. bad = {}
  <2> SUFFICES ASSUME bad # {}
               PROVE  FALSE
    OBVIOUS
  <2>1. V # {} /\ V \in SUBSET Nat
    BY <1>1
  <2>2. PICK n \in V : \A m \in V : n <= m
    <3> HIDE DEF V
    <3> QED
      BY <2>1, LeastExists
  <2>3. PICK s \in bad : Cardinality(s) = n
    BY <2>2
  <2>4. s # {} /\ first[s] \in s /\ s \ {first[s]} \notin good
    BY <2>3 DEF Reaches
  <2>5. s \ {first[s]} \in SUBSET T /\ Cardinality(s \ {first[s]}) < Cardinality(s)
    BY <1>1, <2>4, OneLess
  <2>6. s \ {first[s]} \in bad
    BY <2>4, <2>5
  <2> QED
    BY <1>1, <2>2, <2>3, <2>5, <2>6
<1> QED
  BY <1>2

\* g folds step over each part of T, one element after another: what first
\* gives of a part is taken last.
IsFold(g, base, step, first, T) ==
    g = [s \in SUBSET T |->
            IF s = {} THEN base ELSE step[<<g[s \ {first[s]}], first[s]>>]]

Parts(T, n) == {s \in SUBSET T : Cardinality(s) <= n}

\* The same for parts of at most n elements.
FoldsUpTo(g, B, base, step, first, T, n) ==
    /\ g \in [Parts(T, n) -> B]
    /\ \A s \in Parts(T, n) :
          g[s] = IF s = {} THEN base ELSE step[<<g[s \ {first[s]}], first[s]>>]

Takes(first, T) == \A s \in SUBSET T : s # {} => first[s] \in s

\* One element more can always be folded.
LEMMA FoldsGrow ==
    ASSUME NEW T, IsFiniteSet(T), NEW B, NEW base \in B, NEW step \in [B \X T -> B],
           NEW first, Takes(first, T), NEW n \in Nat, NEW h,
           FoldsUpTo(h, B, base, step, first, T, n)
    PROVE  \E g : FoldsUpTo(g, B, base, step, first, T, n + 1)
<1> DEFINE g == [s \in Parts(T, n + 1) |->
                    IF s = {} THEN base ELSE step[<<h[s \ {first[s]}], first[s]>>]]
<1>1. ASSUME NEW s \in Parts(T, n + 1), s # {}
      PROVE  /\ s \ {first[s]} \in Parts(T, n) /\ s \ {first[s]} \in Parts(T, n + 1)
             /\ first[s] \in T
  <2>1. IsFiniteSet(s) /\ first[s] \in s
    BY <1>1, FS_Subset DEF Parts, Takes
  <2> QED
    BY <2>1, OneLess DEF Parts
<1>2. g \in [Parts(T, n + 1) -> B]
  <2>1. ASSUME NEW s \in Parts(T, n + 1), s # {}
        PROVE  step[<<h[s \ {first[s]}], first[s]>>] \in B
    <3>1. h[s \ {first[s]}] \in B /\ first[s] \in T
      BY <1>1, <2>1 DEF FoldsUpTo
    <3> QED
      BY <3>1
  <2> QED
    BY <2>1
<1>3. \A s \in Parts(T, n) : s \in Parts(T, n + 1) /\ g[s] = h[s]
  <2>1. \A s \in Parts(T, n) : s \in Parts(T, n + 1)
    <3> TAKE s \in Parts(T, n)
    <3>1. Cardinality(s) \in Nat
      BY FS_Subset, FS_CardinalityType DEF Parts
    <3> QED
      BY <3>1 DEF Parts
  <2> QED
    BY <2>1 DEF FoldsUpTo
<1>4. ASSUME NEW s \in Parts(T, n + 1)
      PROVE  g[s] = IF s = {} THEN base ELSE step[<<g[s \ {first[s]}], first[s]>>]
  BY <1>1, <1>3
<1> HIDE DEF g
<1> QED
  BY <1>2, <1>4 DEF FoldsUpTo

\* So a fold over a finite set exists.
LEMMA FoldsExist ==
    ASSUME NEW T, IsFiniteSet(T), NEW B, NEW base \in B, NEW step \in [B \X T -> B],
           NEW first, Takes(first, T)
    PROVE  \E g \in [SUBSET T -> B] : IsFold(g, base, step, first, T)
<1> DEFINE V == {n \in Nat : ~ \E g : FoldsUpTo(g, B, base, step, first, T, n)}
<1>1. \E g : FoldsUpTo(g, B, base, step, first, T, 0)
  <2> DEFINE g == [s \in Parts(T, 0) |-> base]
  <2>1. \A s \in Parts(T, 0) : s = {}
    <3> TAKE s \in Parts(T, 0)
    <3>1. IsFiniteSet(s) /\ Cardinality(s) <= 0
      BY FS_Subset DEF Parts
    <3> QED
      BY <3>1, FS_CardinalityType, FS_EmptySet
  <2>2. FoldsUpTo(g, B, base, step, first, T, 0)
    BY <2>1 DEF FoldsUpTo
  <2> QED
    BY <2>2
<1>2. V = {}
  <2> SUFFICES ASSUME V # {}
               PROVE  FALSE
    OBVIOUS
  <2>1. PICK n \in V : \A m \in V : n <= m
    <3>1. V \in SUBSET Nat
      OBVIOUS
    <3> HIDE DEF V
    <3> QED
      BY <3>1, LeastExists
  <2>2. n \in Nat /\ n # 0
    BY <1>1
  <2>3. n - 1 \in Nat /\ n - 1 \notin V
    BY <2>1, <2>2
  <2>4. PICK h : FoldsUpTo(h, B, base, step, first, T, n - 1)
    BY <2>3
  <2>5. \E g : FoldsUpTo(g, B, base, step, first, T, (n - 1) + 1)
    BY <2>3, <2>4, FoldsGrow
  <2>6. (n - 1) + 1 = n
    BY <2>2
  <2> QED
    BY <2>5, <2>6
<1>3. Cardinality(T) \in Nat
  BY FS_CardinalityType
<1>4. PICK g : FoldsUpTo(g, B, base, step, first, T, Cardinality(T))
  BY <1>2, <1>3
<1>5. Parts(T, Cardinality(T)) = SUBSET T
  BY FS_Subset DEF Parts
<1> QED
  BY <1>4, <1>5 DEF FoldsUpTo, IsFold

----------------------------------------------------------------------------
(* Sums over finite sets.                                                  *)

\* The element that a fold over a set takes next.
AnyOf(s) == CHOOSE x \in s : TRUE

\* CHOOSE finds what there is.
LEMMA AnyIn == ASSUME NEW s, s # {} PROVE AnyOf(s) \in s
BY DEF AnyOf

Anys(T) == [s \in SUBSET T |-> AnyOf(s)]

\* So there is always an element to take.
LEMMA AnysTaken == ASSUME NEW T PROVE Takes(Anys(T), T)
BY AnyIn DEF Takes, Anys

\* g gives the sum of w over each subset of T, one element after another.
IsSums(g, w, T) ==
    g = [s \in SUBSET T |-> IF s = {} THEN 0 ELSE w[AnyOf(s)] + g[s \ {AnyOf(s)}]]

Sums(w, T) == CHOOSE g : IsSums(g, w, T)

Total(w, T) == Sums(w, T)[T]

\* There is one way to add up.
LEMMA SumsUnique ==
    ASSUME NEW T, IsFiniteSet(T), NEW w, NEW g, NEW h, IsSums(g, w, T), IsSums(h, w, T)
    PROVE  g = h
<1> DEFINE good == {s \in SUBSET T : g[s] = h[s]}
<1>1. \A s \in SUBSET T :
        /\ g[s] = IF s = {} THEN 0 ELSE w[AnyOf(s)] + g[s \ {AnyOf(s)}]
        /\ h[s] = IF s = {} THEN 0 ELSE w[AnyOf(s)] + h[s \ {AnyOf(s)}]
  BY DEF IsSums
<1>2. {} \in good
  BY <1>1
<1>3. Reaches(good, Anys(T), T)
  <2> SUFFICES ASSUME NEW s \in SUBSET T, s # {}
               PROVE  /\ Anys(T)[s] \in s
                      /\ s \ {Anys(T)[s]} \in good => s \in good
    BY DEF Reaches
  <2>1. Anys(T)[s] = AnyOf(s) /\ AnyOf(s) \in s
    BY AnyIn DEF Anys
  <2> QED
    BY <1>1, <2>1
<1>4. SUBSET T \subseteq good
  <2> HIDE DEF good
  <2> QED
    BY <1>2, <1>3, PartsInduction
<1>5. \A s \in SUBSET T : g[s] = h[s]
  BY <1>4
<1> QED
  BY <1>5 DEF IsSums

\* A finite set has a sum.
LEMMA SumsExist ==
    ASSUME NEW T, IsFiniteSet(T), NEW w, \A x \in T : w[x] \in Int
    PROVE  IsSums(Sums(w, T), w, T) /\ Sums(w, T) \in [SUBSET T -> Int]
<1> DEFINE step == [v \in Int \X T |-> w[v[2]] + v[1]]
           B == Int
<1>1. step \in [B \X T -> B] /\ 0 \in B
  OBVIOUS
<1>2. \A a \in Int : \A x \in T : step[<<a, x>>] = w[x] + a
  OBVIOUS
<1>3. PICK g \in [SUBSET T -> Int] : IsFold(g, 0, step, Anys(T), T)
  <2> HIDE DEF step, B
  <2>1. \E g \in [SUBSET T -> B] : IsFold(g, 0, step, Anys(T), T)
    BY <1>1, AnysTaken, FoldsExist
  <2> QED
    BY <2>1 DEF B
<1> HIDE DEF step
<1>4. ASSUME NEW s \in SUBSET T
      PROVE  g[s] = IF s = {} THEN 0 ELSE w[AnyOf(s)] + g[s \ {AnyOf(s)}]
  <2>1. CASE s = {}
    BY <1>3, <2>1 DEF IsFold
  <2>2. CASE s # {}
    <3>1. Anys(T)[s] = AnyOf(s) /\ AnyOf(s) \in T /\ g[s \ {AnyOf(s)}] \in Int
      BY <2>2, AnyIn DEF Anys
    <3>2. g[s] = step[<<g[s \ {Anys(T)[s]}], Anys(T)[s]>>]
      BY <1>3, <2>2 DEF IsFold
    <3> QED
      BY <1>2, <2>2, <3>1, <3>2
  <2> QED
    BY <2>1, <2>2
<1>5. IsSums(g, w, T)
  BY <1>4 DEF IsSums
<1>6. IsSums(Sums(w, T), w, T)
  BY <1>5 DEF Sums
<1>7. Sums(w, T) = g
  BY <1>5, <1>6, SumsUnique
<1> QED
  BY <1>5, <1>7

\* Any element may be taken first.
Additive(g, w, T) == \A s \in SUBSET T : \A x \in s : g[s] = w[x] + g[s \ {x}]

\* A sum does not depend on which element was taken first.
LEMMA AnyOrder ==
    ASSUME NEW T, IsFiniteSet(T), NEW w, \A x \in T : w[x] \in Int,
           NEW g \in [SUBSET T -> Int], IsSums(g, w, T)
    PROVE  Additive(g, w, T)
<1> DEFINE Fits(s) == \A x \in s : g[s] = w[x] + g[s \ {x}]
           bad == {s \in SUBSET T : ~Fits(s)}
           V == {Cardinality(s) : s \in bad}
<1>1. \A s \in SUBSET T : IsFiniteSet(s) /\ Cardinality(s) \in Nat
  BY FS_Subset, FS_CardinalityType
<1>2. bad = {}
  <2> SUFFICES ASSUME bad # {}
               PROVE  FALSE
    OBVIOUS
  <2>1. V # {} /\ V \in SUBSET Nat
    <3> HIDE DEF bad
    <3>1. bad \subseteq SUBSET T
      BY DEF bad
    <3> QED
      BY <1>1, <3>1
  <2>2. PICK n \in V : \A m \in V : n <= m
    <3> HIDE DEF V
    <3> QED
      BY <2>1, LeastExists
  <2>3. PICK s \in bad : Cardinality(s) = n
    BY <2>2
  <2>4. PICK x \in s : g[s] # w[x] + g[s \ {x}]
    BY <2>3
  <2> DEFINE c == AnyOf(s)
  <2>5. c \in s /\ g[s] = w[c] + g[s \ {c}]
    BY <2>4, AnyIn DEF IsSums
  <2>6. c # x
    BY <2>4, <2>5
  <2>7. \A y \in s : s \ {y} \in SUBSET T /\ Fits(s \ {y})
    <3> TAKE y \in s
    <3>1. s \ {y} \in SUBSET T /\ Cardinality(s \ {y}) < n
      BY <1>1, <2>3, OneLess
    <3>2. s \ {y} \notin bad
      <4> HIDE DEF bad
      <4>1. s \ {y} \in bad => Cardinality(s \ {y}) \in V
        OBVIOUS
      <4>2. n \in Nat /\ Cardinality(s \ {y}) \in Nat
        BY <1>1, <2>1, <3>1
      <4> QED
        BY <2>2, <3>1, <4>1, <4>2
    <3> QED
      BY <3>1, <3>2
  <2> HIDE DEF c
  <2>8. g[s \ {c}] = w[x] + g[(s \ {c}) \ {x}]
    BY <2>5, <2>6, <2>7
  <2>9. g[s \ {x}] = w[c] + g[(s \ {x}) \ {c}]
    BY <2>5, <2>6, <2>7
  <2>10. (s \ {c}) \ {x} = (s \ {x}) \ {c}
    OBVIOUS
  <2>11. /\ w[x] \in Int /\ w[c] \in Int /\ g[(s \ {x}) \ {c}] \in Int
    BY <2>5, <2>7
  <2>12. \A a, b, r \in Int : a + (b + r) = b + (a + r)
    OBVIOUS
  <2> DEFINE rest == g[(s \ {x}) \ {c}]
  <2>13. g[s] = w[c] + (w[x] + rest) /\ w[x] + g[s \ {x}] = w[x] + (w[c] + rest)
    BY <2>5, <2>8, <2>9, <2>10
  <2> HIDE DEF Fits, bad, V, rest
  <2> QED
    BY <2>4, <2>11, <2>12, <2>13 DEF rest
<1> QED
  BY <1>2 DEF Additive

\* The sum over a set is that without one element, and the element.
LEMMA TotalAdd ==
    ASSUME NEW T, IsFiniteSet(T), NEW w, \A y \in T : w[y] \in Int, NEW x \in T
    PROVE  Total(w, T) = w[x] + Total(w, T \ {x}) /\ Total(w, T \ {x}) \in Int
<1> DEFINE U == T \ {x}
           g == Sums(w, T)
           h == [s \in SUBSET U |-> g[s]]
<1>1. IsSums(g, w, T) /\ g \in [SUBSET T -> Int]
  BY SumsExist
<1>2. IsFiniteSet(U) /\ \A y \in U : w[y] \in Int
  BY FS_Subset
<1>3. IsSums(Sums(w, U), w, U)
  BY <1>2, SumsExist
<1>4. IsSums(h, w, U)
  <2>1. ASSUME NEW s \in SUBSET U
        PROVE  h[s] = IF s = {} THEN 0 ELSE w[AnyOf(s)] + h[s \ {AnyOf(s)}]
    <3>1. g[s] = IF s = {} THEN 0 ELSE w[AnyOf(s)] + g[s \ {AnyOf(s)}]
      BY <1>1 DEF IsSums
    <3> QED
      BY <3>1
  <2>2. h = [s \in SUBSET U |-> h[s]]
    OBVIOUS
  <2> HIDE DEF h
  <2> QED
    BY <2>1, <2>2 DEF IsSums
<1>5. Sums(w, U) = h
  <2> HIDE DEF h, U
  <2> QED
    BY <1>2, <1>3, <1>4, SumsUnique
<1>6. Total(w, U) = g[U] /\ g[U] \in Int
  BY <1>1, <1>5 DEF Total
<1>7. g[T] = w[x] + g[U]
  <2>1. g \in [SUBSET T -> Int] /\ IsSums(g, w, T)
    BY <1>1
  <2>2. Additive(g, w, T)
    <3> HIDE DEF g
    <3> QED
      BY <2>1, AnyOrder
  <2> QED
    BY <2>2 DEF Additive
<1> QED
  BY <1>6, <1>7 DEF Total

\* What is not in the set does not count.
LEMMA TotalSame ==
    ASSUME NEW T, NEW v, NEW w, \A x \in T : v[x] = w[x]
    PROVE  Total(v, T) = Total(w, T)
<1>1. ASSUME NEW s \in SUBSET T, s # {}
      PROVE  v[AnyOf(s)] = w[AnyOf(s)]
  BY <1>1, AnyIn
<1>2. \A g : [s \in SUBSET T |-> IF s = {} THEN 0 ELSE v[AnyOf(s)] + g[s \ {AnyOf(s)}]]
             = [s \in SUBSET T |-> IF s = {} THEN 0 ELSE w[AnyOf(s)] + g[s \ {AnyOf(s)}]]
  BY <1>1
<1>3. \A g : IsSums(g, v, T) <=> IsSums(g, w, T)
  BY <1>2 DEF IsSums
<1> QED
  BY <1>3 DEF Total, Sums

----------------------------------------------------------------------------
(* Material.                                                               *)

WorthOn(bd) == [sq \in Squares |-> Worth[bd.mBoard[sq]]]

\* There are finitely many pieces, and material is their sum.
MaterialFits(bd) ==
    /\ IsFiniteSet(Occupied(bd))
    /\ bd.material = Total(WorthOn(bd), Occupied(bd))

\* The sum of the property is the one added up here.
LEMMA SumIsTotal ==
    ASSUME NEW bd
    PROVE  MapThenSumSet(LAMBDA sq : Worth[bd.mBoard[sq]], Occupied(bd))
           = Total(WorthOn(bd), Occupied(bd))
BY ZenonT(60) DEF MapThenSumSet, MapThenFoldSet, Total, Sums, IsSums, AnyOf, WorthOn, Occupied

\* What is summed is numbers.
LEMMA WorthType ==
    ASSUME NEW bd \in Boards
    PROVE  \A sq \in Occupied(bd) : WorthOn(bd)[sq] \in Int
BY WorthAssumption DEF Boards, Occupied, WorthOn

\* A piece that is added adds its worth.
LEMMA AddPieceMaterial ==
    ASSUME NEW bd \in Boards, MaterialFits(bd), NEW sq \in Squares, NEW pce \in Pieces,
           bd.mBoard[sq] = NOPIECE
    PROVE  MaterialFits(addPiece(bd, sq, pce))
<1> DEFINE new == addPiece(bd, sq, pce)
           Occ == Occupied(bd)
           Now == Occupied(new)
<1>1. /\ new.mBoard = [bd.mBoard EXCEPT ![sq] = pce]
      /\ new.material = bd.material + Worth[pce]
  BY DEF addPiece, Boards
<1>2. new \in Boards
  BY AddPieceType
<1> HIDE DEF new
<1>3. Now = Occ \cup {sq} /\ sq \notin Occ
  BY <1>1, NoPieceAssumption DEF Occupied, Boards
<1>4. IsFiniteSet(Now)
  BY <1>3, FS_AddElement DEF MaterialFits
<1>5. \A x \in Now : WorthOn(new)[x] \in Int
  BY <1>2, WorthType
<1>6. Now \ {sq} = Occ
  BY <1>3
<1>7. \A x \in Occ : WorthOn(new)[x] = WorthOn(bd)[x]
  BY <1>1, <1>3 DEF WorthOn, Occupied, Boards
<1>8. WorthOn(new)[sq] = Worth[pce]
  BY <1>1 DEF WorthOn, Boards
<1>9. bd.material = Total(WorthOn(bd), Occ)
  BY DEF MaterialFits
<1> HIDE DEF Occ, Now
<1>10. Total(WorthOn(new), Now) = Worth[pce] + Total(WorthOn(new), Occ)
       /\ Total(WorthOn(new), Occ) \in Int
  BY <1>3, <1>4, <1>5, <1>6, <1>8, TotalAdd
<1>11. Total(WorthOn(new), Occ) = Total(WorthOn(bd), Occ)
  BY <1>7, TotalSame
<1>12. Worth[pce] \in Int
  BY WorthAssumption
<1>13. IsFiniteSet(Now) /\ new.material = Total(WorthOn(new), Now)
  BY <1>1, <1>4, <1>9, <1>10, <1>11, <1>12
<1> QED
  BY <1>13 DEF MaterialFits, Now, new

\* A piece that is removed takes its worth away.
LEMMA RemovePieceMaterial ==
    ASSUME NEW bd \in Boards, MaterialFits(bd), NEW sq \in Squares,
           bd.mBoard[sq] # NOPIECE
    PROVE  MaterialFits(removePiece(bd, sq))
<1> DEFINE new == removePiece(bd, sq)
           Occ == Occupied(bd)
           Now == Occupied(new)
           pce == bd.mBoard[sq]
<1>1. /\ new.mBoard = [bd.mBoard EXCEPT ![sq] = NOPIECE]
      /\ new.material = bd.material - Worth[pce]
  BY DEF removePiece, Boards
<1>2. pce \in Pieces
  BY DEF Boards
<1> HIDE DEF new
<1>3. Now = Occ \ {sq} /\ sq \in Occ
  BY <1>1 DEF Occupied, Boards
<1>4. IsFiniteSet(Occ) /\ IsFiniteSet(Now)
  BY <1>3, FS_Subset DEF MaterialFits
<1>5. \A x \in Occ : WorthOn(bd)[x] \in Int
  BY WorthType
<1>6. \A x \in Now : WorthOn(new)[x] = WorthOn(bd)[x]
  BY <1>1, <1>3 DEF WorthOn, Occupied, Boards
<1>7. WorthOn(bd)[sq] = Worth[pce]
  BY DEF WorthOn
<1>8. bd.material = Total(WorthOn(bd), Occ)
  BY DEF MaterialFits
<1> HIDE DEF Occ, Now, pce
<1>9. Total(WorthOn(bd), Occ) = Worth[pce] + Total(WorthOn(bd), Now)
      /\ Total(WorthOn(bd), Now) \in Int
  BY <1>3, <1>4, <1>5, <1>7, TotalAdd
<1>10. Total(WorthOn(new), Now) = Total(WorthOn(bd), Now)
  BY <1>6, TotalSame
<1>11. Worth[pce] \in Int
  BY <1>2, WorthAssumption
<1>12. IsFiniteSet(Now) /\ new.material = Total(WorthOn(new), Now)
  BY <1>1, <1>4, <1>8, <1>9, <1>10, <1>11
<1> QED
  BY <1>12 DEF MaterialFits, Now, new

\* An empty board has no material.
LEMMA ClearMaterial == Occupied(ClearBoard) = {} /\ Total(WorthOn(ClearBoard), {}) = 0
<1>1. Occupied(ClearBoard) = {}
  BY DEF Occupied, ClearBoard
<1>2. IsSums(Sums(WorthOn(ClearBoard), {}), WorthOn(ClearBoard), {})
  BY FS_EmptySet, SumsExist
<1> QED
  BY <1>1, <1>2 DEF IsSums, Total

\* A call that leaves squares and material alone leaves the sum alone.
LEMMA OthersMaterial ==
    ASSUME NEW bd, MaterialFits(bd), NEW new,
           new.mBoard = bd.mBoard, new.material = bd.material
    PROVE  MaterialFits(new)
BY DEF MaterialFits, Occupied, WorthOn

----------------------------------------------------------------------------
(* A board whose forms agree, and what each call does to its position.     *)

Consistent(bd) ==
    /\ bd \in Boards
    /\ ListsMatch(bd)
    /\ bd.posKey = KeyOf(bd)
    /\ MaterialFits(bd)
    /\ ~bd.exited

\* The forms of bd agree and stand for this position, with how it came there.
At(bd, squares, side, rights, ep, past, fifty) ==
    /\ Consistent(bd)
    /\ bd.mBoard = squares
    /\ bd.side = side
    /\ bd.castlePerm = rights
    /\ bd.enpas = ep
    /\ bd.history = past
    /\ bd.fiftyMove = fifty

\* A call that leaves the squares, lists and material alone, and a key that
\* fits, leaves the forms in agreement.
LEMMA OthersKeep ==
    ASSUME NEW bd, Consistent(bd), NEW new \in Boards, ~new.exited,
           new.mBoard = bd.mBoard, new.pList = bd.pList, new.material = bd.material,
           new.posKey = KeyOf(new)
    PROVE  Consistent(new)
<1>1. ListsMatch(new)
  BY DEF ListsMatch, Consistent
<1>2. MaterialFits(new)
  BY OthersMaterial DEF Consistent
<1> QED
  BY <1>1, <1>2 DEF Consistent

\* Where no part of the key changes, the key fits.
LEMMA SameKey ==
    ASSUME NEW bd, NEW new, new.mBoard = bd.mBoard, new.side = bd.side,
           new.castlePerm = bd.castlePerm, new.enpas = bd.enpas
    PROVE  KeyOf(new) = KeyOf(bd)
BY DEF KeyOf, PieceKeys, Occupied, CastleKeys, EnpasKeys, SideKeys

\* addPiece.
LEMMA AddPieceAt ==
    ASSUME NEW bd, NEW m, NEW s, NEW c, NEW e, NEW h, NEW f, At(bd, m, s, c, e, h, f),
           NEW sq \in Squares, NEW pce \in Pieces, m[sq] = NOPIECE
    PROVE  At(addPiece(bd, sq, pce), [m EXCEPT ![sq] = pce], s, c, e, h, f)
<1>1. bd \in Boards /\ Consistent(bd) /\ bd.mBoard[sq] = NOPIECE
  BY DEF At, Consistent
<1> DEFINE new == addPiece(bd, sq, pce)
<1>2. /\ new.mBoard = [bd.mBoard EXCEPT ![sq] = pce]
      /\ new.side = bd.side /\ new.castlePerm = bd.castlePerm /\ new.enpas = bd.enpas
      /\ new.history = bd.history /\ new.fiftyMove = bd.fiftyMove
      /\ new.exited = bd.exited
  BY <1>1 DEF addPiece, Boards
<1>3. /\ new \in Boards /\ ListsMatch(new) /\ new.posKey = KeyOf(new)
      /\ MaterialFits(new)
  BY <1>1, AddPieceType, AddPieceLists, AddPieceKey, AddPieceMaterial DEF Consistent
<1> HIDE DEF new
<1>4. Consistent(new)
  BY <1>1, <1>2, <1>3 DEF Consistent
<1>5. At(new, [m EXCEPT ![sq] = pce], s, c, e, h, f)
  BY <1>2, <1>4 DEF At
<1> QED
  BY <1>5 DEF new

\* removePiece.
LEMMA RemovePieceAt ==
    ASSUME NEW bd, NEW m, NEW s, NEW c, NEW e, NEW h, NEW f, At(bd, m, s, c, e, h, f),
           NEW sq \in Squares, m[sq] # NOPIECE
    PROVE  At(removePiece(bd, sq), [m EXCEPT ![sq] = NOPIECE], s, c, e, h, f)
<1>1. bd \in Boards /\ Consistent(bd) /\ bd.mBoard[sq] # NOPIECE
  BY DEF At, Consistent
<1> DEFINE new == removePiece(bd, sq)
<1>2. /\ new.mBoard = [bd.mBoard EXCEPT ![sq] = NOPIECE]
      /\ new.side = bd.side /\ new.castlePerm = bd.castlePerm /\ new.enpas = bd.enpas
      /\ new.history = bd.history /\ new.fiftyMove = bd.fiftyMove
      /\ new.exited = bd.exited
  BY <1>1 DEF removePiece, Boards
<1>3. /\ new \in Boards /\ ListsMatch(new) /\ new.posKey = KeyOf(new)
      /\ MaterialFits(new)
  BY <1>1, RemovePieceType, RemovePieceLists, RemovePieceKey, RemovePieceMaterial
     DEF Consistent
<1> HIDE DEF new
<1>4. Consistent(new)
  BY <1>1, <1>2, <1>3 DEF Consistent
<1>5. At(new, [m EXCEPT ![sq] = NOPIECE], s, c, e, h, f)
  BY <1>2, <1>4 DEF At
<1> QED
  BY <1>5 DEF new

\* hashInCastle.
LEMMA HashInCastleAt ==
    ASSUME NEW bd, NEW m, NEW s, NEW c, NEW e, NEW h, NEW f, At(bd, m, s, c, e, h, f),
           NEW right \in CastleRights
    PROVE  At(hashInCastle(bd, right), m, s, c \cup {right}, e, h, f)
<1>1. bd \in Boards /\ bd.posKey = KeyOf(bd) /\ Consistent(bd)
  BY DEF At, Consistent
<1> DEFINE new == hashInCastle(bd, right)
<1>2. new \in Boards /\ new.posKey = KeyOf(new)
  BY <1>1, CastleType, CastleKeyStep
<1>3. /\ new.mBoard = bd.mBoard /\ new.pList = bd.pList /\ new.material = bd.material
      /\ new.side = bd.side /\ new.enpas = bd.enpas /\ new.history = bd.history
      /\ new.fiftyMove = bd.fiftyMove /\ new.exited = bd.exited
  BY <1>1 DEF hashInCastle, Boards
<1>4. new.castlePerm = bd.castlePerm \cup {right}
  BY <1>1 DEF hashInCastle, Boards
<1> HIDE DEF new
<1>5. Consistent(new)
  BY <1>1, <1>2, <1>3, OthersKeep DEF Consistent
<1>6. At(new, m, s, c \cup {right}, e, h, f)
  BY <1>3, <1>4, <1>5 DEF At
<1> QED
  BY <1>6 DEF new

\* hashOutCastle.
LEMMA HashOutCastleAt ==
    ASSUME NEW bd, NEW m, NEW s, NEW c, NEW e, NEW h, NEW f, At(bd, m, s, c, e, h, f),
           NEW right \in CastleRights
    PROVE  At(hashOutCastle(bd, right), m, s, c \ {right}, e, h, f)
<1>1. bd \in Boards /\ bd.posKey = KeyOf(bd) /\ Consistent(bd)
  BY DEF At, Consistent
<1> DEFINE new == hashOutCastle(bd, right)
<1>2. new \in Boards /\ new.posKey = KeyOf(new)
  BY <1>1, CastleType, CastleKeyStep
<1>3. /\ new.mBoard = bd.mBoard /\ new.pList = bd.pList /\ new.material = bd.material
      /\ new.side = bd.side /\ new.enpas = bd.enpas /\ new.history = bd.history
      /\ new.fiftyMove = bd.fiftyMove /\ new.exited = bd.exited
  BY <1>1 DEF hashOutCastle, Boards
<1>4. new.castlePerm = bd.castlePerm \ {right}
  BY <1>1 DEF hashOutCastle, Boards
<1> HIDE DEF new
<1>5. Consistent(new)
  BY <1>1, <1>2, <1>3, OthersKeep DEF Consistent
<1>6. At(new, m, s, c \ {right}, e, h, f)
  BY <1>3, <1>4, <1>5 DEF At
<1> QED
  BY <1>6 DEF new

\* hashInEp, where there was no en passant square.
LEMMA HashInEpAt ==
    ASSUME NEW bd, NEW m, NEW s, NEW c, NEW h, NEW f, At(bd, m, s, c, OFFBOARD, h, f),
           NEW sq \in Squares
    PROVE  At(hashInEp(bd, sq), m, s, c, sq, h, f)
<1>1. bd \in Boards /\ bd.posKey = KeyOf(bd) /\ Consistent(bd) /\ bd.enpas = OFFBOARD
  BY DEF At, Consistent
<1> DEFINE new == hashInEp(bd, sq)
<1>2. new \in Boards /\ new.posKey = KeyOf(new)
  BY <1>1, HashInEpType, HashInEpKey
<1>3. /\ new.mBoard = bd.mBoard /\ new.pList = bd.pList /\ new.material = bd.material
      /\ new.side = bd.side /\ new.castlePerm = bd.castlePerm /\ new.enpas = sq
      /\ new.history = bd.history /\ new.fiftyMove = bd.fiftyMove
      /\ new.exited = bd.exited
  BY <1>1 DEF hashInEp, Boards
<1> HIDE DEF new
<1>4. Consistent(new)
  BY <1>1, <1>2, <1>3, OthersKeep DEF Consistent
<1>5. At(new, m, s, c, sq, h, f)
  BY <1>3, <1>4 DEF At
<1> QED
  BY <1>5 DEF new

\* hashOutEp.
LEMMA HashOutEpAt ==
    ASSUME NEW bd, NEW m, NEW s, NEW c, NEW e, NEW h, NEW f, At(bd, m, s, c, e, h, f)
    PROVE  At(hashOutEp(bd), m, s, c, OFFBOARD, h, f)
<1>1. bd \in Boards /\ bd.posKey = KeyOf(bd) /\ Consistent(bd)
  BY DEF At, Consistent
<1> DEFINE new == hashOutEp(bd)
<1>2. new \in Boards /\ new.posKey = KeyOf(new)
  BY <1>1, HashOutEpType, HashOutEpKey
<1>3. /\ new.mBoard = bd.mBoard /\ new.pList = bd.pList /\ new.material = bd.material
      /\ new.side = bd.side /\ new.castlePerm = bd.castlePerm /\ new.enpas = OFFBOARD
      /\ new.history = bd.history /\ new.fiftyMove = bd.fiftyMove
      /\ new.exited = bd.exited
  BY <1>1 DEF hashOutEp, Boards
<1> HIDE DEF new
<1>4. Consistent(new)
  BY <1>1, <1>2, <1>3, OthersKeep DEF Consistent
<1>5. At(new, m, s, c, OFFBOARD, h, f)
  BY <1>3, <1>4 DEF At
<1> QED
  BY <1>5 DEF new

\* changeSide.
LEMMA ChangeSideAt ==
    ASSUME NEW bd, NEW m, NEW s, NEW c, NEW e, NEW h, NEW f, At(bd, m, s, c, e, h, f)
    PROVE  At(changeSide(bd), m, 1 - s, c, e, h, f)
<1>1. bd \in Boards /\ bd.posKey = KeyOf(bd) /\ Consistent(bd)
  BY DEF At, Consistent
<1> DEFINE new == changeSide(bd)
<1>2. new \in Boards /\ new.posKey = KeyOf(new)
  BY <1>1, ChangeSideType, ChangeSideKey
<1>3. /\ new.mBoard = bd.mBoard /\ new.pList = bd.pList /\ new.material = bd.material
      /\ new.side = 1 - bd.side /\ new.castlePerm = bd.castlePerm
      /\ new.enpas = bd.enpas /\ new.history = bd.history
      /\ new.fiftyMove = bd.fiftyMove /\ new.exited = bd.exited
  BY <1>1 DEF changeSide, Boards, WHITE, BLACK
<1> HIDE DEF new
<1>4. Consistent(new)
  BY <1>1, <1>2, <1>3, OthersKeep DEF Consistent
<1>5. At(new, m, 1 - s, c, e, h, f)
  BY <1>3, <1>4 DEF At
<1> QED
  BY <1>5 DEF new

\* pushHistory, for a move of a piece.
LEMMA PushHistoryAt ==
    ASSUME NEW bd, NEW m, NEW s, NEW c, NEW e, NEW h, NEW f, At(bd, m, s, c, e, h, f),
           NEW move \in Moves, m[move.from] # NOPIECE
    PROVE  At(pushHistory(bd, move), m, s, c, e,
              Append(h, [posKey |-> KeyOf(bd), move |-> move, pce |-> m[move.from],
                         castlePerm |-> c, enpas |-> e, fiftyMove |-> f]), f)
<1>1. bd \in Boards /\ bd.posKey = KeyOf(bd) /\ Consistent(bd) /\ bd.mBoard[move.from] # NOPIECE
  BY DEF At, Consistent
<1> DEFINE new == pushHistory(bd, move)
           entry == [posKey |-> KeyOf(bd), move |-> move, pce |-> m[move.from],
                     castlePerm |-> c, enpas |-> e, fiftyMove |-> f]
<1>2. new \in Boards
  BY <1>1, HistoryType
<1>3. entry = HistoryEntry(bd, move)
  BY <1>1 DEF HistoryEntry, At
<1>4. /\ new.mBoard = bd.mBoard /\ new.pList = bd.pList /\ new.material = bd.material
      /\ new.posKey = bd.posKey /\ new.side = bd.side
      /\ new.castlePerm = bd.castlePerm /\ new.enpas = bd.enpas
      /\ new.history = Append(bd.history, HistoryEntry(bd, move))
      /\ new.fiftyMove = bd.fiftyMove /\ new.exited = bd.exited
  BY <1>1 DEF pushHistory, Boards
<1> HIDE DEF new, entry
<1>5. KeyOf(new) = KeyOf(bd)
  BY <1>4, SameKey
<1>6. Consistent(new)
  BY <1>1, <1>2, <1>4, <1>5, OthersKeep DEF Consistent
<1>7. At(new, m, s, c, e, Append(h, entry), f)
  BY <1>3, <1>4, <1>6 DEF At
<1> QED
  BY <1>7 DEF new, entry

\* popHistory, when there is history.
LEMMA PopHistoryAt ==
    ASSUME NEW bd, NEW m, NEW s, NEW c, NEW e, NEW h, NEW f, At(bd, m, s, c, e, h, f),
           Len(h) > 0
    PROVE  At(popHistory(bd), m, s, c, e, SubSeq(h, 1, Len(h) - 1), h[Len(h)].fiftyMove)
<1>1. bd \in Boards /\ bd.posKey = KeyOf(bd) /\ Consistent(bd) /\ hisPly(bd) > 0
  BY DEF At, Consistent, hisPly
<1> DEFINE new == popHistory(bd)
<1>2. new \in Boards
  BY <1>1, PopHistoryType
<1>3. /\ new.mBoard = bd.mBoard /\ new.pList = bd.pList /\ new.material = bd.material
      /\ new.posKey = bd.posKey /\ new.side = bd.side
      /\ new.castlePerm = bd.castlePerm /\ new.enpas = bd.enpas
      /\ new.history = SubSeq(bd.history, 1, Len(bd.history) - 1)
      /\ new.fiftyMove = bd.history[Len(bd.history)].fiftyMove
      /\ new.exited = bd.exited
  BY <1>1 DEF popHistory, getLastState, hisPly, Boards
<1> HIDE DEF new
<1>4. KeyOf(new) = KeyOf(bd)
  BY <1>3, SameKey
<1>5. Consistent(new)
  BY <1>1, <1>2, <1>3, <1>4, OthersKeep DEF Consistent
<1>6. At(new, m, s, c, e, SubSeq(h, 1, Len(h) - 1), h[Len(h)].fiftyMove)
  BY <1>3, <1>5 DEF At
<1> QED
  BY <1>6 DEF new

\* updateFiftyMove.
LEMMA UpdateFiftyMoveAt ==
    ASSUME NEW bd, NEW m, NEW s, NEW c, NEW e, NEW h, NEW f, At(bd, m, s, c, e, h, f)
    PROVE  At(updateFiftyMove(bd), m, s, c, e, h, Len(h))
<1>1. bd \in Boards /\ bd.posKey = KeyOf(bd) /\ Consistent(bd)
  BY DEF At, Consistent
<1> DEFINE new == updateFiftyMove(bd)
<1>2. new \in Boards
  BY <1>1, UpdateFiftyMoveType
<1>3. /\ new.mBoard = bd.mBoard /\ new.pList = bd.pList /\ new.material = bd.material
      /\ new.posKey = bd.posKey /\ new.side = bd.side
      /\ new.castlePerm = bd.castlePerm /\ new.enpas = bd.enpas
      /\ new.history = bd.history /\ new.fiftyMove = Len(bd.history)
      /\ new.exited = bd.exited
  BY <1>1 DEF updateFiftyMove, hisPly, Boards
<1> HIDE DEF new
<1>4. KeyOf(new) = KeyOf(bd)
  BY <1>3, SameKey
<1>5. Consistent(new)
  BY <1>1, <1>2, <1>3, <1>4, OthersKeep DEF Consistent
<1>6. At(new, m, s, c, e, h, Len(h))
  BY <1>3, <1>5 DEF At
<1> QED
  BY <1>6 DEF new

\* An empty board.
LEMMA ClearBoardAt ==
    At(ClearBoard, [sq \in Squares |-> NOPIECE], WHITE, {}, OFFBOARD, << >>, 0)
<1>1. ListsMatch(ClearBoard)
  BY DEF ClearBoard, ListsMatch
<1>2. MaterialFits(ClearBoard)
  BY ClearMaterial, FS_EmptySet DEF MaterialFits, ClearBoard
<1>3. Consistent(ClearBoard)
  BY <1>1, <1>2, ClearBoardType, ClearBoardKey DEF Consistent, ClearBoard
<1> QED
  BY <1>3 DEF At, ClearBoard

============================================================================

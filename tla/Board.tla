------------------------------- MODULE Board -------------------------------
(***************************************************************************)
(* The chess engine's Board class (src/src/chess/board.cpp) as operators   *)
(* on a record.  A board keeps one position in several redundant forms,    *)
(* each updated incrementally by every call: the squares, one list of      *)
(* coordinates per piece type, a Zobrist key, and the material balance.    *)
(*                                                                         *)
(* Abstractions.  pListR/pListC/pceNum are one sequence of squares per     *)
(* piece type.  The random 32-bit keys XORed into posKey are independent   *)
(* names, and posKey is the set of names XORed an odd number of times.     *)
(* castlePerm is the set of its bits.  exited records a call of exit(1).   *)
(***************************************************************************)
EXTENDS Integers, Sequences

CONSTANTS Squares,      \* the squares of mBoard
          OFFBOARD,     \* the en passant square when there is none
          Pieces,       \* the piece types
          NOPIECE,      \* an empty square
          Worth,        \* the value of each piece type in centipawns
          CastleRights, \* the bits of castlePerm
          Moves         \* the moves that history records

ASSUME OffboardAssumption == OFFBOARD \notin Squares
ASSUME NoPieceAssumption == NOPIECE \notin Pieces
ASSUME WorthAssumption == Worth \in [Pieces -> Int]

\* All that Board looks at in a move is where it starts.
ASSUME MovesAssumption == \A move \in Moves : move.from \in Squares

WHITE == 0
BLACK == 1

----------------------------------------------------------------------------
(* Position keys.                                                          *)

SideKey == <<"side">>
CastleKey(right) == <<"castle", right>>
EnpasKey(sq) == <<"enpas", sq>>
PceKey(sq, pce) == <<"pce", sq, pce>>

Keys ==
    {SideKey}
        \cup {CastleKey(right) : right \in CastleRights}
        \cup {EnpasKey(sq) : sq \in Squares}
        \cup {PceKey(sq, pce) : sq \in Squares, pce \in Pieces}

\* XOR of two keys, each a set of names.
Xor(a, b) == (a \ b) \cup (b \ a)

----------------------------------------------------------------------------
(* Types.                                                                  *)

Histories ==
    [posKey : SUBSET Keys, move : Moves, pce : Pieces \cup {NOPIECE},
     castlePerm : SUBSET CastleRights, enpas : Squares \cup {OFFBOARD},
     fiftyMove : Nat]

Boards ==
    [mBoard : [Squares -> Pieces \cup {NOPIECE}],
     pList : [Pieces -> Seq(Squares)],
     side : {WHITE, BLACK},
     castlePerm : SUBSET CastleRights,
     enpas : Squares \cup {OFFBOARD},
     posKey : SUBSET Keys,
     material : Int,
     history : Seq(Histories),
     fiftyMove : Nat,
     exited : BOOLEAN]

----------------------------------------------------------------------------
(* Construction.                                                           *)

\* The coordinates of an earlier position stay behind in the C++ arrays, but
\* with every count at zero no list contains them.
ClearBoard ==
    [mBoard     |-> [sq \in Squares |-> NOPIECE],
     pList      |-> [pce \in Pieces |-> << >>],
     side       |-> WHITE,
     castlePerm |-> {},
     enpas      |-> OFFBOARD,
     posKey     |-> {SideKey},
     material   |-> 0,
     history    |-> << >>,
     fiftyMove  |-> 0,
     exited     |-> FALSE]

----------------------------------------------------------------------------
(* Pieces.                                                                 *)

\* The caller promises an empty square; nothing here looks.
addPiece(bd, sq, pce) ==
    [bd EXCEPT !.mBoard[sq]  = pce,
               !.pList[pce]  = Append(@, sq),
               !.posKey      = Xor(@, {PceKey(sq, pce)}),
               !.material    = @ + Worth[pce]]

\* Mutant: the last entry is cut off wherever the removed square was.
DropFromList_NoSwap(list, sq) == SubSeq(list, 1, Len(list) - 1)

\* One list of removePiece.  The count is lowered first, so the search runs
\* over all entries but the last; the first hit trades places with the last.
DropFromList(list, sq) ==
    [k \in 1..(Len(list) - 1) |->
        IF list[k] = sq /\ \A j \in 1..(k - 1) : list[j] # sq
        THEN list[Len(list)]
        ELSE list[k]]

\* Mutant: the material of the piece is left in.
removePiece_KeepsMaterial(bd, sq) ==
    LET pce == bd.mBoard[sq]
    IN  [bd EXCEPT !.mBoard[sq] = NOPIECE,
                   !.pList[pce] = DropFromList(@, sq),
                   !.posKey     = Xor(@, {PceKey(sq, pce)})]

\* On an empty square worth(NOPIECE) ends the process.
removePiece(bd, sq) ==
    LET pce == bd.mBoard[sq]
    IN  IF pce = NOPIECE
        THEN [bd EXCEPT !.exited = TRUE]
        ELSE [bd EXCEPT !.mBoard[sq] = NOPIECE,
                        !.pList[pce] = DropFromList(@, sq),
                        !.posKey     = Xor(@, {PceKey(sq, pce)}),
                        !.material   = @ - Worth[pce]]

----------------------------------------------------------------------------
(* Castling rights, en passant square, side.                               *)

hashInCastle(bd, right) ==
    IF right \in bd.castlePerm
    THEN bd
    ELSE [bd EXCEPT !.castlePerm = @ \cup {right},
                    !.posKey     = Xor(@, {CastleKey(right)})]

\* Mutant: the key is changed whether the right was there or not.
hashOutCastle_Always(bd, right) ==
    [bd EXCEPT !.castlePerm = @ \ {right},
               !.posKey     = Xor(@, {CastleKey(right)})]

hashOutCastle(bd, right) ==
    IF right \notin bd.castlePerm
    THEN bd
    ELSE [bd EXCEPT !.castlePerm = @ \ {right},
                    !.posKey     = Xor(@, {CastleKey(right)})]

\* The caller promises that no en passant square is set.
hashInEp(bd, sq) ==
    [bd EXCEPT !.enpas = sq, !.posKey = Xor(@, {EnpasKey(sq)})]

\* Mutant: the key of the old square stays in.
hashOutEp_KeepsKey(bd) == [bd EXCEPT !.enpas = OFFBOARD]

hashOutEp(bd) ==
    IF bd.enpas = OFFBOARD
    THEN bd
    ELSE [bd EXCEPT !.enpas = OFFBOARD, !.posKey = Xor(@, {EnpasKey(bd.enpas)})]

changeSide(bd) ==
    [bd EXCEPT !.side   = IF @ = WHITE THEN BLACK ELSE WHITE,
               !.posKey = Xor(@, {SideKey})]

----------------------------------------------------------------------------
(* History.  hisPly is the length of history.                              *)

hisPly(bd) == Len(bd.history)

HistoryEntry(bd, move) ==
    [posKey     |-> bd.posKey,
     move       |-> move,
     pce        |-> bd.mBoard[move.from],
     castlePerm |-> bd.castlePerm,
     enpas      |-> bd.enpas,
     fiftyMove  |-> bd.fiftyMove]

pushHistory(bd, move) ==
    [bd EXCEPT !.history = Append(@, HistoryEntry(bd, move)),
               !.exited  = @ \/ bd.mBoard[move.from] = NOPIECE]

getLastState(bd) == bd.history[hisPly(bd)]

\* Mutant: the fifty-move ply of the undone move stays.
popHistory_KeepsFifty(bd) ==
    [bd EXCEPT !.history = SubSeq(@, 1, Len(@) - 1)]

popHistory(bd) ==
    [bd EXCEPT !.history   = SubSeq(@, 1, Len(@) - 1),
               !.fiftyMove = getLastState(bd).fiftyMove]

\* Mutant: counts from the ply before.
updateFiftyMove_OffByOne(bd) == [bd EXCEPT !.fiftyMove = hisPly(bd) - 1]

updateFiftyMove(bd) == [bd EXCEPT !.fiftyMove = hisPly(bd)]

\* Mutant: the search stops one entry early.
numRep_StopsEarly(bd) ==
    LET seen == {i \in (bd.fiftyMove + 2)..hisPly(bd) :
                    bd.history[i].posKey = bd.posKey}
    IN  CASE seen = {} -> 0
          [] \E i \in seen : seen = {i} -> 1
          [] OTHER -> 2

\* How often the current key occurs since the last irreversible move; the
\* loop stops counting at two.
numRep(bd) ==
    LET seen == {i \in (bd.fiftyMove + 1)..hisPly(bd) :
                    bd.history[i].posKey = bd.posKey}
    IN  CASE seen = {} -> 0
          [] \E i \in seen : seen = {i} -> 1
          [] OTHER -> 2

----------------------------------------------------------------------------
(* What the redundant forms must say about one another.                    *)

Occupied(bd) == {sq \in Squares : bd.mBoard[sq] # NOPIECE}

\* Every piece list holds exactly the squares with that piece, each once.
ListsMatch(bd) ==
    /\ \A pce \in Pieces : \A i \in 1..Len(bd.pList[pce]) :
          bd.mBoard[bd.pList[pce][i]] = pce
    /\ \A pce \in Pieces : \A i, j \in 1..Len(bd.pList[pce]) :
          bd.pList[pce][i] = bd.pList[pce][j] => i = j
    /\ \A sq \in Squares : bd.mBoard[sq] # NOPIECE =>
          \E i \in 1..Len(bd.pList[bd.mBoard[sq]]) :
              bd.pList[bd.mBoard[sq]][i] = sq

\* The key computed afresh from the position.
PieceKeys(bd) == {PceKey(sq, bd.mBoard[sq]) : sq \in Occupied(bd)}

CastleKeys(bd) == {CastleKey(right) : right \in bd.castlePerm}

EnpasKeys(bd) == IF bd.enpas = OFFBOARD THEN {} ELSE {EnpasKey(bd.enpas)}

SideKeys(bd) == IF bd.side = WHITE THEN {SideKey} ELSE {}

KeyOf(bd) == PieceKeys(bd) \cup CastleKeys(bd) \cup EnpasKeys(bd) \cup SideKeys(bd)

============================================================================

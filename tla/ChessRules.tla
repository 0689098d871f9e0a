----------------------------- MODULE ChessRules -----------------------------
(***************************************************************************)
(* The laws of chess, stated without looking at the engine: what a         *)
(* position is, which moves are legal in it and where they lead, and when  *)
(* the game is over.  A position holds only the men on the board, attacks  *)
(* are geometry on pairs of squares, and a right to castle is a colour     *)
(* with a wing.                                                            *)
(***************************************************************************)
EXTENDS Integers, FiniteSets

Chessboard == (0..7) \X (0..7)
Colours == {"white", "black"}
Other(colour) == IF colour = "white" THEN "black" ELSE "white"

\* A position: men maps the occupied squares to <<colour, kind>>; passed is
\* the set with the square a pawn has just passed over, or empty.
Colour(pos, sq) == pos.men[sq][1]
Kind(pos, sq) == pos.men[sq][2]
Taken(pos) == DOMAIN pos.men
MenOf(pos, colour) == {sq \in Taken(pos) : Colour(pos, sq) = colour}

Distance(x, y) == IF x < y THEN y - x ELSE x - y
Sign(x) == IF x > 0 THEN 1 ELSE IF x < 0 THEN -1 ELSE 0
Forward(colour) == IF colour = "white" THEN -1 ELSE 1
HomeRow(colour) == IF colour = "white" THEN 7 ELSE 0

\* The squares strictly between a and b on a row, column or diagonal.
Between(a, b) ==
    LET n == IF a[1] # b[1] THEN Distance(a[1], b[1]) ELSE Distance(a[2], b[2])
    IN  {<<a[1] + k * Sign(b[1] - a[1]), a[2] + k * Sign(b[2] - a[2])>> : k \in 1..(n - 1)}

\* Does the man on a attack b?
Attacks(pos, a, b) ==
    LET rows == Distance(a[1], b[1])
        cols == Distance(a[2], b[2])
        straight == (rows = 0) # (cols = 0)
        diagonal == rows = cols /\ rows > 0
        open == Between(a, b) \cap Taken(pos) = {}
    IN  CASE Kind(pos, a) = "pawn" ->
                 cols = 1 /\ b[1] = a[1] + Forward(Colour(pos, a))
          [] Kind(pos, a) = "knight" -> {rows, cols} = {1, 2}
          [] Kind(pos, a) = "bishop" -> diagonal /\ open
          [] Kind(pos, a) = "rook"   -> straight /\ open
          [] Kind(pos, a) = "queen"  -> (diagonal \/ straight) /\ open
          [] Kind(pos, a) = "king"   -> a # b /\ rows <= 1 /\ cols <= 1

Attacked(pos, sq, by) == \E a \in MenOf(pos, by) : Attacks(pos, a, sq)

InCheck(pos, colour) ==
    \E k \in MenOf(pos, colour) :
        Kind(pos, k) = "king" /\ Attacked(pos, k, Other(colour))

----------------------------------------------------------------------------
(* A move: from, to, and the kind of man that arrives.                     *)

PawnMayGo(pos, a, b) ==
    LET ahead == Forward(Colour(pos, a))
        start == HomeRow(Colour(pos, a)) + ahead
    IN  \/ Attacks(pos, a, b) /\ (b \in Taken(pos) \/ b \in pos.passed)
        \/ /\ a[2] = b[2] /\ b \notin Taken(pos)
           /\ \/ b[1] = a[1] + ahead
              \/ /\ a[1] = start /\ b[1] = a[1] + 2 * ahead
                 /\ Between(a, b) \cap Taken(pos) = {}

\* Castling to b: the right is still there, nothing stands between king and
\* rook, and the king neither leaves nor crosses an attacked square.
MayCastle(pos, a, b) ==
    LET row == HomeRow(pos.side)
        wing == IF b[2] = 6 THEN "king" ELSE "queen"
        corner == <<row, IF b[2] = 6 THEN 7 ELSE 0>>
    IN  /\ a = <<row, 4>> /\ b \in {<<row, 2>>, <<row, 6>>}
        /\ <<pos.side, wing>> \in pos.rights
        /\ Between(a, corner) \cap Taken(pos) = {}
        /\ \A sq \in {a} \cup Between(a, b) : ~Attacked(pos, sq, Other(pos.side))

MayGo(pos, a, b) ==
    IF Kind(pos, a) = "pawn" THEN PawnMayGo(pos, a, b)
    ELSE \/ Attacks(pos, a, b)
         \/ Kind(pos, a) = "king" /\ MayCastle(pos, a, b)

Arrivals(pos, a, b) ==
    IF Kind(pos, a) = "pawn" /\ b[1] = HomeRow(Other(pos.side))
    THEN {"knight", "bishop", "rook", "queen"}
    ELSE {Kind(pos, a)}

PossibleMoves(pos) ==
    UNION {UNION {{[from |-> a, to |-> b, kind |-> kind] :
                     kind \in Arrivals(pos, a, b)} :
                    b \in {sq \in Chessboard \ MenOf(pos, pos.side) : MayGo(pos, a, sq)}} :
             a \in MenOf(pos, pos.side)}

\* The rights that end when something leaves or reaches sq: a right is a
\* colour with a wing.
RightsAt(sq) ==
    {right \in Colours \X {"king", "queen"} :
        LET row == HomeRow(right[1])
        IN  sq \in {<<row, 4>>, <<row, IF right[2] = "king" THEN 7 ELSE 0>>}}

After(pos, move) ==
    LET a == move.from
        b == move.to
        kind == Kind(pos, a)
        castles == kind = "king" /\ Distance(a[2], b[2]) = 2
        corner == <<a[1], IF b[2] = 6 THEN 7 ELSE 0>>
        beside == <<a[1], IF b[2] = 6 THEN 5 ELSE 3>>
        victim == IF kind = "pawn" /\ b \in pos.passed THEN {<<a[1], b[2]>>} ELSE {}
        gone == {a} \cup victim \cup (IF castles THEN {corner} ELSE {})
        come == {b} \cup (IF castles THEN {beside} ELSE {})
    IN  [men |-> [sq \in (Taken(pos) \ gone) \cup come |->
                    IF sq = b THEN <<pos.side, move.kind>>
                    ELSE IF sq \in come THEN <<pos.side, "rook">>
                    ELSE pos.men[sq]],
         side |-> Other(pos.side),
         rights |-> pos.rights \ (RightsAt(a) \cup RightsAt(b)),
         passed |-> IF kind = "pawn" /\ Distance(a[1], b[1]) = 2
                    THEN Between(a, b) ELSE {}]

LegalMoves(pos) == {move \in PossibleMoves(pos) : ~InCheck(After(pos, move), pos.side)}

Captures(pos, move) ==
    move.to \in Taken(pos) \/ (Kind(pos, move.from) = "pawn" /\ move.to \in pos.passed)

\* How a game stands: the winner, "draw", or "open".
Outcome(pos) ==
    IF LegalMoves(pos) # {} THEN "open"
    ELSE IF InCheck(pos, pos.side) THEN Other(pos.side)
    ELSE "draw"

============================================================================

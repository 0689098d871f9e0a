---------------------------- MODULE MCChessClient ----------------------------
(***************************************************************************)
(* ChessClient for TLC, with a game small enough to be played to its end.  *)
(***************************************************************************)
EXTENDS ChessClient, TLC

CONSTANTS w1, w2, g1, g2, f1, f2

\* A pawn of White before its last step, and the square behind it.
PawnHome == <<1, 0>>    PawnGoal == <<0, 0>>
BlackKing == <<3, 3>>   FarSquare == <<4, 4>>
WhiteKing == <<5, 0>>   NearSquare == <<5, 1>>

ClickedSquares == {PawnHome, PawnGoal}

Move(from, to, promoted, legal, next) ==
    [from |-> from, to |-> to, promoted |-> promoted, legal |-> legal, next |-> next]

\* White promotes, and mates by going back unless Black has pinned the queen;
\* then only the king moves.  Not every move that is generated is legal.
Moves ==
    "start" :> {Move(PawnHome, PawnGoal, "queen", TRUE, "queen"),
                Move(PawnHome, PawnGoal, "knight", TRUE, "knight")}
      @@ "queen" :> {Move(BlackKing, FarSquare, "none", TRUE, "loose"),
                     Move(BlackKing, NearSquare, "none", TRUE, "pinned"),
                     Move(BlackKing, PawnGoal, "none", FALSE, "exposed")}
      @@ "loose" :> {Move(PawnGoal, PawnHome, "none", TRUE, "mate")}
      @@ "pinned" :> {Move(PawnGoal, PawnHome, "none", FALSE, "exposed"),
                      Move(WhiteKing, NearSquare, "none", TRUE, "stalemate")}
      @@ [p \in {"mate", "stalemate", "knight", "exposed"} |-> {}]

Men ==
    [p \in DOMAIN Moves |->
        WhiteKing :> <<"white", "king">> @@ BlackKing :> <<"black", "king">>
          @@ (CASE p = "start" -> PawnHome :> <<"white", "pawn">>
                [] p = "knight" -> PawnGoal :> <<"white", "knight">>
                [] p = "mate" -> PawnHome :> <<"white", "queen">>
                [] OTHER -> PawnGoal :> <<"white", "queen">>)]

SmallChess ==
    [moves |-> Moves, men |-> Men,
     side |-> [p \in DOMAIN Moves |->
                 IF p \in {"start", "loose", "pinned"} THEN "white" ELSE "black"],
     result |-> [p \in DOMAIN Moves |->
                 IF p = "mate" THEN "w"
                 ELSE IF p \in {"stalemate", "knight", "exposed"} THEN "d" ELSE "x"]]

Positions == DOMAIN Moves

\* A visitor asks for the page and for a board, and sends what cannot be read.
SmallVisits ==
    {Ask(NoFen, "show"), Ask(BadFen, "ai"), Ask("start", "malformed")}

AllRequests ==
    {Ask(p, then) : p \in Fens, then \in {"show", "ai", "malformed"}}
      \cup {AskMove(p, from, to) : p \in Fens, from \in ClickedSquares, to \in ClickedSquares}

\* Logged are lines without a '+', and targets with nothing between the first
\* two, with what is no position, or with a position that no game leads to.
SmallLines == {NoPlus, NoFen, BadFen, "exposed"}

=============================================================================

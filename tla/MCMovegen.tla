----------------------------- MODULE MCMovegen -----------------------------
(***************************************************************************)
(* Start positions for TLC, each chosen so that a few plies reach the      *)
(* special moves and their consequences.                                   *)
(***************************************************************************)
EXTENDS MovegenRules

MCOffboard == <<-1, -1>>

\* A FEN from the occupied squares alone.
Fen(men, side, castle, enpas) ==
    [placement |-> [sq \in Squares |-> IF sq \in DOMAIN men THEN men[sq] ELSE NOPIECE],
     side |-> side, castle |-> castle, enpas |-> enpas]

\* Castling on both wings by both sides, with rooks that can take one another
\* in the corners, and a king that would castle out of, through or into check.
CastlingFens ==
    {Fen(<<7, 4>> :> WK @@ <<7, 0>> :> WR @@ <<7, 7>> :> WR @@ <<6, 0>> :> WP
           @@ <<0, 4>> :> BK @@ <<0, 0>> :> BR @@ <<0, 7>> :> BR @@ <<1, 0>> :> BP
           @@ <<4, 3>> :> BN,
         side, <<WKCA, WQCA, BKCA, BQCA>>, << >>) : side \in {WHITE, BLACK}}

\* En passant by both sides, once where it would bare the king on its row.
EnpasFens ==
    {Fen(<<3, 0>> :> WK @@ <<3, 1>> :> WP @@ <<6, 6>> :> WP
           @@ <<0, 7>> :> BK @@ <<1, 2>> :> BP @@ <<3, 7>> :> BR @@ <<4, 5>> :> BP,
         WHITE, << >>, << >>)}
      \cup {Fen(<<7, 0>> :> WK @@ <<3, 3>> :> WP @@ <<0, 7>> :> BK @@ <<3, 4>> :> BP,
                WHITE, << >>, <<4, 6>>)}

\* Promotion, straight and by taking a rook that still could castle, and
\* being taken back.
PromotionFens ==
    {Fen(<<7, 4>> :> WK @@ <<7, 7>> :> WR @@ <<1, 1>> :> WP
           @@ <<0, 4>> :> BK @@ <<0, 0>> :> BR @@ <<6, 6>> :> BP,
         side, <<WKCA, BQCA>>, << >>) : side \in {WHITE, BLACK}}

\* Mates and stalemates one or two moves away.
EndingFens ==
    {Fen(<<2, 6>> :> WK @@ <<1, 5>> :> WQ @@ <<6, 1>> :> WP @@ <<0, 7>> :> BK
           @@ <<5, 1>> :> BP, side, << >>, << >>) : side \in {WHITE, BLACK}}

\* Kings shuffling behind blocked pawns; one pawn each may still move.
ShuffleFens ==
    {Fen(<<7, 0>> :> WK @@ <<6, 0>> :> WP @@ <<6, 2>> :> WP @@ <<6, 7>> :> WP
           @@ <<5, 0>> :> BP @@ <<5, 2>> :> BP
           @@ <<0, 7>> :> BK @@ <<1, 7>> :> BP @@ <<1, 5>> :> BP
           @@ <<2, 7>> :> WP @@ <<2, 5>> :> WP,
         WHITE, << >>, << >>)}

AllFens == CastlingFens \cup EnpasFens \cup PromotionFens \cup EndingFens \cup ShuffleFens

ShuffleStarts == {PositionOf(parseFen(fen)) : fen \in ShuffleFens}
PawnStarts == {PositionOf(parseFen(fen)) : fen \in EnpasFens \cup EndingFens}

\* A position comes back for the second time after eight plies; what pawns can
\* do, and how games end, takes three.
Plies(start) ==
    IF start \in ShuffleStarts THEN MaxPly
    ELSE IF start \in PawnStarts THEN 3 ELSE 2

============================================================================

SPECIFICATION Spec
CONSTANTS
    Squares = {s1, s2, s3}
    OFFBOARD = OFFBOARD
    pawn = pawn
    rook = rook
    Pieces = {pawn, rook}
    NOPIECE = NOPIECE
    Worth <- MCWorth
    CastleRights = {K}
    Moves <- MCMoves
    ListSlots = 3
    MAXGAMELENGTH = 1
INVARIANTS
    TypeOK
    ListsMatchBoard
    PosKeyMatchesBoard
    MaterialMatchesBoard
    FiftyMoveInPast

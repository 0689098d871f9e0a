SPECIFICATION RecordedSpec
CONSTANTS
    Squares <- ChessSquares
    OFFBOARD <- MCOffboard
    Pieces <- ChessPieces
    NOPIECE = 12
    Worth <- ChessWorth
    CastleRights = {8, 4, 2, 1}
    Moves <- ChessMoves
    StartFens <- AllFens
    MaxPly = 9
    PlyBound <- Plies
INVARIANTS AcceptsLegalMoves CapturesAreCaptures BoardConsistent FenRoundTrip KeysIdentifyMoves RepetitionsFound WinnerIsOutcome
PROPERTY PlaysChess

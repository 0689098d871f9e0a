CONSTANTS
    Positions <- AllPositions
    Games <- GamesWithMoves
    Slot <- Slots
    NOMOVE = NOMOVE
    EMPTYBOARD = EMPTYBOARD
    MAXDEPTH = 11
SPECIFICATION FairSpec
INVARIANTS TypeOK BoardComesBack WindowsOpen AnswerIsLegal ScoreIsMinimax AnswerIsBest
PROPERTY Answers
CHECK_DEADLOCK FALSE

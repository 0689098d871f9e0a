CONSTANTS
    Positions <- AllPositions
    Games <- OverGames
    Slot <- Slots
    NOMOVE = NOMOVE
    EMPTYBOARD = EMPTYBOARD
    MAXDEPTH = 4
SPECIFICATION FairSpec
PROPERTY AlwaysAnswers
CHECK_DEADLOCK FALSE

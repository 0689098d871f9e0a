CONSTANTS
    Positions <- AllPositions
    Games <- CircleGames
    Slot <- Slots
    NOMOVE = NOMOVE
    EMPTYBOARD = EMPTYBOARD
    MAXDEPTH = 11
SPECIFICATION Spec
INVARIANT AnswerIsBest
CHECK_DEADLOCK FALSE

CONSTANTS
    w1 = w1
    w2 = w2
    Workers = {w1, w2}
    Boards <- Positions
    Rows = 1
    Lines <- SmallLines
    MaxText = 2
    NoPlus = NoPlus
    console = console
    NoBoard = NoBoard
    Chess <- SmallChess
    NoFen = NoFen
    BadFen = BadFen
    Requests <- AllRequests
    NoRequest = NoRequest
    NoAnswer = NoAnswer
    Games = {g1, g2}
    g1 = g1
    g2 = g2
    Slots = {f1, f2}
    f1 = f1
    f2 = f2
    MaxMeetings = 1
    Clicks <- ClickedSquares
    Visits <- SmallVisits
    Start = "start"
    NoGame = NoGame
    Nothing = Nothing
SPECIFICATION ClientSpec
INVARIANTS ClientTypeOK RedirectsWhenAlone WhiteIsHeard  FenReachable
PROPERTIES  EveryoneAnswered
CHECK_DEADLOCK FALSE

CONSTANTS
    w1 = w1
    w2 = w2
    b1 = b1
    b2 = b2
    Workers = {w1, w2}
    Boards = {b1, b2}
    Rows = 2
    Lines = {}
    MaxText = 0
    console = console
    NoBoard = NoBoard
SPECIFICATION Spec
INVARIANT OwnBoard
SYMMETRY Symmetric

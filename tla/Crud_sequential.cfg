CONSTANTS
    w1 = w1
    w2 = w2
    shoes = shoes
    hats = hats
    red = red
    blue = blue
    Missing = Missing
    Blank = Blank
    Mixed = Mixed
    Entities = {shoes, hats}
    MaxId = 2
    Docs = {red, blue}
    Workers = {w1}
    DiskFails = FALSE
SPECIFICATION Spec
INVARIANTS TypeOK RestartChangesNothing
PROPERTY ImplementsStore

CONSTANTS
    w1 = w1
    w2 = w2
    shoes = shoes
    hats = hats
    red = red
    blue = blue
    Missing = Missing
    Blank = Blank
    Mixed = Mixed
    Entities = {shoes}
    MaxId = 2
    Docs = {red, blue}
    Workers = {w1, w2}
    DiskFails = FALSE
SPECIFICATION Spec
INVARIANT RetrieveSurvivesRestart

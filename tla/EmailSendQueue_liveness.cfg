SPECIFICATION FairSpec
CONSTANTS
    Rows = {1, 2}
    Runs = {w1, w2}
    NoRun = NoRun
    Chunk = 1
    Stale = 1
    MaxRun = 1
    Budget = 1
    MaxFaults = 1
    OptOuts = {}
CHECK_DEADLOCK FALSE
PROPERTIES
    SendEnds

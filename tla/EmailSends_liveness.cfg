SPECIFICATION FairSpec
CONSTANTS
    Runs = {w1, w2}
    NoRun = NoRun
    NoKey = NoKey
    Functions = {"send", "enqueue", "run", "close", "refresh", "save"}
    Batches = 2
    MaxSends = 1
    LastAt = 1
    Recurs = FALSE
    MaxFaults = 1

CHECK_DEADLOCK FALSE
PROPERTIES
    PreparingEnds

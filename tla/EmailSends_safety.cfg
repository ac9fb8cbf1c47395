SPECIFICATION PartsSpec
CONSTANTS
    Sending = "sending"
    Totalling = "totalling"
    Recipients = {r1, r2}
    Calls = {v1, v2, v3}
    Runs = {w1, w2}
    NoRun = NoRun
    NoKey = NoKey
    Functions = {"send", "enqueue", "run", "close", "refresh", "save"}
    Batches = 2
    MaxSends = 1
    LastAt = 2
    Recurs = TRUE
    MaxFaults = 1
SYMMETRY RunSymmetry
CHECK_DEADLOCK FALSE
INVARIANTS
    PartsTypeOK
    OccurrenceOnce
    FinishedIsTrue
PROPERTIES
    WholePlanOnly

SPECIFICATION DeleteSpec
CONSTANTS
    Runs = {w1}
    NoRun = NoRun
    NoKey = NoKey
    Functions = {"send", "run"}
    Batches = 2
    MaxSends = 1
    LastAt = 1
    Recurs = FALSE
    MaxFaults = 1
INVARIANT SentEmailsAreKept
CHECK_DEADLOCK FALSE

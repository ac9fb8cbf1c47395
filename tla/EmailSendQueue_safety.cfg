SPECIFICATION Spec
CONSTANTS
    Rows = {1, 2}
    Runs = {w1, w2}
    NoRun = NoRun
    Chunk = 2
    Stale = 1
    MaxRun = 1
    Budget = 1
    MaxFaults = 2
    OptOuts = {1}
SYMMETRY RunSymmetry
CHECK_DEADLOCK FALSE
INVARIANTS
    TypeOK
    SingleWriter
    AtMostOnce
    RowsTellTheTruth
    FinishedMeansDone
    PausedMeansStopped
    OptOutRespected
PROPERTIES
    ClosedStaysClosed
    KeepsPromise

\* One worker that can die, start again and lose its session.
SPECIFICATION FairSpec

CONSTANTS
    r1 = r1
    r2 = r2
    k1 = k1
    k2 = k2
    w1 = w1
    w2 = w2
    None = None
    NoOne = NoOne
    Requests <- TwoRequests
    Keys <- OneKey
    Workers <- OneWorker
    Times <- Clock
    PoolLimit = 2
    BatchSize = 2
    FaultKinds <- CrashesAndDatabaseFaults

PROPERTIES
    SettledIsFinal
    AnsweredOrderIsSettled

\* Without symmetry, which is unsound for liveness.  A cut connection is left
\* out here: it ends, like a database fault, in a broken session.
SPECIFICATION FairSpec

CONSTANTS
    e1 = e1
    e2 = e2
    e3 = e3
    w1 = w1
    w2 = w2
    NoOne = NoOne
    Requests <- TwoEvents
    Workers <- TwoWorkers
    Times <- OneTime
    BatchSize = 2
    FaultKinds <- CrashesAndDatabaseFaults

PROPERTIES
    PendingIsSettled
    StopIsHonoured

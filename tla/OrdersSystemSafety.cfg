\* Two keys, so that two events exist and two workers can share a batch.
SPECIFICATION Spec

CONSTANTS
    r1 = r1
    r2 = r2
    k1 = k1
    k2 = k2
    w1 = w1
    w2 = w2
    None = None
    NoOne = NoOne
    Requests <- TwoRequests
    Keys <- TwoKeys
    Workers <- TwoWorkers
    Times <- Clock
    PoolLimit = 2
    BatchSize = 2
    FaultKinds <- Crashes

SYMMETRY Symmetry

INVARIANTS
    MessagesNameOrders
    RefusedIsNeverAnnounced
    AnsweredOrderIsKept

\* Symmetry is sound for them: they are initial states and steps, without fairness.
PROPERTIES
    ImplementsOrderService
    ImplementsOutboxWorker

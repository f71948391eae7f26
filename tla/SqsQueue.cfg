\* One worker that can die; room for one message more than it may send
\* before it first dies.
SPECIFICATION Spec

CONSTANTS
    e1 = e1
    e2 = e2
    w1 = w1
    w2 = w2
    NoOne = NoOne
    Requests <- OneEvent
    Workers <- OneWorker
    Times <- OneTime
    BatchSize = 1
    FaultKinds <- Crashes
    SendRequests = 2
    MaxReceiveCount = 2
    MaxCopies = 7
    MaxRead = 2

INVARIANTS
    TypeOK
    DuplicatesAreBounded
    ResentOnlyAfterFaults

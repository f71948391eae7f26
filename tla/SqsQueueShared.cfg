\* Two workers that share a batch, and an SQS that fails: the bound of
\* DuplicatesAreBounded holds for each of them.
SPECIFICATION Spec

CONSTANTS
    e1 = e1
    e2 = e2
    w1 = w1
    w2 = w2
    NoOne = NoOne
    Requests <- TwoEvents
    Workers <- TwoWorkers
    Times <- OneTime
    BatchSize = 2
    FaultKinds = {}
    SendRequests = 1
    MaxReceiveCount = 1
    MaxCopies = 4
    MaxRead = 0

INVARIANTS
    TypeOK
    DuplicatesAreBounded
    ResentOnlyAfterFaults

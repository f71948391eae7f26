\* No fault of the database is needed: SQS fails for one worker only.
SPECIFICATION Spec

CONSTANTS
    e1 = e1
    e2 = e2
    e3 = e3
    w1 = w1
    w2 = w2
    NoOne = NoOne
    Requests <- TwoEvents
    Workers <- TwoWorkers
    Times <- OneTime
    BatchSize = 2
    FaultKinds <- NoFaults

PROPERTY StatusLifecycle

\* Two workers and a batch smaller than the table, whose rows may differ in age.
SPECIFICATION Spec

CONSTANTS
    e1 = e1
    e2 = e2
    e3 = e3
    w1 = w1
    w2 = w2
    NoOne = NoOne
    Requests <- ThreeEvents
    Workers <- TwoWorkers
    Times <- TwoTimes
    BatchSize = 2
    FaultKinds <- AllFaults

SYMMETRY Symmetry

INVARIANTS
    TypeOK
    FetchTransactionExcludes
    ProcessedWasPublished
    BlockedHoldsNothing
    RowsInHand
    LocksAreInHand

\* Symmetry is sound for them: initial states and steps, without fairness.
PROPERTIES
    BatchesEnd
    ImplementsOutboxDelivery

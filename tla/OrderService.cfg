\* Two keys let requests conflict and pass each other; the third request makes
\* a conflict of a conflict; two connections are fewer than the requests.  One
\* connection would make them take turns, so that no conflict could occur.
SPECIFICATION FairSpec

\* Every request of the instance may be answered.
CHECK_DEADLOCK FALSE

CONSTANTS
    r1 = r1
    r2 = r2
    r3 = r3
    k1 = k1
    k2 = k2
    None = None
    Requests <- ThreeRequests
    Keys <- TwoKeys
    Times <- Clock
    PoolLimit = 2

INVARIANTS
    TypeOK
    EventIffOrder
    AnsweredOrderIsDurable
    ConflictFindsOrder
    RefusedCreatesNothing
    NoHoldAndWait
    WritersAlone

PROPERTIES
    RequestsOnlyAdvance
    EveryRequestSettles
    ImplementsIdempotentOrders

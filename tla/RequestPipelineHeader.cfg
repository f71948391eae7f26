\* A 500 is answered outside the middleware.
SPECIFICATION Spec

\* Every request of the instance may be answered.
CHECK_DEADLOCK FALSE

CONSTANTS
    r1 = r1
    r2 = r2
    k1 = k1
    c1 = c1
    None = None
    Empty = Empty
    Unknown = Unknown
    Unset = Unset
    Requests <- TwoRequests
    Keys <- OneKey
    ClientIds <- OneClientId
    Times <- Clock
    PoolLimit = 2

SYMMETRY Symmetry

INVARIANT EveryResponseIsTraced

\* Repeated up and down, with failures of every container.
SPECIFICATION Spec

CONSTANT MaxPolls = 2

INVARIANTS
    TypeOK
    TablesBeforeQueries

PROPERTY UpEnds

SPECIFICATION Spec
CONSTANTS
    r1 = r1
    r2 = r2
    Docs <- ThreeDocs
    Size <- Sizes
    MaxBatchBytes = 2
    Queries <- SomeQueries
    Readers <- TwoReaders
    Collectors <- OneCollector
    IdleTimeout = 1
    MaxCursorId = 3
    MaxCalls = 3
    MaxChanges = 2
    MaxWork = 3
    Contents <- Full
INVARIANTS
    NothingSkipped
    NothingTwice
    ClosedReleases
PROPERTIES
    CursorsExpire
    ReadsReturn
CHECK_DEADLOCK FALSE

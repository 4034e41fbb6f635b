SPECIFICATION Spec
CONSTANTS
    Setups <- Promises
    SegmentSize = 3
    FlushSize = 3
    Sizes = {1, 2}
    Faults = {"full", "write", "fsync", "close", "unlink"}
    MaxRecords = 5
    MaxCrashes = 2
INVARIANTS
    AlwaysRecoverable
    AcknowledgedRecovered
PROPERTIES
    ImplementsDurableLog

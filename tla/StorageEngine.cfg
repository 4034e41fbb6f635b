SPECIFICATION Spec
CONSTANTS
    k1 = k1
    k2 = k2
    v1 = v1
    i1 = i1
    Keys <- TwoKeys
    Values <- OneValue
    Absent = Absent
    Indexes <- OneIndex
    Definitions = {"unique"}
    Retention = 2
    DueFor = {"createCollection", "put", "delete", "dropIndex"}
    Failures = {"full", "break", "sync", "write", "directory", "prune"}
    Crashes = {"process", "power"}
    MaxRecords = 4
    MaxCrashes = 1
    MaxDamage = 1
SYMMETRY SameKeys
INVARIANTS
    MemoryIsTheLog
    AlwaysOpens
    SnapshotsMatchLog
    Recoverable

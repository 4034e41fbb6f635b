SPECIFICATION FairSpec
CONSTANTS
    k1 = k1
    k2 = k2
    v1 = v1
    i1 = i1
    Keys <- TwoKeys
    Values <- OneValue
    Absent = Absent
    Indexes <- NoIndex
    Definitions = {"unique"}
    Retention = 2
    DueFor = {"createCollection", "put", "delete", "dropIndex"}
    Failures = {"full", "break", "sync", "write", "directory", "prune", "truncate"}
    Crashes = {"process"}
    MaxRecords = 3
    MaxCrashes = 1
    MaxDamage = 0
PROPERTIES
    CallsReturn
    CheckpointsEnd

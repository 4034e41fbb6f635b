CONSTANTS
    c1 = c1
    c2 = c2
    Commands = {c1, c2}
    Data = {"wal"}
    Builds = {2, 3, 4}
    Tools = {3, 4}
    Rewrites = {2, 3}
    MaxWrites = 1
    MaxCrashes = 1
    MaxHarm = 1
SPECIFICATION Spec
SYMMETRY SameCommands
INVARIANTS
    NeverMisread
PROPERTIES
    BackupIsAnInstant
    RestoredWhole
    PublishedStays

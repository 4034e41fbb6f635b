CONSTANTS
    r1 = r1
    r2 = r2
    Repairers = {r1, r2}
    Consents <- SomeConsents
    Harms = {"record", "header", "lost", "snapshot", "manifest"}
    SegmentSize = 2
    Retention = 2
    MaxLsn = 3
    MaxHarm = 2
    MaxCrashes = 1
SPECIFICATION Spec
SYMMETRY SameRepairers
INVARIANTS
    VerdictTrue
    RepairConverges
PROPERTIES
    LosesNothingUnasked
    OpenableUnharmed

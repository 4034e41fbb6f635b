SPECIFICATION FairSpec
CONSTANTS
    p1 = p1
    p2 = p2
    p3 = p3
    Procs = {p1, p2, p3}
    HostOf <- TwoHosts
    Reclaim = {p2}
    MaxNonce = 3
    NoLock = NoLock
    Garbled = Garbled
    InitialLock = {NoLock, Garbled}
INVARIANTS
    ExclusiveUnlessExcused
    LockNamesOwner
PROPERTIES
    LoneStartSucceeds

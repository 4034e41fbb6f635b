SPECIFICATION FairSpec
CONSTANTS
    s1 = s1
    s2 = s2
    Sessions <- TwoSessions
    MaxRequests = 3
    MaxLsn = 2
    RecoverUnsynced = FALSE
INVARIANTS
    NothingShownIsLost
    RepliesInOrder
    HeldRepliesHaveARun
PROPERTIES
    EveryMessageSettled

SPECIFICATION SpecExistingOwner
CONSTANTS
    t1 = t1
    t2 = t2
    p1 = p1
    p2 = p2
    Absent = Absent
    Present = Present
    SyncTxs <- Syncs
    ProfileTxs = {}
INVARIANTS
    ConcurrentDiffsSucceed
CHECK_DEADLOCK FALSE

SPECIFICATION FairSpec
CONSTANTS
    t1 = t1
    t2 = t2
    p1 = p1
    p2 = p2
    Absent = Absent
    Present = Present
    SyncTxs <- Syncs
    ProfileTxs <- Profiles
PROPERTIES
    EveryCommitCounts
    ProfilesDoNotUpgrade
    AllEnd
CHECK_DEADLOCK FALSE

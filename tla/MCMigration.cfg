SPECIFICATION FairSpec
CONSTANTS
    m1 = m1
    m2 = m2
    s = s
    Nobody = Nobody
    Migrators <- MCMigrators
    Servers <- MCServers
    Statements = 3
INVARIANTS
    ServingMeansComplete
PROPERTIES
    CleanIsFinal
    LockIsFreed

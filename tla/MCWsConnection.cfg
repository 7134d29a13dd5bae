SPECIFICATION FairSpec
CONSTANTS
    c1 = c1
    c2 = c2
    h1 = h1
    NoHint = NoHint
    Connections <- MCConnections
    Hints <- MCHints
    Origin <- MCOrigin
    Capacity = 1
    Scopes <- MCScopes
INVARIANTS
    CommittedIsAnswered
    LossIsReported
    HintsReachPeers
PROPERTIES
    FailureEndsConnection
    BroadcastEnds
CHECK_DEADLOCK FALSE

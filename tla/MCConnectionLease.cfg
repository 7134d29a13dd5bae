SPECIFICATION Spec
CONSTANTS
    c1 = c1
    c2 = c2
    Connections <- MCConnections
    Skew <- MCSkew
    MaxLeases = 1
    TTL = 6
    MaxDelay = 1
    MaxTime = 13
INVARIANTS
    LeaseBound
    OpenHoldsLease
PROPERTIES
    NoResurrection
CHECK_DEADLOCK FALSE

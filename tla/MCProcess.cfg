SPECIFICATION FairSpec
CONSTANTS
    s1 = s1
    s2 = s2
    o1 = o1
    o2 = o2
    p1 = p1
    r1 = r1
    w1 = w1
    Subscriptions <- MCSubscriptions
    Owners <- MCOwners
    Owner <- MCOwner
    Publishers <- MCPublishers
    Requests <- MCRequests
    WebSockets <- MCWebSockets
INVARIANTS
    NoPanic
    NoPublicationIsLost
    ClosedHubHoldsNobody
    OrderlyExitCutsNothing
PROPERTIES
    ShutdownNeedsNoTimeout
CHECK_DEADLOCK FALSE

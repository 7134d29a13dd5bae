SPECIFICATION Spec
CONSTANTS
    a = a
    b = b
    m = m
    o1 = o1
    o2 = o2
    r1 = r1
    r2 = r2
    NoBaseline = NoBaseline
    Devices <- MCDevices
    Minted <- MCMinted
    OpIds <- MCOpIds
    EntityKeys = {1, 2}
    RequestIds <- MCRequestIds
    CampaignStart = 4
    LongDays = {1}
    MaxResponseChanges = 1
    Requests <- MCRequests
INVARIANTS
    LogContiguous
    RecordsAreLatest
    ReceiptsPointAtLog
    LastHintIsCurrent
    ResolutionsBelongToLineage
    ArchiveNeverCollides
    ProgressDayFresh
PROPERTIES
    ArchiveImmutable
    ImplementsChangeLog
    ImplementsFeedLog

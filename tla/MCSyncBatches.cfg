SPECIFICATION Spec
CONSTANTS
    b1 = b1
    b2 = b2
    o1 = o1
    o2 = o2
    o3 = o3
    NoBaseline = NoBaseline
    Devices <- MCDevices
    Minted = {}
    OpIds <- MCOpIds
    EntityKeys = {1, 2}
    RequestIds = {}
    CampaignStart = 4
    LongDays = {1}
    MaxResponseChanges = 2
    Requests <- MCRequests
INVARIANTS
    TypeOK
    ArchiveVersionsAscend
    DiffAcksCanonical
    ExchangePageComplete

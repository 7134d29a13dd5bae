SPECIFICATION FairSpec
CONSTANTS
    a = a
    b = b
    p = p
    q = q
    s = s
    NoLineage = NoLineage
    Lineages <- MCLineages
    Publishers <- MCPublishers
    Subscribers <- MCSubscribers
    Streams <- MCStreams
    Home <- MCHome
    PageLimit = 2
    Sizes = {1, 3, 7}
    MaxEvent = 5
    MaxCursor = 1
    MaxPage = 6
    MaxBatch = 3
    MaxHead = 3
    MaxRows = 2
INVARIANTS
    TypeOK
    StreamIsGapless
    ReadyMeansCaughtUp
    NoLostWakeUp
    PrefixIsLongest
PROPERTIES
    StreamCatchesUp

SPECIFICATION HintSpec
CONSTANTS
    a = a
    p1 = p1
    p2 = p2
    q = q
    NoLineage = NoLineage
    Lineages <- MCLineages
    Publishers <- MCPublishers
    Subscribers <- MCSubscribers
    MaxBatch = 1
    MaxHead = 3
    MaxRows = 3
PROPERTIES
    EveryRowIsPublished
CHECK_DEADLOCK FALSE

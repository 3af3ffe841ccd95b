SPECIFICATION FairSpec
CONSTANTS
    k1 = k1
    k2 = k2
    k3 = k3
    v1 = v1
    v2 = v2
    t1 = t1
    t2 = t2
    None = None
    Keys <- MCKeys
    Values <- MCValues
    Threads <- MCThreads
    Capacity = 2
INVARIANTS
    TypeOK
    QueueMirrorsMapping
    WithinCapacity
    ReadersMissAtMostOne
    NoInternalError
PROPERTIES
    ImplementsRecencyCache
    LockReleased

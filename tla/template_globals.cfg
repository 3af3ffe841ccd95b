SPECIFICATION AllPresentSpec
CONSTANTS
    n1 = n1
    n2 = n2
    valid = valid
    invalid = invalid
    t1 = t1
    t2 = t2
    d1 = d1
    d2 = d2
    x1 = x1
    x2 = x2
    None = None
    Names <- MCNames
    Threads <- MCThreads
    InitialValue <- MCValue
    AutoReload = TRUE
    Contents <- OnlyGood
    Broken <- Nothing
    KindOf <- StaticKinds
    CallerDicts <- TwoDicts
    Places = 1
    CacheSize = 1
    MaxChanges = 1
SYMMETRY ThreadSymmetry
INVARIANTS
    TypeOK
    GlobalsDelivered

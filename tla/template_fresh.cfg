SPECIFICATION FirstPlaceSpec
CONSTANTS
    n1 = n1
    n2 = n2
    valid = valid
    invalid = invalid
    t1 = t1
    t2 = t2
    d1 = d1
    d2 = d2
    x1 = x1
    x2 = x2
    None = None
    Names <- MCNames
    Threads <- MCThreads
    InitialValue <- MCValue
    AutoReload = TRUE
    Contents <- GoodAndBad
    Broken <- OnlyBad
    KindOf <- MCKinds
    CallerDicts <- Nothing
    Places = 2
    CacheSize = 1
    MaxChanges = 2
SYMMETRY ThreadSymmetry
INVARIANTS
    Fresh
    FailuresJustified

SPECIFICATION Spec
CONSTANTS
    p1 = p1
    p2 = p2
    p3 = p3
    s1 = s1
    s2 = s2
    m1 = m1
    m2 = m2
    None = None
    Procs <- MCProcs
    Sources <- MCSources
    Magics <- MCMagics
    MatchesTemp = TRUE
    MaxLitter = 1
SYMMETRY Symmetry
INVARIANTS
    TypeOK
    NoTornRead
    OwnCode
    NoTempLeft

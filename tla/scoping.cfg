SPECIFICATION MCSpec
CONSTANT Given <- MCGiven
INVARIANTS
    TypeOK
    ReadsItsScope
    ExportsTopLevel

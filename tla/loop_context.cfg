SPECIFICATION BoundedSpec
CONSTANTS
    a = a
    b = b
    Items <- MCItems
    Missing = Missing
    MaxLength = 4
INVARIANTS
    TypeOK
    NothingLost
PROPERTIES
    ImplementsLoop
CHECK_DEADLOCK FALSE

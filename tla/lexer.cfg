SPECIFICATION MCSpec
CONSTANT MaxPieces = 3
INVARIANTS
    TypeOK
    LinesTrue
    OnlyBlanksLost
    DataControlled
CHECK_DEADLOCK FALSE

SPECIFICATION MCSpec
CONSTANTS
    Names <- MCNames
    MaxTokens = 3
    MaxTags = 3
INVARIANTS
    TypeOK
    ReadsWhatIsWritten
    InnermostNamed
CHECK_DEADLOCK FALSE

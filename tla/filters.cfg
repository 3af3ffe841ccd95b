SPECIFICATION ChainSpec
CONSTANTS
    Sequences <- MCSequences
    MaxChain = 3
    MaxItems = 3
CHECK_DEADLOCK FALSE
INVARIANT PromiseKept
PROPERTY AsyncAsSync

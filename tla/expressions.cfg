SPECIFICATION Spec
CONSTANTS
    Nodes <- MCNodes
    Templates <- MCTemplates
    Contexts <- MCContexts
    Iterations = 2
    Foldable <- option_foldable
    Folded <- option_const
    Computed <- option
    Text <- Output
    Error <- error
INVARIANTS
    TypeOK
    FoldingUnseen
    Reverted

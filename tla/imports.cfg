SPECIFICATION MCSpec
CONSTANTS
    Tasks = {"t1", "t2"}
    Identifiers <- MCIdentifiers
    Texts <- MCTexts
    Macros <- MCMacros
    Calls <- MCCalls
    MaxStatements = 3
    MaxParams = 2
CHECK_DEADLOCK FALSE
PROPERTIES
    BindsAsDeclared
    ImplementsAlone

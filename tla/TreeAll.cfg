SPECIFICATION Spec
CONSTANTS
    MaxNodes = 6
    Programs <- MCPrograms
    MaxCalls = 1
CHECK_DEADLOCK FALSE
INVARIANTS
    TypeOK
    SignalsAreConsumed
    FramesMatchCalls
PROPERTIES
    ExecutesStructure

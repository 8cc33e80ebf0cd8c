SPECIFICATION Spec
CONSTANTS
    Names <- MCNames
    Operand <- MCOperand
    DestructorOf <- MCDestructorOf
    Known = {"String"}
    FieldTypes = {"Object"}
    JitFactory = TRUE
    MaxTokens = 16
    MaxParts = 2
    Arguments = 2
    Results <- MCResults
    ExitBits = 4
    MaxDepth = 2
INVARIANT ClassesHaveDestructors
CHECK_DEADLOCK FALSE

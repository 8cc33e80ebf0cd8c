SPECIFICATION Spec
CONSTANTS
    IntBits = 2
    ByteBits = 1
    PromotedBits = 2
    Functions <- MCFunctions
    Virtual <- MCVirtual
    Underscores <- MCUnderscores
    Stored <- MCStored
    Tiered = {"_Point_Move_<M>_bool"}
    Boundary = 0
    Room = 5
INVARIANTS
    TypeOK
    ArithmeticLaws
PROPERTIES
    SafeCallIsUniform
    NullComesFromFields
CHECK_DEADLOCK FALSE

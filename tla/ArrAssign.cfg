SPECIFICATION Spec
CONSTANTS
    Array = {x, y}
    Object = {o}
    Buffer = {b1, b2, b3}
    Byte = {0, 1}
    Unset = Unset
    ObjectSize = 1
    Size = {0, 2}
    Index <- MCIndex
    Traps = {"assign"}
    MaxLength = 3
CHECK_DEADLOCK FALSE
INVARIANT NoOverrun

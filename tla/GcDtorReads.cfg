SPECIFICATION Spec
CONSTANTS
    Obj = {o1, o2, o3}
    Null = Null
    Field = {f}
    Slot = {l}
    This = l
    Static = {s}
    Threshold = 1
    DtorOps = {"LoadLocal", "GetField", "Pop"}
    MaxStack = 2
    MaxFrames = 2
CHECK_DEADLOCK FALSE
SYMMETRY Symmetry
INVARIANT NoUseAfterFree

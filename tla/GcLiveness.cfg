SPECIFICATION FairSpec
CONSTANTS
    Obj = {o1, o2}
    Null = Null
    Field = {f}
    Slot = {l}
    This = l
    Static = {s}
    Threshold = 1
    DtorOps = {"Fail", "Missing"}
    MaxStack = 2
    MaxFrames = 1
CHECK_DEADLOCK FALSE
PROPERTIES
    GarbageIsCollected

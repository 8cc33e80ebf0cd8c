SPECIFICATION Spec
CONSTANTS
    Obj = {o1, o2, o3}
    Null = Null
    Field = {f}
    Slot = {l}
    This = l
    Static = {s}
    Threshold = 1
    DtorOps = {"CallConstructor", "LoadLocal", "SetLocal", "LoadStatic", "Pop", "Fail", "ForceGarbageCollection", "Call", "Return"}
    MaxStack = 2
    MaxFrames = 3
CHECK_DEADLOCK FALSE
SYMMETRY Symmetry
INVARIANTS
    NoUseAfterFree
    NoDanglingReference
    NoStaleBadge
PROPERTIES
    CollectionIsTransparent

SPECIFICATION Spec
CONSTANTS
    Obj = {o1, o2, o3}
    Null = Null
    Field = {f}
    Slot = {l}
    This = l
    Static = {s}
    Threshold = 1
    DtorOps = {"Fail", "Missing"}
    MaxStack = 2
    MaxFrames = 2
SYMMETRY Symmetry
CHECK_DEADLOCK FALSE
INVARIANTS
    TypeOK
    NoUseAfterFree
    NoDanglingReference
    TriColour
    NoStaleBadge
    GarbageIsBounded
    ClearReleasesEverything
PROPERTIES
    CollectionIsComplete
    CollectionIsTransparent
    ImplementsManagedHeap

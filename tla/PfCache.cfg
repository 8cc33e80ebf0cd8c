SPECIFICATION Spec
CONSTANTS
    a = a
    b = b
    p = p
    q = q
    Obj = {o1, o2}
    Content = {a, b}
    Prim = {p}
    Hash <- MCHash
    Arity = 2
    ObjectParams = {2}
    ReturnsObject = FALSE
    MaxStack = 3
    MaxDepth = 2
CHECK_DEADLOCK FALSE
INVARIANTS
    TypeOK
    NoUseAfterFree
    HitIsFresh
PROPERTIES
    CallIsBalanced

SPECIFICATION Spec
CONSTANTS
    a = a
    b = b
    p = p
    q = q
    Obj = {o1, o2}
    Content = {a}
    Prim = {p}
    Hash <- MCHash
    Arity = 2
    ObjectParams = {1, 2}
    ReturnsObject = FALSE
    MaxStack = 2
    MaxDepth = 1
CHECK_DEADLOCK FALSE
INVARIANT NoUseAfterFree

\* Every target of 36 programs, under every scenario and tightened limits.
CONSTANTS
    a = a
    b = b
    d = d
    t = t
    P = P
    Q = Q
    None = None
    File = {a, b, d, t}
    TestFile = {t}
    Stem <- MCStem
    Names <- MCNames
    Worlds <- MCWorlds
    Requests <- MCRequests
SPECIFICATION Traversal
CHECK_DEADLOCK FALSE
INVARIANTS CertainIsExact UsesAreImpacted

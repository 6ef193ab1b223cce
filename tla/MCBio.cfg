SPECIFICATION Spec
CONSTANTS
    p1 = p1
    p2 = p2
    x1 = x1
    x2 = x2
    k1 = k1
    k2 = k2
    k3 = k3
    None = None
    Proc = {p1, p2}
    Buf = {x1, x2}
    Block = {k1, k2, k3}
    Val = {0, 1}
    NUMS = {4, 8}
    NLOG = 1
SYMMETRY Symmetry
CHECK_DEADLOCK FALSE
INVARIANTS
    RefsExact
    DescsExact
PROPERTY ImplementsBlockStore

SPECIFICATION FairSpec
CONSTANTS
    p1 = p1
    p2 = p2
    x1 = x1
    x2 = x2
    k1 = k1
    k2 = k2
    None = None
    Proc = {p1, p2}
    Buf = {x1, x2}
    Block = {k1, k2}
    Val = {0}
    NUMS = {8}
    NLOG = 0
CHECK_DEADLOCK FALSE
PROPERTY RequestsFinish

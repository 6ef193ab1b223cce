SPECIFICATION Spec
CONSTANTS
    p1 = p1
    p2 = p2
    pg = pg
    None = None
    Proc = {p1, p2}
    Page = {pg}
    Val = {0, 1}
    PIPESIZE = 2
    WRAP = 4
    NFILE = 2
    NOFILE = 2
    NWRITE = 2
    NREAD = 2
SYMMETRY Symmetry
CHECK_DEADLOCK FALSE
INVARIANTS
    TypeOK
    RefExact
    EndsMatch
PROPERTIES
    WakeupsDone
    ImplementsFifo

SPECIFICATION Spec
CONSTANTS
    Proc = {p, q, r}
    Block = {a, b}
    Val = {x, y}
    Builds <- MCBuilds
    UINT = 4
    Evicts = TRUE
    NoBlock = NoBlock
SYMMETRY Symmetry
PROPERTY ImplementsAtomicDisk

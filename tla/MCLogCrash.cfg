SPECIFICATION Spec
CONSTANTS
    Proc = {p, q, r}
    Block = {a, b, c}
    Val = {x, y}
    Builds <- MCBuilds
    UINT = 4
    Evicts = FALSE
    NoBlock = NoBlock
SYMMETRY Symmetry
INVARIANTS TypeOK CacheAgrees ReservationHolds SleeperHasWaker
PROPERTY ImplementsAtomicDisk

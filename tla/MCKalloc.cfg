SPECIFICATION Spec
CONSTANTS
    Page = {p1, p2, p3}
    Thread = {t1, t2, t3}
    Slot = {s1, s2, s3, s4}
    Val = {Junk, x1}
    Junk = Junk
    NoPage = NoPage
    NoSlot = NoSlot
    NoThread = NoThread
SYMMETRY Symmetry
INVARIANTS TypeOK RefCountExact FreeIsUnused NoLeak WritableIsPrivate RaceFree
PROPERTY ImplementsPageStore


SPECIFICATION Spec
CONSTANTS
    NPROC = 3
    NCPU = 2
    TICKS = 2
    Calls = {"exit", "fork", "wait", "kill", "sleep"}
INVARIANTS
    TypeOK
    NoDeadlock
    ParentStable
    OneStack
    WakeupsSeen

SPECIFICATION FairSpec
CONSTANTS
    Proc = {i, a}
    InitProc = i
    NPAGE = 2
    LEAF = 1
    UINT = 8
    Taken = {0, 5}
    NPages = 15
    Page <- MCPage
    Val = {Zero}
    Zero = Zero
    Junk = Junk
    None = None
    Addrs <- Ends
    Calls = {"fork", "exit", "wait", "read", "sbrk", "exec"}
INVARIANTS TypeOK CountsMatchEntries CallsSettled
PROPERTIES GuardStays Progress
CHECK_DEADLOCK FALSE

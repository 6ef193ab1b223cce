SPECIFICATION Spec
CONSTANTS
    Proc = {i, a, b}
    InitProc = i
    NPAGE = 1
    LEAF = 1
    UINT = 8
    Taken = {0}
    NPages = 27
    Page <- MCPage
    Val = {Zero, x1}
    Zero = Zero
    Junk = Junk
    None = None
    Addrs <- Low
    Calls = {"fork", "exit", "wait", "read"}
SYMMETRY Children
PROPERTY ImplementsPrivateMem

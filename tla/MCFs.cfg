CONSTANTS
    p1 = p1
    p2 = p2
    a = a
    b = b
    Proc <- Procs
    Name <- Names
    Paths <- ShortPaths
    Calls = {"open", "create", "mkdir", "mknod", "link", "unlink", "chdir", "write"}
    NINODES = 4
    NINODE = 4
    NBLOCK = 3
    MAXLINK = 2
    MAXCALL = 3
    None = None
SPECIFICATION Spec
SYMMETRY Sym
CHECK_DEADLOCK FALSE
INVARIANTS
    TypeOK
    
    CacheCurrent
    CountsOnDisk
    LocksFree

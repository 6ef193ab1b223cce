SPECIFICATION Spec
CONSTANTS
    INPUT_BUF = 4
    WRAP = 8
    Reader <- Pid
    MAXARGS = 3
    Lines <- MCLines
    Texts <- MCTexts
    Edits = {"b", "^H", "^U"}
    MAXEVENT = 1
    NPROC = 5
    NPIPE = 2
    NBUF = 7
    NREAD = 3
    Readers <- MCReaders
CHECK_DEADLOCK FALSE
INVARIANTS
    ParsedRight
    Plumbed
PROPERTIES
    ImplementsLines
    PromptReturns

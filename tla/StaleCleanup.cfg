SPECIFICATION Spec
CONSTANTS
    t1 = t1
    t2 = t2
    t3 = t3
    h1 = h1
    h2 = h2
    h3 = h3
    d1 = d1
    Nobody = Nobody
    NoHandle = NoHandle
    Old = Old
    Directory = Directory
    Free = Free
    Threads <- MCThreads
    Handles <- MCHandles
    Directories <- MCDirectories
    Calls <- MCWriters
    SharedHandles <- MCNone
    Faults <- MCNone
    FileCells = 8
INVARIANTS
    WritingCoversWriter
SYMMETRY Names
CHECK_DEADLOCK FALSE

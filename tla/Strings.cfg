SPECIFICATION Spec
CONSTANTS
    t1 = t1
    t2 = t2
    t3 = t3
    t4 = t4
    t5 = t5
    h1 = h1
    h2 = h2
    h3 = h3
    d1 = d1
    Nobody = Nobody
    NoHandle = NoHandle
    Old = Old
    Directory = Directory
    Free = Free
    Threads <- MCAllThreads
    Handles <- MCHandles
    Directories <- MCDirectories
    Calls <- MCGroups
    SharedHandles <- MCHandles
    Faults <- MCNone
    FileCells = 8
INVARIANTS
    ReadsSeeTheirMember
    WritingCoversStrings
PROPERTIES
    StaleReservationsAreInert
CONSTRAINT OneGroup
SYMMETRY Names
CHECK_DEADLOCK FALSE

SPECIFICATION Spec
CONSTANTS
    t1 = t1
    t2 = t2
    t3 = t3
    h1 = h1
    h2 = h2
    h3 = h3
    d1 = d1
    Nobody = Nobody
    NoHandle = NoHandle
    Old = Old
    Directory = Directory
    Free = Free
    Threads <- MCThreeThreads
    Handles <- MCThreeHandles
    Directories <- MCDirectories
    Calls <- MCThreeWriters
    SharedHandles <- MCNone
    Faults <- MCFaults
    FileCells = 9
INVARIANTS
    TypeOK
    OneWriter
    RegisteredOnce
    MembersIntact
PROPERTIES
    ImplementsTurns
SYMMETRY ThreeNames
CHECK_DEADLOCK FALSE

SPECIFICATION Spec
CONSTANTS
    d1 = d1
    f1 = f1
    f2 = f2
    NoWriter = NoWriter
    Infos <- MCInfos
    Dirs <- MCDirs
    Streams = {TRUE, FALSE}
    Faults <- MCFaults
    Client <- MCPrepend
    DiskCells = 9
    TailCells = 9
    MaxHandles = 2
    MaxPayload = 1
    MaxSessions = 3
    MaxStruck = 2
INVARIANTS
    TypeOK
    CommittedIntact
    MembersDisjoint
    ClosedArchiveParses
    NoPhantomMembers
    ReservationNamesAHandle
    WritingNamesAHandle
PROPERTIES
    CommittedNeverChanges
    DamageIsContained
    ImplementsContents
ACTION_CONSTRAINT MCThird
SYMMETRY Files
CHECK_DEADLOCK FALSE

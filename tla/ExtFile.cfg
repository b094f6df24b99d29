SPECIFICATION Spec
CONSTANTS
    Noise = Noise
    Content <- MCContent
    Entries <- MCEntries
    MinRead = 2
    MaxRead = 3
    MaxSeekRead = 2
    MaxN = 9
    PeekLimit = 2
    Requests <- MCRequests
    Targets <- MCTargets
    Faults <- MCFaults
INVARIANTS
    TypeOK
    CrcCoversPrefix
    EndMeansVerified
    SoundMembersNeverFail
    EveryTurnAdvances
PROPERTIES
    ImplementsBytes
CHECK_DEADLOCK FALSE

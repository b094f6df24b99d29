SPECIFICATION Spec
CONSTANTS
    NoCache = NoCache
    Nowhere = Nowhere
    Empty = ""
    Names <- MCNames
    Parts <- MCParts
    MaxSessions = 2
    MaxEntries = 3
    MaxParts = 3
INVARIANTS
    ViewIsTheTree
    EveryEntryIsReached
    InjectedIsComplete
CHECK_DEADLOCK FALSE

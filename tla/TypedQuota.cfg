SPECIFICATION Spec
CONSTANTS
    Root = Root
    Unlimited = 99
    Names <- MCNames
    Paths <- MCPaths
    Parent <- MCParent
    Renames <- MCRenames
    Archives <- MCArchives
    Policies <- MCPolicies
    Initial <- MCInitial
    Faults <- MCFaults
    Others <- MCOthers
INVARIANTS
    ActualBytesWithinLimit
CHECK_DEADLOCK FALSE

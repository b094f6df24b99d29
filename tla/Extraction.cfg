SPECIFICATION Spec
CONSTANTS
    Root = Root
    Unlimited = 99
    Names <- MCNames
    Paths <- MCPaths
    Parent <- MCParent
    Renames <- MCRenames
    Archives <- MCArchives
    Policies <- MCPolicies
    Initial <- MCInitial
    Faults <- MCFaults
    Others <- MCOthers
INVARIANTS
    TypeOK
    DiskWithinLimit
    NothingIsOverwritten
    InspectionForetells
PROPERTIES
    ImplementsDelivery
CHECK_DEADLOCK FALSE

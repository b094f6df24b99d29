SPECIFICATION Spec
CONSTANTS
    t1 = t1
    t2 = t2
    t3 = t3
    s1 = s1
    s2 = s2
    s3 = s3
    Archive = Archive
    Nobody = Nobody
    Threads <- MCThreads
    Closers <- MCClosers
    Streams <- MCStreams
    Maker = t1
    Build = "gil"
    Faults <- MCFaults
INVARIANTS
    TypeOK
    StreamsHaveTheirFile
    NoReferenceLeaks
PROPERTIES
    ImplementsSharing
SYMMETRY Names
CHECK_DEADLOCK FALSE

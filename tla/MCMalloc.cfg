CONSTANTS
    CHUNKSIZE = 32
    MAX_HEAP = 112
    Junk = 25
    ALIGNMENT = 8
    MaxRequests = 6
    MaxReplayed = 4
    Indices <- MCIndices
    Sizes <- MCSizes
CHECK_DEADLOCK FALSE
SPECIFICATION Spec
INVARIANTS
    HeapTiled
    AllocatedAreInUse
    DriverFindsNoFault
    ReplaysAgree
PROPERTY
    ImplementsHeap

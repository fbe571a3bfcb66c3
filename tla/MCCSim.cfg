CONSTANTS
    s = 1
    E = 2
    b = 1
    IntWidth = 12
    MaxLines = 5
    TraceLines <- MCTraceLines
    Sizes <- MCSizes
    Address <- MCAddress
SPECIFICATION TestSpec
CHECK_DEADLOCK FALSE
INVARIANTS
    CountsRight
    FullMarks
PROPERTY
    ImplementsLRU

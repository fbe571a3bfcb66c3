CONSTANTS
    p1 = p1
    p2 = p2
    p3 = p3
    NoPid = NoPid
    MAXJOBS = 1
    JidBound = 1
    Pids <- MCPids1
    MaxKeys = 1
    Mistyped = FALSE

SPECIFICATION Spec
PROPERTY
    KeysSpareTheShell

CONSTANTS
    p1 = p1
    p2 = p2
    p3 = p3
    NoPid = NoPid
    MAXJOBS = 2
    JidBound = 2
    Pids <- MCPids3
    MaxKeys = 0
    Mistyped = FALSE
SPECIFICATION FairSpec
PROPERTIES
    ForegroundWaitEnds
    ZombiesReaped

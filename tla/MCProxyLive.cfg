CONSTANTS
    w1 = w1
    w2 = w2
    c1 = c1
    c2 = c2
    c3 = c3
    c4 = c4
    k1 = k1
    k2 = k2
    k3 = k3
    k4 = k4
    None = None
    Workers <- MCWorkers2
    Conns <- MCConns2
    Keys <- MCKeys2
    Length <- MCLength2
    Binary <- OneBinary
    Faults <- EveryFault
    Pairs = 2
    ObjSize = 2
    Size = 1
    MaxStalls = 1
SPECIFICATION FairSpec
INVARIANT
    ProxyTypeOK
PROPERTY
    OthersServed

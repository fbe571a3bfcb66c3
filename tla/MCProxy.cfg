CONSTANTS
    w1 = w1
    w2 = w2
    c1 = c1
    c2 = c2
    c3 = c3
    c4 = c4
    k1 = k1
    k2 = k2
    k3 = k3
    k4 = k4
    None = None
    Workers <- MCWorkers2
    Conns <- MCConns4
    Keys <- MCKeys4
    Length <- MCLength4
    Binary <- NoKeys
    Faults <- NoFaults
    Pairs = 2
    ObjSize = 2
    Size = 2
    MaxStalls = 0
SYMMETRY Symmetry
SPECIFICATION Spec
INVARIANTS
    CacheFaithful
    RepliesRight
PROPERTY
    ImplementsLRU

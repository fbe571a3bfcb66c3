CONSTANTS
    main = main
    w1 = w1
    w2 = w2
    w3 = w3
    c1 = c1
    c2 = c2
    c3 = c3
    c4 = c4
    None = None
    Producers <- MCProducers
    Consumers <- MCConsumers
    Conns <- MCConns
    Size = 2
    IntMax = 100
SPECIFICATION FairSpec
INVARIANTS
    SbufTypeOK
    InOnePlace
PROPERTIES
    ImplementsQueue
    AcceptedIsServed

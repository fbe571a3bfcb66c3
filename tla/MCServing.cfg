CONSTANTS
    c1 = c1
    c2 = c2
    origin = origin
    Clients <- MCClients
    Origin = origin
    Resolve <- MCResolve
    Files <- MCFiles
    Vanishing <- MCVanishing
    Scenarios <- MCScenarios
    RIO_BUFSIZE = 3
    MAXLINE = 5
    Window = 9
    PORT_MAX_LEN = 2
    PATH_MAX_LINE = 9
    HEADER_NAME_MAX_LEN = 2
    HEADER_VALUE_MAX_LEN = 3
    HEADER_MAX_NUM = 1
    CONTENT_LEN = 12
SPECIFICATION FairSpec
CHECK_DEADLOCK FALSE
INVARIANTS
    ServingTypeOK
    OnlyItsAnswer
    
PROPERTIES
    LinesWhole
    WholeAnswer
    EveryConnectionEnds

CONSTANTS
    p1 = p1
    p2 = p2
    p3 = p3
    NoPid = NoPid
    MAXJOBS = 3
    JidBound = 3
    Pids <- MCPids3
    MaxKeys = 1
    Mistyped = TRUE
SYMMETRY PidSymmetry3
SPECIFICATION Spec
INVARIANTS
    ShellTypeOK
    PromptMeansNoForeground
    AtMostOneFG
    ListedIffUnreaped
    NoNullJob
    NoLostReport
    JobStateAgrees
    EntriesWhole
PROPERTIES
    SpecTable
    JobsChangeLegally
    KeysReachOnlyForeground

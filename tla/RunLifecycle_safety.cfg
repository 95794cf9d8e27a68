CONSTANTS
    r1 = r1
    r2 = r2
    r3 = r3
    c1 = c1
    c2 = c2
    k1 = k1
    NoRun = NoRun
    NoKey = NoKey
    Runs <- TwoRuns
    Keys <- OneKey
    Clients <- OneClient
    RunConcurrency = 1
    RunRetention = 1
    Timed <- NoRuns
    MaxFaults = 1
SPECIFICATION Spec
SYMMETRY Interchangeable
INVARIANTS
    SlotsAccounted
    LaunchedOnce
    SuccessIsReal
    JoinedWorkersStopped
    OneRunPerKey
PROPERTIES
    OpenNeverExecutes
    
CHECK_DEADLOCK FALSE

CONSTANTS
    r1 = r1
    r2 = r2
    r3 = r3
    c1 = c1
    c2 = c2
    k1 = k1
    NoRun = NoRun
    NoKey = NoKey
    Runs <- TwoRuns
    Keys <- NoKeys
    Clients <- OneClient
    RunConcurrency = 1
    RunRetention = 2
    Timed <- OneRun
    MaxFaults = 0
SPECIFICATION FairSpec
PROPERTIES
    
    CancelStops
    
CHECK_DEADLOCK FALSE

CONSTANTS
    q1 = q1
    q2 = q2
    s1 = s1
    s2 = s2
    s3 = s3
    s4 = s4
    ra = ra
    rb = rb
    None = None
    Repos = {ra, rb}
    Requests = {q1, q2}
    Kinds = {"mcp_write", "list"}
    Stores = {s1, s2}
    Opened <- OneOpened
    PoolSize = 1
    Permits = 1
    MaxFaults = 1
SPECIFICATION Spec
SYMMETRY Interchangeable
CONSTRAINT OneWorkerRound
INVARIANTS
    OneStorePerRepo
    NothingRetained
    OkIsApplied
    EveryDrainedStoreClosed
CHECK_DEADLOCK FALSE

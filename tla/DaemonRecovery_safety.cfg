CONSTANTS
    c1 = c1
    c2 = c2
    old = old
    emb = emb
    d1 = d1
    d2 = d2
    d3 = d3
    None = None
    Connectors <- TwoConnectors
    Daemons <- EmbeddedAndTwo
    Embedded = {emb}
    Resident = {old}
    Release <- TwoReleases
    OldReleases = {1, 2}
    FirstHandoff = 2
    MaxFaults = 1
SPECIFICATION Spec
SYMMETRY Interchangeable
INVARIANTS
    ListenerHoldsLease
    OnlyOlderStopped
    LookalikeUntouched
    ExecutedAtMostOnce
CHECK_DEADLOCK FALSE

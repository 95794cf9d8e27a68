CONSTANTS
    c1 = c1
    c2 = c2
    old = old
    emb = emb
    d1 = d1
    d2 = d2
    d3 = d3
    None = None
    Connectors <- TwoConnectors
    Daemons <- ResidentAndTwo
    Embedded = {}
    Resident = {old}
    Release <- SameRelease
    OldReleases = {2}
    FirstHandoff = 2
    MaxFaults = 0
SPECIFICATION Spec
PROPERTY OwnerHoldsLease
CHECK_DEADLOCK FALSE

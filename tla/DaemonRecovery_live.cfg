CONSTANTS
    c1 = c1
    c2 = c2
    old = old
    emb = emb
    d1 = d1
    d2 = d2
    d3 = d3
    None = None
    Connectors <- TwoConnectors
    Daemons <- ResidentAndThree
    Embedded = {}
    Resident = {old}
    Release <- SameRelease
    OldReleases = {1, 2}
    FirstHandoff = 2
    MaxFaults = 0
SPECIFICATION FairSpec
PROPERTIES
    UpgradeCompletes
    EveryoneConnects
CHECK_DEADLOCK FALSE

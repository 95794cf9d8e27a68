SPECIFICATION FairSpec
CONSTANTS
    s1 = s1  s2 = s2  row = row
    worker = worker  handler = handler  query = query
    NoPayload = NoPayload  NoSnapshot = NoSnapshot
    Rows = {row}
    Report <- MCReport
    Worker = worker
    Snapshots = {s1, s2}
    Compactors = {worker, handler}
    Readers = {}
    BatchSize = 1
    MaxFaults = 1
INVARIANTS
    BaselinesKept
PROPERTIES EventuallyCompacted

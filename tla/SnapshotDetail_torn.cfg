SPECIFICATION Spec
CONSTANTS
    s1 = s1  s2 = s2  row = row
    worker = worker  handler = handler  query = query
    NoPayload = NoPayload  NoSnapshot = NoSnapshot
    Rows = {row}
    Report <- MCReport
    Worker = worker
    Snapshots = {s1}
    Compactors = {worker}
    Readers = {query}
    BatchSize = 1
    MaxFaults = 0
INVARIANT ObservationsComplete

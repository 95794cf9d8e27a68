\* Two runs of commands that share a report, two states of the checkout.
CONSTANTS
    Bad = Bad
    Absent = Absent
    Repo = Repo
    Paths = {"report"}
    Checkouts <- History
    Registrations <- RegistrationSet
    Requests <- RequestSet
    RunConcurrency = 2
    MaxCommands = 1
    MaxRuns = 2
    MaxSnapshots = 2
    MaxWrites = 2
SPECIFICATION Spec
 
INVARIANT AnswerMatchesRequest
INVARIANT EvidenceIsComplete
CHECK_DEADLOCK FALSE

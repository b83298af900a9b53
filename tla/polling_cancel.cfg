SPECIFICATION Spec
CONSTANTS
    JobCount = 2
    RetryCounts = {1}
    Processes = {p1}
    Concurrency = 1
    Backoff = FALSE
    Cancellable = {2}
    Removing = TRUE
    ReportingJobs = {1}
    ThrowingJobs = {}
    HangingJobs = {}
    MaxStarts = 2
    MaxRuns = 3
    MaxQueued = 3
INVARIANTS
    AttemptsBounded
    CustodyMatchesState
PROPERTIES
    FinishedIsFinal
CHECK_DEADLOCK FALSE

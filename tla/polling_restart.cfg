SPECIFICATION Spec
CONSTANTS
    JobCount = 3
    RetryCounts = {1}
    Processes = {p1, p2}
    Concurrency = 2
    Backoff = TRUE
    Cancellable = {}
    Removing = FALSE
    ReportingJobs = {}
    ThrowingJobs = {2}
    HangingJobs = {}
    MaxStarts = 2
    MaxRuns = 3
    MaxQueued = 3
INVARIANTS
    TypeOK
    ConcurrencyLimit
    SingleCustody
    ActiveAccounting
PROPERTIES
    ImplementsWorkQueue
CHECK_DEADLOCK FALSE

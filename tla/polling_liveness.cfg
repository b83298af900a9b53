SPECIFICATION FairSpec
CONSTANTS
    JobCount = 2
    RetryCounts = {1}
    Processes = {p1}
    Concurrency = 1
    Backoff = FALSE
    Cancellable = {1}
    Removing = TRUE
    ReportingJobs = {}
    ThrowingJobs = {}
    HangingJobs = {1}
    MaxStarts = 1
    MaxRuns = 2
    MaxQueued = 2
INVARIANTS
    InCreationOrder
PROPERTIES
    EveryJobSettles
    CancelFreesPlace
    StopResolves
CHECK_DEADLOCK FALSE

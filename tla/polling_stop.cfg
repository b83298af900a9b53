SPECIFICATION Spec
CONSTANTS
    JobCount = 2
    RetryCounts = {1}
    Processes = {p1}
    Concurrency = 1
    Backoff = FALSE
    Cancellable = {}
    Removing = FALSE
    ReportingJobs = {}
    ThrowingJobs = {}
    HangingJobs = {}
    MaxStarts = 1
    MaxRuns = 3
    MaxQueued = 2
INVARIANTS
    StopLeavesNoneRunning
CHECK_DEADLOCK FALSE

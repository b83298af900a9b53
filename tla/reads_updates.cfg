SPECIFICATION FairSpec
CONSTANTS
    JobCount = 1
    Adapters = {"memory"}
    Readers = {"updates"}
    UrgentJobs = {}
    LastTick = 3
    MaxChanges = 3
INVARIANTS
    SettledIsReported
CHECK_DEADLOCK FALSE

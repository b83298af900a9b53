SPECIFICATION FairSpec
CONSTANTS
    JobCount = 3
    Adapters = {"memory", "bullmq"}
    Readers = {"updates", "pages"}
    UrgentJobs = {1, 2}
    LastTick = 3
    MaxChanges = 5
INVARIANTS
    TypeOK
    CompletedTellsOutcome
    OutcomeIsReal
    CopiesEndStream
    WalkMissesNothing
    WalkRepeatsNothing
PROPERTIES
    UpdatesMoveForward
    StreamEnds
    PageIsRight
CHECK_DEADLOCK FALSE

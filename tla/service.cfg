SPECIFICATION Spec
SYMMETRY ActiveSymmetry
CONSTANTS
    Queues = {qa, qb, qc}
    ActiveNames = {qa, qb}
    Awaiting = {TRUE, FALSE}
    MaxCalls = 3
INVARIANTS
    TypeOK
    RunningIsServed
    AdapterFollowsService
    StartedRunsAll
    OneEvictionTimer
CHECK_DEADLOCK FALSE

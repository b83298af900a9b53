SPECIFICATION Spec
CONSTANTS
    Queues = {qa, qb, qc}
    ActiveNames = {qa, qb}
    Awaiting = {FALSE}
    MaxCalls = 3
INVARIANTS
    StartedServesAll
CHECK_DEADLOCK FALSE

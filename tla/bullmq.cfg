CONSTANTS
    JobCount = 1
    Retries = 1
    Names = {na, nb}
    ActiveNames = {na}
    Finds = {f1}
    Cancels = {c1, c2}
    MaxStarts = 2
    na = na
    nb = nb
    f1 = f1
    c1 = c1
    c2 = c2

SPECIFICATION Spec
SYMMETRY CancelSymmetry
CHECK_DEADLOCK FALSE
INVARIANTS TypeOK UnknownStateIsRemoved CancelledIsOver StartedHasWorker NoWorkerLeftBehind

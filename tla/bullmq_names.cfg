CONSTANTS
    JobCount = 1
    Retries = 1
    Names = {na, nb}
    ActiveNames = {na}
    Finds = {}
    Cancels = {}
    MaxStarts = 1
    na = na
    nb = nb

SPECIFICATION Spec
CHECK_DEADLOCK FALSE
INVARIANT InactiveUntouched

SPECIFICATION Spec
CONSTANTS
    MaxDepth = 2
    Buffers = {b1, b2}
    JobCount = 2
    MaxPlaces = 2
    Flushes = {f1, f2}
    RedisFlushes = 2
    Stores = {"redis"}
    AdapterFails = FALSE
INVARIANTS
    CollectedIsKept
SYMMETRY Alike
CHECK_DEADLOCK FALSE

SPECIFICATION Spec
CONSTANTS
    MaxDepth = 2
    Buffers = {b1, b2}
    JobCount = 2
    MaxPlaces = 2
    Flushes = {f1, f2}
    RedisFlushes = 1
    Stores = {"memory", "redis"}
    AdapterFails = TRUE
INVARIANTS
    TypeOK
    
    MemoryTakesOnce
    QueuedOncePerVisit
PROPERTIES
    FlushDelivers
    
    DataIsCopied
    JobSurvivesBuffer
SYMMETRY Alike
CHECK_DEADLOCK FALSE

SPECIFICATION Spec
CONSTANTS
    e1 = e1
    e2 = e2
    e3 = e3
    flusher = flusher
    t1 = t1
    Torn = torn
    None = none
    Flusher = flusher
    Events <- MCEvents
    Poison = {}
    Workers <- MCWorkers
    RingCap = 2
    FlushThreshold = 2
    MaxSendBatch = 1
    ReplayChunk = 1
    FileCap = 2
    Days = 1
    CrashesMax = 0
    ShortWritesMax = 0
INVARIANT DeletedOnlyWhenAccepted

SPECIFICATION LiveSpec
CONSTANTS
    e1 = e1
    e2 = e2
    e3 = e3
    flusher = flusher
    t1 = t1
    Torn = torn
    None = none
    Flusher = flusher
    Events <- MCEvents
    Poison <- MCPoison
    Workers <- MCWorkers
    RingCap = 2
    FlushThreshold = 2
    MaxSendBatch = 2
    ReplayChunk = 1
    FileCap = 1
    Days = 2
    CrashesMax = 1
    ShortWritesMax = 1
INVARIANTS TypeOK NothingVanishes OnePlace TearsBounded FileBounded
PROPERTIES ImplementsLedger RingDrains FlusherEnds

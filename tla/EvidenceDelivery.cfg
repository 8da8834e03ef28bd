SPECIFICATION FairSpec
CONSTANTS
    e1 = e1
    e2 = e2
    Events <- MCEvents
    QueueCap = 1
    BatchSize = 2
    MaxBatch = 2
    MaxFailures = 2
    MaxTimeouts = 2
    MaxCrashes = 1
    MaxShutdowns = 1
INVARIANTS
    TypeOK
    RecordedOnce
    NothingLost
PROPERTIES
    DurableKept
    RecordedInTheEnd
CHECK_DEADLOCK FALSE

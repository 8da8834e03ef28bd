SPECIFICATION FairSpec
CONSTANTS
    e1 = e1
    e2 = e2
    Events <- MCEvents
    QueueCap = 1
    BatchSize = 1
    MaxBatch = 3
    MaxFailures = 1
    MaxTimeouts = 1
    MaxCrashes = 0
    MaxShutdowns = 0
PROPERTIES
    EventuallyRecorded
CHECK_DEADLOCK FALSE

SPECIFICATION Spec
CONSTANTS
    MaxEvents = 3
    QueueCapacity = 2
    FlushBatchSize = 2
    EventCapacity = 4
    SinkMayFail = TRUE
    DiskMayFail = FALSE
    MayCrash = FALSE
    SourceAndHash <- MCSourceAndHash
    None = None
INVARIANTS
    UnflushedIsRecoverable

SPECIFICATION FairSpec
CONSTANTS
    MaxEvents = 3
    QueueCapacity = 2
    FlushBatchSize = 2
    EventCapacity = 2
    SinkMayFail = TRUE
    DiskMayFail = TRUE
    MayCrash = TRUE
    SourceAndHash <- MCSourceAndHash
    None = None
INVARIANTS
    NothingUnaccounted
    IdsAhead
    ReadModelCoversLog
PROPERTIES
    SinkInOrder
    LoggedUntilDelivered
    ShutdownCompletes
    BatchIsFlushed

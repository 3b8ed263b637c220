CONSTANTS
    MaxEvents = 4
    MaxConnections = 2
    EventCapacity = 2
    ScanLimit = 2
    PageLimit = 1
    SnapshotLimit = 2
    ReplayCapacity = 2
    ChannelCapacity = 1
SPECIFICATION StreamSpec
INVARIANTS
    MissedOnlyInWindows
PROPERTIES
    EventuallyTold

CONSTANTS
    a = a
    h1 = h1
    h2 = h2
    None = None
    Hashes = {h1, h2}
    Senders = {a}
    MaxNonce = 0
    Tx <- MCTx
    BlockHashes = {}
    Buckets = {1, 2}
    HighRisk = {2}
    Chains = {1, 2}
    EventCapacity = 3
    TableCapacity = 2
    RecentCapacity = 2
    ListLimit = 1
    PageSize = 1
    MaxScanEvents = 2
    MaxWrites = 4
    Feeds <- MCFeeds
SPECIFICATION Spec
SYMMETRY Symmetry
CHECK_DEADLOCK FALSE
INVARIANTS
    IndexesExact
    CacheNeverStale
    RoutesAgree

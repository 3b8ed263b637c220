CONSTANTS
    a = a
    h1 = h1
    h2 = h2
    h3 = h3
    h4 = h4
    c1 = c1
    c2 = c2
    c3 = c3
    None = None
    Hashes = {h1, h2, h3, h4}
    Senders = {a}
    MaxNonce = 2
    Tx <- AllTx
    CandidateIds = {c1, c2, c3}
    CandidateSpecs <- BundleSpecs
    Blocks = {0}
    BlockHashes = {}
    MaxPendingPerSender = 3
    FeeBumpBps = 1000
    U128Max = 2000000
    CounterMax = 0
    MaxGeneration = 6
    w1 = w1
    w2 = w2
    v1 = v1
    v2 = v2
    Workers = {w1, w2}
    SimWorkers = {v1, v2}
    Deployments <- MCDeployments
SPECIFICATION PipelineSpec
INVARIANTS
    ReplayMatchesOnline
    ReplayInventsNothing
    ReplacedNotHandedOff
    HandoffsReachBuilder
    CandidatesSettle

CONSTANTS
    a = a
    h1 = h1
    h2 = h2
    c1 = c1
    None = None
    p = p
    q = q
    Hashes = {h1, h2}
    Senders = {a}
    MaxNonce = 0
    Tx <- MCTx
    CandidateIds = {c1}
    CandidateSpecs <- MCCandidateSpecs
    Blocks = {0, 1}
    MaxPendingPerSender = 1
    FeeBumpBps = 1000
    U128Max = 10000000
    CounterMax = 2
    MaxGeneration = 4
    Callers = {p, q}
    HandoffQueueCapacity = 2
    MaxCommands = 3
SPECIFICATION ActorSpec
CHECK_DEADLOCK FALSE
INVARIANTS
    StaleResultsRejected
PROPERTIES
    ActorImplementsService
    EveryCallReturns

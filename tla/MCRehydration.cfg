CONSTANTS
    a = a
    h0 = h0
    h1 = h1
    g1 = g1
    h2 = h2
    None = None
    w1 = w1
    w2 = w2
    Hashes = {h0, h1, g1, h2}
    Senders = {a}
    MaxNonce = 2
    Tx <- MCTx
    CandidateIds = {}
    CandidateSpecs = {}
    Blocks = {0}
    MaxPendingPerSender = 3
    FeeBumpBps = 1000
    U128Max = 10000000
    CounterMax = 0
    MaxGeneration = 0
    Workers = {w1, w2}
    MaxEvents = 4
    MaxEvicted = 2
    MaxSnapshots = 1
    MaxRestarts = 1
SPECIFICATION RehydrationSpec
SYMMETRY WorkerSymmetry
INVARIANTS
    RehydratedPoolConsistent
PROPERTIES
    RestartKeepsPool
    OnlyPruningFails

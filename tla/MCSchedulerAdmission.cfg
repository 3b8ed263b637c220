SPECIFICATION Spec
CONSTANTS
    a = a
    b = b
    h1 = h1
    h2 = h2
    h3 = h3
    h4 = h4
    h5 = h5
    h6 = h6
    h7 = h7
    c1 = c1
    None = None
    Hashes = {h1, h2, h3, h4, h5, h6, h7}
    Senders = {a, b}
    MaxNonce = 3
    Tx <- AdmissionTx
    CandidateIds = {c1}
    CandidateSpecs <- AdmissionCandidates
    Blocks = {0}
    MaxPendingPerSender = 3
    FeeBumpBps = 1000
    U128Max = 10000000
    CounterMax = 6
    MaxGeneration = 2
INVARIANTS
    QueuesMatchPending
    PoolAccounted
    TotalsMatchRecount
    TransitionsTellAll
    ReplacedStayOut
    ClassifierMatchesScan

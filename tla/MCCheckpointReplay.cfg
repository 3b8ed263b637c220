CONSTANTS
    a = a
    h1 = h1
    h2 = h2
    h3 = h3
    None = None
    Hashes = {h1, h2, h3}
    Senders = {a}
    MaxNonce = 2
    Tx <- MCTx
    BlockHashes = {b1}
SPECIFICATION ReplaySpec
INVARIANTS
    ReplayedQueuesCorrect
    ResumedPendingAgrees

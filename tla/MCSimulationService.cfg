CONSTANTS
    a = a
    b = b
    p1 = p1
    p2 = p2
    w1 = w1
    w2 = w2
    None = None
    Producers = {p1, p2}
    Workers = {w1, w2}
    Tasks = {1, 2}
    Accounts = {a, b}
    SendersOf <- MCSendersOf
    QueueCapacity = 1
    MaxHead = 1
    MaxDrops = 1
SPECIFICATION Spec
CHECK_DEADLOCK FALSE
INVARIANTS
    CountersAccount
    SeedsNotOlder
PROPERTIES
    AcceptedFinish

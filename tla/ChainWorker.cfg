CONSTANTS
    Hashes = {h1, h2, h3}
    Malformed = Malformed
    Subscriptions = {s1, s2}
    None = None
    EndpointCount = 2
    MaxPool = 2
    BatchSize = 2
    MaxInFlight = 1
    RetryAttempts = 1
    MaxSeenHashes = 2
    SilentTimeout = 2
SPECIFICATION Spec
PROPERTIES
    ProcessedOnce
    SilentChainRotates

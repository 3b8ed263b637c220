SPECIFICATION RelaySpec
CONSTANTS
    h1 = h1
    h2 = h2
    h3 = h3
    single = single
    bundle = bundle
    Hashes = {h1, h2, h3}
    Strategies = {single, bundle}
    Opportunities <- MCOpportunities
    Simulations <- MCSimulations
    BlockGasLimit = 4
    U64Max = 7
    CounterMax = 2
    Submitters = {1, 2}
    MaxRetries = 1
    DownweightAt = 1
    DownweightWindow = 1
    CircuitOpensAt = 2
    CircuitWindow = 2
    U32Max = 3
INVARIANTS
    NoSharedTransaction
    TemplateIsTheBlock
PROPERTIES
    DisplacementRaisesScore
    CircuitRecovers

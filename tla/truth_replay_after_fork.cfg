SPECIFICATION Spec
CONSTANTS
    Launch <- TwoLaunches
    CreatorOf <- OneCreator
    MaxBlock = 3
    MaxReorgs = 1
    ReorgDepth = 2
    StartBlock = 1
    Confirmations = 1
    MaxBatch = 2
    Lookback = 2
    MaxFailures = 1
    ReorgMidSync = FALSE
INVARIANTS
    LedgerExact

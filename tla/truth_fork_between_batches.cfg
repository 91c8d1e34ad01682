SPECIFICATION Spec
CONSTANTS
    Launch <- TwoLaunches
    CreatorOf <- OneCreator
    MaxBlock = 4
    MaxReorgs = 1
    ReorgDepth = 3
    StartBlock = 1
    Confirmations = 1
    MaxBatch = 1
    Lookback = 2
    MaxFailures = 0
    ReorgMidSync = TRUE
INVARIANTS
    LedgerExact

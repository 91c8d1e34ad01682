SPECIFICATION FairSpec
CONSTANTS
    Launch <- TwoLaunches
    CreatorOf <- OneCreator
    MaxBlock = 3
    MaxReorgs = 2
    ReorgDepth = 3
    StartBlock = 1
    Confirmations = 0
    MaxBatch = 2
    Lookback = 1
    MaxFailures = 1
    ReorgMidSync = TRUE
INVARIANTS
    TypeOK
    GuardCoherent
    NothingMissed
    ExactUnlessUnseen
    ProjectionExact
    EdgesReferToLedger
PROPERTIES
    RewindIsJustified
    CatchesUp

SPECIFICATION Spec
CONSTANTS
    Launch <- OneLaunch
    MaxBlock = 5
    MaxReorgs = 1
    SharedReorgs = 0
    ReorgDepth = 3
    Confirmations <- EagerOutcomes
    Lookback = 1
    Delay = 1
    MaxPerSync = 1
    Horizon <- OneHorizon
    BlockTime = 3
    Shift <- LateFork
INVARIANTS
    EvidenceRewound

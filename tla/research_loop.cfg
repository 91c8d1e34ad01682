SPECIFICATION LoopSpec
CONSTANTS
    Launch <- TwoLaunches
    MaxBlock = 4
    MaxReorgs = 1
    SharedReorgs = 0
    ReorgDepth = 3
    Confirmations <- EagerOutcomes
    Lookback = 1
    Delay = 1
    MaxPerSync = 1
    Horizon <- ShortHorizon
    BlockTime = 3
    Shift <- LateFork
PROPERTIES
    OutcomesFollow

SPECIFICATION Spec
CONSTANTS
    Launch <- OneLaunch
    MaxBlock = 5
    MaxReorgs = 2
    SharedReorgs = 1
    ReorgDepth = 3
    Confirmations <- EagerOutcomes
    Lookback = 1
    Delay = 1
    MaxPerSync = 1
    Horizon <- OneHorizon
    BlockTime = 3
    Shift <- LateThenEarlyFork
INVARIANTS
    TypeOK
    BaselineOfOneFork
    OutcomeOfOneFork
    EvidenceChain
    RewoundUnlessAhead

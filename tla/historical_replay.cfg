SPECIFICATION FairSpec
CONSTANTS
    l1 = l1
    l2 = l2
    l3 = l3
    l4 = l4
    l5 = l5
    implA = implA
    implB = implB
    FromBlock = 1
    ToBlock = 6
    Log <- Logs
    MinSpan = 2
    MaxSpan = 6
    MaxRetries = 1
    Cohort <- TwoCohorts
    Implementation <- Upgraded
    Delay = 1
    Confirmations = 1
    Horizon <- TwoHorizons
    Market <- Markets
    Sells <- Buyers
    Priced <- Prices
    ShardFiles = 2
    Ranges <- TwoSplits
    MaxBlock = 10
CHECK_DEADLOCK FALSE
INVARIANTS
    TypeOK
    VerdictsAreTrue
PROPERTIES
    ScanEnds

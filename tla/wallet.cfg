SPECIFICATION Spec
CONSTANTS
    p1 = p1
    c1 = c1
    Process <- OneProcess
    Candidate = c1
    Launch = {}
    Dollar <- DollarOf
    Rate <- RateOf
    Funds = 4
    Held = 5
    Infinite = 1000
    SlippageBps = 1000
    DeadlineSeconds = 2
    MaxQuoteAge = 1
    MaxBlock = 7
    MaxReorgs = 1
    ReorgDepth = 2
    MaxFailures = 1
INVARIANTS
    TypeOK
    NeverOverspent
    LandsAsQuoted
    HoldingsKept
    NoNonceTwice

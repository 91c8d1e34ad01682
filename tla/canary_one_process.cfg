SPECIFICATION FairSpec
CONSTANTS
    p1 = p1
    p2 = p2
    c1 = c1
    c2 = c2
    noCandidate = noCandidate
    Process <- OneProcess
    Candidate <- TwoCandidates
    NoCandidate <- noCandidate
    Deployments <- FullStack
    MaxFailures = 3
    OwnerActs = FALSE
    LedgerRewinds = TRUE
INVARIANTS
    BuyIsCovered
    NothingLeftBehind
PROPERTIES
    MinedIsRecorded
    ApprovalIsClosed

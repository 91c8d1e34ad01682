SPECIFICATION Spec
CONSTANTS
    p1 = p1
    p2 = p2
    c1 = c1
    c2 = c2
    noCandidate = noCandidate
    Process <- TwoProcesses
    Candidate <- TwoCandidates
    NoCandidate <- noCandidate
    Deployments <- BothDeployments
    MaxFailures = 1
    OwnerActs = TRUE
    LedgerRewinds = FALSE
SYMMETRY
    Symmetry
INVARIANTS
    TypeOK
    RecordsAreTrue
PROPERTIES
    OneOfEach
    ParkedForGood

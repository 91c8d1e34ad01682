SPECIFICATION FairSpec
CONSTANTS
    p1 = p1
    p2 = p2
    Process <- TwoProcesses
    MaxFailures = 3
    SharedFailures = 1
    MaxWeth = 2
INVARIANTS
    TypeOK
    RecordsAreTrue
    ExitFollowsApproval
PROPERTIES
    OneOfEach
    MinedIsRecorded

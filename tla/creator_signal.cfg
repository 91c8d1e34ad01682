SPECIFICATION Spec
CONSTANTS
    Launch <- TwoLaunches
    MaxBlock = 3
    MaxReorgs = 1
    ReorgDepth = 3
    Creator <- SameCreator
    Seeded <- SeedCreators
    AdverseSeed <- NoCreators
    Delay = 0
    Horizon = 1
    Confirmations = 0
    Qualities <- ThreeQualities
    Recoveries <- LossWinGap
    Sample <- OneOfEach
    Interference = 2
INVARIANTS
    TypeOK
    EvaluationOfOneFork
    UniverseComplete
    VerdictIsEarned
PROPERTIES
    VerdictIsFinal

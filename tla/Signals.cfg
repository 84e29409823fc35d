CONSTANTS
    A = A
    B = B
    C = C
    either = either
    nobody = nobody
    None = None
    Teams <- ThreeTeams
    Rank <- SomeRanks
    Hosts <- OneHost
    Names <- SomeNames
    Fixtures <- SomeFixtures
    Scores <- SomeScores
    Domains <- AllDomains
    Requests <- SomeRequests
    Casts <- SomeCasts
    Sources <- TwoSources
    Thresholds <- SeedThresholds
    HomeEdge = 39
    RoundsUp <- SomeRoundUp
    MaxPredictions = 1
    MaxFaults = 1
SPECIFICATION Spec
INVARIANTS
    OneView
    NoNoise
    MirrorImage
    FavouriteAdvances
    OutcomeOfTheLine
CHECK_DEADLOCK FALSE

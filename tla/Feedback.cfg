CONSTANTS
    p1 = p1
    p2 = p2
    a1 = a1
    a2 = a2
    None = None
    Preds <- TwoPreds
    Agents <- TwoAgents
    Votes <- SomeVotes
    Forecasts <- TokenOrMatch
    Actuals <- LabelsAndScores
    DefaultWeights <- EqualWeights
    Scale = 1000
    AccScale = 2
    Windows <- AllWindows
    Enabled = TRUE
    RateNum = 1
    RateDen = 10
    MinWeight = 20
    MaxWeight = 600
    MaxVerdicts = 2
    MaxLessons = 2
SPECIFICATION Spec
SYMMETRY BothSymmetry
INVARIANTS
    HonestVerdictsAgree
    ContradictionsCancel
PROPERTIES
    WeightsFollow
    RightGains
CHECK_DEADLOCK FALSE

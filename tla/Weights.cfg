CONSTANTS
    a1 = a1
    a2 = a2
    a3 = a3
    None = None
    Agents <- ThreeAgents
    DefaultWeights <- ThreeDefaults
    Scale = 1000
    AccScale = 2
    Windows <- Rivals
    Enabled = TRUE
    RateNum = 1
    RateDen = 10
    MinWeight = 20
    MaxWeight = 600
SPECIFICATION WeightsSpec
INVARIANTS
    SharesBounded
    MeritRespected
    BoundedStep

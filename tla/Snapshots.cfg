CONSTANTS
    m1 = m1
    m2 = m2
    s1 = s1
    s2 = s2
    None = None
    Matches <- TwoMatches
    Refreshers <- TwoRefreshers
    FirstKickoff <- Kickoffs
    MinSamples = 1
    MaxTime = 3
    MaxPasses = 3
    MaxFull = 1
    MaxMoves = 1
SPECIFICATION Spec
SYMMETRY Interchangeable
CHECK_DEADLOCK FALSE
INVARIANT
    NoLeakUnlessAdvanced
PROPERTY
    EvaluationIsFinal

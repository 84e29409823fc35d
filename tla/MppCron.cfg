CONSTANTS
    c1 = c1
    c2 = c2
    m1 = m1
    m2 = m2
    m3 = m3
    None = None
    Ticks <- TwoTicks
    Matches <- ThreeMatches
    Mapped <- TwoMatches
    Enabled = TRUE
    MaxFits = 1
    MaxFailures = 1
SPECIFICATION CronFairSpec
INVARIANTS
    Accounted
    FailuresIsolated
    SubmittedIsHeld
PROPERTIES
    NeverOlder
    OpenMatchIsForecast

CONSTANTS
    r1 = r1
    r2 = r2
    t0 = t0
    t1 = t1
    t2 = t2
    t3 = t3
    t4 = t4
    None = None
    Runners <- TwoRunners
    Tokens <- FiveTokens
    Seed = t0
    AlwaysRotates = TRUE
    ZeroTtlKept = TRUE
    MaxFaults = 1
    MaxRevocations = 2
SPECIFICATION FairSpec
INVARIANTS
    TypeOK
    ChainUnbroken
    SoloNeverRefused
    RetryIsFresh
PROPERTY
    KeepsServing

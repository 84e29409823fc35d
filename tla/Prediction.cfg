CONSTANTS
    q1 = q1
    a1 = a1
    a2 = a2
    a3 = a3
    Expert = Expert
    None = None
    Requests <- OneRequest
    Analytical <- ThreeAgents
    Vectors <- LopsidedVectors
    line = line
    Scale = 10000
    Lines <- OneLine
    MaxFaults = 2
SPECIFICATION FairSpec
INVARIANTS
    Reproducible
    FailuresAreSilent
    ContributorsAgree
PROPERTIES
    CreatedIsStored
    OnlyTheDatabaseFails

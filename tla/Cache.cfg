CONSTANTS
    k1 = k1
    k2 = k2
    k3 = k3
    w1 = w1
    w2 = w2
    v1 = v1
    v2 = v2
    None = None
    Clients <- ThreeClients
    Processes <- TwoProcesses
    Values <- TwoValues
    MaxCuts = 1
SPECIFICATION Spec
SYMMETRY Interchangeable
PROPERTY
    ContractKept

CONSTANTS
    p1 = p1
    p2 = p2
    l1 = l1
    l2 = l2
    r1 = r1
    None = None
    Predictions <- OnePrediction
    Decisive <- OnePrediction
    Learners <- TwoLearners
    Recorders <- OneRecorder
    MaxRollbacks = 2
    MaxFaults = 2
SPECIFICATION Spec
SYMMETRY LearnerSymmetry
INVARIANTS
    TypeOK
    OneOutcomePerPrediction
    EvidenceDurable
    RollbackHoldsUnlessOverlapped

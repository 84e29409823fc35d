CONSTANTS
    p1 = p1
    p2 = p2
    l1 = l1
    l2 = l2
    r1 = r1
    None = None
    Predictions <- TwoPredictions
    Decisive <- OnePrediction
    Learners <- TwoLearners
    Recorders <- NoRecorder
    MaxRollbacks = 1
    MaxFaults = 1
SPECIFICATION FairSpec
PROPERTIES
    FinishedIsIngested
    OutcomeIsLearned

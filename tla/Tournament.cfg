CONSTANTS
    None = None
    NumGroups = 3
    BestThirds = 2
    Depth = 3
    Feeds <- SomeFeeds
    Samples <- TwoScores
    Sims = 2
SPECIFICATION TournamentSpec
INVARIANTS
    SecuredGoesThrough
    FieldIsBest
    BestMeetLate
    RoundsHalve
CHECK_DEADLOCK FALSE

SPECIFICATION Spec
CONSTANTS
    Episodes <- ThreeEpisodes
    Session <- MixedSession
    Outcome <- MixedOutcome
    Alike <- MCAlike
    SimilarityGraphs <- ThreeGraphs
    Passes = {p1}
    BatchSize = 3
    EpisodeThreshold = 3
    MinClusterSize = 2
    MinSessionLength = 1
    MinRecurrence = 2
    Null = Null
    p1 = p1
    p2 = p2
    Bounds <- OnePass
INVARIANT
    SameOutcomeTraces
CHECK_DEADLOCK FALSE

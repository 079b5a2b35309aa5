SPECIFICATION FairSpec
CONSTANTS
    Episodes <- FourEpisodes
    Session <- MCSession
    Outcome <- MCOutcome
    Alike <- MCAlike
    SimilarityGraphs <- MCGraphs
    Passes = {p1, p2}
    BatchSize = 2
    EpisodeThreshold = 2
    MinClusterSize = 2
    MinSessionLength = 1
    MinRecurrence = 1
    Null = Null
    p1 = p1
    p2 = p2
    Bounds <- MCBounds
INVARIANTS
    TypeOK
    ClustersAreComponents
    MarkedWhenDealtWith
    EvidenceCountedOnce
    RunsTellTheTruth
PROPERTY
    BacklogServed
CHECK_DEADLOCK FALSE

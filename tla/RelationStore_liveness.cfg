SPECIFICATION FairSpec
CONSTANTS
    Prior = 20
    Full = 2
    Weight <- MCWeight
    FeedbackWeight = 20
    MarginNum = 1
    MarginDen = 20
    Scale = 100
    MaxAge = 30
    Retention <- MCRetention
    Keys = {k1}
    Objects = {x, y}
    Ids = {1, 2, 3}
    Writers = {w1}
    Ruminators = {u1, u2}
    Claims <- CloseClaims
    Reports <- Contradictions
    MinContestAge = 1
    Instants <- OneInstant
    MaxCreates = 3
    MaxFeedback = 1
    None = None
    k1 = k1
    x = x
    y = y
ACTION_CONSTRAINT IdsInOrder
PROPERTIES
    EverythingEnds

SPECIFICATION Spec
CONSTANTS
    Prior = 20
    Full = 2
    Weight <- MCWeight
    FeedbackWeight = 20
    MarginNum = 1
    MarginDen = 20
    Scale = 100
    MaxAge = 30
    Retention <- MCRetention
    Keys = {k1}
    Objects = {x, y}
    Ids = {r1, r2, r3}
    Writers = {w1, w2}
    Ruminators = {u1}
    Claims <- RivalClaims
    Reports <- FullReports
    MinContestAge = 1
    Instants <- OneDay
    MaxCreates = 3
    MaxFeedback = 1
    None = None
    k1 = k1
    x = x
    y = y
SYMMETRY IdSymmetry
INVARIANTS
    TypeOK
    ReadsStayCurrent
    EvidenceConserved
    FactNeverVanishes
    AuditedLoserSuperseded
PROPERTIES
    VerdictStillHolds
    HistoryKept

SPECIFICATION Spec
CONSTANTS
    MemoryIds = {m1, m2}
    Scopes = {ns1}
    Keys = {k1}
    Contents = {common, vague}
    Reasons = {r1}
    Rank <- MCRank
    Cosine <- MCCosine
    Null = Null
    Requests <- MCRequests
    Callers = {c1, c2}
    Limit = 2
    Overfetch = 2
    MaxCalls = 4
    MaxFaults = 1
    ns1 = ns1
    k1 = k1
    common = common
    vague = vague
PROPERTY
    RememberAnswers
CHECK_DEADLOCK FALSE

SPECIFICATION FairSpec
CONSTANTS
    Names = {n1}
    Versions = {v1, v2, v3}
    Distillers = {d1, d2}
    Reporters = {q1, q2}
    MaxCreates = 3
    MaxReports = 2
    None = None
INVARIANTS
    TypeOK
    Lineage
    NameKept
    OutcomesConserved
PROPERTIES
    ImplementsRegister
    CallsEnd
CHECK_DEADLOCK FALSE

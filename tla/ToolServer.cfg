SPECIFICATION Spec
CONSTANTS
    Never = Never
    Unit = 3
    Rate = 2
    Burst = 1
    Names = {alice, bob}
    Tokens = {t1, t2}
    Namespaces = {na, nb}
    Calls = {c1, c2}
    MemoryIds = {m1, m2}
    m1 = m1
    Stored <- OneMemory
    na = na
    nb = nb
    c1 = c1
    c2 = c2
    Profiles <- SomeProfiles
    Offered <- AnyTool
    Null = Null
    MaxTime = 2
    MaxCommands = 2
    MaxFaults = 1
CHECK_DEADLOCK FALSE
SYMMETRY Symmetric
INVARIANTS
    TypeOK
    DeadTokensRefused
    EffectsAuthorized
    EffectsAudited
    RateBounded

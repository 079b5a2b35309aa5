SPECIFICATION FairSpec
CONSTANTS
    Namespaces = {n1, n2, n3}
    Slots = {s1, s2}
    Slot <- MCSlot
    Appenders = {a1, a2, a3}
    Events = {resolve, remember}
    Instants <- TwoInstants
    MaxAppends = 3
    None = None
    n1 = n1
    n2 = n2
    n3 = n3
    s1 = s1
    s2 = s2
INVARIANTS
    TypeOK
    ChainVerifies
    AppendNeverCollides
PROPERTIES
    LogIsAppendOnly
    AppendsEnd
CHECK_DEADLOCK FALSE

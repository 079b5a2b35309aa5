SPECIFICATION Spec
CONSTANT
    Calls = {c1, c2}
CHECK_DEADLOCK FALSE
INVARIANT
    UncancelledStored

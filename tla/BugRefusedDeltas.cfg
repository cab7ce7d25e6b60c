\* A sink refuses a batch, and it is offered again.
CONSTANTS
    Kinds = {"turn"}
    MaxResps = 2
    Work <- Doubling
    MaxTime = 1
    MaxGap = 1
    EvictAfter = 1
    StateRetain = 0
    MaxMishaps = 1
SPECIFICATION Spec
INVARIANTS
    OvercountsAreFlagged

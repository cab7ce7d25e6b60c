\* Responses of two kinds, interleaved: the second kind has series of its own
\* ("memory") or leaves its logical turn without a name ("prewarm").
CONSTANTS
    Kinds = {"turn", "memory", "prewarm"}
    MaxResps = 3
    Work <- Doubling
    MaxTime = 3
    MaxGap = 1
    EvictAfter = 1
    StateRetain = 1
    MaxMishaps = 1
SPECIFICATION Spec
VIEW Relevant
CONSTRAINT Bounds
ACTION_CONSTRAINT WrittenWhenRead
INVARIANTS
    TypeOK
    DeltasAreMeasured
    NoNeedlessReset
    NumbersApart

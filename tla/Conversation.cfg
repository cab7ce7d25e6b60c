\* Two threads, three responses, a set and an index too small for all of them.
CONSTANTS
    Threads = {1, 2}
    CallIds = {"c"}
    Texts = {"hi"}
    MaxResps = 3
    SeenSize = 4
    CallLimit = 2
    ThreadLimit = 1
    MaxAge = 4
    SweepEvery = 2
    EvictAfter = 3
    MaxMishaps = 1
SPECIFICATION Spec
VIEW Relevant
CONSTRAINT FirstThread
INVARIANTS
    TypeOK
    NothingSwallowed
    OccurrencesCount
PROPERTIES
    OriginsAreRight
    OriginsAreFound

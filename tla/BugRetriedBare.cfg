\* A sink refuses a batch, and it is offered again.
CONSTANTS
    Threads = {1}
    CallIds = {"c"}
    Texts = {"hi"}
    MaxResps = 1
    SeenSize = 9
    CallLimit = 2
    ThreadLimit = 1
    MaxAge = 9
    SweepEvery = 2
    EvictAfter = 9
    MaxMishaps = 1
SPECIFICATION Spec
INVARIANTS
    RetriedWithContent

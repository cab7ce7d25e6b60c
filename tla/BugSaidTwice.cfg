\* A user says one thing twice.
CONSTANTS
    Threads = {1}
    CallIds = {"c"}
    Texts = {"hi"}
    MaxResps = 2
    SeenSize = 9
    CallLimit = 2
    ThreadLimit = 1
    MaxAge = 9
    SweepEvery = 2
    EvictAfter = 9
    MaxMishaps = 0
SPECIFICATION Spec
INVARIANTS
    ThreadReconstructs

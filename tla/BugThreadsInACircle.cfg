\* A thread is given the parent of the one whose handshake its connection still
\* carries.
SPECIFICATION Spec
CONSTANTS
    Threads = {"root", "child", "leaf"}
    Parent <- Chain
    NoThread = ""
    Handshakes <- Borrowed
    MayRun = {"child"}
    Clients = {"x"}
    MaxTurns = 4
    MaxNow = 2
    MaxVisits = 1
    RetainTurns = 3
    RetainWindow = 0
    SubQueue = 2
INVARIANTS
    EveryThreadIsShown
CHECK_DEADLOCK FALSE

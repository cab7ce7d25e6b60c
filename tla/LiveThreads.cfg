\* The chain of LiveView.cfg with responses still open and handshakes of two
\* threads, and nobody who follows it.
SPECIFICATION Spec
CONSTANTS
    Threads = {"root", "child", "leaf"}
    Parent <- Chain
    NoThread = ""
    Handshakes <- Shared
    MayRun = {"child"}
    Clients = {}
    MaxTurns = 4
    MaxNow = 2
    MaxVisits = 0
    RetainTurns = 3
    RetainWindow = 0
    SubQueue = 2
INVARIANTS
    OnlyHandshakesHide
    OrphansLostTheirParent
CHECK_DEADLOCK FALSE

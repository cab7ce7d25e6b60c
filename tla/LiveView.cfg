\* A chain of three threads that come and go in the ring and the index, the first
\* on a connection its grandchild opened, and a browser that follows them.
SPECIFICATION Spec
CONSTANTS
    Threads = {"root", "child", "leaf"}
    Parent <- Chain
    NoThread = ""
    Handshakes <- Borrowed
    MayRun = {}
    Clients = {"x"}
    MaxTurns = 4
    MaxNow = 2
    MaxVisits = 1
    RetainTurns = 3
    RetainWindow = 0
    SubQueue = 2
INVARIANTS
    TypeOK
    OnlyHandshakesHide
    OrphansLostTheirParent
    NewestIsQueued
PROPERTIES
    ViewsNeverGoBack
    EmitReturns
CHECK_DEADLOCK FALSE

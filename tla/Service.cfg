\* The database beside the watcher; the probe and the poller beside the servers.
CONSTANTS
    r1 = r1
    r2 = r2
    a1 = a1
    None = None
    Responses = {r1, r2}
    Requests = {a1}
    Turns <- Joined
    MaxRows = 2
    CacheEntries = 1
    PrefetchLimit = 2
    Configs <- Parts
    Files = {"monday", "tuesday", "today"}
    MaxConcurrency = 2
    Accounts = {"a", "b"}
    MaxChanges = 1
SPECIFICATION Spec
INVARIANTS
    CacheIsSound
    EndsInOrder
    WholeReports
PROPERTIES
    StopReturns
CHECK_DEADLOCK FALSE

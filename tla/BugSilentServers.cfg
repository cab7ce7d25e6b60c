\* A server that cannot listen.
CONSTANTS
    r1 = r1
    r2 = r2
    a1 = a1
    None = None
    Responses = {r1}
    Requests = {a1}
    Turns = {}
    MaxRows = 0
    CacheEntries = 1
    PrefetchLimit = 1
    Configs = {{"health", "live"}}
    Files = {}
    MaxConcurrency = 1
    Accounts = {}
    MaxChanges = 0
SPECIFICATION Spec
PROPERTIES
    FailedServerEndsRun
CHECK_DEADLOCK FALSE

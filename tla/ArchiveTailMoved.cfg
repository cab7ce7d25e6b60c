\* A service that is stopped and started again while files are moved away,
\* recreated under their name and put back, and nothing fails.
CONSTANTS
    Responses = {r1}
    MaxDay = 2
    MaxGen = 2
    MaxFrames = 2
    MaxRestarts = 1
    HeadBytes = 1
    EvictAfter = 0
    RetainDays = 1
    DeleteAfter = TRUE
    TombstoneDays = 1
    Faults = {"stop", "move", "putback"}
SPECIFICATION Spec
INVARIANTS
    NothingLost
    NoRepeat

\* Files first seen shorter than the head that is hashed of them, which grow, are
\* moved away, recreated and put back, while emits are refused.
CONSTANTS
    Responses = {r1}
    MaxDay = 1
    MaxGen = 2
    MaxFrames = 3
    MaxRestarts = 1
    HeadBytes = 3
    EvictAfter = 0
    RetainDays = 0
    DeleteAfter = FALSE
    TombstoneDays = 1
    Faults = {"stop", "emit", "partial", "move", "putback"}
SPECIFICATION Spec
PROPERTIES
    ShortHeadsAreReread

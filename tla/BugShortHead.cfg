\* A file first seen shorter than the head that is hashed of it, and nothing fails.
CONSTANTS
    Responses = {r1}
    MaxDay = 1
    MaxGen = 1
    MaxFrames = 2
    MaxRestarts = 0
    HeadBytes = 3
    EvictAfter = 0
    RetainDays = 0
    DeleteAfter = FALSE
    TombstoneDays = 1
    Faults = {}
SPECIFICATION Spec
INVARIANTS
    AppendIsNotReplacement

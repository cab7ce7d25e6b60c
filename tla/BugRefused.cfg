\* A sink refuses turns whose records span two reads.
CONSTANTS
    Responses = {r1}
    MaxDay = 1
    MaxGen = 1
    MaxFrames = 2
    MaxRestarts = 0
    HeadBytes = 1
    EvictAfter = 0
    RetainDays = 1
    DeleteAfter = FALSE
    TombstoneDays = 1
    Faults = {"emit"}
SPECIFICATION Spec
PROPERTIES
    RefusedIsRetried

CONSTANTS
    Responses = {r1}
    MaxDay = 2
    MaxGen = 1
    MaxFrames = 3
    MaxRestarts = 1
    HeadBytes = 1
    EvictAfter = 0
    RetainDays = 1
    DeleteAfter = FALSE
    TombstoneDays = 1
    Faults = {"emit", "crash", "save"}
SPECIFICATION FairSpec
PROPERTIES
    EveryCompletionShips
    ExpiredFilesGo

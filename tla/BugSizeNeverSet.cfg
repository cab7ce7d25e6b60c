\* A stop between the last chunk of a file and its end of file.
CONSTANTS
    Responses = {r1}
    MaxDay = 2
    MaxGen = 1
    MaxFrames = 1
    MaxRestarts = 1
    HeadBytes = 1
    EvictAfter = 0
    RetainDays = 1
    DeleteAfter = FALSE
    TombstoneDays = 1
    Faults = {"stop"}
SPECIFICATION FairSpec
PROPERTIES
    ExpiredFilesGo

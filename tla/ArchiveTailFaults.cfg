\* What can fail while the archive is read: sinks, the process (it is also
\* stopped), the writer, a record.  Retention deletes beside it.  A file is first
\* hashed shorter than its head, or longer.
CONSTANTS
    Responses = {r1, r2}
    MaxDay = 2
    MaxGen = 1
    MaxFrames = 2
    MaxRestarts = 1
    HeadBytes = 3
    EvictAfter = 0
    RetainDays = 1
    DeleteAfter = TRUE
    TombstoneDays = 1
    Faults = {"stop", "crash", "emit", "partial", "torn", "bad"}
SPECIFICATION Spec
SYMMETRY Symmetry
INVARIANTS
    TypeOK
    CompletionsDelivered
PROPERTIES
    ImplementsDelivery
    DeletesOnlyIngested
    ShortHeadsAreReread

\* The sink that halves and the one that exports, answers of every kind, and
\* batches offered again after a failed call, grown by then and halved twice.
CONSTANTS
    Sinks <- Two
    Splits <- Halves
    Exports <- Spans
    BatchSize = 3
    MaxRetries = 1
    MaxTurns = 3
    Ends = {1, 3}
    MaxFailures = 2
    MaxDoubts = 1
    Replies = {"ok", "verdicts", "garbled", "busy", "lost", "data", "config", "odd", "dropped"}
SPECIFICATION FairSpec
INVARIANTS
    TypeOK
    AcceptedIsSettled
    NothingLeftBehind
    TwiceOnlyAfterFailure
PROPERTIES
    OthersSeeTheBatch
    EveryCallReturns

\* All three sinks, up to the first call that fails.
CONSTANTS
    Sinks <- Three
    Splits <- Halves
    Exports <- Spans
    BatchSize = 2
    MaxRetries = 1
    MaxTurns = 2
    Ends = {1, 2}
    MaxFailures = 1
    MaxDoubts = 1
    Replies = {"ok", "verdicts", "garbled", "busy", "lost", "data", "config", "odd", "dropped"}
SPECIFICATION FairSpec
INVARIANTS
    TypeOK
    AcceptedIsSettled
    NothingLeftBehind
    TwiceOnlyAfterFailure
PROPERTIES
    OthersSeeTheBatch
    EveryCallReturns

\* An export in the background that fails.
CONSTANTS
    Sinks <- OnlySpans
    Splits = {}
    Exports <- Spans
    BatchSize = 2
    MaxRetries = 0
    MaxTurns = 1
    Ends = {1}
    MaxFailures = 1
    MaxDoubts = 1
    Replies = {"ok", "dropped"}
SPECIFICATION Spec
INVARIANTS
    FlushedIsExported

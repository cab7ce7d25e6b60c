\* Three requests and three frames.
CONSTANTS
    Requests = {1, 2, 3}
    ThreadOf <- MCThreadOf
    SpawnedBy <- MCSpawnedBy
    Handshakes <- MCHandshakes
    Inputs <- MCInputs
    Outputs <- MCOutputs
    Sidebands = {"created"}
    Unsaids <- MCUnsaids
    Endings <- MCEndings
    EvictAfter = 1
    MaxFrames = 3
    Enabled <- MCEnabled
    ClientAhead = 3
SPECIFICATION FieldSpec
CHECK_DEADLOCK FALSE
INVARIANTS
    OwnIdentity
    SpansResolve
    RecordsTell

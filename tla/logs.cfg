SPECIFICATION FairSpec
CONSTANTS
    None = None
    Handlers = {h1, h2}
    MaxRecords = 3
    MaxBatch = 2
    MaxEvents = 1
    MaxFaults = 1
    SourceEvents = {"rotate", "replace", "disconnect", "interrupt"}
    FaultKinds = {"answer", "kill", "put", "record", "commit", "cleanup"}
CHECK_DEADLOCK FALSE
INVARIANTS NoSilentLoss CursorIsRecorded BodiesAreStored
PROPERTY PendingIsDelivered

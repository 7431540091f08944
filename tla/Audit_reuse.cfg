SPECIFICATION Spec
CONSTANTS
    PipeRoom = 2
    Reply = 2
    WorkerLimit = 2
    Vaults <- MCVaults
    Breached = {"q"}
    Permits = 2
    MaxRetries = 1
    Now = 8
    Threshold = 4
    Wrap = 16
CHECK_DEADLOCK FALSE
INVARIANT ReusedMarkIsTrue

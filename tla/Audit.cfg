SPECIFICATION Spec
CONSTANTS
    PipeRoom = 2
    Reply = 2
    WorkerLimit = 2
    Vaults <- MCVaults
    Breached = {"q"}
    Permits = 2
    MaxRetries = 1
    Now = 8
    Threshold = 4
    Wrap = 16
INVARIANT TypeOK
INVARIANT PermitsBalanced
INVARIANT NothingLeftBehind
INVARIANT ScoreOfWhole
INVARIANT ReportIsTrue
PROPERTY EvaluationEnds
PROPERTY AuditEnds
CHECK_DEADLOCK FALSE

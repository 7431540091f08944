SPECIFICATION Spec
CONSTANTS
    NoEntry = NoEntry
    NoFile = NoFile
    Torn = Torn
    Free = Free
    None = None
    Sessions = {s1, s2}
    Services = {a}
    Fields = {f}
    Values = {v1, v2}
    Passwords = {k1, k2}
    Ops = {"add", "update", "delete", "rekey"}
    MaxClock = 3
    IoFaults = TRUE
    Crashes = TRUE
SYMMETRY Symmetry
INVARIANT TypeOK
INVARIANT MergeStaysCurrent
INVARIANT CallTookEffect
PROPERTY CommitMerges
PROPERTY ImplementsReplicaStore

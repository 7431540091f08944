SPECIFICATION DistinctSpec
CONSTANTS
    NoEntry = NoEntry
    NoFile = NoFile
    Torn = Torn
    Free = Free
    None = None
    Sessions = {s1, s2}
    Services = {a, b}
    Fields = {f}
    Values = {v1}
    Passwords = {k1}
    Ops = {"add", "delete"}
    MaxClock = 2
    IoFaults = FALSE
    Crashes = FALSE
SYMMETRY Symmetry
PROPERTY DeletionsAreMerged

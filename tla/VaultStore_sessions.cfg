SPECIFICATION SessionsSpec
CONSTANTS
    NoEntry = NoEntry
    NoFile = NoFile
    Torn = Torn
    Free = Free
    None = None
    Sessions = {s1, s2}
    Services = {a, b}
    Fields = {f}
    Values = {v1}
    Passwords = {k1, k2}
    Ops = {"add", "update", "rekey"}
    MaxClock = 2
    IoFaults = FALSE
    Crashes = TRUE
PROPERTY OthersUntouched
PROPERTY SaveReturns

SPECIFICATION FairSpec
CONSTANTS
    Locked = Locked
    NoConn = NoConn
    NoPassword = NoPassword
    Clients = {c1, c2}
    Commands = {"status", "get", "stop"}
    Passwords = {k1}
    Backlog = 1
    IdleTimeout = 1
    ClientTimeout = 1
    MaxEdits = 0
    IoFaults = FALSE
INVARIANT ServedInTime
PROPERTY IdleSessionEnds
PROPERTY StopEnds

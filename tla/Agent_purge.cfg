SPECIFICATION Spec
CONSTANTS
    Locked = Locked
    NoConn = NoConn
    NoPassword = NoPassword
    Clients = {c1, c2}
    Commands = {"unlock", "write", "stop"}
    Passwords = {k1, k2}
    Backlog = 2
    IdleTimeout = 1
    ClientTimeout = 2
    MaxEdits = 1
    IoFaults = TRUE
SYMMETRY Symmetry
INVARIANT TypeOK
INVARIANT PurgedAfterLock

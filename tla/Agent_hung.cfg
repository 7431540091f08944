SPECIFICATION HungSpec
CONSTANTS
    Locked = Locked
    NoConn = NoConn
    NoPassword = NoPassword
    Clients = {c1}
    Commands = {"get", "totp", "list", "add", "delete", "status", "unlock", "lock", "desk"}
    Passwords = {k1}
    Backlog = 1
    IdleTimeout = 1
    ClientTimeout = 1
    MaxEdits = 1
    IoFaults = FALSE
PROPERTY CommandsEnd

SPECIFICATION Spec
CONSTANTS
    Agents = {a1, a2}
    NoSocket = NoSocket
    Stale = Stale
    MaxPolls = 2
    MaxSignals = 2
    IoFaults = TRUE
INVARIANT TypeOK
INVARIANT ServingIsReachable
INVARIANT StalePathIsReplaced
INVARIANT OnlyKillsLeaveSockets
PROPERTY StopIsObeyed
PROPERTY StartSettles
CHECK_DEADLOCK FALSE

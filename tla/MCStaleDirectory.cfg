SPECIFICATION WindowSpec
CONSTANTS
    Clients = {c0}
    Final = 2
    Starts = {0, 1}
    Forward = 1
    Retention = 1
    MaxSessions = 1
    MaxRestarts = 1
INVARIANT ServesOwn

SPECIFICATION Spec
CONSTANTS
    Ids = {i1, i2}
    Variants = {v1}
    Plays = {}
    Clients = {k1, k2}
    p1 = p1
    p2 = p2
    v1 = v1
    v2 = v2
    None = None
    Reaper = Reaper
    Requests <- OneRequest
    MaxSessions = 1
    MaxCalls = 3
PROPERTY ReapsOnlyIdle

SPECIFICATION SumSpec
CONSTANTS
    Ids = {i1, i2}
    Variants = {v1, v2}
    Plays = {}
    Clients = {k1, k2}
    p1 = p1
    p2 = p2
    v1 = v1
    v2 = v2
    None = None
    Reaper = Reaper
    Requests <- Seeks
    MaxSessions = 1
    MaxCalls = 3
    i1 = i1
    wide = wide
    narrow = narrow
    c1 = c1
    x1 = x1
    x2 = x2
PROPERTIES GivenUpReclaimed EnsureAnswers
PROPERTY CallReturns

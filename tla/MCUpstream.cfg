SPECIFICATION SumSpec
CONSTANTS
    Senders = {r1, r2, r3}
    Sources = {s1}
    Routes <- MCRoutes
    Workers = 1
    MaxReads = 1
    MaxBegins = 2
    Nobody = Nobody
    s1 = s1
    a = a
    b = b
    k1 = k1
    k2 = k2
    Handlers = {k1}
    Reaper = Reaper
    PauseAt = 2
    ResumeAt = 1
    Forward = 1
    Last = 3
INVARIANTS PartsTypeOK NothingLost
PROPERTY Served
INVARIANT Settled
PROPERTIES ResumesUnlessCrossed StopEnds
PROPERTY Answered

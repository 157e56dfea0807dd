SPECIFICATION SumSpec
CONSTANTS
    Ids = {i1, i2}
    Variants = {v1}
    Plays = {p1, p2}
    Clients = {k1, k2}
    p1 = p1
    p2 = p2
    v1 = v1
    v2 = v2
    None = None
    Reaper = Reaper
    Requests <- TwoPlayers
    MaxSessions = 1
    MaxCalls = 3
    N = 3
    Callers = {b1, b2}
    Outgoing <- MCOutgoing
    MaxChanges = 2
    Senders = {q1, q2}
    Sources = {s1, s2}
    Routes <- MCRoutes
    Workers = 2
    MaxReads = 1
    MaxBegins = 2
    Nobody = Nobody
    q1 = q1
    q2 = q2
    s1 = s1
    s2 = s2
    Devices = {k1, k2}
    Catalogs <- MCCatalogs
    MaxInfos = 2
    MaxRestarts = 1
    Absent = Absent
    Browsers = {b1, b2}
    Passwords = {old, new}
    Bodies <- MCBodies
    First <- MCFirst
    DefaultUrl = a
    Path <- MCPath
    Same <- MCSame
    HasVAAPI = TRUE
    MaxSaves = 3
    MaxFaults = 2
    Missing = Missing
    a = a
    b = b
    aa = aa
    c = c
    old = old
    new = new
    b1 = b1
    b2 = b2
    NoUrl = NoUrl
SYMMETRY MCSymmetry
INVARIANTS PartsTypeOK OwnedOnce
INVARIANTS HearsChoice FallbackKept SavedIsRun
INVARIANTS FailsOnlyAlone NeverUnsendable EntryExact
PROPERTIES ReturnsFitting RestartedForCause

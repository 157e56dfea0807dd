SPECIFICATION SumSpec
CONSTANTS
    Registrants = {1, 2, 3}
    Mirrors = {1, 2, 3}
    HostOf <- MCHostOf
    Places = 2
    Loaders = {f1}
    MaxTries = 2
    MaxFailures = 2
    wide = wide
    narrow = narrow
    NoJob = NoJob
    Streams = {wide, narrow}
    LanesOf <- MCLanesOf
    Chunks = {c1}
    Routes = {r1, r2}
    Urls <- MCUrls
    PoolSize = 2
    Requests = {q1, q2}
    Fetchers = {f1, f2}
    Retries = 2
    Worlds <- MCWorlds
    MaxRoutes = 3
    MaxFaults = 2
    None = None
    a = a
    b = b
    c = c
    f1 = f1
    f2 = f2
    q1 = q1
    q2 = q2
SYMMETRY MCSymmetry
INVARIANTS PartsTypeOK AttemptsCounted SingleFlight ResultBacked
PROPERTIES VerdictIsFinal ImplementsStore
INVARIANTS OneRoutePerHost SameMedia StandbyKept
PROPERTY UnsupportedUnanimous
INVARIANT FairlyAssigned

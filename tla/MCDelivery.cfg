SPECIFICATION SumSpec
CONSTANTS
    long = long
    seek = seek
    NoJob = NoJob
    Streams = {long}
    LanesOf <- OneLanesOf
    RangeOf <- OneRange
    Chunks = {1, 2, 3, 4}
    Routes = {1, 2}
    Prefetch = 2
    HedgeOffset = 2
    LossLimit = 2
    MaxSources = 2
    HasOrigins = TRUE
    c1 = c1
    c2 = c2
    Clients = {c1, c2}
    Final = 2
    Starts = {0, 1}
    Forward = 1
    Retention = 1
    MaxSessions = 2
    MaxRestarts = 0
INVARIANTS SegTypeOK KeptOnDisk WaitsForWritten
INVARIANTS LedgerExact OutputBacked ReadAheadBounded
PROPERTY StarvedOnlyWhenLossy
SYMMETRY Symmetry

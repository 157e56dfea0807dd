SPECIFICATION SteadySpec
CONSTANTS
    long = long
    seek = seek
    NoJob = NoJob
    Streams = {long, seek}
    LanesOf <- TwoLanesOf
    RangeOf <- TwoRange
    Chunks = {1, 2}
    Routes = {1, 2}
    Prefetch = 2
    HedgeOffset = 2
    LossLimit = 2
    MaxSources = 3
    HasOrigins = TRUE
INVARIANT NoForeignCancel

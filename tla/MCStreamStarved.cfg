SPECIFICATION RangeSpec
CONSTANTS
    long = long
    seek = seek
    NoJob = NoJob
    Streams = {long}
    LanesOf <- OneLanesOf
    RangeOf <- OneRange
    Chunks = {1, 2, 3, 4}
    Routes = {1, 2}
    Prefetch = 2
    HedgeOffset = 2
    LossLimit = 2
    MaxSources = 3
    HasOrigins = TRUE
INVARIANT NeverStarved

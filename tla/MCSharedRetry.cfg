SPECIFICATION ShareSpec
CONSTANTS
    Registrants = {1, 2}
    Mirrors = {1, 2, 3}
    HostOf <- MCHostOf
    Places = 2
    Loaders = {f1, f2}
    MaxTries = 2
    MaxFailures = 1
PROPERTY RetriesApart

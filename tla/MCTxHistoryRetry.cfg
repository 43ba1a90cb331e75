CONSTANTS
    Tokens = {t}
    NumWorkers = 2
    ClientVersion = 2
    ItemCounts = {0, 1, 2}
    MaxCalls = 2
    MaxFaults = 1
SPECIFICATION FairSpec
INVARIANT RetryPure

CONSTANTS
    Accounts = {a, b}
    Tokens = {t}
    Callers = {c1}
    InitialLength = 1
    MaxCoins = 3
    MaxCalls = 3
    MaxFaults = 1
    GrowingTokens = FALSE
SPECIFICATION FairSpec
INVARIANT ResultComplete
INVARIANT SyncedIsCached
PROPERTY CallsReturn

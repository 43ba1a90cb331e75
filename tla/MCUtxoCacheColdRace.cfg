CONSTANTS
    Accounts = {a, b}
    Tokens = {t}
    Callers = {c1, c2}
    InitialLength = 1
    MaxCoins = 2
    MaxCalls = 2
    MaxFaults = 0
    GrowingTokens = FALSE
SPECIFICATION Spec
INVARIANT ResultComplete

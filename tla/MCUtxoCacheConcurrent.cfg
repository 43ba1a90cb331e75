CONSTANTS
    Accounts = {a, b}
    Tokens = {t}
    Callers = {c1, c2}
    InitialLength = 1
    MaxCoins = 3
    MaxCalls = 3
    MaxFaults = 0
    GrowingTokens = TRUE
SPECIFICATION Spec
INVARIANT NoCoinSkipped
INVARIANT ResultSound
INVARIANT DamageNeedsFault
SYMMETRY Symmetry

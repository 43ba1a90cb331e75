CONSTANTS
    Tokens = {t}
    NumWorkers = 2
    ClientVersion = 2
    ItemCounts = {0, 3}
    MaxCalls = 2
    MaxFaults = 1
SPECIFICATION FairSpec
INVARIANT AnswersPure
INVARIANT AnswersComplete
INVARIANT NothingLeftBehind
PROPERTY CallsReturn

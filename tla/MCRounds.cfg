CONSTANTS
    Kinds = {"PRV", "TokenV1", "TokenV2", "ConvertPRV", "ConvertToken"}
    Counts <- MCCounts
    Values <- MCValues
    Fee = 3
    MaxInputSize = 2
    NumThreads = 2
    MaxUTXOs = 1
    MaxFaults <- MCMaxFaults
    TimerKinds = {"TokenV1"}
SPECIFICATION FairSpec
INVARIANT TypeOK
INVARIANT RoundsApart
INVARIANT ReportsMatch
INVARIANT NoDoubleSpend
INVARIANT FeeCoinsSuffice
PROPERTY Returns

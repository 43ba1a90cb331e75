CONSTANTS
    Kinds = {"ConvertPRV"}
    Counts <- ThreeCounts
    Values <- TwoValues
    Fee = 1
    MaxInputSize = 2
    NumThreads = 2
    MaxUTXOs = 1
    MaxFaults <- NoFaults
    TimerKinds = {}
SPECIFICATION FairSpec
PROPERTY AllConverted

CONSTANTS
    Kinds = {"TokenV1"}
    Counts <- FourCounts
    Values <- TwoValues
    Fee = 1
    MaxInputSize = 2
    NumThreads = 2
    MaxUTXOs = 1
    MaxFaults <- OneFault
    TimerKinds = {}
SPECIFICATION FairSpec
INVARIANT RoundQuiescent

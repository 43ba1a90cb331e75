CONSTANTS
    MaxLength = 5
    BatchSize = 2
    MaxGetCoinThreads = 2
SPECIFICATION FairSpec
INVARIANTS
    DoneMeansComplete
    BatchesPartition
    NoGoroutineBlocks
PROPERTIES
    GoroutinesEnd
    ImplementsCoinFetch

CONSTANTS
    Modulus = 64
    RingSize = 3
    MaxTxInputs = 4
    MaxTxOutputs = 3
    MaxTxCoins = 8
    DefaultPRVFee = 1
    StakingAmount = 6
    InscribeAmount = 1
    BatchSize = 2
    MaxCoins = 4
    MaxValue = 4
    MaxRequired = 12
    Cases <- MCCases
    MaxInputSize = 3
    InscMinFeePerTx = 3
    InscMinFeePerKB = 1
    TokenFeePerKb = 1
    MaxFaults = 1
    MaxRetries = 1
SPECIFICATION TxSpec
INVARIANTS
    ChosenCoinsSuffice
    NoSuperfluousCoin
    NoCoinChosenTwice
    RingsAreSound
    SignaturesReadBack
    ValueConserved
    PaymentsKept
    BurnsAsDeclared
    QueriesAgree
    AffordableIsBuilt
    NoDoublePay
    HistoryAddsUp

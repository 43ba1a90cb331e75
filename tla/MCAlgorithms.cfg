SPECIFICATION Spec
CONSTANTS
    LimbBits = 2
    MinusDelta <- SmallDelta
    FieldBits = 6
    FieldGap = 3
    EdwardsD = 40
    SqrtM1 = 11
    MontgomeryA = 10
    Fffb <- SmallFffb
    GBASE = 27
    ScalarBits = 8
    Width = 4
    Gap = 3
    Width32 = 3
    ByteBase = 16
    KeySize = 1
    CacheSize = 2
    GroupOrder = 10007
    GValue = 4001
    GRandom = 6011
    MaxShardNumber = 2
    MaxTriesOTA = 40
INVARIANTS
    ScalarsAreReduced
    FieldElementsCanonical
    PointsAgree
    MetadataReadsBack
    CoinsReadBack
    KeysReadBack
    OwnersReadTheirCoins

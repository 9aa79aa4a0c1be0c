CONSTANTS
    MaxBlock = 3
    Epoch <- MCEpoch
    Hash = {"h", "w"}
    Index <- MCIndex
    Idx <- MCIdx
    W <- MCW
    BVs <- FillBVs
    OwnHash <- MCOwnHash
    GenesisEpochs = {1}
    LlrStart = 1
    CacheSize = 1
    MaxCrashes = 1
    None = None
SPECIFICATION FairSpec
INVARIANTS
    FillPointerTight
PROPERTIES
    EventuallyFilled
    EventuallyDecided

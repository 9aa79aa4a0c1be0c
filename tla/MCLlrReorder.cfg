CONSTANTS
    MaxBlock = 2
    Epoch <- MCEpoch
    Hash = {"h", "w"}
    Index <- MCIndex
    Idx <- ReorderIdx
    W <- ReorderW
    BVs <- ReorderBVs
    OwnHash <- MCOwnHash
    GenesisEpochs = {1}
    LlrStart = 1
    CacheSize = 1
    MaxCrashes = 0
    None = None
SPECIFICATION Spec
PROPERTIES
    NewVoteCounts

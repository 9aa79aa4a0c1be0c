CONSTANTS
    MaxBlock = 2
    Epoch <- MCEpoch
    Hash = {"h", "w"}
    Index <- MCIndex
    Idx <- MCIdx
    W <- MCW
    BVs <- VotesBVs
    OwnHash <- MCOwnHash
    GenesisEpochs = {1}
    LlrStart = 1
    CacheSize = 1
    MaxCrashes = 1
    None = None
SPECIFICATION Spec
INVARIANTS
    TypeOK
    VotesIndexExact
    DurableIndexExact
    DecisionBacked
    LowestToDecideExact
    ChainComplete
    LastBVsExact
PROPERTIES
    DecisionsWriteOnce
    RecordsWriteOnce
    NewVoteCounts

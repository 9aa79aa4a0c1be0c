CONSTANTS
    Event <- MCEvent
    EpochOf <- MCEpochOf
    Parents <- MCParents
    Lamport <- MCLamport
    Validator = {"v1", "v2", "v3"}
    Frames <- MCFrames
    LastDecided <- MCLastDecided
    MaxEpochGas = 10
    MaxEpochDuration = 100
    MaxEmptyBlockSkipPeriod = 4
    maxAdvanceEpochs = 2
    MaxFrames = 8
    MaxCrashes = 2
    None = None
SPECIFICATION FairSpec
INVARIANTS
    TypeOK
    StateIsReplay
    
    CheatersPunished
    EpochIndexExact
PROPERTIES
    BlocksWriteOnce
    EventuallyDurable

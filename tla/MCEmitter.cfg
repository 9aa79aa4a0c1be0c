CONSTANTS
    MaxEpoch = 2
    MaxBlocks = 2
    MaxEvents = 2
    MaxCrashes = 1
    MaxBlockVotesPerEvent = 1
    DoublesignProtection = 36
    NetworkStart = TRUE
    None = None
SPECIFICATION FairSpec
INVARIANTS
    TypeOK
    DoubleSignOnlyUnprotected
    NoRepeatedVote

    
CHECK_DEADLOCK FALSE

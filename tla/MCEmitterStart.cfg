CONSTANTS
    MaxEpoch = 2
    MaxBlocks = 2
    MaxEvents = 2
    MaxCrashes = 1
    MaxBlockVotesPerEvent = 2
    DoublesignProtection = 6
    NetworkStart = TRUE
    None = None
SPECIFICATION Spec
INVARIANTS
    NoDoubleSign
CHECK_DEADLOCK FALSE

CONSTANTS
    alice = alice
    bob = bob
    None = None
    Account = {alice}
    Tx <- MCFewTx
    Batches <- MCFewBatches
    PriceLimit = 1
    Tips = {0, 2}
    PriceBump = 10
    AccountSlots = 1
    GlobalSlots = 2
    AccountQueue = 1
    GlobalQueue = 1
    Rich = 2
    Poor = 1
    Journal = TRUE
    ResetErrors = {TRUE, FALSE}
    MaxCallers = 2
    MaxBlocks = 1
    MaxRestarts = 1
SPECIFICATION FairSpec
PROPERTY EventuallyAnnounced
CHECK_DEADLOCK FALSE

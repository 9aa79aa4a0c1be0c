CONSTANTS
    alice = alice
    bob = bob
    None = None
    Account = {alice, bob}
    Tx <- MCTx
    Batches <- MCBatches
    PriceLimit = 1
    Tips = {0}
    PriceBump = 10
    AccountSlots = 1
    GlobalSlots = 2
    AccountQueue = 1
    GlobalQueue = 1
    Rich = 2
    Poor = 1
    Journal = FALSE
    ResetErrors = {TRUE, FALSE}
    MaxCallers = 1
    MaxBlocks = 1
    MaxRestarts = 0
VIEW MCView
SPECIFICATION Spec
INVARIANTS PoolConsistent PendingExecutable PoolBounded
PROPERTY LocalTxKept
CHECK_DEADLOCK FALSE

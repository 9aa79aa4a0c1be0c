CONSTANTS
    MaxEpoch = 4
    a = a b = b c = c f = f
    None = None
    Record <- MCRecord
    Own <- MCOwn
    Group <- MCGroup
    W <- MCW
    Upgrades <- MCUpgrades
    EVs <- MCEVs
    Packs <- MCOwnPacks
    Events = FALSE
    MaxCrashes = 1
SPECIFICATION FairSpec
INVARIANT ConfigRight
 

CONSTANTS
    MaxEpoch = 3
    a = a b = b c = c f = f
    None = None
    Record <- MCRecord
    Own <- MCOwn
    Group <- MCGroup
    W <- MCW
    Upgrades <- MCUpgrades
    EVs <- MCEVs
    Packs <- MCHonestPacks
    Events = TRUE
    MaxCrashes = 0
SPECIFICATION Spec
INVARIANT ConfigRight

CONSTANTS
    MaxEpoch = 3
    a = a b = b c = c f = f
    None = None
    Record <- MCRecord
    Own <- MCOwn
    Group <- MCGroup
    W <- MCW
    Upgrades <- MCUpgrades
    EVs <- MCEVs
    Packs <- MCShortPacks
    Events = TRUE
    MaxCrashes = 1
SPECIFICATION Spec
INVARIANTS RecordsOwn BitmapFits FillPointer

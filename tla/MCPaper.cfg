SPECIFICATION PaperSpec
CONSTANTS
    Live = FALSE
    Dynamic = TRUE
    SyncRaises = FALSE
    Gains <- MCGains
    Entry = 60
    Risk = 20
    Reward = 40
    BreakEvenGain = 3
    Tick = 4
    Slip = 1
    MaxTime = 4
    MaxCrashes = 1
    None = None
    s1 = s1
    s2 = s2
    NoSetup = NoSetup
    Structure = {s1, s2}
    Side <- MCSide
    ArmedTtl = 1
    WatchTtl = 1
    ConsumedTtl = 1
    MaxWrites = 1
INVARIANTS PaperExitsAreFair LifeTypeOK OneTracked ArmedIsLive
PROPERTIES EndedOnce KeepsPromise

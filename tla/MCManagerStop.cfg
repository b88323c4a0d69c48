SPECIFICATION FairSpec
CONSTANTS
    Live = TRUE
    Dynamic = TRUE
    SyncRaises = TRUE
    Gains <- FewGains
    Entry = 60
    Risk = 20
    Reward = 40
    BreakEvenGain = 3
    Tick = 4
    Slip = 0
    MaxTime = 3
    MaxCrashes = 1
    None = None
PROPERTIES StopReachesExchange

SPECIFICATION LiveSpec
CONSTANTS
    Live = TRUE
    Dynamic = TRUE
    SyncRaises = FALSE
    Gains <- FewGains
    Entry = 60
    Risk = 20
    Reward = 40
    BreakEvenGain = 3
    Tick = 4
    Slip = 0
    MaxTime = 3
    MaxCrashes = 1
    None = None
INVARIANTS LaggingStopIsFlagged BestPriceIsHonoured ClosedIsSettled
PROPERTIES StopNeverLoosens ExchangeStopKeptInRun CloseIsLearned

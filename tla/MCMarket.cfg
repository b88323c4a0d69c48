SPECIFICATION MarketSpec
CONSTANTS
    Rankings <- MCRankings
    Btc = "btc"
    Parallel = 2
    CacheTime = 2
    Failsafe = 3
    c1 = c1
    c2 = c2
    f1 = f1
    f2 = f2
    f3 = f3
    s1 = s1
    s2 = s2
    e1 = e1
    e2 = e2
    Caller = {c1, c2}
    Symbol = {s1}
    Fetch = {f1, f2, f3}
    NoQuote = NoQuote
    Ttl = 1
    MaxAge = 2
    MaxSymbols = 1
    Traded = {s1, s2}
    NoBook = NoBook
    Market <- MCMarkets
    ConfirmBars = 2
    First5m <- MCFirst5m
    Later5m <- MCLater5m
    MaxBars = 5
    Width = {50, 300, 800}
    Swings <- MCSwings
    Strength = {0, 100}
    Quality = {60, 68, 95}
    Price <- MCPrice
    Close1m = {0, 40, 100}
    Event = {e1, e2}
    Reachable = {e1}
    Limit = 1
    MaxBackoff = 2
    Late = 1
    MaxCrashes = 1
INVARIANTS SetupsSafe SentIsReceived
PROPERTIES MarketDataSafe RegimeIsSteady SpentIsCleared ExposureIsStreamed EventIsSent
CHECK_DEADLOCK FALSE

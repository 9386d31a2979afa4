SPECIFICATION Spec
CONSTANTS
    Markets = {"m"}
    Watchlist = {"m"}
    Figures <- ThinAndWide
    MaxClock = 2
    MaxStored = 2
    MaxFailures = 2
    NoMarket = NoMarket
    Tickers = {"m"}
    DemoMarkets = {"m"}
    Keys = {"k"}
    TickerOf <- OneTicker
    Engines = {e1, e2}
    Workers = {w1, w2}
    MaxEngineRuns = 2
    Endpoints = 2
    PollLimit = 1
    Attempts = 2
    MaxMishaps = 1
    NoKey = NoKey
    NoSignal = NoSignal
    e1 = e1
    e2 = e2
    w1 = w1
    w2 = w2
INVARIANTS TypeOK SubscriptionsReplayed HistoryIsSound AtMostOncePerWindow SendsAreCurrent
PROPERTIES StoppedIsFinal FeedRecovers
CHECK_DEADLOCK FALSE

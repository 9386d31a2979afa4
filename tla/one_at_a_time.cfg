SPECIFICATION OneAtATimeSpec
CONSTANTS
    Orders = {o1}
    Requests = {r1, r2, r3, r4}
    MaxAttempts = 2
    MaxConcurrent = 1
    Environments <- LiveOrPaper
    ExchangeDedupes = TRUE
    NoOrder = NoOrder
    NoPlacement = NoPlacement
    Tickers = {"m", "n"}
    DemoMarkets = {"m", "n"}
    Keys = {"k", "l"}
    TickerOf <- TwoTickers
    Engines = {e1}
    Workers = {w1}
    MaxEngineRuns = 2
    Endpoints = 1
    PollLimit = 1
    Attempts = 1
    MaxMishaps = 1
    NoKey = NoKey
    NoSignal = NoSignal
    o1 = o1
    r1 = r1
    r2 = r2
    r3 = r3
    r4 = r4
    e1 = e1
    w1 = w1
PROPERTIES LifecycleFollowsTable ApprovedAtPost RequestsEnd AlertsAnswered
CHECK_DEADLOCK FALSE

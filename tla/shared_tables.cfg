SPECIFICATION Spec
CONSTANTS
    Orders = {1, 2}
    Markets = {"m"}
    MarketOf <- OneMarketOf
    CountOf <- Counts
    PriceOf <- Prices
    DefaultPrice = 2
    FillPrices = {1, 2}
    Catalogued = {}
    MarketLimit = 2
    CategoryLimit = 2
    PositionLimit = 2
    LossLimit = 1
    Loss = 1
    Sessions = {s1, s2}
    MarketStates <- PoorMarket
    MaxSnapshots = 1
    MaxApplied = 2
    MaxPaper = 3
    NoOrder = NoOrder
    NoUpdate = NoUpdate
    s1 = s1
    s2 = s2
    Providers <- TwoProviders
    Forecasters = {"p", "q"}
    Ids = {"x"}
    Targets = {"t", "u"}
    Similar <- Resembling
    Runs = {r1, r2}
    MaxRuns = 3
    MaxOverrides = 1
    NoRun = NoRun
    NoTarget = NoTarget
    r1 = r1
    r2 = r2
    Tickers = {"m"}
    DemoMarkets = {"m"}
    Keys = {"k"}
    TickerOf <- OneKey
    Engines = {e1, e2}
    MaxEngineRuns = 4
    NoKey = NoKey
    NoSignal = NoSignal
    e1 = e1
    e2 = e2
    Hours = 6
    OvernightStart = 5
    OvernightEnd = 2
    DaytimeConfidence = 62
    OvernightConfidence = 82
    OvernightRisk = 22
    CriticalPriority = 86
    RiskWarning = 72
    MinLiquidity = 40
    MaxSpread = 16
    Observed <- SomeSituations
    Rules <- SomeRules
    Revisions <- SomeRevisions
    Invocations <- SomeInvocations
    MaxDown = 1
INVARIANTS TypeOK BooksMatchFills ExposureWithinLimits PortfolioFollowsBooks RunsDoNotMix OverridesWin OneSignalPerMarket WakesOnlyForGated CriticalGoesOut QuietHoursGoRound  OpportunityAboveMarket PassRulesOutLive
PROPERTIES ClosedStaysClosed DuplicatesStay
SYMMETRY Symmetry
CHECK_DEADLOCK FALSE

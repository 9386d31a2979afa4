SPECIFICATION DeskSpec
CONSTANTS
    Markets = {"m"}
    Watchlist = {"m"}
    Figures <- ThinAndWide
    MaxClock = 2
    MaxStored = 3
    MaxFailures = 2
    NoMarket = NoMarket
    Orders = {1}
    MarketOf <- OneMarketOf
    CountOf <- One
    PriceOf <- One
    DefaultPrice = 1
    FillPrices = {1}
    Catalogued = {}
    MarketLimit = 3
    CategoryLimit = 3
    PositionLimit = 1
    LossLimit = 1
    Loss = 1
    Sessions = {s1}
    MaxApplied = 1
    MaxPaper = 1
    NoOrder = NoOrder
    NoUpdate = NoUpdate
    s1 = s1
INVARIANTS PreviewsAnswer
CHECK_DEADLOCK FALSE

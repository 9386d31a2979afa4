SPECIFICATION StreamSpec
CONSTANTS
    Markets = {"m"}
    Watchlist = {"m"}
    Figures <- ThinAndWide
    MaxClock = 1
    MaxStored = 1
    MaxFailures = 1
    NoMarket = NoMarket
PROPERTIES ReconnectsItself
CHECK_DEADLOCK FALSE

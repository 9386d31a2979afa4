\* Two signals, one of them not for automation, one policy; the loop alone.
SPECIFICATION FairSpec
CONSTANTS
    Signals = {1, 2}
    AutoEligible = {2}
    Policies = {p1}
    PolicySettings <- AllSettings
    Evaluators = {loop}
    Loop = loop
    ScanLimit = 2
    FailureThreshold = 2
    MaxOrders = 1
    MaxAttempts = 2
    ExchangeDedupes = TRUE
    MaxDisturbances = 4
    Configurations <- Modes
    NoPolicy = NoPolicy
    NoSignal = NoSignal
    p1 = p1
    loop = loop
CHECK_DEADLOCK FALSE
PROPERTY StopDrains

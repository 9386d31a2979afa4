\* The switch is engaged between the guards and the execution.
SPECIFICATION Spec
CONSTANTS
    Signals = {1}
    AutoEligible = {1}
    Policies = {p1}
    PolicySettings <- LiveSettings
    Evaluators = {loop, api}
    Loop = loop
    ScanLimit = 1
    FailureThreshold = 1
    MaxOrders = 0
    MaxAttempts = 2
    ExchangeDedupes = FALSE
    MaxDisturbances = 2
    Configurations <- Trading
    NoPolicy = NoPolicy
    NoSignal = NoSignal
    p1 = p1
    loop = loop
    api = api
PROPERTY KillSwitchBlocks
CHECK_DEADLOCK FALSE

\* One signal, the loop and an API evaluation overlapping, one policy.
SPECIFICATION Spec
CONSTANTS
    Signals = {1}
    AutoEligible = {1}
    Policies = {p1}
    PolicySettings <- EnabledSettings
    Evaluators = {loop, api}
    Loop = loop
    ScanLimit = 1
    FailureThreshold = 1
    MaxOrders = 0
    MaxAttempts = 1
    ExchangeDedupes = FALSE
    MaxDisturbances = 2
    Configurations <- Trading
    NoPolicy = NoPolicy
    NoSignal = NoSignal
    p1 = p1
    loop = loop
    api = api
INVARIANTS TypeOK RunsBounded OnePlacementPerKey RunsTellTheTruth
PROPERTIES StopHolds ImplementsGate
CHECK_DEADLOCK FALSE

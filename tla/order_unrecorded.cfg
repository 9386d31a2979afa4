\* An accepted order whose answer is lost.
SPECIFICATION FairSpec
CONSTANTS
    Orders = {o1}
    Requests = {r1, r2, r3}
    MaxAttempts = 1
    MaxConcurrent = 1
    Environments <- LiveOnly
    ExchangeDedupes = TRUE
    NoOrder = NoOrder
    NoPlacement = NoPlacement
    o1 = o1
    r1 = r1
    r2 = r2
    r3 = r3
PROPERTIES EventuallyRecorded

\* Approve, reject and submit race on one order.
SPECIFICATION Spec
CONSTANTS
    Orders = {o1}
    Requests = {r1, r2, r3, r4, r5}
    MaxAttempts = 1
    MaxConcurrent = 3
    Environments <- LiveOnly
    ExchangeDedupes = TRUE
    NoOrder = NoOrder
    NoPlacement = NoPlacement
    o1 = o1
    r1 = r1
    r2 = r2
    r3 = r3
    r4 = r4
    r5 = r5
SYMMETRY RequestSymmetry
PROPERTIES LifecycleFollowsTable

\* Five requests over one order, three at a time; the exchange takes every POST.
SPECIFICATION Spec
CONSTANTS
    Orders = {o1}
    Requests = {r1, r2, r3, r4, r5}
    MaxAttempts = 2
    MaxConcurrent = 3
    Environments <- LiveToPaper
    ExchangeDedupes = FALSE
    NoOrder = NoOrder
    NoPlacement = NoPlacement
    o1 = o1
    r1 = r1
    r2 = r2
    r3 = r3
    r4 = r4
    r5 = r5
SYMMETRY RequestSymmetry
INVARIANTS TypeOK PlacedOnlyAfterApproval SubmissionIsBacked
PROPERTIES ImplementsGate LiveOnlyPosts OverrideOutlivesRestarts

SPECIFICATION Spec
CONSTANTS
    n1 = n1
    r1 = r1
    r2 = r2
    j1 = j1
    j2 = j2
    j3 = j3
    None = None
    Replenishments <- OneReplenishment
    Requests <- OneHandler
    Jobs <- TwoJobs
    Times <- Two
    Starts <- NowOrLater
    Expiries <- NoExpiry
    Attempts = 2
    PaymentRows = 2
    Kinds <- AllKinds
    Faults = TRUE
    Stalls = TRUE
CONSTRAINT NoStallsOrOneTaken
SYMMETRY Symmetry
INVARIANTS
    OrdersArePaid
    PaymentsCovered
    ChargedPerAttempt
CHECK_DEADLOCK FALSE

SPECIFICATION FairSpec
CONSTANTS
    n1 = n1
    r1 = r1
    r2 = r2
    j1 = j1
    j2 = j2
    j3 = j3
    None = None
    Replenishments <- OneReplenishment
    Requests <- OneHandler
    Jobs <- TwoJobs
    Times <- Two
    Starts <- Now
    Expiries <- NearExpiry
    Attempts = 2
    PaymentRows = 2
    Kinds <- AllKinds
    Faults = FALSE
    Stalls = FALSE
INVARIANTS
    StoppedStays
PROPERTY
    ChargesBecomeOrders
CHECK_DEADLOCK FALSE

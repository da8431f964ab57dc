SPECIFICATION Spec
CONSTANTS
    n1 = n1
    r1 = r1
    r2 = r2
    j1 = j1
    j2 = j2
    j3 = j3
    None = None
    Replenishments <- OneReplenishment
    Requests <- OneHandler
    Jobs <- ThreeJobs
    Times <- Two
    Starts <- Now
    Expiries <- NoExpiry
    Attempts = 2
    PaymentRows = 4
    Kinds <- CancelAndResume
    Faults = FALSE
    Stalls = FALSE
PROPERTY
    NoPaymentAfterFinish
CHECK_DEADLOCK FALSE

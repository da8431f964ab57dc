SPECIFICATION FairSpec
CONSTANTS
    c1 = c1
    c2 = c2
    r1 = r1
    r2 = r2
    j1 = j1
    j2 = j2
    None = None
    Customers <- OneCustomer
    Types <- OneType
    Requests <- OneHandler
    Jobs <- TwoJobs
    Page = 2
    Subscriptions = 2
    PriceChanges = 2
    Cheaper <- Higher
    Prorated = 2
    Charges <- Part
    Faults = FALSE
PROPERTY
    UnpaidMembershipsEnd
CHECK_DEADLOCK FALSE

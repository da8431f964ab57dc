SPECIFICATION Spec
CONSTANTS
    c1 = c1
    c2 = c2
    r1 = r1
    r2 = r2
    j1 = j1
    j2 = j2
    None = None
    Customers <- TwoCustomers
    Types <- OneType
    Requests <- TwoHandlers
    Jobs <- TwoJobs
    Page = 1
    Subscriptions = 3
    PriceChanges = 2
    Cheaper <- LowerOrHigher
    Prorated = 2
    Charges <- Part
    Faults = TRUE
CONSTRAINT AloneOrOneOfEach
SYMMETRY Symmetry
INVARIANTS
    TypeOK
    MembershipBacked
    TrialOnce
    PaidBackOnce
    JobsCanBeConfirmed
    NoneAtAnOldPrice
CHECK_DEADLOCK FALSE

SPECIFICATION AloneSpec
CONSTANTS
    o1 = o1
    q1 = q1
    q2 = q2
    r1 = r1
    r2 = r2
    c1 = c1
    None = None
    Orders <- OneOrder
    Requests <- TwoHandlers
    Rows <- TwoRows
    Couriers <- OneCourier
    Total = 5
    Amounts <- SomeAmounts
    Items = 2
    ProofImages <- WithOrWithoutImage
    Faults = TRUE
SYMMETRY Symmetry
INVARIANTS
    TypeOK
    RefundStatusBacked
    ApprovedRowsBacked
    ClaimsFollowDelivery
    PurchasesLostToRefunds
    OneRowPerOrder
    LedgerAgrees
PROPERTIES
    KeepsPromise
    FollowsLifecycle
CHECK_DEADLOCK FALSE

SPECIFICATION FairSpec
CONSTANTS
    o1 = o1
    q1 = q1
    q2 = q2
    r1 = r1
    r2 = r2
    c1 = c1
    None = None
    Orders <- OneOrder
    Requests <- TwoHandlers
    Rows <- OneRow
    Couriers <- OneCourier
    Total = 5
    Amounts <- OneAmount
    Items = 2
    ProofImages <- WithImage
    Faults = FALSE
PROPERTIES
    RefundsAreRecorded
    ApprovalsSettle
CHECK_DEADLOCK FALSE

SPECIFICATION BoundedSpec
CONSTANTS
    u1 = u1
    r1 = r1
    r2 = r2
    s1 = s1
    s2 = s2
    None = None
    Users <- OneUser
    Requests <- TwoHandlers
    Customers <- TwoCustomers
    Links = 2
    Life = 1
    End = 1
    Faults = TRUE
SYMMETRY Symmetry
INVARIANTS
    TypeOK
    TokensAreSpent
    CustomersCanPay
    InOrder
CHECK_DEADLOCK FALSE

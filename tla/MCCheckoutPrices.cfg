SPECIFICATION Spec
CONSTANTS
    a = a
    r1 = r1
    r2 = r2
    i1 = i1
    i2 = i2
    p1 = p1
    p2 = p2
    p3 = p3
    None = None
    Customers <- OneCustomer
    Requests <- OneHandler
    Intents <- OneIntent
    Products <- Nothing
    LineCount = 2
    Copies = 1
    Welcome = 100
    ProductTotal = 30
    Spends <- Nothing
    Tiers <- Nothing
    Quantities <- One
    Reward = 20
    Promotions = 0
    CartItemLimit = 1
    Additions = 0
    Faults = FALSE
INVARIANT
    PricesMatch

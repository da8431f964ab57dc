SPECIFICATION Spec
CONSTANTS
    a = a
    r1 = r1
    r2 = r2
    i1 = i1
    i2 = i2
    p1 = p1
    p2 = p2
    p3 = p3
    None = None
    Customers <- OneCustomer
    Requests <- TwoHandlers
    Intents <- TwoIntents
    Products <- ThreeProducts
    LineCount = 1
    Copies = 1
    Welcome = 100
    ProductTotal = 30
    Spends <- All
    Tiers <- FreeAndPremium
    Quantities <- One
    Reward = 20
    Promotions = 1
    CartItemLimit = 1
    Additions = 2
    Faults = TRUE
CONSTRAINT PointsOrCarts
SYMMETRY Symmetry
INVARIANTS
    PointsWithinHistory
    PointsNeverNegative
    SalesAreCharged
    CartNotInflated
    CartOverflowBounded

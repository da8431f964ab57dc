SPECIFICATION SceneSpec
CONSTANTS
    c1 = c1
    c2 = c2
    a1 = a1
    r1 = r1
    r2 = r2
    g1 = g1
    m1 = m1
    m2 = m2
    j1 = j1
    j2 = j2
    None = None
    Customers <- TwoCustomers
    Agents <- OneAgent
    Users <- Everybody
    Groups <- OneGroup
    Rooms <- TwoRooms
    Jobs <- TwoJobs
    Requests <- TwoHandlers
    Tickets = 2
    Connects = 2
    Deaths = 1
SYMMETRY Symmetry
INVARIANTS
    TypeOK
    NothingIsForgotten
    InOrder
CHECK_DEADLOCK FALSE

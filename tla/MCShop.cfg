SPECIFICATION SceneSpec
CONSTANTS
    r1 = r1
    r2 = r2
    k1 = k1
    p1 = p1
    p2 = p2
    j1 = j1
    n1 = n1
    n2 = n2
    u1 = u1
    x1 = x1
    t1 = t1
    q1 = q1
    w1 = w1
    w2 = w2
    l1 = l1
    b1 = b1
    o1 = o1
    i1 = i1
    i2 = i2
    f1 = f1
    None = None
    Platform = Platform
    Requests <- TwoHandlers
    Categories <- OneCategory
    Products <- TwoProducts
    Jobs <- OneJob
    Names <- TwoNames
    Authors <- OneAuthor
    Ratings <- OneRating
    Things <- OneThing
    Notices <- OneNotice
    Countries <- TwoCountries
    Cities <- OneCity
    Places <- TwoNames
    Loads <- SomeLoads
    Buyers <- OneBuyer
    Orders <- OneOrder
    Items <- TwoItems
    CategoryOf <- OneOfEach
    Files <- OneFile
    Horizon = 2
    MaxViews = 2
    Threshold = 2
    MaxRate = 2
    Deaths = 1
    CategoryPage = 1
SYMMETRY Symmetry
INVARIANTS
    TypeOK
    AnswersAreTrue
    FiguresAreSound
    InOrder
CHECK_DEADLOCK FALSE

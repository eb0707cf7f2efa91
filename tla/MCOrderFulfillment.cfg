SPECIFICATION FairSpec
CONSTANTS
    o1 = o1
    o2 = o2
    o3 = o3
    a1 = a1
    a2 = a2
    a3 = a3
    g1 = g1
    s1 = s1
    x1 = x1
    x2 = x2
    m1 = m1
    Orders = {o1}
    NoOrder = NoOrder
    Access = {a1, a2, a3}
    Goods = {g1}
    Services = {s1}
    OrderOf <- OneOrder
    Admins = {x1, x2}
    Merchants = {m1}
    BatchSize = 2
    MaxSuspensions = 2
    MaxRevision = 3
INVARIANTS
    TypeOK
    NothingForgotten
PROPERTIES
    DecidedOnWhatWasShown
    NothingOpensSuspended
    ReleaseEnds
CHECK_DEADLOCK FALSE

SPECIFICATION FairSpec
CONSTANTS
    p1 = p1
    p2 = p2
    a = a
    b = b
    Payments = {p1, p2}
    Products = {a, b}
    Cart <- SharedCart
    InitialStock <- OneOfEach
    TTL = 1
    CleanupLimit = 2
    Recoverable = {p1}
    LocalManual = FALSE
    MaxNow = 1
    MaxStock = 1
    MaxEdits = 1
    MaxCuts = 1
INVARIANTS
    TypeOK
    StockConserved
    LedgersAgree
PROPERTIES
    SalesFollowLedger
    HeldPaymentKept
    PaidNeverDowngraded
    ExpiredRowReleased
CHECK_DEADLOCK FALSE

SPECIFICATION Spec
CONSTANTS
    r1 = r1
    r2 = r2
    x = x
    o1 = o1
    o2 = o2
    Requests = {r1, r2}
    Outside = {x}
    Operators = {o1}
    Amount <- OutsideTwice
    Gross = 3
    Notified = {r1, r2, x}
    Serialless = {r2}
    Repeated = {x}
    Confirmations = 2
    Window = 1
    Interval = 1
    MaxLag = 2
    MaxNow = 2
INVARIANTS
    TypeOK
    TotalExplained
    ReservationExclusive
    NamedRefundBookedOnce
PROPERTIES
    AccountSpec
CHECK_DEADLOCK FALSE

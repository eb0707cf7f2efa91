SPECIFICATION Spec
CONSTANTS
    r1 = r1
    r2 = r2
    x = x
    o1 = o1
    o2 = o2
    Requests = {r1, r2}
    Outside = {}
    Operators = {o1}
    Amount <- OneEach
    Gross = 3
    Notified = {r1}
    Serialless = {}
    Repeated = {}
    Confirmations = 2
    Window = 1
    Interval = 1
    MaxLag = 2
    MaxNow = 1
INVARIANTS
    BookedWithinProvider
CHECK_DEADLOCK FALSE

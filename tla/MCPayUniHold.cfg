SPECIFICATION Spec
CONSTANTS
    r1 = r1
    r2 = r2
    x = x
    o1 = o1
    o2 = o2
    Requests = {r1, r2}
    Outside = {x}
    Operators = {o1, o2}
    Amount <- OneEach
    Gross = 2
    Notified = {}
    Serialless = {}
    Repeated = {}
    Confirmations = 2
    Window = 1
    Interval = 1
    MaxLag = 2
    MaxNow = 2
SYMMETRY Symmetry
INVARIANTS
    ReleasedHoldNeverMoved
    BookedWithinProvider
CHECK_DEADLOCK FALSE

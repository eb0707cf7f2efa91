SPECIFICATION Spec
CONSTANTS
    a = a
    b = b
    p1 = p1
    p2 = p2
    Off = Off
    Last = 2
    Configs = {a, b}
    Planners = {p1, p2}
    BatchSize = 1
    MaxJobAttempts = 2
    MaxEdits = 3
INVARIANTS
    NobodySkipped
CHECK_DEADLOCK FALSE

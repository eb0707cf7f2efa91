SPECIFICATION FairSpec
CONSTANTS
    a = a
    b = b
    p1 = p1
    p2 = p2
    Off = Off
    Last = 2
    Configs = {a}
    Planners = {p1}
    BatchSize = 1
    MaxJobAttempts = 2
    MaxEdits = 3
INVARIANTS
    TypeOK
    NobodySkipped
PROPERTIES
    OldJobCreatesNothing
    ClaimedJobReturns
CHECK_DEADLOCK FALSE

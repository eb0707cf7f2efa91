SPECIFICATION FairSpec
CONSTANTS
    c1 = c1
    c2 = c2
    j1 = j1
    j2 = j2
    Callbacks = {c1, c2}
    Jobs = {j1, j2}
    MaxRetries = 2
    MaxDeliveries = 3
INVARIANTS
    TypeOK
    AppliedOnce
    OneOwner
PROPERTIES
    ClaimedEventSettles
CHECK_DEADLOCK FALSE

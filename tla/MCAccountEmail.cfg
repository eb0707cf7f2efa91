SPECIFICATION Spec
CONSTANTS
    owner = owner
    newcomer = newcomer
    a = a
    b = b
    r1 = r1
    r2 = r2
    r3 = r3
    NoAccount = NoAccount
    Users = {owner, newcomer}
    Addresses = {a, b}
    Requests = {r1, r2, r3}
    Owner <- OnesOwn
    FirstEmail <- OneAccount
    ChangeTTL = 1
    RevertTTL = 2
    LockTime = 1
    MaxLag = 1
    MaxNow = 3
SYMMETRY Symmetry
INVARIANTS
    TypeOK
    RevertNeverBlocked
    EndedByEarlierLink
PROPERTIES
    LockdownHolds
CHECK_DEADLOCK FALSE

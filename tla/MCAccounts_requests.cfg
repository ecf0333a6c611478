CONSTANTS
    n = n
    m = m
    lower = lower
    r1 = r1
    r2 = r2
    address = address
    fold <- MCFold
    User = {n, m}
    s = s
    t = t
    Password = {s, t}
    Request = {r1, r2}
    free <- MCFree
    base = 1
    max = 2
    forget = 2
    sweepEvery = 1
    sessionAbsolute = 2
    sessionIdle = 1
    MaxCred = 2
    MaxRequests = 3
    MaxTime = 3
    MaxCrashes = 1
SPECIFICATION Spec
SYMMETRY Symmetry
INVARIANTS TypeOK RevokedStaysRevoked DisableHolds DeletedNotRevived WaitServed ThrottleHolds
CHECK_DEADLOCK FALSE

CONSTANTS
    a = a
    b = b
    u = u
    r1 = r1
    r2 = r2
    Name = {a, b}
    Subject = {u}
    Request = {r1, r2}
    ownerCaps <- MCOwnerCaps
    Edits <- MCEdits
    Updates <- MCUpdates
    MaxRepos = 2
    MaxOps = 4
    MaxLookups = 2
    MaxEdits = 1
    MaxFaults = 2
SPECIFICATION Spec
SYMMETRY Symmetry
INVARIANTS TypeOK ServedWhole DeletedStaysDeleted PolicyCurrent
CHECK_DEADLOCK FALSE

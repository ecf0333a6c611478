CONSTANTS
    c1 = c1
    c2 = c2
    h1 = h1
    h2 = h2
    Free = Free
    Hub = Hub
    Client = {c1, c2}
    Proc = {h1, h2}
    Forces = {FALSE, TRUE}
    MaxCommit = 3
    MaxRemote = 3
SPECIFICATION Spec
SYMMETRY Symmetry
INVARIANTS TypeOK RefsClosed TrackingKept
PROPERTIES CompareAndSwap
CHECK_DEADLOCK FALSE

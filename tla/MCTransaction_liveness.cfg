CONSTANTS
    p1 = p1
    p2 = p2
    Free = Free
    Proc = {p1, p2}
    Commands = {"unborn", "receivePack"}
    MaxTxn = 2
SPECIFICATION FairSpec
INVARIANTS OneOpenUpdate NoCircularWait
PROPERTIES CommandsReturn
CHECK_DEADLOCK FALSE

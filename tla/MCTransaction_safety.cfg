CONSTANTS
    p1 = p1
    p2 = p2
    Free = Free
    Proc = {p1, p2}
    Commands = {"switch", "fastForward", "merge", "upToDate", "conflict", "settled",
                "unborn", "abort", "undo", "receivePack", "commit"}
    MaxTxn = 1
SPECIFICATION Spec
SYMMETRY Symmetry
INVARIANTS TypeOK LockInv JournalNeverAhead
CHECK_DEADLOCK FALSE

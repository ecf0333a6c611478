CONSTANTS
    dir = dir
    rootA = rootA
    rootB = rootB
    f = f
    g = g
    Tree = {dir, rootA}
    Blob = {f, g}
    Entries <- MCEntries
    MaxCommit = 6
SPECIFICATION Spec
INVARIANTS MergeBaseBest
CHECK_DEADLOCK FALSE

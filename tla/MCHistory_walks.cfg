CONSTANTS
    dir = dir
    rootA = rootA
    rootB = rootB
    f = f
    g = g
    Tree = {dir, rootA, rootB}
    Blob = {f, g}
    Entries <- MCEntries
    MaxCommit = 4
SPECIFICATION Spec
INVARIANTS MergeBaseSound PackComplete PackMinimal
CHECK_DEADLOCK FALSE

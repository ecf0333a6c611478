CONSTANTS
    small = small
    large = large
    f = f
    g = g
    Absent = Absent
    Empty = Empty
    Torn = Torn
    main = main
    sub = sub
    p1 = p1
    p2 = p2
    Tree = {small, large}
    Blob = {f, g}
    Entries <- MCEntries
    Branches = {main, sub}
    Main = main
    Nested = {sub}
    Readers = {p1, p2}
    MaxCommit = 2
    MaxCommands = 3
    MaxCollections = 1
    MaxCrashes = 1
SPECIFICATION Spec
SYMMETRY Symmetry
INVARIANTS GcSpares HistoryWhole VerifySound
CHECK_DEADLOCK FALSE

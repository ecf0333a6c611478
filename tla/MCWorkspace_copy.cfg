SPECIFICATION Spec
CONSTANTS
    p = p
    q = q
    main = main
    side = side
    old = old
    None = None
    Path = {p, q}
    Branch = {main, side}
    Forks <- AllForks
    UserBlob <- Mine
    Policies <- SomePolicies
    Engine <- MCEngine
    Rendered <- MCRendered
    Union <- MCUnion
    Legacy <- MCLegacy
    Picked <- MCPicked
    Marked <- MCMarked
    Binary <- MCBinary
    MaxCommands = 3
    MaxEdits = 1
    MaxFaults = 1
    MaxCommit = 5
CHECK_DEADLOCK FALSE
INVARIANTS
    TypeOK
    NothingDangles
    MineKept
PROPERTIES
    UndoGoesBack
    AbortSpares
    AbortExact
    MergeTakesBothSides

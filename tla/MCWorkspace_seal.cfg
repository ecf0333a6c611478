SPECIFICATION Spec
CONSTANTS
    p = p
    q = q
    main = main
    side = side
    old = old
    None = None
    Path = {p, q}
    Branch = {main, side, old}
    Forks <- SealForks
    UserBlob <- Mine
    Policies <- ManualOnly
    Engine <- MCEngine
    Rendered <- MCRendered
    Union <- MCUnion
    Legacy <- MCLegacy
    Picked <- MCPicked
    Marked <- MCMarked
    Binary <- MCBinary
    MaxCommands = 3
    MaxEdits = 0
    MaxFaults = 0
    MaxCommit = 6
CHECK_DEADLOCK FALSE
INVARIANT
    NoMarkersSealed

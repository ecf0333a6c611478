SPECIFICATION Spec
CONSTANTS
    Token = {"a", "b"}
    MaxLines = 3
    Key = {"k", "l"}
    Scalar = {"1", "2"}
    Name = {"d", "e"}
    MaxDepth = 3
INVARIANTS
    DiffsExact
    PicksLoseNothing
    MarkersReadBack
    StrategiesAgree
    CleanMergesAgree
    CleanTreeHasBothSides
    PatternsMean

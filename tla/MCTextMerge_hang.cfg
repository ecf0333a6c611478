SPECIFICATION Spec
CONSTANTS
    Token = {"a", "b"}
    MaxLines = 2
    Key = {"k", "l"}
    Scalar = {"1", "2"}
    Name = {"d", "e"}
    MaxDepth = 1
INVARIANT LoopAdvances

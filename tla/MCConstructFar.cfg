\* No tree, and paths of INF8 - 2 edges and more.
CONSTANTS
    Vertices = 4
    Shape = "all"
    NumV = 4
    Graphs <- GraphFamily
    K = 0
    INF8 = 4
    Byte = 8
    Word = 64
    MaskBits = 1
    Uninit = Uninit

SPECIFICATION Spec

INVARIANT ConnectedAnswered

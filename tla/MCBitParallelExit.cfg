\* A path longer than INF8.
CONSTANTS
    Vertices = 2
    Shape = "paths"
    NumV = 6
    Graphs <- GraphFamily
    K = 1
    INF8 = 4
    Byte = 16
    Word = 64
    MaskBits = 2
    Uninit = Uninit

SPECIFICATION BitParallelSpec

INVARIANT ConstructReturns

\* One tree: its root is queried about itself and its neighbours.
CONSTANTS
    Vertices = 4
    Shape = "all"
    NumV = 4
    Graphs <- GraphFamily
    K = 1
    INF8 = 8
    Byte = 32
    Word = 1024
    MaskBits = 1
    Uninit = Uninit

SPECIFICATION Spec

INVARIANT AnswersExact

\* From the input to the answers, without trees.
CONSTANTS
    NumV = 4
    Graphs <- AnyGraph
    K = 0
    INF8 = 4
    Byte = 8
    Word = 64
    MaskBits = 1
    Uninit = Uninit
    Inputs <- SomeInputs
    Threads = {t1, t2}
    Samples = 2
    Jitter = 2

SPECIFICATION LifeSpec

INVARIANTS
    GraphIsFile
    ScoredInside
    RankingComplete
    OrderIsPermutation

PROPERTY InputAnswered

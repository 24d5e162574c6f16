\* Three hubs and two trees.
CONSTANTS
    NumV = 3
    Graphs <- MCGraphs
    K = 2
    INF8 = 6
    Byte = 16
    Word = 64
    MaskBits = 1
    Uninit = Uninit
    TreeDistances = {0, 2, 6}
    HubDistances = {0, 3}

SPECIFICATION MCQuerySpec

INVARIANTS
    MergeInv
    MergeInBounds
    MergeExact

PROPERTY QueryReturns

\* Every graph of four vertices, with self-loops at two of them, beside two more vertices,
\* or with one in front and one behind; trees enough that the later ones meet used
\* vertices or find no root.  A third neighbour does not fit the masks.  The last vertex
\* may be at distance INF8, and in the queue more often than there is room for.
CONSTANTS
    Vertices = 4
    Shape = "tailed"
    NumV = 6
    Graphs <- GraphFamily
    K = 4
    INF8 = 3
    Byte = 16
    Word = 64
    MaskBits = 2
    Uninit = Uninit

SPECIFICATION BitParallelSpec

INVARIANTS
    BitParallelTypeOK
    LevelsExact
    BuffersFit
    UninitUnread
    TreesHandedOver
    TreeInv
    BuffersInv

PROPERTY TreesEnd

\* Every graph with five vertices, and one tree: one without a root, and for graphs of
\* the first three vertices any that keeps the promises of Handover, not only those the
\* bit-parallel phase builds.  INF8 is beyond every distance.
CONSTANTS
    Vertices = 5
    Shape = "all"
    NumV = 5
    Treed = 3
    Graphs <- GraphFamily
    K = 1
    INF8 = 8
    Byte = 32
    Word = 1024
    MaskBits = 1
    Uninit = Uninit

SPECIFICATION MCPrunedSpec

INVARIANTS
    PrunedTypeOK
    LabelsExact
    HubsAscending
    ArraysClean
    QueueFits
    LabelsMinimal
    PrefixAnswered
    QueryExact

PROPERTY Termination

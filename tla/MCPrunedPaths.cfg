\* Paths longer than the limit 2 * INF8 of the search; a uint8_t holds exactly the
\* depths below that limit.
CONSTANTS
    Vertices = 2
    Shape = "paths"
    NumV = 10
    Treed = 0
    Graphs <- GraphFamily
    K = 0
    INF8 = 4
    Byte = 8
    Word = 64
    MaskBits = 2
    Uninit = Uninit

SPECIFICATION PrunedSpec

INVARIANTS
    SearchInv
    AnswerInv
    LabelsSound
    QueryExact

\* Two trees and then pruned labelling; each tree takes a root and at most one of
\* its neighbours, so roots remain for pruned labelling.
CONSTANTS
    Vertices = 5
    Shape = "all"
    NumV = 5
    Graphs <- GraphFamily
    K = 2
    INF8 = 8
    Byte = 32
    Word = 1024
    MaskBits = 1
    Uninit = Uninit

SPECIFICATION Spec

INVARIANTS
    LabelsExact
    BuildInv

PROPERTY ImplementsOracle

------------------------------ MODULE MCGraphs ------------------------------
(***************************************************************************)
(* The graphs the instances for TLC work on: every graph of a few          *)
(* vertices, alone or beside others, and paths through all vertices.       *)
(***************************************************************************)
EXTENDS PLLGraph

CONSTANTS
    Vertices,  \* the number of vertices of a graph that is arbitrary
    Shape      \* "all", "paths" or "tailed"

\* The adjacency function of a set of edges; an edge {v} is a self-loop.
FromEdges(E) == [v \in Vertex |-> {w \in Vertex : {v, w} \in E}]

Links(S) == {{v, w} : v, w \in S} \ {{v} : v \in S}

\* Every graph with an edge, whose edges are among those given.
GraphsOf(edges) == {FromEdges(E) : E \in (SUBSET edges) \ {{}}}

EveryGraph == GraphsOf(Links(0..(Vertices - 1)))

\* A path that visits the vertices in the order of the sequence.
PathGraph(order) == FromEdges({{order[i], order[i + 1]} : i \in 1..(NumV - 1)})

\* Labels ascending along the path, from the middle outwards, and alternating
\* between its two halves.
Ascending == [i \in 1..NumV |-> i - 1]

Outwards ==
    LET half == NumV \div 2
    IN  [i \in 1..NumV |-> IF i <= half THEN 2 * (half - i) + 1 ELSE 2 * (i - half - 1)]

Alternating == [i \in 1..NumV |-> IF i % 2 = 1 THEN i \div 2 ELSE (NumV + i - 1) \div 2]

Paths == {PathGraph(Ascending), PathGraph(Outwards), PathGraph(Alternating)}

\* Every graph of vertices from the first to the last, with and without self-loops at
\* two of them, and beside it the edges given.
Beside(first, last, edges) ==
    {FromEdges(E \cup edges) : E \in SUBSET (Links(first..last) \cup {{first}, {first + 1}})}

\* An arbitrary graph with an edge beside it; or with a first vertex in front and a
\* last one behind, so that the distances from the first vertex grow; the last one has
\* one edge or many.
Tailed ==
    LET many == {{v, Vertices + 1} : v \in 2..Vertices}
    IN  Beside(0, Vertices - 1, {{Vertices, Vertices + 1}})
            \cup Beside(1, Vertices, {{0, 1}, {Vertices, Vertices + 1}})
            \cup Beside(1, Vertices, {{0, 1}} \cup many)

GraphFamily ==
    CASE Shape = "all" -> EveryGraph
      [] Shape = "paths" -> Paths
      [] Shape = "tailed" -> Tailed
=============================================================================

--------------------------- MODULE NetworKitGraph ---------------------------
(***************************************************************************)
(* Class Graph of NetworKit, as far as the programs use it: unweighted     *)
(* graphs that only grow.  Nodes are numbered from 0; out[u] and in[u] are *)
(* the adjacency arrays of node u, and a graph that is not directed has no *)
(* use for in.                                                             *)
(***************************************************************************)
EXTENDS Integers, SequencesExt

\* A graph of n nodes without edges.
EmptyGraph(n, directed) ==
    LET none == [u \in 0..(n - 1) |-> <<>>]
    IN  [directed |-> directed, out |-> none, in |-> none]

NodesOf(G) == DOMAIN G.out

\* addEdge does not ask whether the edge is there already.
AddEdge(G, u, v) ==
    IF G.directed
    THEN [G EXCEPT !.out[u] = Append(@, v), !.in[v] = Append(@, u)]
    ELSE [G EXCEPT !.out = [x \in NodesOf(G) |->
            IF x = u THEN Append(@[x], v)
            ELSE IF x = v THEN Append(@[x], u)
            ELSE @[x]]]

\* hasEdge looks through the shorter of the two arrays the edge would be in.
HasEdge(G, u, v) ==
    IF G.directed /\ Len(G.out[u]) > Len(G.in[v]) THEN Contains(G.in[v], u)
    ELSE IF ~G.directed /\ Len(G.out[u]) > Len(G.out[v]) THEN Contains(G.out[v], u)
    ELSE Contains(G.out[u], v)

\* edges: every edge once, by its place in the adjacency arrays.  An edge that is not
\* directed is in two arrays, and counts in the one of its larger end.
EdgesOf(G) ==
    LET places == UNION {{u} \X DOMAIN G.out[u] : u \in NodesOf(G)}
        counts(p) == G.directed \/ p[1] >= G.out[p[1]][p[2]]
    IN  [p \in {q \in places : counts(q)} |-> <<p[1], G.out[p[1]][p[2]]>>]

(***************************************************************************)
(* The breadth-first searches from a node: Reached(G, u)[d] are the nodes  *)
(* they have visited after level d.                                        *)
(***************************************************************************)
Reached(G, u) ==
    LET reached[d \in 0..Cardinality(NodesOf(G))] ==
            IF d = 0 THEN {u}
            ELSE reached[d - 1] \cup UNION {ToSet(G.out[v]) : v \in reached[d - 1]}
    IN  reached

\* The nodes at distance d from u.
LevelOf(G, u, d) == Reached(G, u)[d] \ (IF d = 0 THEN {} ELSE Reached(G, u)[d - 1])

\* The distance of a node that is reached from u.
DistanceOf(G, u, v) ==
    CHOOSE d \in 0..Cardinality(NodesOf(G)) : v \in LevelOf(G, u, d)

Connects(G, u, v) == v \in Reached(G, u)[Cardinality(NodesOf(G))]
=============================================================================

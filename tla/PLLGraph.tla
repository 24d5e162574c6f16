------------------------------ MODULE PLLGraph ------------------------------
(***************************************************************************)
(* The graphs ConstructIndex works on, after its relabelling: adj[v] is    *)
(* the neighbourhood of vertex v, symmetric because every edge is entered  *)
(* in both directions.  Distances are measured by balls: v is within n     *)
(* edges of u when it lies in the n-th ball around u, the set a            *)
(* breadth-first search has reached after n levels.                        *)
(***************************************************************************)
EXTENDS Integers

CONSTANTS
    NumV,      \* num_v_, the number of vertices
    Graphs     \* the adjacency functions under consideration

Vertex == 0..(NumV - 1)

ASSUME GraphAssumption ==
    /\ NumV \in Nat
    /\ Graphs \subseteq [Vertex -> SUBSET Vertex]
    /\ \A g \in Graphs : \A v, w \in Vertex : w \in g[v] => v \in g[w]

(***************************************************************************)
(* One level of breadth-first search, and the balls it builds.             *)
(***************************************************************************)
Expand(g, S) == S \cup UNION {g[v] : v \in S}

Ball(g, u) ==
    LET ball[n \in Nat] == IF n = 0 THEN {u} ELSE Expand(g, ball[n - 1])
    IN  ball

\* The distance between u and v in g is at most n.
Within(g, u, v, n) == v \in Ball(g, u)[n]

\* The distance between u and v in g is n.
AtDistance(g, u, v, n) ==
    /\ Within(g, u, v, n)
    /\ n > 0 => ~Within(g, u, v, n - 1)
=============================================================================

-------------------------- MODULE MCPrunedLabeling --------------------------
(***************************************************************************)
(* Instances of PrunedLabeling: every graph of a few vertices with a tree  *)
(* for which no root was left, smaller graphs with every tree that keeps   *)
(* the promises of Handover, whether or not BitParallel would build it,    *)
(* and, without a tree, long paths whose length passes INF8.               *)
(***************************************************************************)
EXTENDS PrunedLabeling, MCGraphs

CONSTANT Treed  \* the number of vertices an arbitrary tree may reach

\* The labels a tree may give a vertex: distances up to the largest there is and one
\* that is too large; the root and the vertices the tree does not reach have empty
\* masks, and S^0 lacks the bits of S^{-1}.
Unreached == <<INF8, <<{}, {}>>>>

TreeLabels ==
    {label \in ((0..Treed) \cup {INF8 - 2}) \X (Mask \X Mask) :
        /\ label[2][1] \cap label[2][2] = {}
        /\ label[1] = 0 => label[2] = <<{}, {}>>} \cup {Unreached}

MCPrunedStart ==
    /\ pc = "root"
    /\ adj \in Graphs
    /\ LET reached == IF \A v \in Vertex : v >= Treed => adj[v] = {} THEN 0..(Treed - 1) ELSE {}
       IN  /\ usd \in SUBSET reached
           /\ \E given \in [reached -> [Tree -> TreeLabels]] :
                LET label(v, i) == IF v \in reached THEN given[v][i] ELSE Unreached
                IN  /\ bpspt_d = [v \in Vertex |-> [i \in Tree |-> label(v, i)[1]]]
                    /\ bpspt_s = [v \in Vertex |-> [i \in Tree |-> label(v, i)[2]]]
    /\ Handover
    /\ PrunedInit

MCPrunedSpec ==
    /\ MCPrunedStart
    /\ [][PrunedNext \/ Terminated]_<<indexVars, prunedVars>>
    /\ WF_<<indexVars, prunedVars>>(PrunedNext)
=============================================================================

---------------------------- MODULE MCQueryMerge ----------------------------
(***************************************************************************)
(* Instances of QueryMerge: vertices 0 and 1 are asked about, with every   *)
(* pair of well-formed lists over few distances, and with tree labels that *)
(* make the bounds of two trees fall, rise or wrap.                        *)
(***************************************************************************)
EXTENDS QueryMerge

CONSTANTS
    TreeDistances,  \* the bit-parallel distances to choose from
    HubDistances    \* the distances of normal labels to choose from

\* The list with the hubs of a set and their distances, and the sentinel.
ListOver(hubs, dist) ==
    LET Position(h) == 1 + Cardinality({g \in hubs : g < h})
    IN  [k \in 1..(Cardinality(hubs) + 1) |->
            IF k > Cardinality(hubs) THEN Sentinel
            ELSE LET hub == CHOOSE h \in hubs : Position(h) = k IN <<hub, dist[hub]>>]

Lists == UNION {{ListOver(hubs, dist) : dist \in [hubs -> HubDistances]} : hubs \in SUBSET Vertex}

\* A tree label as the bit-parallel phase stores it: the root and the vertices the
\* tree does not reach have empty masks, and S^0 lacks the bits of S^{-1}.
TreeLabels ==
    {label \in TreeDistances \X (Mask \X Mask) :
        /\ label[2][1] \cap label[2][2] = {}
        /\ label[1] \in {0, INF8} => label[2] = <<{}, {}>>}

SameLabels == {[i \in Tree |-> label] : label \in {l \in TreeLabels : l[1] < INF8}}

TreesOf(labels, k) == [i \in Tree |-> labels[i][k]]

MCQueryInit ==
    /\ pc = "done"
    /\ adj \in Graphs /\ usd = Vertex
    /\ qx = 0 /\ qy = 1
    /\ \E lx, ly \in Lists :
          spt = [v \in Vertex |-> IF v = 0 THEN lx ELSE IF v = 1 THEN ly ELSE <<Sentinel>>]
    /\ \E tx \in [Tree -> TreeLabels], ty \in SameLabels :
          /\ bpspt_d = [v \in Vertex |-> TreesOf(IF v = 0 THEN tx ELSE ty, 1)]
          /\ bpspt_s = [v \in Vertex |-> TreesOf(IF v = 0 THEN tx ELSE ty, 2)]
    /\ QueryStart

MCGraphs == {[v \in Vertex |-> {}]}

MCQuerySpec == MCQueryInit /\ QueryLoops
=============================================================================

----------------------------- MODULE QueryMerge -----------------------------
(***************************************************************************)
(* The two loops of QueryDistance, step by step: the first lowers qd by    *)
(* the bounds of the bit-parallel trees, the second walks the label lists  *)
(* of the two vertices in parallel and lowers qd at every common hub.      *)
(* Neither compares an index with the length of a list: the second relies  *)
(* on ascending hubs and on the sentinel.  Operator QueryDistance of       *)
(* PLLIndex is what the loops are shown to compute.                        *)
(***************************************************************************)
EXTENDS PLLIndex

VARIABLES
    qx, qy,    \* the vertices asked about
    qpc,       \* "trees", "merge" or "answered"
    qi,        \* the tree of the first loop
    qd,        \* the best bound so far, and the result in the end
    i1, i2     \* the positions in the two lists, the first being 1

queryVars == <<qx, qy, qpc, qi, qd, i1, i2>>

QueryStart ==
    /\ qpc = "trees"
    /\ qi = 0
    /\ qd = INF8
    /\ i1 = 1 /\ i2 = 1

QueryInit ==
    /\ pc = "done"
    /\ IndexTypeOK
    /\ spt \in [Vertex -> Seq(Label)]
    /\ \A v \in Vertex : WellFormed(spt[v])
    /\ qx \in Vertex /\ qy \in Vertex
    /\ QueryStart

(***************************************************************************)
(* The loop over the trees.                                                *)
(***************************************************************************)
MutLower(bound) == bound

Lower(bound) == IF bound < qd THEN bound ELSE qd

TryTree ==
    /\ qpc = "trees" /\ qi < K
    /\ qd' = IF Considered(TreeTd(qx, qy, qi), qd) THEN Lower(Corrected(qx, qy, qi)) ELSE qd
    /\ qi' = qi + 1
    /\ UNCHANGED <<indexVars, qx, qy, qpc, i1, i2>>

TreesTried ==
    /\ qpc = "trees" /\ qi = K
    /\ qpc' = "merge"
    /\ UNCHANGED <<indexVars, qx, qy, qi, qd, i1, i2>>

(***************************************************************************)
(* The merge of the lists.                                                 *)
(***************************************************************************)
Hub1 == spt[qx][i1][1]
Hub2 == spt[qy][i2][1]

CommonHub ==
    /\ qpc = "merge"
    /\ Hub1 = Hub2 /\ Hub1 # NumV
    /\ qd' = Lower(spt[qx][i1][2] + spt[qy][i2][2])
    /\ i1' = i1 + 1
    /\ i2' = i2 + 1
    /\ UNCHANGED <<indexVars, qx, qy, qpc, qi>>

MutAdvanceBoth == <<i1 + 1, i2 + 1>>

MutAdvanceFirst == <<i1 + (IF Hub1 < Hub2 THEN 1 ELSE 0), i2>>

\* The list whose hub is the smaller one advances.
AdvanceSmaller == <<i1 + (IF Hub1 < Hub2 THEN 1 ELSE 0), i2 + (IF Hub1 > Hub2 THEN 1 ELSE 0)>>

DifferentHubs ==
    /\ qpc = "merge"
    /\ Hub1 # Hub2
    /\ i1' = AdvanceSmaller[1]
    /\ i2' = AdvanceSmaller[2]
    /\ UNCHANGED <<indexVars, qx, qy, qpc, qi, qd>>

BothSentinels ==
    /\ qpc = "merge"
    /\ Hub1 = Hub2 /\ Hub1 = NumV
    /\ qd' = IF qd >= INF8 - 2 THEN IntMax ELSE qd
    /\ qpc' = "answered"
    /\ UNCHANGED <<indexVars, qx, qy, qi, i1, i2>>

QueryStep == TryTree \/ TreesTried \/ CommonHub \/ DifferentHubs \/ BothSentinels

QueryOver == qpc = "answered" /\ UNCHANGED <<indexVars, queryVars>>

QueryNext == QueryStep \/ QueryOver

QueryLoops ==
    /\ [][QueryNext]_<<indexVars, queryVars>>
    /\ WF_<<indexVars, queryVars>>(QueryStep)

QuerySpec == QueryInit /\ QueryLoops

-----------------------------------------------------------------------------
\* The merge never reads past the end of a list, although it never compares an
\* index with a length.
MergeInBounds == i1 \in 1..Len(spt[qx]) /\ i2 \in 1..Len(spt[qy])

\* The loops compute the smallest bound of a tree or a common hub.
MergeExact == qpc = "answered" => qd = QueryDistance(qx, qy)

\* A query returns.
QueryReturns == <>(qpc = "answered")

-----------------------------------------------------------------------------
(***************************************************************************)
(* The inductive invariant of the loops.                                   *)
(***************************************************************************)
Candidates == {INF8} \cup TreeBounds(qx, qy) \cup HubBounds(spt[qx], spt[qy])

\* No hub that one list has passed is met in the other list any more.
PassedInv ==
    /\ \A k \in 1..(i1 - 1) : spt[qx][k][1] < Hub2
    /\ \A k \in 1..(i2 - 1) : spt[qy][k][1] < Hub1

\* qd is the bound of some tree or hub, and none that the loops have met is smaller.
BestInv ==
    /\ qd \in Candidates
    /\ qd <= INF8
    /\ \A i \in 0..(qi - 1) :
          Considered(TreeTd(qx, qy, i), INF8) => qd <= Corrected(qx, qy, i)
    /\ \A k1 \in 1..(i1 - 1), k2 \in 1..(i2 - 1) :
          spt[qx][k1][1] = spt[qy][k2][1] => qd <= spt[qx][k1][2] + spt[qy][k2][2]

\* The positions are inside the lists, everything passed is accounted for, and the
\* result is read off when both lists are at their sentinel.
MergeInv ==
    /\ IndexTypeOK
    /\ \A v \in Vertex : WellFormed(spt[v])
    /\ qx \in Vertex /\ qy \in Vertex
    /\ qpc \in {"trees", "merge", "answered"}
    /\ qi \in 0..K
    /\ qpc # "trees" => qi = K
    /\ MergeInBounds
    /\ PassedInv
    /\ qpc # "answered" => BestInv
    /\ MergeExact
=============================================================================

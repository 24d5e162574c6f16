------------------------------ MODULE PLLIndex ------------------------------
(***************************************************************************)
(* The index of class PrunedLandmarkLabeling and the query that reads it.  *)
(* Every vertex has K bit-parallel labels (a distance and two masks of     *)
(* root neighbours) and one list of normal labels, pairs of a hub and a    *)
(* distance that end in the sentinel <<NumV, INF8>>.                       *)
(*                                                                         *)
(* Vertices carry the labels ConstructIndex gives them when it orders      *)
(* them: a smaller vertex is a more important hub.  A 64-bit mask is the   *)
(* set of its bits.                                                        *)
(*                                                                         *)
(* Operators named Mut... are wrong variants of the operator after them:   *)
(* PROJECT.json pairs each with the property that rejects it.              *)
(***************************************************************************)
EXTENDS PLLGraph, Sequences, FiniteSets

CONSTANTS
    K,         \* kNumBitParallelRoots
    INF8,      \* the distance of unreachable pairs, 100 in the code
    Byte,      \* 2^8, the values of uint8_t
    Word,      \* 2^64, the values of uint64_t
    MaskBits,  \* 64, the bits of a mask
    Uninit     \* the content of memory memalign returned

IntMax == 2147483647

ASSUME IndexAssumption ==
    /\ K \in Nat
    /\ INF8 \in Nat /\ INF8 > 2 /\ INF8 <= IntMax
    /\ Byte \in Nat /\ Byte >= 2 * INF8
    /\ Word \in Nat /\ Word > 2 * Byte
    /\ MaskBits \in Nat /\ MaskBits > 0

Sentinel == <<NumV, INF8>>
Tree == 0..(K - 1)
Mask == SUBSET (0..(MaskBits - 1))

\* What memalign returned is kept apart from every mask written.
ASSUME UninitAssumption == Uninit \notin Mask \X Mask

VARIABLES
    pc,        \* the place in ConstructIndex
    adj,       \* the adjacency lists after relabelling
    usd,       \* the vertices already used as a root
    bpspt_d,   \* bit-parallel distances, by vertex and tree
    bpspt_s,   \* bit-parallel masks <<S^{-1}, S^0>>, by vertex and tree
    spt        \* the normal labels copied into the index, by vertex

indexVars == <<pc, adj, usd, bpspt_d, bpspt_s, spt>>

Label == (0..NumV) \X (0..(Byte - 1))

Entries(list) == {list[i] : i \in 1..Len(list)}

\* The labels of a list: its entries but the sentinel.
Labels(list) == Entries(list) \ {Sentinel}

\* A list as the merge of QueryDistance needs it: hubs ascending, the sentinel last.
WellFormed(list) ==
    /\ list \in Seq(Label)
    /\ Len(list) > 0 /\ list[Len(list)] = Sentinel
    /\ \A i, j \in 1..Len(list) : i < j => list[i][1] < list[j][1]

(***************************************************************************)
(* The bound tree i gives on the distance between x and y.  The code tests *)
(* td - 2 <= limit in uint64_t before it looks at the masks, so a td of 0  *)
(* or 1 wraps around and fails the test.                                   *)
(***************************************************************************)
TreeTd(x, y, i) == bpspt_d[x][i] + bpspt_d[y][i]

Considered(td, limit) == (td - 2) % Word <= limit

MutSavedAlways(sx, sy) ==
    IF (sx[1] \cup sx[2]) \cap (sy[1] \cup sy[2]) # {} THEN 2 ELSE 0

Saved(sx, sy) ==
    IF sx[1] \cap sy[1] # {} THEN 2
    ELSE IF (sx[1] \cap sy[2]) \cup (sx[2] \cap sy[1]) # {} THEN 1
    ELSE 0

Corrected(x, y, i) == (TreeTd(x, y, i) - Saved(bpspt_s[x][i], bpspt_s[y][i])) % Word

(***************************************************************************)
(* QueryDistance: the best bound of a tree or of a common hub.  A tree     *)
(* whose td - 2 exceeds the best bound so far cannot lower it, so the      *)
(* limit may stay INF8 throughout.  The merge of the two sorted lists      *)
(* meets every common hub; module QueryMerge has its loop.                 *)
(***************************************************************************)
TreeBounds(x, y) ==
    {Corrected(x, y, i) : i \in {j \in Tree : Considered(TreeTd(x, y, j), INF8)}}

HubBounds(lx, ly) ==
    {p[1][2] + p[2][2] :
        p \in {q \in Entries(lx) \X Entries(ly) : q[1][1] = q[2][1] /\ q[1][1] # NumV}}

Smallest(S) == CHOOSE n \in S : \A m \in S : n <= m

MutQueryDistanceUncapped(x, y) ==
    IF x \notin Vertex \/ y \notin Vertex
    THEN IF x = y THEN 0 ELSE IntMax
    ELSE Smallest({INF8} \cup TreeBounds(x, y) \cup HubBounds(spt[x], spt[y]))

QueryDistance(x, y) ==
    IF x \notin Vertex \/ y \notin Vertex
    THEN IF x = y THEN 0 ELSE IntMax
    ELSE LET best == Smallest({INF8} \cup TreeBounds(x, y) \cup HubBounds(spt[x], spt[y]))
         IN  IF best >= INF8 - 2 THEN IntMax ELSE best

(***************************************************************************)
(* What the bit-parallel phase hands to pruned labelling: the bound of a   *)
(* tree is the length of a walk through a used vertex, and a pair with a   *)
(* walk through a used vertex is answered by a tree as well as that walk   *)
(* does, unless a td below 2 wraps.  With K = 0 no vertex is used.         *)
(***************************************************************************)
\* The used vertices on a walk of at most n edges from x to y.
Via(x, y, n) == {u \in usd : \E a \in 0..n : Within(adj, x, u, a) /\ Within(adj, u, y, n - a)}

TreesSound ==
    \A x, y \in Vertex : \A i \in Tree :
        Considered(TreeTd(x, y, i), INF8) /\ Corrected(x, y, i) < INF8
        => Via(x, y, Corrected(x, y, i)) # {}

TdWraps(x, y) == \E i \in Tree : TreeTd(x, y, i) < 2

\* A td that wraps is the distance of a root from itself or a neighbour.
WrappedExact ==
    \A x, y \in Vertex : \A i \in Tree :
        TreeTd(x, y, i) < 2 => AtDistance(adj, x, y, TreeTd(x, y, i))

TreesCover ==
    \A x, y \in Vertex : \A n \in 0..(INF8 - 1) :
        Via(x, y, n) # {} /\ ~TdWraps(x, y)
        => {i \in Tree : Considered(TreeTd(x, y, i), n) /\ Corrected(x, y, i) <= n} # {}

IndexTypeOK ==
    /\ adj \in Graphs
    /\ usd \in SUBSET Vertex
    /\ bpspt_d \in [Vertex -> [Tree -> 0..INF8]]
    /\ bpspt_s \in [Vertex -> [Tree -> (Mask \X Mask) \cup {Uninit}]]

\* Only the root of a tree is at distance 0 from it.
TreeRootsUsed == \A v \in Vertex : \A i \in Tree : bpspt_d[v][i] = 0 => v \in usd

\* A tree has all its masks, or it is one of those for which no root was left.
MasksWritten ==
    \A i \in Tree :
        \/ \A v \in Vertex : bpspt_s[v][i] # Uninit
        \/ /\ usd = Vertex
           /\ \A v \in Vertex : bpspt_d[v][i] = INF8 /\ bpspt_s[v][i] = Uninit

Handover == IndexTypeOK /\ MasksWritten /\ TreesSound /\ TreesCover /\ TreeRootsUsed
=============================================================================

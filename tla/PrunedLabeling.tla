--------------------------- MODULE PrunedLabeling ---------------------------
(***************************************************************************)
(* The pruned labelling phase of ConstructIndex: one breadth-first search  *)
(* from every vertex that no bit-parallel tree used, in the order of the   *)
(* vertices, that labels what it visits and stops where the labels so far  *)
(* already answer the distance to the root.                                *)
(*                                                                         *)
(* The array que is split into the part still to be visited at this depth  *)
(* (cur) and the part found for the next one (nxt); the order inside a     *)
(* part is that of the adjacency lists, which is left open.                *)
(*                                                                         *)
(* Operators named Mut... are wrong variants of the operator after them:   *)
(* PROJECT.json pairs each with the property that rejects it.              *)
(***************************************************************************)
EXTENDS PLLIndex

VARIABLES
    r,         \* the root, and the loop variable over all roots
    d,         \* the depth of the search
    cur,       \* que[que_i..que_t1)
    nxt,       \* que[que_t1..que_h)
    que,       \* que[0..que_h)
    que_h,     \* the number of slots of que in use
    vis,       \* the vertices marked visited
    dst_r,     \* distance from the root to each of its hubs, INF8 elsewhere
    tmp_idx    \* the normal labels under construction, by vertex

searchVars == <<d, cur, nxt, que, que_h, vis, dst_r>>
givenVars == <<adj, bpspt_d, bpspt_s>>
prunedVars == <<r, searchVars, tmp_idx>>

MutPrunedInitNoSlot ==
    /\ r = 0
    /\ d = 0
    /\ cur = {} /\ nxt = {} /\ que = {} /\ que_h = 0
    /\ vis = {}
    /\ dst_r = [w \in Vertex |-> INF8]
    /\ tmp_idx = [v \in Vertex |-> <<Sentinel>>]
    /\ spt = [v \in Vertex |-> <<>>]

\* The locals as their constructors leave them; NumV indexes the sentinel's slot.
PrunedInit ==
    /\ r = 0
    /\ d = 0
    /\ cur = {} /\ nxt = {} /\ que = {} /\ que_h = 0
    /\ vis = {}
    /\ dst_r = [w \in 0..NumV |-> INF8]
    /\ tmp_idx = [v \in Vertex |-> <<Sentinel>>]
    /\ spt = [v \in Vertex |-> <<>>]

(***************************************************************************)
(* The loop over the roots.                                                *)
(***************************************************************************)
SkipRoot ==
    /\ pc = "root" /\ r < NumV
    /\ r \in usd
    /\ r' = r + 1
    /\ UNCHANGED <<givenVars, pc, searchVars, tmp_idx, usd, spt>>

\* dst_r with the entries of a label list written into it, or reset to INF8.
MutLoadedSkipsFirst(list) ==
    [w \in 0..NumV |->
        IF \E i \in 2..Len(list) : list[i][1] = w
        THEN list[CHOOSE i \in 2..Len(list) : list[i][1] = w][2]
        ELSE dst_r[w]]

Loaded(list) ==
    [w \in 0..NumV |->
        IF \E e \in Entries(list) : e[1] = w
        THEN (CHOOSE e \in Entries(list) : e[1] = w)[2]
        ELSE dst_r[w]]

MutUnloadedSkipsFirst(list) ==
    [w \in 0..NumV |-> IF \E i \in 2..Len(list) : list[i][1] = w THEN INF8 ELSE dst_r[w]]

Unloaded(list) ==
    [w \in 0..NumV |-> IF \E e \in Entries(list) : e[1] = w THEN INF8 ELSE dst_r[w]]

MutStartRootUnmarked ==
    /\ pc = "root" /\ r < NumV
    /\ r \notin usd
    /\ dst_r' = Loaded(tmp_idx[r])
    /\ d' = 0
    /\ cur' = {r} /\ nxt' = {} /\ que' = {r} /\ que_h' = 1
    /\ pc' = "bfs"
    /\ UNCHANGED <<givenVars, r, vis, tmp_idx, usd, spt>>

StartRoot ==
    /\ pc = "root" /\ r < NumV
    /\ r \notin usd
    /\ dst_r' = Loaded(tmp_idx[r])
    /\ d' = 0
    /\ cur' = {r} /\ nxt' = {} /\ que' = {r} /\ que_h' = 1
    /\ vis' = vis \cup {r}
    /\ pc' = "bfs"
    /\ UNCHANGED <<givenVars, r, tmp_idx, usd, spt>>

(***************************************************************************)
(* The three reasons to prune the search at v: v was a root, or a tree or  *)
(* a hub of v gives a bound no longer than the depth.                      *)
(***************************************************************************)
MutTreePrunesUncorrected(v) == \E i \in Tree : Considered(TreeTd(r, v, i), d)

TreePrunes(v) ==
    \E i \in Tree : /\ Considered(TreeTd(r, v, i), d)
                    /\ Corrected(r, v, i) <= d

MutHubPrunesEarly(v) == \E e \in Entries(tmp_idx[v]) : e[2] + dst_r[e[1]] <= d + 1
MutHubPrunesNoSentinel(v) ==
    \E e \in Entries(tmp_idx[v]) \ {Sentinel} : e[2] + dst_r[e[1]] <= d

HubPrunes(v) == \E e \in Entries(tmp_idx[v]) : e[2] + dst_r[e[1]] <= d

Pruned(v) == v \in usd \/ TreePrunes(v) \/ HubPrunes(v)

MutPruneVertexStays(v) ==
    /\ pc = "bfs" /\ v \in cur
    /\ Pruned(v)
    /\ UNCHANGED <<indexVars, prunedVars>>

PruneVertex(v) ==
    /\ pc = "bfs" /\ v \in cur
    /\ Pruned(v)
    /\ cur' = cur \ {v}
    /\ UNCHANGED <<givenVars, pc, r, d, nxt, que, que_h, vis, dst_r, tmp_idx,
                   usd, spt>>

\* The label <<hub, dist>> takes the place of the sentinel at the end of list.
MutAddLabelInFront(list, hub, dist) == <<<<hub, dist>>>> \o list

AddLabel(list, hub, dist) ==
    Append([list EXCEPT ![Len(list)] = <<hub, dist % Byte>>], Sentinel)

MutFoundAgain(v) == adj[v]

Found(v) == adj[v] \ vis

LabelVertex(v) ==
    /\ pc = "bfs" /\ v \in cur
    /\ ~Pruned(v)
    /\ tmp_idx' = [tmp_idx EXCEPT ![v] = AddLabel(tmp_idx[v], r, d)]
    /\ nxt' = nxt \cup Found(v)
    /\ que' = que \cup Found(v)
    /\ que_h' = que_h + Cardinality(Found(v))
    /\ vis' = vis \cup Found(v)
    /\ cur' = cur \ {v}
    /\ UNCHANGED <<givenVars, pc, r, d, dst_r, usd, spt>>

(***************************************************************************)
(* The end of a depth and the end of a search.                             *)
(***************************************************************************)
NextDepth ==
    /\ pc = "bfs" /\ cur = {}
    /\ nxt # {}
    /\ d' = d + 1
    /\ cur' = nxt /\ nxt' = {}
    /\ UNCHANGED <<givenVars, pc, r, que, que_h, vis, dst_r, tmp_idx, usd, spt>>

\* The marks without those of this search, which set one for every push.
MutUnmarked == vis \ {r}

Unmarked == vis \ que

FinishRoot ==
    /\ pc = "bfs" /\ cur = {}
    /\ nxt = {}
    /\ vis' = Unmarked
    /\ dst_r' = Unloaded(tmp_idx[r])
    /\ usd' = usd \cup {r}
    /\ r' = r + 1
    /\ pc' = "root"
    /\ UNCHANGED <<givenVars, d, cur, nxt, que, que_h, tmp_idx, spt>>

(***************************************************************************)
(* The labels are copied into the index; memalign may fail, and then the   *)
(* whole index is freed.                                                   *)
(***************************************************************************)
CopyLabels ==
    /\ pc = "root" /\ r = NumV
    /\ spt' = tmp_idx
    /\ tmp_idx' = [v \in Vertex |-> <<>>]
    /\ pc' = "done"
    /\ UNCHANGED <<givenVars, r, searchVars, usd>>

CopyFails ==
    /\ pc = "root" /\ r = NumV
    /\ spt' = [v \in Vertex |-> <<>>]
    /\ pc' = "failed"
    /\ UNCHANGED <<givenVars, r, searchVars, tmp_idx, usd>>

PrunedNext ==
    \/ SkipRoot
    \/ StartRoot
    \/ \E v \in Vertex : PruneVertex(v)
    \/ \E v \in Vertex : LabelVertex(v)
    \/ NextDepth
    \/ FinishRoot
    \/ CopyLabels
    \/ CopyFails

-----------------------------------------------------------------------------
Terminated == pc \in {"done", "failed"} /\ UNCHANGED <<indexVars, prunedVars>>

PrunedStart == pc = "root" /\ Handover /\ PrunedInit

PrunedSpec ==
    /\ PrunedStart
    /\ [][PrunedNext \/ Terminated]_<<indexVars, prunedVars>>
    /\ WF_<<indexVars, prunedVars>>(PrunedNext)

-----------------------------------------------------------------------------
\* Every variable keeps the type of its declaration: a label is a vertex or V
\* with a uint8_t distance, a queue or mark holds vertices.
PrunedTypeOK ==
    /\ IndexTypeOK
    /\ pc \in {"root", "bfs", "done", "failed"}
    /\ r \in 0..NumV
    /\ d \in Nat
    /\ cur \subseteq Vertex /\ nxt \subseteq Vertex /\ que \subseteq Vertex
    /\ que_h \in Nat
    /\ vis \subseteq Vertex
    /\ dst_r \in [0..NumV -> 0..(Byte - 1)]
    /\ tmp_idx \in [Vertex -> Seq(Label)]
    /\ spt \in [Vertex -> Seq(Label)]

\* A label never promises less than the distance to its hub: the search assigns
\* it a depth at which v was reached, and the depth survives the cast to uint8_t.
LabelsSound ==
    \A v \in Vertex : \A e \in Entries(tmp_idx[v]) \cup Entries(spt[v]) :
        e # Sentinel => Within(adj, e[1], v, e[2])

\* Pruning never sends the search around: the depth at which it labels v is the
\* distance of v, although the branches that were cut may have held v's shortest
\* path.  Depths of INF8 and more answer no query and are exempt.
LabelsExact ==
    \A v \in Vertex : \A e \in Entries(tmp_idx[v]) :
        e[2] < INF8 => AtDistance(adj, e[1], v, e[2])

\* The lists are what QueryDistance's merge needs: hubs strictly ascending, so no
\* root labels a vertex twice, and the sentinel last.
HubsAscending ==
    \A v \in Vertex : \A list \in {tmp_idx[v], spt[v]} \ {<<>>} : WellFormed(list)

\* A search leaves nothing behind for the next one: it clears every mark it set,
\* pruned vertices included, and every distance it loaded into dst_r.
ArraysClean ==
    pc = "root" => vis = {} /\ dst_r = [w \in 0..NumV |-> INF8]

\* The queue has V slots, and no search pushes more vertices than that.
QueueFits == que_h = Cardinality(que) /\ que_h <= NumV

\* After the searches of the roots below r the trees and labels answer every pair
\* with such a root exactly, so later searches may rely on them to prune.
PrefixAnswered ==
    pc = "root" =>
        \A h \in 0..(r - 1) : \A v \in Vertex : \A n \in 0..(INF8 - 1) :
            /\ AtDistance(adj, h, v, n)
            /\ ~TdWraps(h, v)
            => n = Smallest({INF8} \cup TreeBounds(h, v) \cup HubBounds(tmp_idx[h], tmp_idx[v]))

\* No label is redundant: when v is labelled with hub h, no hub before h lies on a
\* shortest path between the two.
LabelsMinimal ==
    \A v \in Vertex : \A e \in Entries(tmp_idx[v]) :
        e[2] < INF8 => \A u \in 0..(e[1] - 1) : \A n \in 0..e[2] :
            ~(Within(adj, e[1], u, n) /\ Within(adj, u, v, e[2] - n))

Answered(x, y) ==
    LET q == QueryDistance(x, y)
    IN  IF q = IntMax THEN ~Within(adj, x, y, INF8 - 3) ELSE AtDistance(adj, x, y, q)

\* The finished index answers every pair: the distance when it is below INF8 - 2,
\* INT_MAX otherwise.  Exempt are the pairs for which some tree has a td below 2, a
\* root of a tree and itself or a neighbour.
QueryExact ==
    pc = "done" =>
        \A x, y \in Vertex : ~TdWraps(x, y) => Answered(x, y)

\* The construction ends, with an index or with a failed memalign.
Termination == <>(pc \in {"done", "failed"})

-----------------------------------------------------------------------------
(***************************************************************************)
(* The inductive invariant behind the properties of single searches.       *)
(***************************************************************************)
Marked(g, v, list, h) == \A e \in Labels(list) : e[1] < h /\ Within(g, e[1], v, e[2])

\* Lists are well formed and sound, with hubs up to the current root.
ListsInv ==
    /\ pc # "done" => \A v \in Vertex : WellFormed(tmp_idx[v]) /\ Marked(adj, v, tmp_idx[v], r + 1)
    /\ pc = "done" => \A v \in Vertex : tmp_idx[v] = <<>>
    /\ \A v \in Vertex : spt[v] = <<>> \/ (WellFormed(spt[v]) /\ Marked(adj, v, spt[v], r + 1))

\* Between two searches nothing is marked or loaded, and no list has the next root.
BetweenInv ==
    pc = "root" =>
        /\ vis = {} /\ dst_r = [w \in 0..NumV |-> INF8]
        /\ \A v \in Vertex : Marked(adj, v, tmp_idx[v], r)

\* In a search, the marks are the queue, dst_r holds hubs of the root only, the
\* vertices still to be visited were reached at their depth, and only those already
\* visited may have the root as a hub.
DuringInv ==
    pc = "bfs" =>
        /\ r \in Vertex
        /\ vis = que /\ cur \cup nxt \subseteq que /\ cur \cap nxt = {}
        /\ \A w \in 0..NumV : dst_r[w] = INF8 \/ \E e \in Entries(tmp_idx[r]) : e[1] = w
        /\ \A v \in cur : Within(adj, r, v, d)
        /\ \A v \in nxt : Within(adj, r, v, d + 1)
        /\ \A v \in Vertex : v \notin que \/ v \in cur \cup nxt => Marked(adj, v, tmp_idx[v], r)

\* The parts together: what every step of a search keeps, from which LabelsSound,
\* HubsAscending, ArraysClean and QueueFits follow.
SearchInv ==
    /\ PrunedTypeOK
    /\ que_h = Cardinality(que)
    /\ dst_r[NumV] = INF8
    /\ ListsInv
    /\ BetweenInv
    /\ DuringInv

(***************************************************************************)
(* The inductive invariant behind the exact answers.                       *)
(***************************************************************************)
\* A tree, or a common hub of two lists, bounds the distance between x and y by n.
Bounded(x, y, lx, ly, n) ==
    \/ \E i \in Tree : Considered(TreeTd(x, y, i), n) /\ Corrected(x, y, i) <= n
    \/ \E m \in HubBounds(lx, ly) : m <= n

\* With these lists, every walk through a used vertex is matched by a bound.
Covered(lists) ==
    \A x, y \in Vertex : \A n \in 0..(INF8 - 1) :
        Via(x, y, n) # {} /\ ~TdWraps(x, y) => Bounded(x, y, lists[x], lists[y], n)

\* The promise of TreesCover extends from the trees to all roots so far.
CoverInv ==
    /\ pc \in {"root", "bfs"} => Covered(tmp_idx)
    /\ pc = "done" => r = NumV /\ Covered(spt) /\ \A v \in Vertex : spt[v] # <<>>

\* The roots so far are used, the root of a search is not.
UsedInv ==
    /\ \A h \in Vertex : h < r => h \in usd
    /\ pc = "bfs" => r \notin usd

\* In a search, dst_r holds the distances from the root to its hubs.
LoadedInv ==
    pc = "bfs" =>
        \A w \in Vertex :
            /\ dst_r[w] # INF8 => <<w, dst_r[w]>> \in Entries(tmp_idx[r])
            /\ \A n \in 0..(Byte - 1) :
                  w < r /\ <<w, n>> \in Entries(tmp_idx[r]) => dst_r[w] = n

\* In a search, labelled vertices have their neighbours in the queue, and a vertex
\* that no used vertex lies before is labelled when its depth is over.
FrontInv ==
    pc = "bfs" =>
        /\ \A v \in Vertex : \A n \in 0..(Byte - 1) :
              <<r, n>> \in Entries(tmp_idx[v]) => adj[v] \subseteq que
        /\ \A v \in que \ nxt : Within(adj, r, v, d)
        /\ \A v \in Vertex : \A n \in 0..(INF8 - 1) :
              n <= d /\ AtDistance(adj, r, v, n) /\ Via(r, v, n) = {}
              => <<r, n>> \in Entries(tmp_idx[v]) \/ (n = d /\ v \in cur)

\* The parts together, from which PrefixAnswered and QueryExact follow.
AnswerInv ==
    /\ SearchInv
    /\ TreesSound /\ TreeRootsUsed
    /\ UsedInv
    /\ CoverInv
    /\ LoadedInv
    /\ FrontInv
    /\ LabelsExact
    /\ LabelsMinimal
=============================================================================

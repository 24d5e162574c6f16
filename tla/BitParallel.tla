---------------------------- MODULE BitParallel ----------------------------
(***************************************************************************)
(* The bit-parallel phase of ConstructIndex: K breadth-first searches,     *)
(* each from an unused root and up to MaskBits of its unused neighbours    *)
(* at once.  Beside the distance of every vertex to the root, a search     *)
(* computes two masks: the chosen neighbours that are one nearer to the    *)
(* vertex than the root is (S^{-1}), and those equally near (S^0).         *)
(*                                                                         *)
(* A search scans one level of the queue, collecting the edges inside the  *)
(* level and to the next one, and then folds the masks along them.  The    *)
(* order of the vertices inside a level is left open, but a vertex at      *)
(* distance INF8 may be in the queue several times, and is then scanned    *)
(* as often: the levels count their copies.  The arrays of edges are sets, *)
(* because to fold an edge twice changes nothing, and the numbers of slots *)
(* in use.  What the program does once an array is too short is undefined; *)
(* the model goes on as if it had been long enough.                        *)
(*                                                                         *)
(* Operators named Mut... are wrong variants of the operator after them:   *)
(* PROJECT.json pairs each with the property that rejects it.              *)
(***************************************************************************)
EXTENDS PLLIndex

VARIABLES
    i_bpspt,     \* the number of the tree
    bp_r,        \* its root, and the scan for the next one
    vs,          \* the chosen neighbours of the root
    tmp_d,       \* distance from the root, INF8 when not reached
    tmp_s,       \* the masks <<S^{-1}, S^0>>
    bp_d,        \* the depth of the search
    bp_cur,      \* que[que_i..que_t1), how often each vertex is in it
    bp_nxt,      \* que[que_t1..que_h), likewise
    bp_que_h,    \* the number of slots of que in use
    sibling_es,  \* edges inside the level, E_0
    child_es,    \* edges to the next level, E_1
    num_sibling_es, num_child_es  \* the slots of their arrays in use

edgeVars == <<sibling_es, child_es, num_sibling_es, num_child_es>>
bpSearchVars == <<vs, tmp_d, tmp_s, bp_d, bp_cur, bp_nxt, bp_que_h, edgeVars>>
bpVars == <<i_bpspt, bp_r, bpSearchVars>>

NoMasks == <<{}, {}>>

ForgetEdges ==
    /\ sibling_es' = {} /\ child_es' = {}
    /\ num_sibling_es' = 0 /\ num_child_es' = 0

\* A part of the queue with every member of S once, and the vertices in a part.
Once(S) == [v \in Vertex |-> IF v \in S THEN 1 ELSE 0]

Queued(part) == {v \in Vertex : part[v] > 0}

BitParallelInit ==
    /\ usd = {}
    /\ bpspt_d = [v \in Vertex |-> [i \in Tree |-> Uninit]]
    /\ bpspt_s = [v \in Vertex |-> [i \in Tree |-> Uninit]]
    /\ i_bpspt = 0
    /\ bp_r = 0
    /\ vs = {}
    /\ tmp_d = [v \in Vertex |-> 0]
    /\ tmp_s = [v \in Vertex |-> NoMasks]
    /\ bp_d = 0
    /\ bp_cur = Once({}) /\ bp_nxt = Once({}) /\ bp_que_h = 0
    /\ sibling_es = {} /\ child_es = {}
    /\ num_sibling_es = 0 /\ num_child_es = 0

(***************************************************************************)
(* The choice of the root and its neighbours.                              *)
(***************************************************************************)
Unused == {v \in bp_r..(NumV - 1) : v \notin usd}

FreeNeighbors(root) == adj[root] \ (usd \cup {root})

\* The bit of a member of S, which is sorted: how many members precede it.
Bit(v, S) == Cardinality({w \in S : w < v})

MutChosen(root) == FreeNeighbors(root)

Chosen(root) == {v \in FreeNeighbors(root) : Bit(v, FreeNeighbors(root)) < MaskBits}

UsedWith(root) == {root} \cup Chosen(root)

SelectRoot ==
    /\ pc = "tree" /\ i_bpspt < K
    /\ Unused # {}
    /\ LET root == Smallest(Unused)
           S == Chosen(root)
       IN  /\ bp_r' = root
           /\ vs' = S
           /\ usd' = usd \cup UsedWith(root)
           /\ tmp_d' = [v \in Vertex |-> IF v = root THEN 0 ELSE IF v \in S THEN 1 ELSE INF8]
           /\ tmp_s' = [v \in Vertex |-> IF v \in S THEN <<{Bit(v, S)}, {}>> ELSE NoMasks]
           /\ bp_cur' = Once({root})
           /\ bp_nxt' = Once(S)
           /\ bp_que_h' = 1 + Cardinality(S)
    /\ bp_d' = 0
    /\ ForgetEdges
    /\ pc' = "scan"
    /\ UNCHANGED <<adj, spt, bpspt_d, bpspt_s, i_bpspt>>

\* Every vertex is used: the tree stays empty, and its masks are not written.
MutAbsentDistance == INF8 \div 2

AbsentDistance == INF8

NoRootLeft ==
    /\ pc = "tree" /\ i_bpspt < K
    /\ Unused = {}
    /\ bp_r' = NumV
    /\ bpspt_d' = [v \in Vertex |-> [bpspt_d[v] EXCEPT ![i_bpspt] = AbsentDistance]]
    /\ i_bpspt' = i_bpspt + 1
    /\ UNCHANGED <<pc, adj, usd, spt, bpspt_s, bpSearchVars>>

(***************************************************************************)
(* One level: scan its vertices, then fold the masks, siblings first.      *)
(***************************************************************************)
Siblings(v) == {w \in adj[v] : tmp_d[w] = bp_d /\ v < w}

Children(v) == {w \in adj[v] : bp_d < tmp_d[w]}

MutUnreached(v) == Children(v)

Unreached(v) == {w \in Children(v) : tmp_d[w] = INF8}

MutScanVertexStays(v) ==
    /\ pc = "scan" /\ v \in Queued(bp_cur)
    /\ UNCHANGED <<indexVars, bpVars>>

ScanVertex(v) ==
    /\ pc = "scan" /\ v \in Queued(bp_cur)
    /\ sibling_es' = sibling_es \cup ({v} \X Siblings(v))
    /\ num_sibling_es' = num_sibling_es + Cardinality(Siblings(v))
    /\ child_es' = child_es \cup ({v} \X Children(v))
    /\ num_child_es' = num_child_es + Cardinality(Children(v))
    /\ tmp_d' = [w \in Vertex |-> IF w \in Unreached(v) THEN (bp_d + 1) % Byte ELSE tmp_d[w]]
    /\ bp_nxt' = [w \in Vertex |-> bp_nxt[w] + Once(Unreached(v))[w]]
    /\ bp_que_h' = bp_que_h + Cardinality(Unreached(v))
    /\ bp_cur' = [bp_cur EXCEPT ![v] = @ - 1]
    /\ UNCHANGED <<indexVars, i_bpspt, bp_r, vs, tmp_s, bp_d>>

\* A sibling edge passes S^{-1} to S^0 in both directions, a child edge both masks.
FoldSiblings(s) ==
    [v \in Vertex |->
        <<s[v][1],
          s[v][2] \cup UNION {s[w][1] : w \in {u \in Vertex :
                                 <<u, v>> \in sibling_es \/ <<v, u>> \in sibling_es}}>>]

FoldChildren(s) ==
    [c \in Vertex |->
        LET parents == {v \in Vertex : <<v, c>> \in child_es}
        IN  <<s[c][1] \cup UNION {s[v][1] : v \in parents},
              s[c][2] \cup UNION {s[v][2] : v \in parents}>>]

MutFolded(s) == FoldSiblings(FoldChildren(s))

Folded(s) == FoldChildren(FoldSiblings(s))

\* The search ends when the queue is empty; at depth INF8 the process exits instead.
FoldLevel ==
    /\ pc = "scan" /\ Queued(bp_cur) = {}
    /\ tmp_s' = Folded(tmp_s)
    /\ ForgetEdges
    /\ bp_cur' = bp_nxt /\ bp_nxt' = Once({})
    /\ bp_d' = bp_d + 1
    /\ pc' = IF Queued(bp_nxt) # {} THEN "scan" ELSE IF bp_d = INF8 THEN "exited" ELSE "write"
    /\ UNCHANGED <<adj, usd, spt, bpspt_d, bpspt_s, i_bpspt, bp_r, vs, tmp_d, bp_que_h>>

\* The tree is copied into the index; S^0 loses what S^{-1} holds.
WriteTree ==
    /\ pc = "write"
    /\ bpspt_d' = [v \in Vertex |-> [bpspt_d[v] EXCEPT ![i_bpspt] = tmp_d[v]]]
    /\ bpspt_s' = [v \in Vertex |->
          [bpspt_s[v] EXCEPT ![i_bpspt] = <<tmp_s[v][1], tmp_s[v][2] \ tmp_s[v][1]>>]]
    /\ i_bpspt' = i_bpspt + 1
    /\ pc' = "tree"
    /\ UNCHANGED <<adj, usd, spt, bp_r, bpSearchVars>>

TreesDone ==
    /\ pc = "tree" /\ i_bpspt = K
    /\ pc' = "root"
    /\ UNCHANGED <<adj, usd, spt, bpspt_d, bpspt_s, bpVars>>

BitParallelNext ==
    \/ SelectRoot
    \/ NoRootLeft
    \/ \E v \in Vertex : ScanVertex(v)
    \/ FoldLevel
    \/ WriteTree
    \/ TreesDone

TreesOver == pc \in {"root", "exited"} /\ UNCHANGED <<indexVars, bpVars>>

BitParallelStart ==
    /\ pc = "tree"
    /\ adj \in Graphs
    /\ spt = [v \in Vertex |-> <<>>]
    /\ BitParallelInit

BitParallelSpec ==
    /\ BitParallelStart
    /\ [][BitParallelNext \/ TreesOver]_<<indexVars, bpVars>>
    /\ WF_<<indexVars, bpVars>>(BitParallelNext)

-----------------------------------------------------------------------------
\* Every variable keeps its type; a distance is a uint8_t, masks hold bits below
\* MaskBits, the search edges are pairs of vertices.
BitParallelTypeOK ==
    /\ pc \in {"tree", "scan", "write", "root", "exited"}
    /\ adj \in Graphs
    /\ usd \subseteq Vertex /\ vs \subseteq usd
    /\ bpspt_d \in [Vertex -> [Tree -> (0..(Byte - 1)) \cup {Uninit}]]
    /\ bpspt_s \in [Vertex -> [Tree -> (Mask \X Mask) \cup {Uninit}]]
    /\ i_bpspt \in 0..K
    /\ bp_r \in 0..NumV
    /\ tmp_d \in [Vertex -> 0..(Byte - 1)]
    /\ tmp_s \in [Vertex -> Mask \X Mask]
    /\ bp_d \in 0..(INF8 + 1)
    /\ bp_cur \in [Vertex -> Nat] /\ bp_nxt \in [Vertex -> Nat]
    /\ bp_que_h \in Nat /\ num_sibling_es \in Nat /\ num_child_es \in Nat
    /\ sibling_es \subseteq Vertex \X Vertex /\ child_es \subseteq Vertex \X Vertex

\* The bits of the members of S within m of v.
Near(S, v, m) == {Bit(u, S) : u \in {w \in S : m >= 0 /\ Within(adj, w, v, m)}}

\* The levels that are finished are exact: tmp_d is the distance to the root,
\* S^{-1} the chosen neighbours one nearer, S^0 minus S^{-1} those equally near.
LevelsExact ==
    pc \in {"scan", "write"} =>
        \A v \in {w \in Vertex : tmp_d[w] < bp_d /\ tmp_d[w] < INF8} :
            LET n == tmp_d[v]
            IN  /\ AtDistance(adj, bp_r, v, n)
                /\ tmp_s[v][1] = Near(vs, v, n - 1)
                /\ tmp_s[v][2] \ tmp_s[v][1] = Near(vs, v, n) \ Near(vs, v, n - 1)

\* A vertex is at distance INF8 from the root.
FarVertex ==
    \E v \in Vertex : Within(adj, bp_r, v, INF8) /\ ~Within(adj, bp_r, v, INF8 - 1)

\* The arrays of a search hold what it puts in them: E edges inside a level, E edges
\* to the next one, V vertices in the queue.  Only when a vertex is INF8 away may two of
\* them be too short: such a vertex is pushed once for every edge to it, and each of
\* its copies adds its edges inside the level once more.
BuffersFit ==
    pc \in {"scan", "write"} =>
        LET pairs == {e \in Vertex \X Vertex : e[2] \in adj[e[1]]}
            E == Cardinality({{e[1], e[2]} : e \in pairs})
        IN  /\ num_child_es <= E
            /\ FarVertex \/ (num_sibling_es <= E /\ bp_que_h <= NumV)

\* The masks that are left uninitialised when no root was left are never looked at:
\* the distances beside them keep the test of td from passing.
UninitUnread ==
    \A x, y \in Vertex : \A i \in 0..(i_bpspt - 1) :
        bpspt_s[x][i] = Uninit => ~Considered(TreeTd(x, y, i), INF8)

\* When the phase is over, its trees are what pruned labelling relies on.
TreesHandedOver == pc = "root" => Handover

\* The phase is over at some point, or the process exits.
TreesEnd == <>(pc \in {"root", "exited"})

\* The documentation has ConstructIndex return, with true when it succeeds: the
\* process does not end inside it.
ConstructReturns == pc # "exited"

-----------------------------------------------------------------------------
(***************************************************************************)
(* The inductive invariant behind the properties of the phase.             *)
(***************************************************************************)
\* A root and its chosen neighbours; their bits fit a mask.
IsRoot(root, S) ==
    /\ root \in usd /\ root \notin S
    /\ S \subseteq usd \cap adj[root]
    /\ \A u \in S : Bit(u, S) < MaskBits

\* The label of v in the tree of root and S: distance n and masks s.
IsLabel(root, S, v, n, s) ==
    /\ n \in 0..INF8
    /\ n < INF8 => /\ AtDistance(adj, root, v, n)
                   /\ s = <<Near(S, v, n - 1), Near(S, v, n) \ Near(S, v, n - 1)>>
    /\ n = INF8 => ~Within(adj, root, v, INF8) /\ s = NoMasks

IsTree(i, root, S) ==
    /\ IsRoot(root, S)
    /\ \A v \in Vertex : IsLabel(root, S, v, bpspt_d[v][i], bpspt_s[v][i])

\* A tree for which no root was left.
IsAbsent(i) ==
    /\ usd = Vertex
    /\ \A v \in Vertex : bpspt_d[v][i] = INF8 /\ bpspt_s[v][i] = Uninit

\* The trees so far: each belongs to a root or is absent, the others are not written,
\* and each used vertex belongs to one of them or to the one under construction.
TreesInv ==
    /\ \A i \in 0..(i_bpspt - 1) :
          IsAbsent(i) \/ \E root \in usd : \E S \in SUBSET usd : IsTree(i, root, S)
    /\ \A i \in i_bpspt..(K - 1) : \A v \in Vertex : bpspt_s[v][i] = Uninit
    /\ \A u \in usd :
          \/ \E i \in 0..(i_bpspt - 1) : \E root \in usd : \E S \in SUBSET usd :
                IsTree(i, root, S) /\ u \in {root} \cup S
          \/ pc \in {"scan", "write", "exited"} /\ u \in {bp_r} \cup vs
    /\ \A v \in Vertex : v < bp_r => v \in usd

\* The distances in a search: those set are exact and go one level beyond the depth,
\* all vertices up to the depth have one, and those of a level that is not
\* scanned yet are in the queue.
DistancesInv ==
    pc = "scan" =>
        /\ IsRoot(bp_r, vs)
        /\ bp_d <= INF8 /\ \A v \in Vertex : tmp_d[v] <= INF8
        /\ \A v \in Vertex : tmp_d[v] < INF8 => AtDistance(adj, bp_r, v, tmp_d[v]) /\ tmp_d[v] <= bp_d + 1
        /\ \A v \in Vertex : \A n \in 0..(INF8 - 1) :
              n <= bp_d /\ Within(adj, bp_r, v, n) => tmp_d[v] <= n
        /\ \A v \in Queued(bp_cur) : tmp_d[v] = bp_d
        /\ \A v \in Vertex : tmp_d[v] = bp_d + 1 /\ bp_d + 1 < INF8 => v \in Queued(bp_nxt)
        /\ \A v \in Queued(bp_nxt) : tmp_d[v] = bp_d + 1
        /\ bp_d = INF8 => Queued(bp_nxt) = {}

\* Before the depth INF8 no vertex is in the queue twice.
CopiesInv ==
    pc = "scan" => \A v \in Vertex : /\ bp_d < INF8 => bp_cur[v] <= 1
                                     /\ bp_d + 1 < INF8 => bp_nxt[v] <= 1

\* The vertices of this level that were scanned, and the edges found at them.
Scanned == {v \in Vertex : tmp_d[v] = bp_d} \ Queued(bp_cur)

EdgesInv ==
    pc = "scan" /\ bp_d < INF8 =>
        /\ \A v \in Scanned : \A w \in adj[v] : tmp_d[w] > bp_d => w \in Queued(bp_nxt)
        /\ \A v, w \in Vertex :
              /\ <<v, w>> \in sibling_es <=> v \in Scanned /\ w \in adj[v] /\ tmp_d[w] = bp_d /\ v < w
              /\ <<v, w>> \in child_es <=> v \in Scanned /\ w \in adj[v] /\ tmp_d[w] > bp_d

\* The masks in a search: complete below the depth; at the depth S^{-1} is complete
\* and S^0 holds what the level before passes on; beyond they are the initial ones.
MasksInv ==
    pc = "scan" =>
        \A v \in Vertex :
            LET n == tmp_d[v]
            IN  /\ n < bp_d /\ n < INF8 => /\ tmp_s[v][1] = Near(vs, v, n - 1)
                                          /\ tmp_s[v][1] \cup tmp_s[v][2] = Near(vs, v, n)
                /\ n = bp_d /\ n < INF8 =>
                      /\ tmp_s[v][1] = Near(vs, v, n - 1)
                      /\ tmp_s[v][2] \subseteq Near(vs, v, n)
                      /\ \A p \in Vertex : v \in adj[p] /\ tmp_d[p] = n - 1
                                           => tmp_s[p][2] \subseteq tmp_s[v][2]
                /\ n > bp_d => tmp_s[v] = IF v \in vs THEN <<{Bit(v, vs)}, {}>> ELSE NoMasks

\* A finished search has a label for every vertex.
WriteInv ==
    pc = "write" =>
        /\ IsRoot(bp_r, vs)
        /\ \A v \in Vertex :
              IsLabel(bp_r, vs, v, tmp_d[v], <<tmp_s[v][1], tmp_s[v][2] \ tmp_s[v][1]>>)

\* The parts together, from which the properties above follow.
TreeInv ==
    /\ BitParallelTypeOK
    /\ pc = "root" => i_bpspt = K
    /\ pc \in {"scan", "write"} => i_bpspt < K
    /\ TreesInv
    /\ DistancesInv
    /\ CopiesInv
    /\ EdgesInv
    /\ MasksInv
    /\ WriteInv

\* What the arrays of a search hold: edges of the graph, each as often as it is in the
\* set, and in the queue every vertex that has a distance, or a vertex is INF8 away.
BuffersInv ==
    pc \in {"scan", "write"} =>
        /\ \A e \in sibling_es : e[2] \in adj[e[1]] /\ e[1] < e[2]
        /\ \A e \in child_es : e[2] \in adj[e[1]] /\ tmp_d[e[1]] = bp_d /\ bp_d < tmp_d[e[2]]
        /\ num_sibling_es = Cardinality(sibling_es) \/ FarVertex
        /\ num_child_es = Cardinality(child_es)
        /\ bp_que_h = Cardinality({v \in Vertex : tmp_d[v] < INF8}) \/ FarVertex
        /\ \A v \in Queued(bp_cur) : bp_d = INF8 => FarVertex
        /\ \A v \in Queued(bp_nxt) : bp_d + 1 = INF8 => FarVertex
=============================================================================

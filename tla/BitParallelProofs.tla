-------------------------- MODULE BitParallelProofs --------------------------
(***************************************************************************)
(* The bit-parallel phase builds what pruned labelling relies on, for      *)
(* every graph and every number of vertices, trees and bits of a mask.     *)
(***************************************************************************)
EXTENDS BitParallel, PLLIndexProofs

(***************************************************************************)
(* Bits and masks.                                                         *)
(***************************************************************************)
\* The bits of different members of a set differ, and a subset has smaller bits.
LEMMA Bits ==
    ASSUME NEW S \in SUBSET Vertex, NEW u \in Vertex
    PROVE  /\ Bit(u, S) \in Nat
           /\ \A T \in SUBSET S : Bit(u, T) <= Bit(u, S)
           /\ \A w \in S : w < u => Bit(w, S) < Bit(u, S)
<1> DEFINE Below(T, v) == {w \in T : w < v}
<1>1. \A T \in SUBSET S : \A v : IsFiniteSet(Below(T, v)) /\ Cardinality(Below(T, v)) \in Nat
  <2>1. TAKE T \in SUBSET S
  <2>2. TAKE v
  <2>3. Below(T, v) \in SUBSET Vertex
    OBVIOUS
  <2> QED BY <2>3, VertexFinite
<1>2. ASSUME NEW T \in SUBSET S PROVE Bit(u, T) <= Bit(u, S)
  <2>1. Below(T, u) \subseteq Below(S, u)
    OBVIOUS
  <2> QED BY <1>1, <2>1, FS_Subset DEF Bit
<1>3. ASSUME NEW w \in S, w < u PROVE Bit(w, S) < Bit(u, S)
  <2>1. w \in Int /\ u \in Int /\ \A x \in S : x \in Int
    BY Numbers DEF Vertex
  <2>2. Below(S, w) \subseteq Below(S, u) /\ w \in Below(S, u) /\ w \notin Below(S, w)
    <3>1. \A x \in S : x < w => x < u
      BY <1>3, <2>1
    <3>2. ~(w < w)
      BY <2>1
    <3> QED BY <1>3, <3>1, <3>2
  <2>3. Below(S, w) # Below(S, u)
    BY <2>2
  <2>4. /\ Cardinality(Below(S, w)) <= Cardinality(Below(S, u))
        /\ Cardinality(Below(S, w)) = Cardinality(Below(S, u)) => Below(S, w) = Below(S, u)
    <3> HIDE DEF Below
    <3> QED BY <1>1, <2>2, FS_Subset
  <2> QED BY <1>1, <2>3, <2>4 DEF Bit
<1> QED BY <1>1, <1>2, <1>3 DEF Bit

\* Two members of a set with the same bit are the same.
LEMMA BitInjective ==
    ASSUME NEW S \in SUBSET Vertex, NEW u \in S, NEW w \in S, Bit(u, S) = Bit(w, S)
    PROVE  u = w
<1>1. u \in Int /\ w \in Int /\ Bit(u, S) \in Nat /\ Bit(w, S) \in Nat
  BY Bits, Numbers DEF Vertex
<1>2. ~(u < w) /\ ~(w < u)
  BY <1>1, Bits
<1> QED BY <1>1, <1>2

\* What is in the bits of the members near a vertex.
LEMMA NearMember ==
    ASSUME NEW S, NEW v, NEW m, NEW b
    PROVE  b \in Near(S, v, m) <=> m >= 0 /\ \E u \in S : b = Bit(u, S) /\ Within(adj, u, v, m)
BY DEF Near

\* What is near a vertex is one further from its neighbours, and near it for longer.
LEMMA NearStep ==
    ASSUME NEW S, NEW v, NEW w, NEW m \in Int
    PROVE  /\ Near(S, v, m) \subseteq Near(S, v, m + 1)
           /\ w \in adj[v] => Near(S, v, m) \subseteq Near(S, w, m + 1)
<1>1. m >= 0 => m \in Nat /\ m + 1 >= 0
  OBVIOUS
<1>2. \A u : m >= 0 /\ Within(adj, u, v, m) =>
          Within(adj, u, v, m + 1) /\ (w \in adj[v] => Within(adj, u, w, m + 1))
  BY <1>1, WithinStep
<1> QED BY <1>1, <1>2 DEF Near

\* The bits of a tree's neighbours fit a mask.
LEMMA NearIsMask ==
    ASSUME NEW S, NEW root, IsRoot(root, S), usd \subseteq Vertex, NEW v, NEW m
    PROVE  Near(S, v, m) \in Mask
<1>1. \A u \in S : Bit(u, S) \in 0..(MaskBits - 1)
  BY Bits, IndexAssumption DEF IsRoot
<1> QED BY <1>1 DEF Near, Mask

(***************************************************************************)
(* What a step leaves alone.                                               *)
(***************************************************************************)
\* A finished tree stays one while vertices become used.
LEMMA TreeFrame ==
    ASSUME adj' = adj, usd \subseteq usd', NEW i, NEW root, NEW S, IsTree(i, root, S),
           \A v \in Vertex : bpspt_d'[v][i] = bpspt_d[v][i] /\ bpspt_s'[v][i] = bpspt_s[v][i]
    PROVE  IsTree(i, root, S)'
BY DEF IsTree, IsRoot, IsLabel, Near

\* The trees so far stay when a step writes none, makes no used vertex unused, and
\* has every vertex it uses in the search it begins.
LEMMA TreesStay ==
    ASSUME TreesInv, adj' = adj, usd \subseteq usd', usd' \subseteq Vertex,
           UNCHANGED <<bpspt_d, bpspt_s, i_bpspt>>,
           \A v \in Vertex : v < bp_r' => v \in usd',
           \A u \in usd' :
               \/ u \in usd /\ pc \notin {"scan", "write", "exited"}
               \/ pc' \in {"scan", "write", "exited"} /\ u \in {bp_r'} \cup vs'
               \/ UNCHANGED <<bp_r, vs>> /\ pc' \in {"scan", "write", "exited"} /\ u \in usd
    PROVE  TreesInv'
<1>1. ASSUME NEW i, NEW root, NEW S, IsTree(i, root, S) PROVE IsTree(i, root, S)'
  BY <1>1, TreeFrame
<1>2. ASSUME NEW i \in 0..(i_bpspt - 1)
      PROVE  (IsAbsent(i) \/ \E root \in usd : \E S \in SUBSET usd : IsTree(i, root, S))'
  <2>1. CASE IsAbsent(i)
    BY <2>1 DEF IsAbsent
  <2>2. CASE \E root \in usd : \E S \in SUBSET usd : IsTree(i, root, S)
    <3>1. PICK root \in usd : \E S \in SUBSET usd : IsTree(i, root, S)
      BY <2>2
    <3>2. PICK S \in SUBSET usd : IsTree(i, root, S)
      BY <3>1
    <3>3. root \in usd' /\ S \in SUBSET usd' /\ IsTree(i, root, S)'
      BY <3>2, <1>1
    <3> QED BY <3>3
  <2> QED BY <2>1, <2>2 DEF TreesInv
<1>3. ASSUME NEW u \in usd'
      PROVE  (\/ \E i \in 0..(i_bpspt - 1) : \E root \in usd : \E S \in SUBSET usd :
                    IsTree(i, root, S) /\ u \in {root} \cup S
              \/ pc \in {"scan", "write", "exited"} /\ u \in {bp_r} \cup vs)'
  <2>1. CASE pc' \in {"scan", "write", "exited"} /\ u \in {bp_r'} \cup vs'
    BY <2>1
  <2>2. CASE u \in usd /\ ~(pc' \in {"scan", "write", "exited"} /\ u \in {bp_r'} \cup vs')
    <3>1. \E i \in 0..(i_bpspt - 1) : \E root \in usd : \E S \in SUBSET usd :
              IsTree(i, root, S) /\ u \in {root} \cup S
      BY <2>2 DEF TreesInv
    <3>2. PICK i \in 0..(i_bpspt - 1) : \E root \in usd : \E S \in SUBSET usd :
              IsTree(i, root, S) /\ u \in {root} \cup S
      BY <3>1
    <3>3. PICK root \in usd : \E S \in SUBSET usd : IsTree(i, root, S) /\ u \in {root} \cup S
      BY <3>2
    <3>4. PICK S \in SUBSET usd : IsTree(i, root, S) /\ u \in {root} \cup S
      BY <3>3
    <3>5. root \in usd' /\ S \in SUBSET usd' /\ IsTree(i, root, S)' /\ i \in 0..(i_bpspt' - 1)
      BY <3>4, <1>1
    <3> QED BY <3>4, <3>5
  <2> QED BY <2>1, <2>2
<1>4. \A i \in i_bpspt'..(K - 1) : \A v \in Vertex : bpspt_s'[v][i] = Uninit
  BY DEF TreesInv
<1> QED BY <1>2, <1>3, <1>4 DEF TreesInv

(***************************************************************************)
(* The parts of the queue.                                                 *)
(***************************************************************************)
\* A part that holds the members of S once each.
LEMMA OnceEach ==
    ASSUME NEW S \in SUBSET Vertex
    PROVE  /\ Once(S) \in [Vertex -> Nat]
           /\ \A v \in Vertex : Once(S)[v] = IF v \in S THEN 1 ELSE 0
           /\ \A v \in Vertex : Once(S)[v] <= 1
           /\ Queued(Once(S)) = S
<1>1. \A v \in Vertex : Once(S)[v] = IF v \in S THEN 1 ELSE 0
  BY DEF Once
<1>2. Once(S) \in [Vertex -> Nat]
  BY DEF Once
<1>3. Queued(Once(S)) = S
  BY <1>1 DEF Queued
<1> QED BY <1>1, <1>2, <1>3

(***************************************************************************)
(* The choice of the root.                                                 *)
(***************************************************************************)
\* The root is the first unused vertex; the bits of its chosen neighbours fit a mask.
LEMMA RootChosen ==
    ASSUME TreeInv, Unused # {}, NEW root, root = Smallest(Unused),
           NEW S, S = Chosen(root)
    PROVE  /\ root \in Vertex \ usd
           /\ \A v \in Vertex : v < root => v \in usd
           /\ S \subseteq Vertex \ usd /\ root \notin S /\ S \subseteq adj[root]
           /\ \A v \in S : Bit(v, S) \in 0..(MaskBits - 1)
<1>1. /\ bp_r \in Nat /\ adj \in Graphs /\ \A v \in Vertex : v \in Nat
      /\ \A v \in Vertex : v < bp_r => v \in usd
  BY Numbers DEF TreeInv, BitParallelTypeOK, TreesInv, Vertex
<1>2. Unused \subseteq Vertex /\ Unused \in SUBSET Nat /\ Unused \cap usd = {}
  BY <1>1, Numbers DEF Unused, Vertex
<1>3. root \in Unused /\ \A m \in Unused : root <= m
  BY <1>2, SmallestExists
<1>4. ASSUME NEW v \in Vertex, v < root PROVE v \in usd
  <2>1. v \notin Unused
    BY <1>1, <1>2, <1>3, <1>4
  <2> QED BY <1>1, <2>1, Numbers DEF Unused, Vertex
<1>5. root \in Vertex /\ adj[root] \subseteq Vertex
  BY <1>1, <1>2, <1>3, GraphAssumption
<1>6. FreeNeighbors(root) \in SUBSET Vertex /\ S \in SUBSET FreeNeighbors(root)
  BY <1>5 DEF FreeNeighbors, Chosen
<1>7. ASSUME NEW v \in S PROVE Bit(v, S) \in 0..(MaskBits - 1)
  <2>1. Bit(v, S) \in Nat /\ Bit(v, FreeNeighbors(root)) \in Nat
        /\ Bit(v, S) <= Bit(v, FreeNeighbors(root))
    BY <1>6, Bits
  <2>2. Bit(v, FreeNeighbors(root)) < MaskBits
    BY DEF Chosen
  <2> QED BY <2>1, <2>2, IndexAssumption
<1> QED BY <1>2, <1>3, <1>4, <1>5, <1>6, <1>7 DEF FreeNeighbors

\* The root starts a search that knows the levels 0 and 1.
LEMMA SelectRootKeeps ==
    ASSUME TreeInv, SelectRoot
    PROVE  TreeInv'
<1>10. PICK root, S : root = Smallest(Unused) /\ S = Chosen(root)
  OBVIOUS
<1>1. /\ root \in Vertex \ usd
      /\ \A v \in Vertex : v < root => v \in usd
      /\ S \subseteq Vertex \ usd /\ root \notin S /\ S \subseteq adj[root]
      /\ \A v \in S : Bit(v, S) \in 0..(MaskBits - 1)
  BY <1>10, RootChosen DEF SelectRoot
<1>2. /\ pc = "tree" /\ pc' = "scan" /\ i_bpspt < K
      /\ bp_r' = root /\ vs' = S /\ usd' = usd \cup {root} \cup S
      /\ bp_cur' = Once({root}) /\ bp_nxt' = Once(S) /\ bp_que_h' = 1 + Cardinality(S)
      /\ tmp_d' = [v \in Vertex |-> IF v = root THEN 0 ELSE IF v \in S THEN 1 ELSE INF8]
      /\ tmp_s' = [v \in Vertex |-> IF v \in S THEN <<{Bit(v, S)}, {}>> ELSE NoMasks]
      /\ bp_d' = 0 /\ sibling_es' = {} /\ child_es' = {}
      /\ num_sibling_es' = 0 /\ num_child_es' = 0
      /\ UNCHANGED <<adj, spt, bpspt_d, bpspt_s, i_bpspt>>
  BY <1>10 DEF SelectRoot, UsedWith, ForgetEdges
<1>11. /\ bp_cur' \in [Vertex -> Nat] /\ bp_nxt' \in [Vertex -> Nat]
       /\ \A v \in Vertex : bp_cur'[v] <= 1 /\ bp_nxt'[v] <= 1
       /\ Queued(bp_cur') = {root} /\ Queued(bp_nxt') = S
  BY <1>1, <1>2, OnceEach
<1>3. BitParallelTypeOK /\ TreesInv
  BY DEF TreeInv
<1>4. /\ \A v \in Vertex : tmp_d'[v] = IF v = root THEN 0 ELSE IF v \in S THEN 1 ELSE INF8
      /\ \A v \in Vertex : tmp_s'[v] = IF v \in S THEN <<{Bit(v, S)}, {}>> ELSE NoMasks
  BY <1>2
<1>5. BitParallelTypeOK'
  <2>1. /\ pc' \in {"tree", "scan", "write", "root", "exited"} /\ adj' \in Graphs
        /\ usd' \subseteq Vertex /\ vs' \subseteq usd'
        /\ i_bpspt' \in 0..K /\ bp_r' \in 0..NumV /\ bp_d' \in 0..(INF8 + 1)
        /\ sibling_es' \subseteq Vertex \X Vertex /\ child_es' \subseteq Vertex \X Vertex
    <3>1. root \in 0..NumV /\ 0 \in 0..(INF8 + 1)
      BY <1>1, Numbers DEF Vertex
    <3> QED BY <1>1, <1>2, <1>3, <3>1 DEF BitParallelTypeOK
  <2>2. /\ bpspt_d' \in [Vertex -> [Tree -> (0..(Byte - 1)) \cup {Uninit}]]
        /\ bpspt_s' \in [Vertex -> [Tree -> (Mask \X Mask) \cup {Uninit}]]
    BY <1>2, <1>3 DEF BitParallelTypeOK
  <2>3. tmp_d' \in [Vertex -> 0..(Byte - 1)]
    <3>1. 0 \in 0..(Byte - 1) /\ 1 \in 0..(Byte - 1) /\ INF8 \in 0..(Byte - 1)
      BY Numbers
    <3> QED BY <1>2, <3>1
  <2>4. tmp_s' \in [Vertex -> Mask \X Mask]
    <3>1. \A v \in S : {Bit(v, S)} \in Mask
      BY <1>1 DEF Mask
    <3>2. {} \in Mask
      BY DEF Mask
    <3> QED BY <1>2, <3>1, <3>2 DEF NoMasks
  <2>5. /\ bp_que_h' \in Nat /\ num_sibling_es' \in Nat /\ num_child_es' \in Nat
        /\ bp_cur' \in [Vertex -> Nat] /\ bp_nxt' \in [Vertex -> Nat]
    <3>1. Cardinality(S) \in Nat
      BY <1>1, VertexFinite
    <3>2. bp_que_h' \in Nat
      BY <1>2, <3>1
    <3>3. num_sibling_es' \in Nat /\ num_child_es' \in Nat
      BY <1>2
    <3> QED BY <1>11, <3>2, <3>3
  <2> QED BY <2>1, <2>2, <2>3, <2>4, <2>5 DEF BitParallelTypeOK
<1>6. TreesInv'
  <2>1. usd \subseteq usd' /\ usd' \subseteq Vertex
    BY <1>2, <1>5 DEF BitParallelTypeOK
  <2> QED BY <1>1, <1>2, <1>3, <2>1, TreesStay
<1>7. DistancesInv'
  <2>1. IsRoot(root, S)'
    <3>1. \A v \in S : Bit(v, S) < MaskBits
      BY <1>1, IndexAssumption
    <3> QED BY <1>1, <1>2, <3>1 DEF IsRoot
  <2>2. ASSUME NEW v \in Vertex, tmp_d'[v] < INF8
        PROVE  AtDistance(adj, root, v, tmp_d'[v]) /\ tmp_d'[v] <= 1
    <3>1. CASE v = root
      BY <3>1, <1>4, WithinZero DEF AtDistance
    <3>2. CASE v \in S
      <4>1. Within(adj, root, root, 0) /\ v \in adj[root] /\ v # root
        BY <3>2, <1>1, WithinZero
      <4>2. Within(adj, root, v, 0 + 1) /\ ~Within(adj, root, v, 0)
        BY <4>1, WithinStep, WithinZero
      <4> QED BY <4>1, <4>2, <3>2, <1>4 DEF AtDistance
    <3> QED BY <3>1, <3>2, <2>2, <1>4, Numbers
  <2>3. \A v \in Vertex : Within(adj, root, v, 0) => tmp_d'[v] = 0
    BY <1>4, WithinZero
  <2>4. \A v \in Vertex : /\ tmp_d'[v] = 0 <=> v = root
                          /\ tmp_d'[v] = 1 <=> v \in S
                          /\ tmp_d'[v] <= INF8
    BY <1>1, <1>4, Numbers
  <2>5. \A v \in Vertex : \A n \in 0..(INF8 - 1) :
            n <= 0 /\ Within(adj, root, v, n) => tmp_d'[v] <= n
    BY <2>3, Numbers
  <2>6. bp_d' = 0 /\ bp_d' + 1 = 1 /\ 0 <= INF8 /\ 0 # INF8 /\ adj' = adj /\ bp_r' = root
    BY <1>2, Numbers
  <2>7. IsRoot(bp_r, vs)'
    BY <1>2, <2>1 DEF IsRoot
  <2>8. /\ \A v \in Queued(bp_cur') : tmp_d'[v] = bp_d'
        /\ \A v \in Vertex : tmp_d'[v] = bp_d' + 1 /\ bp_d' + 1 < INF8 => v \in Queued(bp_nxt')
        /\ \A v \in Queued(bp_nxt') : tmp_d'[v] = bp_d' + 1
    BY <1>1, <1>2, <1>11, <2>4, <2>6
  <2> QED BY <2>2, <2>4, <2>5, <2>6, <2>7, <2>8 DEF DistancesInv
<1>8. EdgesInv'
  <2>1. \A v \in Vertex : tmp_d'[v] = 0 => v = root
    BY <1>4, Numbers
  <2>2. bp_d' = 0 /\ Queued(bp_cur') = {root}
    BY <1>2, <1>11
  <2>3. Scanned' = {}
    BY <2>1, <2>2 DEF Scanned
  <2> QED BY <1>2, <2>3 DEF EdgesInv
<1>9. MasksInv'
  <2>1. SUFFICES ASSUME NEW v \in Vertex, NEW CONSTANT n, n = tmp_d'[v]
        PROVE  (/\ n < bp_d /\ n < INF8 => /\ tmp_s[v][1] = Near(vs, v, n - 1)
                                          /\ tmp_s[v][1] \cup tmp_s[v][2] = Near(vs, v, n)
                /\ n = bp_d /\ n < INF8 =>
                      /\ tmp_s[v][1] = Near(vs, v, n - 1)
                      /\ tmp_s[v][2] \subseteq Near(vs, v, n)
                      /\ \A p \in Vertex : v \in adj[p] /\ tmp_d[p] = n - 1
                                           => tmp_s[p][2] \subseteq tmp_s[v][2]
                /\ n > bp_d => tmp_s[v] = IF v \in vs THEN <<{Bit(v, vs)}, {}>> ELSE NoMasks)'
    BY DEF MasksInv
  <2>2. \A w \in Vertex : tmp_d'[w] \in {0, 1, INF8} /\ (tmp_d'[w] = 0 <=> w = root)
    BY <1>4, Numbers
  <2>3. \A m : ~(m >= 0) => Near(S, v, m) = {}
    BY DEF Near
  <2>4. n = 0 => tmp_s'[v] = NoMasks /\ Near(S, v, n - 1) = {}
    <3>1. ~(0 - 1 >= 0)
      OBVIOUS
    <3> QED BY <2>1, <2>2, <2>3, <1>1, <1>4, <3>1
  <2>5. ~(n < 0) /\ (n = 0 => \A p \in Vertex : tmp_d'[p] # n - 1)
    BY <2>1, <2>2, Numbers
  <2>6. n > 0 => tmp_s'[v] = IF v \in vs' THEN <<{Bit(v, vs')}, {}>> ELSE NoMasks
    BY <1>2, <1>4
  <2>7. Near(vs, v, n - 1)' = Near(S, v, n - 1)
    BY <1>2 DEF Near
  <2>8. n = 0 => tmp_s'[v][1] = {} /\ tmp_s'[v][2] = {}
    BY <2>4 DEF NoMasks
  <2> QED BY <1>2, <2>4, <2>5, <2>6, <2>7, <2>8
<1>12. CopiesInv'
  BY <1>11 DEF CopiesInv
<1> QED BY <1>2, <1>5, <1>6, <1>7, <1>8, <1>9, <1>12 DEF TreeInv, WriteInv

(***************************************************************************)
(* The scan of a vertex.                                                   *)
(***************************************************************************)
\* The distances after a scan: those of the new vertices are set, one beyond the depth.
LEMMA ScannedDistances ==
    ASSUME TreeInv, NEW v \in Vertex, ScanVertex(v)
    PROVE  /\ bp_d \in 0..INF8 /\ tmp_d[v] = bp_d
           /\ \A w \in Vertex : tmp_d[w] \in 0..INF8
           /\ bp_d = INF8 => Unreached(v) = {}
           /\ \A w \in Vertex : tmp_d'[w] = IF w \in Unreached(v) THEN bp_d + 1 ELSE tmp_d[w]
           /\ \A w \in Vertex : w \in Unreached(v)
                  <=> w \in adj[v] /\ tmp_d[w] = INF8 /\ bp_d < INF8
<1>1. /\ BitParallelTypeOK /\ DistancesInv /\ pc = "scan" /\ v \in Queued(bp_cur)
      /\ tmp_d' = [w \in Vertex |-> IF w \in Unreached(v) THEN (bp_d + 1) % Byte ELSE tmp_d[w]]
  BY DEF TreeInv, ScanVertex
<1>2. bp_d \in 0..INF8 /\ tmp_d[v] = bp_d /\ \A w \in Vertex : tmp_d[w] \in 0..INF8
  BY <1>1, Numbers DEF BitParallelTypeOK, DistancesInv
<1>3. adj[v] \subseteq Vertex
  BY <1>1, GraphAssumption DEF BitParallelTypeOK
<1>4. \A w \in Vertex : w \in Unreached(v)
                  <=> w \in adj[v] /\ tmp_d[w] = INF8 /\ bp_d < INF8
  BY <1>2, <1>3 DEF Unreached, Children
<1>5. bp_d < INF8 => (bp_d + 1) % Byte = bp_d + 1
  BY <1>2, Numbers, ByteCast
<1>6. Unreached(v) \subseteq Vertex
  BY <1>3 DEF Unreached, Children
<1>7. bp_d = INF8 => Unreached(v) = {}
  BY <1>2, <1>4, <1>6
<1>8. \A w \in Vertex : tmp_d'[w] = IF w \in Unreached(v) THEN bp_d + 1 ELSE tmp_d[w]
  BY <1>1, <1>4, <1>5
<1> QED BY <1>2, <1>4, <1>7, <1>8

\* A scan takes one copy of its vertex from this level, and adds one of each new vertex
\* to the next; before the depth INF8 the copy was the only one.
LEMMA ScannedQueue ==
    ASSUME TreeInv, NEW v \in Vertex, ScanVertex(v)
    PROVE  /\ bp_cur' \in [Vertex -> Nat] /\ bp_nxt' \in [Vertex -> Nat]
           /\ Queued(bp_nxt') = Queued(bp_nxt) \cup Unreached(v)
           /\ Queued(bp_cur') \subseteq Queued(bp_cur)
           /\ bp_d < INF8 => Queued(bp_cur') = Queued(bp_cur) \ {v}
           /\ CopiesInv'
<1>1. /\ bp_cur \in [Vertex -> Nat] /\ bp_nxt \in [Vertex -> Nat]
      /\ adj \in Graphs /\ CopiesInv /\ DistancesInv
      /\ pc = "scan" /\ pc' = pc /\ bp_d' = bp_d /\ v \in Queued(bp_cur)
      /\ bp_nxt' = [w \in Vertex |-> bp_nxt[w] + Once(Unreached(v))[w]]
      /\ bp_cur' = [bp_cur EXCEPT ![v] = @ - 1]
  BY DEF TreeInv, BitParallelTypeOK, ScanVertex, indexVars
<1>2. Unreached(v) \in SUBSET Vertex
  BY <1>1, GraphAssumption DEF Unreached, Children
<1>3. /\ Once(Unreached(v)) \in [Vertex -> Nat]
      /\ \A w \in Vertex : Once(Unreached(v))[w] = IF w \in Unreached(v) THEN 1 ELSE 0
  BY <1>2, OnceEach
<1>4. \A w \in Vertex : bp_cur'[w] = (IF w = v THEN bp_cur[v] - 1 ELSE bp_cur[w]) /\ bp_cur[w] \in Nat
  BY <1>1
<1>5. \A w \in Vertex : /\ bp_nxt'[w] = bp_nxt[w] + IF w \in Unreached(v) THEN 1 ELSE 0
                        /\ bp_nxt[w] \in Nat
  BY <1>1, <1>3
<1>6. bp_cur[v] > 0
  BY <1>1 DEF Queued
<1>7. bp_cur' \in [Vertex -> Nat]
  <2>1. \A w \in Vertex : bp_cur'[w] \in Nat
    BY <1>4, <1>6
  <2> QED BY <1>1, <2>1
<1>8. bp_nxt' \in [Vertex -> Nat]
  BY <1>1, <1>3
<1>9. Queued(bp_nxt') = Queued(bp_nxt) \cup Unreached(v)
  BY <1>2, <1>5 DEF Queued
<1>10. Queued(bp_cur') \subseteq Queued(bp_cur)
  BY <1>4, <1>6 DEF Queued
<1>11. ASSUME bp_d < INF8 PROVE Queued(bp_cur') = Queued(bp_cur) \ {v}
  <2>1. bp_cur[v] = 1
    BY <1>1, <1>4, <1>6, <1>11 DEF CopiesInv
  <2> QED BY <1>4, <2>1 DEF Queued
<1>12. ASSUME NEW w \in Vertex, bp_d < INF8 PROVE bp_cur'[w] <= 1
  BY <1>1, <1>4, <1>6, <1>12 DEF CopiesInv
<1>13. ASSUME NEW w \in Vertex, bp_d + 1 < INF8 PROVE bp_nxt'[w] <= 1
  <2>1. bp_nxt[w] <= 1
    BY <1>1, <1>13 DEF CopiesInv
  <2>2. CASE w \in Unreached(v)
    <3>1. tmp_d[w] = INF8
      BY <2>2, ScannedDistances
    <3>2. w \notin Queued(bp_nxt)
      <4>1. bp_d + 1 # INF8
        BY <1>13, Numbers
      <4> QED BY <3>1, <4>1, <1>1 DEF DistancesInv
    <3>3. bp_nxt[w] = 0
      BY <3>2, <1>5 DEF Queued
    <3> QED BY <3>3, <1>5
  <2>3. CASE w \notin Unreached(v)
    BY <2>1, <2>3, <1>5
  <2> QED BY <2>2, <2>3
<1>14. CopiesInv'
  BY <1>1, <1>12, <1>13 DEF CopiesInv
<1> QED BY <1>7, <1>8, <1>9, <1>10, <1>11, <1>14

\* A scan keeps distances exact, finds the edges of its vertex and touches no masks.
LEMMA ScanVertexKeeps ==
    ASSUME TreeInv, NEW v \in Vertex, ScanVertex(v)
    PROVE  TreeInv'
<1> DEFINE N == Unreached(v)
<1>1. /\ bp_d \in 0..INF8 /\ tmp_d[v] = bp_d
      /\ \A w \in Vertex : tmp_d[w] \in 0..INF8
      /\ bp_d = INF8 => N = {}
      /\ \A w \in Vertex : tmp_d'[w] = IF w \in N THEN bp_d + 1 ELSE tmp_d[w]
      /\ \A w \in Vertex : w \in N <=> w \in adj[v] /\ tmp_d[w] = INF8 /\ bp_d < INF8
  BY ScannedDistances
<1>2. /\ pc = "scan" /\ v \in Queued(bp_cur)
      /\ sibling_es' = sibling_es \cup ({v} \X Siblings(v))
      /\ child_es' = child_es \cup ({v} \X Children(v))
      /\ num_sibling_es' = num_sibling_es + Cardinality(Siblings(v))
      /\ num_child_es' = num_child_es + Cardinality(Children(v))
      /\ bp_que_h' = bp_que_h + Cardinality(N)
      /\ UNCHANGED <<pc, adj, usd, bpspt_d, bpspt_s, spt, i_bpspt, bp_r, vs, tmp_s, bp_d>>
  BY DEF ScanVertex, indexVars
<1>12. /\ bp_cur' \in [Vertex -> Nat] /\ bp_nxt' \in [Vertex -> Nat]
       /\ Queued(bp_nxt') = Queued(bp_nxt) \cup N
       /\ Queued(bp_cur') \subseteq Queued(bp_cur)
       /\ bp_d < INF8 => Queued(bp_cur') = Queued(bp_cur) \ {v}
       /\ CopiesInv'
  BY ScannedQueue
<1>3. BitParallelTypeOK /\ TreesInv /\ DistancesInv /\ EdgesInv /\ MasksInv
  BY DEF TreeInv
<1>4. adj[v] \subseteq Vertex /\ N \subseteq adj[v]
  BY <1>3, GraphAssumption DEF BitParallelTypeOK, Unreached, Children
<1>5. /\ Siblings(v) \subseteq Vertex /\ Children(v) \subseteq Vertex /\ Cardinality(N) \in Nat
      /\ Cardinality(Siblings(v)) \in Nat /\ Cardinality(Children(v)) \in Nat
  BY <1>4, VertexFinite DEF Siblings, Children
<1>6. \A w \in Vertex : tmp_d'[w] \in 0..INF8
  BY <1>1, Numbers
<1>7. BitParallelTypeOK'
  <2>1. /\ pc' \in {"tree", "scan", "write", "root", "exited"} /\ adj' \in Graphs
        /\ usd' \subseteq Vertex /\ vs' \subseteq usd'
        /\ i_bpspt' \in 0..K /\ bp_r' \in 0..NumV /\ bp_d' \in 0..(INF8 + 1)
        /\ tmp_s' \in [Vertex -> Mask \X Mask]
        /\ bpspt_d' \in [Vertex -> [Tree -> (0..(Byte - 1)) \cup {Uninit}]]
        /\ bpspt_s' \in [Vertex -> [Tree -> (Mask \X Mask) \cup {Uninit}]]
    BY <1>2, <1>3 DEF BitParallelTypeOK
  <2>2. /\ bp_cur' \in [Vertex -> Nat] /\ bp_nxt' \in [Vertex -> Nat]
        /\ bp_que_h' \in Nat /\ num_sibling_es' \in Nat /\ num_child_es' \in Nat
    BY <1>2, <1>3, <1>5, <1>12 DEF BitParallelTypeOK
  <2>3. sibling_es' \subseteq Vertex \X Vertex /\ child_es' \subseteq Vertex \X Vertex
    BY <1>2, <1>3, <1>5 DEF BitParallelTypeOK
  <2>4. tmp_d' \in [Vertex -> 0..(Byte - 1)]
    <3>1. DOMAIN tmp_d' = Vertex /\ tmp_d' = [w \in Vertex |-> tmp_d'[w]]
      BY DEF ScanVertex
    <3>2. \A w \in Vertex : tmp_d'[w] \in 0..(Byte - 1)
      BY <1>6, Numbers
    <3> QED BY <3>1, <3>2
  <2> QED BY <2>1, <2>2, <2>3, <2>4 DEF BitParallelTypeOK
<1>8. TreesInv'
  <2>1. usd' \subseteq Vertex /\ \A w \in Vertex : w < bp_r' => w \in usd'
    BY <1>2, <1>3 DEF BitParallelTypeOK, TreesInv
  <2> QED BY <1>2, <1>3, <2>1, TreesStay
<1> HIDE DEF N
<1>9. DistancesInv'
  <2>1. IsRoot(bp_r, vs)'
    BY <1>2, <1>3 DEF IsRoot, DistancesInv
  <2>2. ASSUME NEW w \in Vertex, tmp_d'[w] < INF8
        PROVE  AtDistance(adj, bp_r, w, tmp_d'[w]) /\ tmp_d'[w] <= bp_d + 1
    <3>1. CASE w \notin N
      <4>1. tmp_d'[w] = tmp_d[w] /\ tmp_d[w] < INF8
        BY <3>1, <2>2, <1>1
      <4>2. AtDistance(adj, bp_r, w, tmp_d[w]) /\ tmp_d[w] <= bp_d + 1
        BY <4>1, <1>2, <1>3 DEF DistancesInv
      <4> QED BY <4>1, <4>2
    <3>2. CASE w \in N
      <4>1. bp_d < INF8 /\ AtDistance(adj, bp_r, v, bp_d) /\ w \in adj[v]
        BY <3>2, <1>1, <1>2, <1>3 DEF DistancesInv
      <4>2. bp_d \in Nat /\ bp_d \in 0..(INF8 - 1)
        BY <4>1, <1>1, Numbers
      <4>3. Within(adj, bp_r, w, bp_d + 1)
        BY <4>1, <4>2, WithinStep DEF AtDistance
      <4>4. ~Within(adj, bp_r, w, bp_d)
        <5>1. Within(adj, bp_r, w, bp_d) => tmp_d[w] <= bp_d
          BY <4>2, <1>2, <1>3 DEF DistancesInv
        <5> QED BY <5>1, <3>2, <1>1
      <4>5. tmp_d'[w] = bp_d + 1 /\ (bp_d + 1) - 1 = bp_d
        BY <3>2, <1>1
      <4>6. AtDistance(adj, bp_r, w, bp_d + 1)
        BY <4>3, <4>4, <4>5 DEF AtDistance
      <4> QED BY <4>5, <4>6, <4>2
    <3> QED BY <3>1, <3>2
  <2>3. ASSUME NEW w \in Vertex, NEW n \in 0..(INF8 - 1), n <= bp_d, Within(adj, bp_r, w, n)
        PROVE  tmp_d'[w] <= n
    <3>1. tmp_d[w] <= n
      BY <2>3, <1>2, <1>3 DEF DistancesInv
    <3>2. w \notin N
      BY <3>1, <1>1, Numbers
    <3> QED BY <3>1, <3>2, <1>1
  <2>4. ASSUME NEW w \in Queued(bp_cur') PROVE tmp_d'[w] = bp_d
    <3>1. w \in Vertex /\ tmp_d[w] = bp_d
      BY <1>2, <1>3, <1>12 DEF Queued, DistancesInv
    <3> QED BY <3>1, <1>1
  <2>5. ASSUME NEW w \in Vertex, tmp_d'[w] = bp_d + 1, bp_d + 1 < INF8 PROVE w \in Queued(bp_nxt')
    BY <2>5, <1>1, <1>2, <1>3, <1>12 DEF DistancesInv
  <2>6. ASSUME NEW w \in Queued(bp_nxt') PROVE tmp_d'[w] = bp_d + 1
    <3>1. CASE w \in N
      BY <3>1, <1>1, <1>4
    <3>2. CASE w \notin N
      <4>1. w \in Queued(bp_nxt) /\ w \in Vertex
        BY <3>2, <1>12 DEF Queued
      <4> QED BY <3>2, <4>1, <1>1, <1>2, <1>3 DEF DistancesInv
    <3> QED BY <3>1, <3>2
  <2>7. bp_d = INF8 => Queued(bp_nxt') = {}
    BY <1>1, <1>2, <1>3, <1>12 DEF DistancesInv
  <2>8. bp_d <= INF8 /\ \A w \in Vertex : tmp_d'[w] <= INF8
    BY <1>1, <1>6, Numbers
  <2> QED BY <1>2, <2>1, <2>2, <2>3, <2>4, <2>5, <2>6, <2>7, <2>8 DEF DistancesInv
<1>10. EdgesInv'
  <2>1. SUFFICES ASSUME bp_d < INF8
        PROVE  (/\ \A x \in Scanned : \A w \in adj[x] : tmp_d[w] > bp_d => w \in Queued(bp_nxt)
                /\ \A x, w \in Vertex :
                    /\ <<x, w>> \in sibling_es <=> x \in Scanned /\ w \in adj[x] /\ tmp_d[w] = bp_d /\ x < w
                    /\ <<x, w>> \in child_es <=> x \in Scanned /\ w \in adj[x] /\ tmp_d[w] > bp_d)'
    BY <1>2 DEF EdgesInv
  <2>2. \A w \in Vertex : /\ tmp_d'[w] = bp_d <=> tmp_d[w] = bp_d
                          /\ tmp_d'[w] > bp_d <=> tmp_d[w] > bp_d
    BY <1>1, <2>1, Numbers
  <2>3. Scanned' = Scanned \cup {v}
    BY <1>1, <1>2, <1>12, <2>1, <2>2 DEF Scanned
  <2>4. adj' = adj /\ bp_d' = bp_d /\ \A x \in Vertex : adj[x] \subseteq Vertex
    BY <1>2, <1>3, GraphAssumption DEF BitParallelTypeOK
  <2>5. ASSUME NEW x \in Scanned', NEW w \in adj[x], tmp_d'[w] > bp_d PROVE w \in Queued(bp_nxt')
    <3>1. w \in Vertex /\ tmp_d[w] > bp_d /\ x \in Vertex
      BY <2>2, <2>4, <2>5 DEF Scanned
    <3>2. CASE x = v /\ w \notin N
      <4>1. tmp_d[w] < INF8
        <5>1. tmp_d[w] # INF8
          BY <3>1, <3>2, <1>1, <2>1, <2>5
        <5> QED BY <5>1, <3>1, <1>1, Numbers
      <4>2. tmp_d[w] <= bp_d + 1
        BY <4>1, <3>1, <1>2, <1>3 DEF DistancesInv
      <4>3. tmp_d[w] = bp_d + 1 /\ bp_d + 1 < INF8
        BY <4>1, <4>2, <3>1, <1>1
      <4> QED BY <4>3, <3>1, <1>2, <1>3, <1>12 DEF DistancesInv
    <3>3. CASE x \in Scanned
      BY <3>1, <3>3, <2>1, <1>2, <1>3, <1>12 DEF EdgesInv
    <3> QED BY <3>2, <3>3, <2>3, <1>12
  <2>6. ASSUME NEW x \in Vertex, NEW w \in Vertex
        PROVE  <<x, w>> \in sibling_es' <=> x \in Scanned' /\ w \in adj[x] /\ tmp_d'[w] = bp_d /\ x < w
    <3>1. <<x, w>> \in sibling_es' <=> <<x, w>> \in sibling_es \/ (x = v /\ w \in Siblings(v))
      BY <1>2
    <3>2. <<x, w>> \in sibling_es <=> x \in Scanned /\ w \in adj[x] /\ tmp_d[w] = bp_d /\ x < w
      BY <2>1, <1>2, <1>3 DEF EdgesInv
    <3>3. w \in Siblings(v) <=> w \in adj[v] /\ tmp_d[w] = bp_d /\ v < w
      BY DEF Siblings
    <3> QED BY <3>1, <3>2, <3>3, <2>2, <2>3
  <2>7. ASSUME NEW x \in Vertex, NEW w \in Vertex
        PROVE  <<x, w>> \in child_es' <=> x \in Scanned' /\ w \in adj[x] /\ tmp_d'[w] > bp_d
    <3>1. <<x, w>> \in child_es' <=> <<x, w>> \in child_es \/ (x = v /\ w \in Children(v))
      BY <1>2
    <3>2. <<x, w>> \in child_es <=> x \in Scanned /\ w \in adj[x] /\ tmp_d[w] > bp_d
      BY <2>1, <1>2, <1>3 DEF EdgesInv
    <3>3. w \in Children(v) <=> w \in adj[v] /\ tmp_d[w] > bp_d
      BY <1>1, Numbers DEF Children
    <3> QED BY <3>1, <3>2, <3>3, <2>2, <2>3
  <2> QED BY <2>4, <2>5, <2>6, <2>7
<1>11. MasksInv'
  <2>1. SUFFICES ASSUME NEW w \in Vertex, NEW CONSTANT n, n = tmp_d'[w]
        PROVE  (/\ n < bp_d /\ n < INF8 => /\ tmp_s[w][1] = Near(vs, w, n - 1)
                                          /\ tmp_s[w][1] \cup tmp_s[w][2] = Near(vs, w, n)
                /\ n = bp_d /\ n < INF8 =>
                      /\ tmp_s[w][1] = Near(vs, w, n - 1)
                      /\ tmp_s[w][2] \subseteq Near(vs, w, n)
                      /\ \A p \in Vertex : w \in adj[p] /\ tmp_d[p] = n - 1
                                           => tmp_s[p][2] \subseteq tmp_s[w][2]
                /\ n > bp_d => tmp_s[w] = IF w \in vs THEN <<{Bit(w, vs)}, {}>> ELSE NoMasks)'
    BY DEF MasksInv
  <2>2. /\ tmp_s' = tmp_s /\ bp_d' = bp_d /\ vs' = vs /\ adj' = adj
        /\ Near(vs, w, n)' = Near(vs, w, n) /\ Near(vs, w, n - 1)' = Near(vs, w, n - 1)
    BY <1>2 DEF Near
  <2>3. CASE w \in N
    <3>1. n = bp_d + 1 /\ tmp_d[w] > bp_d
      BY <2>1, <2>3, <1>1
    <3>2. tmp_s[w] = IF w \in vs THEN <<{Bit(w, vs)}, {}>> ELSE NoMasks
      BY <3>1, <1>2, <1>3 DEF MasksInv
    <3> QED BY <2>2, <3>1, <3>2, <1>1
  <2>4. CASE w \notin N
    <3>1. n = tmp_d[w]
      BY <2>1, <2>4, <1>1
    <3>2. \A p \in Vertex : n = bp_d /\ tmp_d'[p] = n - 1 => tmp_d[p] = n - 1
      BY <1>1
    <3> QED BY <2>2, <3>1, <3>2, <1>2, <1>3 DEF MasksInv
  <2> QED BY <2>3, <2>4
<1> QED BY <1>2, <1>7, <1>8, <1>9, <1>10, <1>11, <1>12 DEF TreeInv, WriteInv

(***************************************************************************)
(* The end of a level.                                                     *)
(***************************************************************************)
\* A neighbour of the root that is near v brings the root one further.
LEMMA RootIsNear ==
    ASSUME NEW root, NEW u \in adj[root], NEW v, NEW m \in Nat, Within(adj, u, v, m)
    PROVE  Within(adj, root, v, m + 1)
<1>1. Within(adj, root, u, 0 + 1)
  BY WithinZero, WithinStep
<1>2. Within(adj, root, v, 1 + m)
  BY <1>1, WithinTriangle
<1> QED BY <1>2

\* A bit that is new at distance m is that of v itself, or comes from a neighbour.
LEMMA BitFromNeighbor ==
    ASSUME adj \in Graphs, NEW root, NEW S \in SUBSET Vertex, S \subseteq adj[root],
           NEW v, NEW m \in Nat, NEW b, b \in Near(S, v, m), b \notin Near(S, v, m - 1)
    PROVE  \/ m = 0 /\ v \in S /\ b = Bit(v, S)
           \/ /\ m > 0
              /\ \E w \in Vertex : v \in adj[w] /\ b \in Near(S, w, m - 1) /\ Within(adj, root, w, m)
<1>1. PICK u \in S : b = Bit(u, S) /\ Within(adj, u, v, m)
  BY NearMember
<1>2. CASE m = 0
  BY <1>1, <1>2, WithinZero
<1>3. CASE m > 0
  <2>1. m - 1 \in Nat /\ (m - 1) + 1 = m
    BY <1>3
  <2>2. ~Within(adj, u, v, m - 1)
    BY <1>1, <2>1, NearMember
  <2>3. AtDistance(adj, u, v, (m - 1) + 1)
    BY <1>1, <2>1, <2>2 DEF AtDistance
  <2>4. PICK w : AtDistance(adj, u, w, m - 1) /\ v \in adj[w]
    BY <2>1, <2>3, Predecessor
  <2>5. Within(adj, u, w, m - 1)
    BY <2>4 DEF AtDistance
  <2>6. w \in Vertex
    BY <2>1, <2>5, WithinVertex
  <2>7. Within(adj, root, w, (m - 1) + 1)
    BY <2>1, <2>5, RootIsNear
  <2>8. b \in Near(S, w, m - 1)
    BY <1>1, <2>1, <2>5, NearMember
  <2> QED BY <1>3, <2>1, <2>4, <2>6, <2>7, <2>8
<1> QED BY <1>2, <1>3

LevelOver == TreeInv /\ pc = "scan" /\ Queued(bp_cur) = {} /\ bp_d < INF8

\* When a level is over, the distances are complete for the next one too.
LEMMA NextLevelKnown ==
    ASSUME LevelOver
    PROVE  /\ bp_d \in Nat /\ bp_d \in 0..(INF8 - 1)
           /\ \A v \in Vertex : tmp_d[v] \in 0..INF8 /\ adj[v] \subseteq Vertex
           /\ \A v \in Vertex : \A w \in adj[v] :
                 tmp_d[v] = bp_d /\ tmp_d[w] > bp_d => w \in Queued(bp_nxt) /\ tmp_d[w] = bp_d + 1
           /\ \A v \in Vertex : \A n \in 0..(INF8 - 1) :
                 n <= bp_d + 1 /\ Within(adj, bp_r, v, n) => tmp_d[v] <= n
           /\ \A v, w \in Vertex :
                 /\ <<v, w>> \in sibling_es
                       <=> tmp_d[v] = bp_d /\ w \in adj[v] /\ tmp_d[w] = bp_d /\ v < w
                 /\ <<v, w>> \in child_es <=> tmp_d[v] = bp_d /\ w \in adj[v] /\ tmp_d[w] > bp_d
<1>1. BitParallelTypeOK /\ DistancesInv /\ EdgesInv /\ pc = "scan" /\ Queued(bp_cur) = {} /\ bp_d < INF8
  BY DEF LevelOver, TreeInv
<1>2. bp_d \in Nat /\ bp_d \in 0..(INF8 - 1)
  BY <1>1, Numbers DEF BitParallelTypeOK
<1>3. \A v \in Vertex : tmp_d[v] \in 0..INF8 /\ adj[v] \subseteq Vertex
  BY <1>1, GraphAssumption, Numbers DEF BitParallelTypeOK, DistancesInv
<1>4. \A v \in Vertex : v \in Scanned <=> tmp_d[v] = bp_d
  BY <1>1 DEF Scanned
<1>5. \A v \in Vertex : \A w \in adj[v] :
          tmp_d[v] = bp_d /\ tmp_d[w] > bp_d => w \in Queued(bp_nxt) /\ tmp_d[w] = bp_d + 1
  BY <1>1, <1>4 DEF EdgesInv, DistancesInv
<1>6. ASSUME NEW v \in Vertex, NEW n \in 0..(INF8 - 1), n <= bp_d + 1, Within(adj, bp_r, v, n)
      PROVE  tmp_d[v] <= n
  <2>1. CASE n <= bp_d
    BY <2>1, <1>1, <1>6 DEF DistancesInv
  <2>2. CASE n = bp_d + 1
    <3>1. Within(adj, bp_r, v, bp_d) \/ \E w : Within(adj, bp_r, w, bp_d) /\ v \in adj[w]
      BY <2>2, <1>2, <1>6, WithinStep
    <3>2. CASE Within(adj, bp_r, v, bp_d)
      <4>1. tmp_d[v] <= bp_d
        BY <3>2, <1>1, <1>2 DEF DistancesInv
      <4> QED BY <4>1, <2>2, <1>2, <1>3
    <3>3. CASE \E w : Within(adj, bp_r, w, bp_d) /\ v \in adj[w]
      <4>1. PICK w : Within(adj, bp_r, w, bp_d) /\ v \in adj[w]
        BY <3>3
      <4>2. bp_r \in Vertex
        BY <1>1 DEF DistancesInv, IsRoot, BitParallelTypeOK
      <4>3. w \in Vertex
        BY <4>1, <4>2, <1>1, <1>2, WithinVertex DEF BitParallelTypeOK
      <4>4. tmp_d[w] <= bp_d
        BY <4>1, <4>3, <1>1, <1>2 DEF DistancesInv
      <4>5. CASE tmp_d[w] = bp_d
        <5>1. tmp_d[v] > bp_d => tmp_d[v] = bp_d + 1
          BY <4>1, <4>3, <4>5, <1>5
        <5> QED BY <5>1, <2>2, <1>2, <1>3
      <4>6. CASE tmp_d[w] < bp_d
        <5>1. tmp_d[w] \in Nat /\ tmp_d[w] + 1 \in 0..(INF8 - 1) /\ tmp_d[w] + 1 <= bp_d
              /\ tmp_d[w] < INF8
          <6>1. tmp_d[w] \in 0..INF8
            BY <4>3, <1>3
          <6>2. \A m \in 0..INF8 : m < bp_d =>
                    m \in Nat /\ m + 1 \in 0..(INF8 - 1) /\ m + 1 <= bp_d /\ m < INF8
            BY <1>2, Numbers
          <6> QED BY <6>1, <6>2, <4>6
        <5>2. Within(adj, bp_r, w, tmp_d[w])
          BY <4>3, <5>1, <1>1 DEF DistancesInv, AtDistance
        <5>3. Within(adj, bp_r, v, tmp_d[w] + 1)
          BY <4>1, <5>1, <5>2, WithinStep
        <5>4. tmp_d[v] <= tmp_d[w] + 1
          BY <5>1, <5>3, <1>1 DEF DistancesInv
        <5> QED BY <5>1, <5>4, <2>2, <1>2, <1>3
      <4> QED BY <4>3, <4>4, <4>5, <4>6, <1>2, <1>3
    <3> QED BY <3>1, <3>2, <3>3
  <2> QED BY <2>1, <2>2, <1>2, <1>6
<1>7. \A v, w \in Vertex :
          /\ <<v, w>> \in sibling_es
                <=> tmp_d[v] = bp_d /\ w \in adj[v] /\ tmp_d[w] = bp_d /\ v < w
          /\ <<v, w>> \in child_es <=> tmp_d[v] = bp_d /\ w \in adj[v] /\ tmp_d[w] > bp_d
  BY <1>1, <1>4 DEF EdgesInv
<1> QED BY <1>2, <1>3, <1>5, <1>6, <1>7

\* What the fold makes of the masks of a vertex at, before and after the depth.
LEMMA FoldValues ==
    ASSUME LevelOver, NEW v \in Vertex
    PROVE  /\ tmp_d[v] < bp_d => Folded(tmp_s)[v] = tmp_s[v]
           /\ tmp_d[v] = bp_d => /\ Folded(tmp_s)[v][1] = tmp_s[v][1]
                                 /\ \A b : b \in Folded(tmp_s)[v][2]
                                       <=> \/ b \in tmp_s[v][2]
                                           \/ \E w \in Vertex : /\ v \in adj[w] /\ w # v
                                                                /\ tmp_d[w] = bp_d /\ b \in tmp_s[w][1]
           /\ tmp_d[v] > bp_d =>
                 /\ \A b : b \in Folded(tmp_s)[v][1]
                       <=> \/ b \in tmp_s[v][1]
                           \/ \E w \in Vertex : v \in adj[w] /\ tmp_d[w] = bp_d /\ b \in tmp_s[w][1]
                 /\ \A b : b \in Folded(tmp_s)[v][2]
                       <=> \/ b \in tmp_s[v][2]
                           \/ \E w \in Vertex : /\ v \in adj[w] /\ tmp_d[w] = bp_d
                                                /\ b \in Folded(tmp_s)[w][2]
<1>1. /\ bp_d \in Nat
      /\ \A w \in Vertex : tmp_d[w] \in 0..INF8 /\ adj[w] \subseteq Vertex
      /\ \A x, w \in Vertex :
            /\ <<x, w>> \in sibling_es
                  <=> tmp_d[x] = bp_d /\ w \in adj[x] /\ tmp_d[w] = bp_d /\ x < w
            /\ <<x, w>> \in child_es <=> tmp_d[x] = bp_d /\ w \in adj[x] /\ tmp_d[w] > bp_d
  BY NextLevelKnown
<1>2. /\ tmp_s \in [Vertex -> Mask \X Mask]
      /\ \A x, w \in Vertex : w \in adj[x] => x \in adj[w]
      /\ \A x, w \in Vertex : x # w => x < w \/ w < x
      /\ \A x \in Vertex : ~(x < x)
  BY GraphAssumption, Numbers DEF LevelOver, TreeInv, BitParallelTypeOK, Vertex
<1> DEFINE s1 == FoldSiblings(tmp_s)
           s2 == FoldChildren(s1)
           Beside(w) == {u \in Vertex : <<u, w>> \in sibling_es \/ <<w, u>> \in sibling_es}
           Parents(w) == {u \in Vertex : <<u, w>> \in child_es}
<1>3. \A w \in Vertex : /\ s1[w][1] = tmp_s[w][1]
                        /\ s1[w][2] = tmp_s[w][2] \cup UNION {tmp_s[u][1] : u \in Beside(w)}
                        /\ s1[w] = <<s1[w][1], s1[w][2]>>
  BY DEF FoldSiblings
<1>4. \A w \in Vertex : /\ s2[w][1] = s1[w][1] \cup UNION {s1[u][1] : u \in Parents(w)}
                        /\ s2[w][2] = s1[w][2] \cup UNION {s1[u][2] : u \in Parents(w)}
                        /\ s2[w] = <<s2[w][1], s2[w][2]>>
  BY DEF FoldChildren
<1>5. s2 = Folded(tmp_s)
  BY DEF Folded
<1>6. \A w, u \in Vertex : /\ u \in Beside(w) <=> tmp_d[u] = bp_d /\ tmp_d[w] = bp_d /\ w \in adj[u] /\ u # w
                           /\ u \in Parents(w) <=> tmp_d[u] = bp_d /\ w \in adj[u] /\ tmp_d[w] > bp_d
  BY <1>1, <1>2
<1>7. \A w \in Vertex : /\ tmp_d[w] # bp_d => Beside(w) = {}
                        /\ tmp_d[w] <= bp_d => Parents(w) = {}
                        /\ Beside(w) \subseteq Vertex /\ Parents(w) \subseteq Vertex
  <2>1. \A w \in Vertex : tmp_d[w] <= bp_d => ~(tmp_d[w] > bp_d)
    BY <1>1
  <2> QED BY <1>6, <2>1
<1> HIDE DEF s1, s2, Beside, Parents
<1>8. \A w \in Vertex : /\ tmp_d[w] # bp_d => s1[w][2] = tmp_s[w][2]
                        /\ tmp_d[w] <= bp_d => s2[w][1] = tmp_s[w][1] /\ s2[w][2] = s1[w][2]
  <2>2. ASSUME NEW w \in Vertex, Beside(w) = {} PROVE s1[w][2] = tmp_s[w][2]
    <3>1. s1[w][2] = tmp_s[w][2] \cup UNION {tmp_s[u][1] : u \in Beside(w)}
      BY <1>3
    <3> QED BY <2>2, <3>1
  <2>3. ASSUME NEW w \in Vertex, Parents(w) = {}
        PROVE  s2[w][1] = tmp_s[w][1] /\ s2[w][2] = s1[w][2]
    <3>1. s2[w][1] = s1[w][1] \cup UNION {s1[u][1] : u \in Parents(w)} /\ s1[w][1] = tmp_s[w][1]
      BY <1>3, <1>4
    <3>2. s2[w][2] = s1[w][2] \cup UNION {s1[u][2] : u \in Parents(w)}
      BY <1>4
    <3>3. s2[w][1] = tmp_s[w][1]
      BY <2>3, <3>1
    <3>4. s2[w][2] = s1[w][2]
      BY <2>3, <3>2
    <3> QED BY <3>3, <3>4
  <2> QED BY <2>2, <2>3, <1>7
<1>9. tmp_s[v] = <<tmp_s[v][1], tmp_s[v][2]>>
  BY <1>2
<1>10. ASSUME tmp_d[v] < bp_d PROVE s2[v] = tmp_s[v]
  BY <1>1, <1>4, <1>8, <1>9, <1>10
<1>11. ASSUME tmp_d[v] = bp_d
       PROVE  /\ s2[v][1] = tmp_s[v][1]
              /\ \A b : b \in s2[v][2]
                    <=> \/ b \in tmp_s[v][2]
                        \/ \E w \in Vertex : /\ v \in adj[w] /\ w # v
                                             /\ tmp_d[w] = bp_d /\ b \in tmp_s[w][1]
  <2>1. s2[v][1] = tmp_s[v][1] /\ s2[v][2] = s1[v][2]
    BY <1>1, <1>8, <1>11
  <2>2. \A b : b \in s1[v][2] <=> b \in tmp_s[v][2] \/ \E w \in Beside(v) : b \in tmp_s[w][1]
    BY <1>3
  <2>3. \A w : w \in Beside(v) <=> w \in Vertex /\ tmp_d[w] = bp_d /\ v \in adj[w] /\ w # v
    BY <1>6, <1>7, <1>11
  <2> QED BY <2>1, <2>2, <2>3
<1>12. ASSUME tmp_d[v] > bp_d
       PROVE  /\ \A b : b \in s2[v][1]
                    <=> \/ b \in tmp_s[v][1]
                        \/ \E w \in Vertex : v \in adj[w] /\ tmp_d[w] = bp_d /\ b \in tmp_s[w][1]
              /\ \A b : b \in s2[v][2]
                    <=> \/ b \in tmp_s[v][2]
                        \/ \E w \in Vertex : v \in adj[w] /\ tmp_d[w] = bp_d /\ b \in s2[w][2]
  <2>1. \A w : w \in Parents(v) <=> w \in Vertex /\ tmp_d[w] = bp_d /\ v \in adj[w]
    BY <1>6, <1>7, <1>12
  <2>2. /\ \A b : b \in s2[v][1] <=> b \in s1[v][1] \/ \E w \in Parents(v) : b \in s1[w][1]
        /\ \A b : b \in s2[v][2] <=> b \in s1[v][2] \/ \E w \in Parents(v) : b \in s1[w][2]
    BY <1>4
  <2>3. \A w \in Parents(v) : s1[w][1] = tmp_s[w][1] /\ s1[w][2] = s2[w][2]
    <3>1. \A w \in Parents(v) : w \in Vertex /\ tmp_d[w] <= bp_d
      BY <2>1, <1>1
    <3> QED BY <3>1, <1>3, <1>8
  <2>4. s1[v][1] = tmp_s[v][1] /\ s1[v][2] = tmp_s[v][2]
    BY <1>1, <1>3, <1>8, <1>12
  <2> QED BY <2>1, <2>2, <2>3, <2>4
<1> QED BY <1>5, <1>10, <1>11, <1>12

\* What a search in a level knows of the root and its chosen neighbours.
LEMMA RootKnown ==
    ASSUME TreeInv, pc = "scan"
    PROVE  /\ adj \in Graphs /\ bp_r \in Vertex /\ vs \in SUBSET Vertex /\ vs \subseteq adj[bp_r]
           /\ IsRoot(bp_r, vs)
           /\ \A v \in Vertex : tmp_d[v] < INF8 => AtDistance(adj, bp_r, v, tmp_d[v])
           /\ \A v \in vs : v # bp_r /\ Within(adj, bp_r, v, 1)
           /\ \A v, w \in Vertex : w \in adj[v] => v \in adj[w]
<1>1. /\ BitParallelTypeOK /\ DistancesInv /\ IsRoot(bp_r, vs)
  BY DEF TreeInv, DistancesInv
<1>2. adj \in Graphs /\ bp_r \in Vertex /\ vs \in SUBSET Vertex /\ vs \subseteq adj[bp_r]
      /\ bp_r \notin vs
  BY <1>1 DEF IsRoot, BitParallelTypeOK
<1>3. \A v \in vs : v # bp_r /\ Within(adj, bp_r, v, 0 + 1)
  BY <1>2, WithinZero, WithinStep
<1> QED BY <1>1, <1>2, <1>3, GraphAssumption DEF DistancesInv

\* When a level is over, the fold makes its masks exact.
LEMMA LevelFinal ==
    ASSUME LevelOver, NEW v \in Vertex, tmp_d[v] = bp_d
    PROVE  /\ Folded(tmp_s)[v][1] = Near(vs, v, bp_d - 1)
           /\ Folded(tmp_s)[v][1] \cup Folded(tmp_s)[v][2] = Near(vs, v, bp_d)
<1> DEFINE s2 == Folded(tmp_s)
           D == bp_d
<1>1. TreeInv /\ MasksInv /\ pc = "scan" /\ D \in Nat /\ D \in 0..(INF8 - 1) /\ D < INF8
  BY NextLevelKnown DEF LevelOver, TreeInv
<1>2. /\ s2[v][1] = tmp_s[v][1]
      /\ \A b : b \in s2[v][2]
            <=> \/ b \in tmp_s[v][2]
                \/ \E w \in Vertex : v \in adj[w] /\ w # v /\ tmp_d[w] = D /\ b \in tmp_s[w][1]
  BY FoldValues
<1>3. \A w \in Vertex : tmp_d[w] = D =>
          /\ tmp_s[w][1] = Near(vs, w, D - 1)
          /\ tmp_s[w][2] \subseteq Near(vs, w, D)
          /\ \A p \in Vertex : w \in adj[p] /\ tmp_d[p] = D - 1 => tmp_s[p][2] \subseteq tmp_s[w][2]
  BY <1>1 DEF MasksInv
<1> HIDE DEF s2
<1>4. ASSUME NEW b, b \in s2[v][1] \cup s2[v][2] PROVE b \in Near(vs, v, D)
  <2>1. D - 1 \in Int /\ (D - 1) + 1 = D
    BY <1>1
  <2>2. \A w \in Vertex : w = v \/ v \in adj[w] => Near(vs, w, D - 1) \subseteq Near(vs, v, D)
    BY <2>1, NearStep
  <2> QED BY <1>2, <1>3, <1>4, <2>2
<1>5. ASSUME NEW b, b \in Near(vs, v, D), b \notin s2[v][1] PROVE b \in s2[v][2]
  <2>1. b \notin Near(vs, v, D - 1)
    BY <1>2, <1>3, <1>5
  <2>2. /\ adj \in Graphs /\ bp_r \in Vertex /\ vs \in SUBSET Vertex /\ vs \subseteq adj[bp_r]
        /\ \A w \in Vertex : tmp_d[w] < INF8 => AtDistance(adj, bp_r, w, tmp_d[w])
        /\ \A w \in vs : w # bp_r
    BY <1>1, RootKnown
  <2>3. \/ D = 0 /\ v \in vs /\ b = Bit(v, vs)
        \/ D > 0 /\ \E w \in Vertex : v \in adj[w] /\ b \in Near(vs, w, D - 1) /\ Within(adj, bp_r, w, D)
    BY <1>1, <1>5, <2>1, <2>2, BitFromNeighbor
  <2>4. AtDistance(adj, bp_r, v, D)
    BY <1>1, <2>2
  <2>5. ~(D = 0 /\ v \in vs)
    BY <2>2, <2>4, WithinZero DEF AtDistance
  <2>6. PICK w \in Vertex : v \in adj[w] /\ b \in Near(vs, w, D - 1) /\ Within(adj, bp_r, w, D)
    BY <2>3, <2>5
  <2>7. tmp_d[w] \in 0..INF8 /\ tmp_d[w] <= D
    BY <1>1, <2>6, NextLevelKnown DEF TreeInv, DistancesInv
  <2>8. CASE tmp_d[w] = D
    <3>1. b \in tmp_s[w][1]
      BY <1>3, <2>6, <2>8
    <3>2. w # v
      BY <3>1, <1>2, <1>5
    <3> QED BY <1>2, <2>6, <2>8, <3>1, <3>2
  <2>9. CASE tmp_d[w] < D
    <3>1. tmp_d[w] \in Nat /\ tmp_d[w] < INF8 /\ tmp_d[w] + 1 \in Nat
      BY <1>1, <2>7, <2>9, Numbers
    <3>2. Within(adj, bp_r, v, tmp_d[w] + 1)
      BY <2>2, <2>6, <3>1, WithinStep DEF AtDistance
    <3>3. D <= tmp_d[w] + 1
      BY <1>1, <2>4, <3>1, <3>2, DistanceUnique
    <3>4. tmp_d[w] = D - 1
      BY <1>1, <2>9, <3>1, <3>3
    <3>5. tmp_s[w][1] = Near(vs, w, (D - 1) - 1) /\ tmp_s[w][1] \cup tmp_s[w][2] = Near(vs, w, D - 1)
      BY <1>1, <2>9, <3>1, <3>4 DEF MasksInv
    <3>6. CASE b \in tmp_s[w][2]
      BY <1>2, <1>3, <2>6, <3>4, <3>6
    <3>7. CASE b \in tmp_s[w][1]
      <4>1. (D - 1) - 1 \in Int /\ ((D - 1) - 1) + 1 = D - 1
        BY <1>1
      <4>2. b \in Near(vs, v, D - 1)
        BY <2>6, <3>5, <3>7, <4>1, NearStep
      <4> QED BY <2>1, <4>2
    <3> QED BY <2>6, <3>5, <3>6, <3>7
  <2> QED BY <1>1, <2>7, <2>8, <2>9
<1>6. s2[v][1] \cup s2[v][2] = Near(vs, v, D)
  <2>1. Near(vs, v, D - 1) \subseteq Near(vs, v, D)
    <3>1. D - 1 \in Int /\ (D - 1) + 1 = D
      BY <1>1
    <3> QED BY <3>1, NearStep
  <2> QED BY <1>2, <1>3, <1>4, <1>5
<1>7. s2[v][1] = Near(vs, v, D - 1)
  BY <1>2, <1>3
<1> QED BY <1>6, <1>7 DEF s2

\* The fold gives the next level its S^{-1}, and of S^0 what comes from the level before.
LEMMA NextFront ==
    ASSUME LevelOver, NEW v \in Vertex, tmp_d[v] = bp_d + 1, bp_d + 1 < INF8
    PROVE  /\ Folded(tmp_s)[v][1] = Near(vs, v, bp_d)
           /\ Folded(tmp_s)[v][2] \subseteq Near(vs, v, bp_d + 1)
           /\ \A p \in Vertex : v \in adj[p] /\ tmp_d[p] = bp_d
                                => Folded(tmp_s)[p][2] \subseteq Folded(tmp_s)[v][2]
<1> DEFINE s2 == Folded(tmp_s)
           D == bp_d
<1>1. TreeInv /\ MasksInv /\ pc = "scan" /\ D \in Nat /\ D \in 0..(INF8 - 1) /\ D < INF8
  BY NextLevelKnown DEF LevelOver, TreeInv
<1>2. /\ \A b : b \in s2[v][1]
            <=> \/ b \in tmp_s[v][1]
                \/ \E w \in Vertex : v \in adj[w] /\ tmp_d[w] = D /\ b \in tmp_s[w][1]
      /\ \A b : b \in s2[v][2]
            <=> \/ b \in tmp_s[v][2]
                \/ \E w \in Vertex : v \in adj[w] /\ tmp_d[w] = D /\ b \in s2[w][2]
  <2>1. tmp_d[v] > bp_d
    BY <1>1
  <2> QED BY <2>1, FoldValues
<1>3. tmp_s[v] = IF v \in vs THEN <<{Bit(v, vs)}, {}>> ELSE NoMasks
  BY <1>1 DEF MasksInv
<1>4. \A w \in Vertex : tmp_d[w] = D => tmp_s[w][1] = Near(vs, w, D - 1)
  BY <1>1 DEF MasksInv
<1>5. \A w \in Vertex : tmp_d[w] = D => s2[w][2] \subseteq Near(vs, w, D)
  BY LevelFinal
<1>6. /\ adj \in Graphs /\ bp_r \in Vertex /\ vs \in SUBSET Vertex /\ vs \subseteq adj[bp_r]
      /\ \A w \in Vertex : tmp_d[w] < INF8 => AtDistance(adj, bp_r, w, tmp_d[w])
  BY <1>1, RootKnown
<1>7. ~Within(adj, bp_r, v, D)
  <2>1. D + 1 > 0 /\ (D + 1) - 1 = D
    BY <1>1
  <2> QED BY <1>6, <2>1 DEF AtDistance
<1> HIDE DEF s2
<1>8. ASSUME NEW b, b \in s2[v][1] PROVE b \in Near(vs, v, D)
  <2>1. CASE b \in tmp_s[v][1]
    <3>1. v \in vs /\ b = Bit(v, vs)
      BY <1>3, <2>1 DEF NoMasks
    <3>2. Within(adj, v, v, D) /\ D >= 0
      BY <1>1, WithinZero, WithinMonotone
    <3> QED BY <3>1, <3>2, NearMember
  <2>2. CASE b \notin tmp_s[v][1]
    <3>1. PICK w \in Vertex : v \in adj[w] /\ b \in Near(vs, w, D - 1)
      BY <1>2, <1>4, <1>8, <2>2
    <3>2. D - 1 \in Int /\ (D - 1) + 1 = D
      BY <1>1
    <3> QED BY <3>1, <3>2, NearStep
  <2> QED BY <2>1, <2>2
<1>9. ASSUME NEW b, b \in Near(vs, v, D) PROVE b \in s2[v][1]
  <2>1. b \notin Near(vs, v, D - 1)
    <3>1. SUFFICES ASSUME b \in Near(vs, v, D - 1) PROVE FALSE
      OBVIOUS
    <3>2. PICK u \in vs : Within(adj, u, v, D - 1) /\ D - 1 >= 0
      BY <3>1, NearMember
    <3>3. D - 1 \in Nat /\ (D - 1) + 1 = D
      BY <1>1, <3>2
    <3> QED BY <1>6, <1>7, <3>2, <3>3, RootIsNear
  <2>2. \/ D = 0 /\ v \in vs /\ b = Bit(v, vs)
        \/ D > 0 /\ \E w \in Vertex : v \in adj[w] /\ b \in Near(vs, w, D - 1) /\ Within(adj, bp_r, w, D)
    BY <1>1, <1>6, <1>9, <2>1, BitFromNeighbor
  <2>3. CASE v \in vs /\ b = Bit(v, vs)
    BY <1>2, <1>3, <2>3
  <2>4. CASE \E w \in Vertex : v \in adj[w] /\ b \in Near(vs, w, D - 1) /\ Within(adj, bp_r, w, D)
    <3>1. PICK w \in Vertex : v \in adj[w] /\ b \in Near(vs, w, D - 1) /\ Within(adj, bp_r, w, D)
      BY <2>4
    <3>2. tmp_d[w] \in 0..INF8 /\ tmp_d[w] <= D
      BY <1>1, <3>1, NextLevelKnown DEF TreeInv, DistancesInv
    <3>3. ~(tmp_d[w] < D)
      <4>1. SUFFICES ASSUME tmp_d[w] < D PROVE FALSE
        OBVIOUS
      <4>2. tmp_d[w] \in Nat /\ tmp_d[w] < INF8 /\ tmp_d[w] + 1 \in Nat /\ tmp_d[w] + 1 <= D
        BY <1>1, <3>2, <4>1, Numbers
      <4>3. Within(adj, bp_r, v, tmp_d[w] + 1)
        BY <1>6, <3>1, <4>2, WithinStep DEF AtDistance
      <4> QED BY <1>1, <1>7, <4>2, <4>3, WithinMonotone
    <3>4. tmp_d[w] = D
      BY <1>1, <3>2, <3>3
    <3> QED BY <1>2, <1>4, <3>1, <3>4
  <2> QED BY <2>2, <2>3, <2>4
<1>10. ASSUME NEW b, b \in s2[v][2] PROVE b \in Near(vs, v, D + 1)
  <2>1. tmp_s[v][2] = {}
    BY <1>3 DEF NoMasks
  <2>2. PICK w \in Vertex : v \in adj[w] /\ b \in Near(vs, w, D)
    BY <1>2, <1>5, <1>10, <2>1
  <2>3. D \in Int
    BY <1>1
  <2>4. Near(vs, w, D) \subseteq Near(vs, v, D + 1)
    BY <2>2, <2>3, NearStep
  <2> QED BY <2>2, <2>4
<1>11. \A p \in Vertex : v \in adj[p] /\ tmp_d[p] = D => s2[p][2] \subseteq s2[v][2]
  BY <1>2
<1> QED BY <1>8, <1>9, <1>10, <1>11 DEF s2

\* The fold of masks is masks.
LEMMA FoldedType ==
    ASSUME tmp_s \in [Vertex -> Mask \X Mask]
    PROVE  Folded(tmp_s) \in [Vertex -> Mask \X Mask]
<1>1. ASSUME NEW s \in [Vertex -> Mask \X Mask]
      PROVE  FoldSiblings(s) \in [Vertex -> Mask \X Mask] /\ FoldChildren(s) \in [Vertex -> Mask \X Mask]
  <2>1. \A w \in Vertex : s[w][1] \in Mask /\ s[w][2] \in Mask
    OBVIOUS
  <2>2. \A T \in SUBSET Vertex : UNION {s[w][1] : w \in T} \in Mask /\ UNION {s[w][2] : w \in T} \in Mask
    BY <2>1 DEF Mask
  <2>3. \A a, b \in Mask : a \cup b \in Mask
    BY DEF Mask
  <2>4. FoldSiblings(s) \in [Vertex -> Mask \X Mask]
    <3>1. SUFFICES ASSUME NEW v \in Vertex
          PROVE  s[v][1] \in Mask /\ s[v][2] \cup UNION {s[w][1] : w \in {u \in Vertex :
                        <<u, v>> \in sibling_es \/ <<v, u>> \in sibling_es}} \in Mask
      BY DEF FoldSiblings
    <3> QED BY <2>1, <2>2, <2>3
  <2>5. FoldChildren(s) \in [Vertex -> Mask \X Mask]
    <3>1. SUFFICES ASSUME NEW c \in Vertex
          PROVE  /\ s[c][1] \cup UNION {s[v][1] : v \in {v \in Vertex : <<v, c>> \in child_es}} \in Mask
                 /\ s[c][2] \cup UNION {s[v][2] : v \in {v \in Vertex : <<v, c>> \in child_es}} \in Mask
      BY DEF FoldChildren
    <3> QED BY <2>1, <2>2, <2>3
  <2> QED BY <2>4, <2>5
<1> QED BY <1>1 DEF Folded

\* When a search ends, the vertices it did not reach are INF8 away and more.
LEMMA SearchEnds ==
    ASSUME LevelOver, Queued(bp_nxt) = {}, NEW v \in Vertex, tmp_d[v] = INF8, NEW n \in Nat
    PROVE  ~Within(adj, bp_r, v, n)
<1>1. /\ bp_d \in Nat /\ bp_d \in 0..(INF8 - 1)
      /\ \A w \in Vertex : tmp_d[w] \in 0..INF8
      /\ \A w \in Vertex : \A x \in adj[w] : ~(tmp_d[w] = bp_d /\ tmp_d[x] > bp_d)
      /\ \A w \in Vertex : \A m \in 0..(INF8 - 1) :
            m <= bp_d + 1 /\ Within(adj, bp_r, w, m) => tmp_d[w] <= m
  BY NextLevelKnown
<1>2. /\ adj \in Graphs /\ bp_r \in Vertex
      /\ \A w \in Vertex : tmp_d[w] < INF8 => AtDistance(adj, bp_r, w, tmp_d[w])
  BY RootKnown DEF LevelOver
<1>3. ASSUME NEW x, AtDistance(adj, bp_r, x, bp_d + 1) PROVE FALSE
  <2>1. PICK w : AtDistance(adj, bp_r, w, bp_d) /\ x \in adj[w]
    BY <1>1, <1>3, Predecessor
  <2>2. Within(adj, bp_r, w, bp_d) /\ Within(adj, bp_r, x, bp_d + 1) /\ bp_d + 1 \in Nat
    BY <1>1, <1>3, <2>1 DEF AtDistance
  <2>3. w \in Vertex /\ x \in Vertex
    BY <1>1, <1>2, <2>2, WithinVertex
  <2>4. tmp_d[w] \in Nat /\ tmp_d[w] <= bp_d /\ tmp_d[w] < INF8
    BY <1>1, <2>2, <2>3, Numbers
  <2>5. bp_d <= tmp_d[w]
    BY <1>1, <1>2, <2>1, <2>3, <2>4, DistanceUnique DEF AtDistance
  <2>6. tmp_d[x] \in Nat /\ tmp_d[x] <= bp_d /\ tmp_d[x] < INF8
    BY <1>1, <2>1, <2>3, <2>4, <2>5, Numbers
  <2>7. bp_d + 1 <= tmp_d[x]
    <3>1. Within(adj, bp_r, x, tmp_d[x])
      BY <1>2, <2>3, <2>6 DEF AtDistance
    <3> QED BY <1>3, <2>2, <2>6, <3>1, DistanceUnique
  <2> QED BY <1>1, <2>6, <2>7
<1>4. SUFFICES ASSUME Within(adj, bp_r, v, n) PROVE FALSE
  OBVIOUS
<1>5. Within(adj, bp_r, v, bp_d)
  BY <1>1, <1>3, <1>4, BallStops
<1>6. tmp_d[v] <= bp_d
  BY <1>1, <1>5
<1> QED BY <1>1, <1>6, Numbers

\* A fold completes a level; the last one leaves a label for every vertex.
LEMMA FoldLevelKeeps ==
    ASSUME TreeInv, FoldLevel
    PROVE  TreeInv'
<1>1. /\ pc = "scan" /\ Queued(bp_cur) = {}
      /\ tmp_s' = Folded(tmp_s)
      /\ sibling_es' = {} /\ child_es' = {}
      /\ num_sibling_es' = 0 /\ num_child_es' = 0
      /\ bp_cur' = bp_nxt /\ bp_nxt' = Once({})
      /\ bp_d' = bp_d + 1
      /\ pc' = IF Queued(bp_nxt) # {} THEN "scan" ELSE IF bp_d = INF8 THEN "exited" ELSE "write"
      /\ UNCHANGED <<adj, usd, spt, bpspt_d, bpspt_s, i_bpspt, bp_r, vs, tmp_d, bp_que_h>>
  BY DEF FoldLevel, ForgetEdges
<1>8. /\ Queued(bp_cur') = Queued(bp_nxt) /\ Queued(bp_nxt') = {}
      /\ bp_nxt' \in [Vertex -> Nat] /\ \A v \in Vertex : bp_nxt'[v] <= 1
  <2>1. {} \in SUBSET Vertex
    OBVIOUS
  <2> QED BY <1>1, <2>1, OnceEach
<1>2. BitParallelTypeOK /\ TreesInv /\ DistancesInv /\ EdgesInv /\ MasksInv /\ i_bpspt < K
  BY <1>1 DEF TreeInv
<1>3. bp_d \in 0..INF8 /\ (bp_d = INF8 => Queued(bp_nxt) = {}) /\ (bp_d # INF8 => LevelOver)
  BY <1>1, <1>2, Numbers DEF DistancesInv, BitParallelTypeOK, LevelOver
<1>4. BitParallelTypeOK'
  <2>1. tmp_s' \in [Vertex -> Mask \X Mask]
    BY <1>1, <1>2, FoldedType DEF BitParallelTypeOK
  <2>2. bp_d' \in 0..(INF8 + 1)
    BY <1>1, <1>3, Numbers
  <2>3. pc' \in {"tree", "scan", "write", "root", "exited"}
    BY <1>1
  <2> QED BY <1>1, <1>2, <1>8, <2>1, <2>2, <2>3 DEF BitParallelTypeOK
<1>9. CopiesInv'
  <2>1. SUFFICES ASSUME NEW v \in Vertex, bp_d + 1 < INF8 PROVE bp_cur'[v] <= 1
    BY <1>1, <1>8 DEF CopiesInv
  <2> QED BY <2>1, <1>1 DEF TreeInv, CopiesInv
<1>5. TreesInv'
  <2>1. usd' \subseteq Vertex /\ \A w \in Vertex : w < bp_r' => w \in usd'
    BY <1>1, <1>2 DEF BitParallelTypeOK, TreesInv
  <2>2. pc' \in {"scan", "write", "exited"}
    BY <1>1
  <2> QED BY <1>1, <1>2, <2>1, <2>2, TreesStay
<1>6. CASE bp_d = INF8
  <2>1. pc' = "exited"
    BY <1>1, <1>3, <1>6
  <2> QED BY <1>4, <1>5, <1>9, <2>1 DEF TreeInv, DistancesInv, CopiesInv, EdgesInv, MasksInv, WriteInv
<1>7. CASE bp_d # INF8
  <2>1. LevelOver /\ bp_d \in Nat /\ bp_d + 1 \in Nat /\ bp_d < INF8 /\ bp_d + 1 <= INF8
    BY <1>3, <1>7, Numbers
  <2>2. /\ \A v \in Vertex : tmp_d[v] \in 0..INF8 /\ adj[v] \subseteq Vertex
        /\ \A v \in Vertex : \A w \in adj[v] :
              tmp_d[v] = bp_d /\ tmp_d[w] > bp_d => w \in Queued(bp_nxt) /\ tmp_d[w] = bp_d + 1
        /\ \A v \in Vertex : \A n \in 0..(INF8 - 1) :
              n <= bp_d + 1 /\ Within(adj, bp_r, v, n) => tmp_d[v] <= n
    BY <2>1, NextLevelKnown
  <2>3. /\ IsRoot(bp_r, vs)
        /\ \A v \in Vertex : tmp_d[v] < INF8 => AtDistance(adj, bp_r, v, tmp_d[v])
        /\ \A v \in vs : v \in Vertex /\ Within(adj, bp_r, v, 1)
    BY <1>1, RootKnown
  <2>4. \A v \in Vertex : /\ tmp_d[v] < INF8 => tmp_d[v] <= bp_d + 1
                          /\ tmp_d[v] = bp_d + 1 /\ bp_d + 1 < INF8 => v \in Queued(bp_nxt)
                          /\ v \in Queued(bp_nxt) => tmp_d[v] = bp_d + 1
    BY <1>1, <1>2 DEF DistancesInv
  <2>5. ASSUME NEW v \in Vertex, tmp_d[v] <= bp_d
        PROVE  /\ Folded(tmp_s)[v][1] = Near(vs, v, tmp_d[v] - 1)
               /\ Folded(tmp_s)[v][1] \cup Folded(tmp_s)[v][2] = Near(vs, v, tmp_d[v])
    <3>1. CASE tmp_d[v] = bp_d
      BY <2>1, <3>1, LevelFinal
    <3>2. CASE tmp_d[v] < bp_d
      <4>1. tmp_d[v] < INF8
        BY <2>1, <2>2, <3>2, Numbers
      <4>2. Folded(tmp_s)[v] = tmp_s[v]
        BY <2>1, <3>2, FoldValues
      <4> QED BY <1>1, <1>2, <3>2, <4>1, <4>2 DEF MasksInv
    <3> QED BY <2>1, <2>2, <2>5, <3>1, <3>2
  <2>6. ASSUME NEW v \in Vertex, tmp_d[v] > bp_d, v \notin Queued(bp_nxt)
        PROVE  Folded(tmp_s)[v] = IF v \in vs THEN <<{Bit(v, vs)}, {}>> ELSE NoMasks
    <3>1. \A w \in Vertex : ~(v \in adj[w] /\ tmp_d[w] = bp_d)
      BY <2>2, <2>6
    <3>2. /\ \A b : b \in Folded(tmp_s)[v][1] <=> b \in tmp_s[v][1]
          /\ \A b : b \in Folded(tmp_s)[v][2] <=> b \in tmp_s[v][2]
      BY <2>1, <2>6, <3>1, FoldValues
    <3>3. Folded(tmp_s)[v] = tmp_s[v]
      <4>1. /\ Folded(tmp_s)[v] = <<Folded(tmp_s)[v][1], Folded(tmp_s)[v][2]>>
            /\ tmp_s[v] = <<tmp_s[v][1], tmp_s[v][2]>>
        BY <1>2, FoldedType DEF BitParallelTypeOK
      <4>2. Folded(tmp_s)[v][1] = tmp_s[v][1] /\ Folded(tmp_s)[v][2] = tmp_s[v][2]
        BY <3>2
      <4> QED BY <4>1, <4>2
    <3> QED BY <1>1, <1>2, <2>6, <3>3 DEF MasksInv
  <2>7. CASE Queued(bp_nxt) # {}
    <3>1. pc' = "scan" /\ i_bpspt' < K
      BY <1>1, <1>2, <2>7
    <3>2. DistancesInv'
      <4>1. IsRoot(bp_r, vs)'
        BY <1>1, <2>3 DEF IsRoot
      <4>2. \A v \in Vertex : tmp_d[v] < INF8 => tmp_d[v] <= (bp_d + 1) + 1
        BY <2>1, <2>2, <2>4
      <4>3. \A v \in Vertex : ~(tmp_d[v] = (bp_d + 1) + 1 /\ (bp_d + 1) + 1 < INF8)
        BY <2>1, <2>2, <2>4
      <4>4. \A v \in Vertex : tmp_d[v] <= INF8
        BY <2>2, Numbers
      <4>5. /\ adj' = adj /\ bp_r' = bp_r /\ tmp_d' = tmp_d /\ bp_d' = bp_d + 1
            /\ Queued(bp_nxt') = {} /\ Queued(bp_cur') = Queued(bp_nxt) /\ Queued(bp_nxt) \subseteq Vertex
        BY <1>1, <1>8 DEF Queued
      <4>6. \A v \in Queued(bp_cur') : tmp_d'[v] = bp_d'
        BY <2>4, <4>5
      <4>7. \A v \in Vertex : \A n \in 0..(INF8 - 1) :
                n <= bp_d' /\ Within(adj', bp_r', v, n) => tmp_d'[v] <= n
        BY <2>2, <4>5
      <4>8. \A v \in Vertex : tmp_d'[v] < INF8 => AtDistance(adj', bp_r', v, tmp_d'[v])
        BY <2>3, <4>5
      <4> QED BY <2>1, <4>1, <4>2, <4>3, <4>4, <4>5, <4>6, <4>7, <4>8 DEF DistancesInv
    <3>3. EdgesInv'
      <4>1. SUFFICES ASSUME bp_d + 1 < INF8 PROVE EdgesInv'
        BY <1>1 DEF EdgesInv
      <4>2. Scanned' = {}
        BY <1>1, <1>8, <2>4, <4>1 DEF Scanned
      <4> QED BY <1>1, <4>2 DEF EdgesInv
    <3>4. MasksInv'
      <4>1. SUFFICES ASSUME NEW v \in Vertex, NEW CONSTANT n, n = tmp_d[v]
            PROVE  (/\ n < bp_d /\ n < INF8 => /\ tmp_s[v][1] = Near(vs, v, n - 1)
                                              /\ tmp_s[v][1] \cup tmp_s[v][2] = Near(vs, v, n)
                    /\ n = bp_d /\ n < INF8 =>
                          /\ tmp_s[v][1] = Near(vs, v, n - 1)
                          /\ tmp_s[v][2] \subseteq Near(vs, v, n)
                          /\ \A p \in Vertex : v \in adj[p] /\ tmp_d[p] = n - 1
                                               => tmp_s[p][2] \subseteq tmp_s[v][2]
                    /\ n > bp_d => tmp_s[v] = IF v \in vs THEN <<{Bit(v, vs)}, {}>> ELSE NoMasks)'
        BY <1>1 DEF MasksInv
      <4>2. /\ tmp_s' = Folded(tmp_s) /\ bp_d' = bp_d + 1 /\ vs' = vs /\ adj' = adj /\ tmp_d' = tmp_d
            /\ Near(vs, v, n)' = Near(vs, v, n) /\ Near(vs, v, n - 1)' = Near(vs, v, n - 1)
        BY <1>1 DEF Near
      <4>3. n \in 0..INF8
        BY <2>2, <4>1
      <4>4. CASE n <= bp_d
        BY <2>1, <2>5, <4>1, <4>2, <4>3, <4>4
      <4>5. CASE n = bp_d + 1 /\ n < INF8
        <5>1. n - 1 = bp_d
          BY <2>1, <4>5
        <5>2. /\ Folded(tmp_s)[v][1] = Near(vs, v, n - 1)
              /\ Folded(tmp_s)[v][2] \subseteq Near(vs, v, n)
              /\ \A p \in Vertex : v \in adj[p] /\ tmp_d[p] = n - 1
                                   => Folded(tmp_s)[p][2] \subseteq Folded(tmp_s)[v][2]
          BY <2>1, <4>1, <4>5, <5>1, NextFront
        <5>3. ~(n < bp_d + 1) /\ ~(n > bp_d + 1)
          BY <2>1, <4>3, <4>5
        <5> QED BY <4>2, <5>2, <5>3
      <4>6. CASE n = INF8
        <5>1. ~(n < INF8)
          BY <4>6, Numbers
        <5>2. n > bp_d + 1 => v \notin Queued(bp_nxt) /\ tmp_d[v] > bp_d
          BY <2>1, <2>4, <4>1, <4>3
        <5>3. n > bp_d + 1 => Folded(tmp_s)[v] = IF v \in vs THEN <<{Bit(v, vs)}, {}>> ELSE NoMasks
          BY <2>6, <5>2
        <5> QED BY <4>2, <5>1, <5>3
      <4> QED BY <2>1, <2>4, <4>1, <4>3, <4>4, <4>5, <4>6, Numbers
    <3> QED BY <1>4, <1>5, <1>9, <3>1, <3>2, <3>3, <3>4 DEF TreeInv, WriteInv
  <2>8. CASE Queued(bp_nxt) = {}
    <3>1. pc' = "write" /\ i_bpspt' < K
      BY <1>1, <1>2, <1>7, <2>8
    <3>2. ASSUME NEW v \in Vertex
          PROVE  IsLabel(bp_r, vs, v, tmp_d[v],
                         <<Folded(tmp_s)[v][1], Folded(tmp_s)[v][2] \ Folded(tmp_s)[v][1]>>)
      <4>1. tmp_d[v] \in 0..INF8
        BY <2>2
      <4>2. CASE tmp_d[v] < INF8
        <5>1. tmp_d[v] <= bp_d
          BY <2>1, <2>4, <2>8, <4>1, <4>2, Numbers
        <5>2. /\ Folded(tmp_s)[v][1] = Near(vs, v, tmp_d[v] - 1)
              /\ Folded(tmp_s)[v][1] \cup Folded(tmp_s)[v][2] = Near(vs, v, tmp_d[v])
          BY <2>5, <5>1
        <5>3. Folded(tmp_s)[v][2] \ Folded(tmp_s)[v][1]
                = Near(vs, v, tmp_d[v]) \ Near(vs, v, tmp_d[v] - 1)
          BY <5>2
        <5>4. tmp_d[v] # INF8
          BY <4>1, <4>2, Numbers
        <5> QED BY <2>3, <4>1, <4>2, <5>2, <5>3, <5>4 DEF IsLabel
      <4>3. CASE tmp_d[v] = INF8
        <5>1. \A n \in Nat : ~Within(adj, bp_r, v, n)
          BY <2>1, <2>8, <4>3, SearchEnds
        <5>2. v \notin vs
          BY <2>3, <5>1
        <5>3. Folded(tmp_s)[v] = NoMasks
          BY <2>1, <2>6, <2>8, <4>3, <5>2
        <5>4. <<Folded(tmp_s)[v][1], Folded(tmp_s)[v][2] \ Folded(tmp_s)[v][1]>> = NoMasks
          BY <5>3 DEF NoMasks
        <5>5. ~Within(adj, bp_r, v, INF8) /\ ~(tmp_d[v] < INF8)
          BY <4>3, <5>1, Numbers
        <5> QED BY <4>1, <4>3, <5>4, <5>5 DEF IsLabel
      <4> QED BY <4>1, <4>2, <4>3, Numbers
    <3>3. WriteInv'
      <4>1. IsRoot(bp_r, vs)'
        BY <1>1, <2>3 DEF IsRoot
      <4>2. ASSUME NEW v \in Vertex
            PROVE  IsLabel(bp_r, vs, v, tmp_d[v], <<tmp_s[v][1], tmp_s[v][2] \ tmp_s[v][1]>>)'
        <5>1. IsLabel(bp_r, vs, v, tmp_d[v],
                      <<Folded(tmp_s)[v][1], Folded(tmp_s)[v][2] \ Folded(tmp_s)[v][1]>>)
          BY <3>2
        <5> QED BY <1>1, <5>1 DEF IsLabel, Near
      <4> QED BY <4>1, <4>2 DEF WriteInv
    <3> QED BY <1>4, <1>5, <1>9, <3>1, <3>3 DEF TreeInv, DistancesInv, EdgesInv, MasksInv
  <2> QED BY <2>7, <2>8
<1> QED BY <1>6, <1>7

(***************************************************************************)
(* The end of a tree.                                                      *)
(***************************************************************************)
\* The trees when one is added that is a tree or absent, and that the used vertices
\* of the search so far belong to.
LEMMA TreesGrow ==
    ASSUME TreesInv, NEW k, k = i_bpspt, k \in 0..(K - 1), i_bpspt' = k + 1,
           UNCHANGED <<adj, usd>>, pc' = "tree",
           \A v \in Vertex : \A i \in 0..(K - 1) : i # k =>
               bpspt_d'[v][i] = bpspt_d[v][i] /\ bpspt_s'[v][i] = bpspt_s[v][i],
           \A v \in Vertex : v < bp_r' => v \in usd,
           \/ IsAbsent(k)' /\ pc = "tree"
           \/ bp_r \in usd /\ vs \subseteq usd /\ UNCHANGED <<bp_r, vs>> /\ IsTree(k, bp_r, vs)'
    PROVE  TreesInv'
<1>1. ASSUME NEW i \in 0..(k - 1), NEW root, NEW S, IsTree(i, root, S) PROVE IsTree(i, root, S)'
  <2>1. i \in 0..(K - 1) /\ i # k
    BY Numbers
  <2> QED BY <1>1, <2>1, TreeFrame
<1>2. ASSUME NEW i \in 0..(i_bpspt' - 1)
      PROVE  (IsAbsent(i) \/ \E root \in usd : \E S \in SUBSET usd : IsTree(i, root, S))'
  <2>1. CASE i = k
    <3>1. CASE IsAbsent(k)'
      BY <2>1, <3>1
    <3>2. CASE bp_r \in usd /\ vs \subseteq usd /\ UNCHANGED <<bp_r, vs>> /\ IsTree(k, bp_r, vs)'
      <4>1. bp_r' \in usd' /\ vs' \in SUBSET usd'
        BY <3>2
      <4> QED BY <2>1, <3>2, <4>1
    <3> QED BY <3>1, <3>2
  <2>2. CASE i # k
    <3>1. i \in 0..(k - 1) /\ i \in 0..(K - 1)
      BY <2>2, Numbers
    <3>2. CASE IsAbsent(i)
      BY <2>2, <3>1, <3>2 DEF IsAbsent
    <3>3. CASE \E root \in usd : \E S \in SUBSET usd : IsTree(i, root, S)
      <4>1. PICK root \in usd : \E S \in SUBSET usd : IsTree(i, root, S)
        BY <3>3
      <4>2. PICK S \in SUBSET usd : IsTree(i, root, S)
        BY <4>1
      <4>3. root \in usd' /\ S \in SUBSET usd' /\ IsTree(i, root, S)'
        BY <3>1, <4>2, <1>1
      <4> QED BY <4>3
    <3> QED BY <3>1, <3>2, <3>3 DEF TreesInv
  <2> QED BY <2>1, <2>2
<1>3. ASSUME NEW u \in usd'
      PROVE  (\E i \in 0..(i_bpspt - 1) : \E root \in usd : \E S \in SUBSET usd :
                    IsTree(i, root, S) /\ u \in {root} \cup S)'
  <2>1. CASE \E i \in 0..(k - 1) : \E root \in usd : \E S \in SUBSET usd :
                 IsTree(i, root, S) /\ u \in {root} \cup S
    <3>1. PICK i \in 0..(k - 1) : \E root \in usd : \E S \in SUBSET usd :
              IsTree(i, root, S) /\ u \in {root} \cup S
      BY <2>1
    <3>2. PICK root \in usd : \E S \in SUBSET usd : IsTree(i, root, S) /\ u \in {root} \cup S
      BY <3>1
    <3>3. PICK S \in SUBSET usd : IsTree(i, root, S) /\ u \in {root} \cup S
      BY <3>2
    <3>4. root \in usd' /\ S \in SUBSET usd' /\ IsTree(i, root, S)' /\ i \in 0..(i_bpspt' - 1)
      BY <3>3, <1>1
    <3> QED BY <3>3, <3>4
  <2>2. CASE /\ pc \in {"scan", "write", "exited"} /\ u \in {bp_r} \cup vs
             /\ bp_r \in usd /\ vs \subseteq usd /\ UNCHANGED <<bp_r, vs>> /\ IsTree(k, bp_r, vs)'
    <3>1. bp_r' \in usd' /\ vs' \in SUBSET usd' /\ u \in {bp_r'} \cup vs' /\ k \in 0..(i_bpspt' - 1)
      BY <2>2
    <3> QED BY <2>2, <3>1
  <2> QED BY <2>1, <2>2 DEF TreesInv
<1>4. \A i \in i_bpspt'..(K - 1) : \A v \in Vertex : bpspt_s'[v][i] = Uninit
  <2>1. \A i \in i_bpspt'..(K - 1) : i \in i_bpspt..(K - 1) /\ i \in 0..(K - 1) /\ i # k
    BY Numbers
  <2> QED BY <2>1 DEF TreesInv
<1> QED BY <1>2, <1>3, <1>4 DEF TreesInv

\* A tree without a root is absent.
LEMMA NoRootLeftKeeps ==
    ASSUME TreeInv, NoRootLeft
    PROVE  TreeInv'
<1>1. /\ pc = "tree" /\ i_bpspt < K /\ Unused = {}
      /\ bp_r' = NumV
      /\ bpspt_d' = [v \in Vertex |-> [bpspt_d[v] EXCEPT ![i_bpspt] = INF8]]
      /\ i_bpspt' = i_bpspt + 1
      /\ UNCHANGED <<pc, adj, usd, spt, bpspt_s, vs, tmp_d, tmp_s, bp_d, bp_cur, bp_nxt,
                     bp_que_h, sibling_es, child_es, num_sibling_es, num_child_es>>
  BY DEF NoRootLeft, AbsentDistance, bpSearchVars, edgeVars
<1>2. BitParallelTypeOK /\ TreesInv
  BY DEF TreeInv
<1>3. i_bpspt \in Tree /\ i_bpspt \in 0..(K - 1) /\ i_bpspt' \in 0..K
  BY <1>1, <1>2, Numbers DEF BitParallelTypeOK, Tree
<1>4. usd = Vertex
  <2>1. \A v \in Vertex : v \in bp_r..(NumV - 1) \/ v < bp_r
    BY <1>2, Numbers DEF BitParallelTypeOK, Vertex
  <2> QED BY <1>1, <1>2, <2>1 DEF Unused, TreesInv, BitParallelTypeOK
<1>5. \A v \in Vertex : \A i \in Tree :
          bpspt_d'[v][i] = IF i = i_bpspt THEN INF8 ELSE bpspt_d[v][i]
  BY <1>1, <1>2 DEF BitParallelTypeOK
<1>6. BitParallelTypeOK'
  <2>1. INF8 \in 0..(Byte - 1) /\ NumV \in 0..NumV
    BY Numbers
  <2>2. bpspt_d' \in [Vertex -> [Tree -> (0..(Byte - 1)) \cup {Uninit}]]
    BY <1>1, <1>2, <2>1 DEF BitParallelTypeOK
  <2> QED BY <1>1, <1>2, <1>3, <2>1, <2>2 DEF BitParallelTypeOK
<1>8. ASSUME NEW k, k = i_bpspt PROVE IsAbsent(k)'
  <2>1. \A v \in Vertex : bpspt_d'[v][k] = INF8
    BY <1>3, <1>5, <1>8
  <2>2. \A v \in Vertex : bpspt_s'[v][k] = Uninit
    <3>1. k \in i_bpspt..(K - 1)
      BY <1>3, <1>8
    <3> QED BY <1>1, <1>2, <3>1 DEF TreesInv
  <2> QED BY <1>1, <1>4, <2>1, <2>2 DEF IsAbsent
<1>9. TreesInv'
  <2>1. PICK k : k = i_bpspt
    OBVIOUS
  <2>2. /\ \A v \in Vertex : \A i \in 0..(K - 1) : i # k =>
               bpspt_d'[v][i] = bpspt_d[v][i] /\ bpspt_s'[v][i] = bpspt_s[v][i]
        /\ \A v \in Vertex : v < bp_r' => v \in usd
    BY <1>1, <1>4, <1>5, <2>1 DEF Tree
  <2> QED BY <1>1, <1>2, <1>3, <1>8, <2>1, <2>2, TreesGrow
<1> QED BY <1>1, <1>6, <1>9 DEF TreeInv, DistancesInv, CopiesInv, EdgesInv, MasksInv, WriteInv

\* A finished search becomes a tree.
LEMMA WriteTreeKeeps ==
    ASSUME TreeInv, WriteTree
    PROVE  TreeInv'
<1>1. /\ pc = "write" /\ pc' = "tree"
      /\ bpspt_d' = [v \in Vertex |-> [bpspt_d[v] EXCEPT ![i_bpspt] = tmp_d[v]]]
      /\ bpspt_s' = [v \in Vertex |->
             [bpspt_s[v] EXCEPT ![i_bpspt] = <<tmp_s[v][1], tmp_s[v][2] \ tmp_s[v][1]>>]]
      /\ i_bpspt' = i_bpspt + 1
      /\ UNCHANGED <<adj, usd, spt, bp_r, vs, tmp_d, tmp_s, bp_d, bp_cur, bp_nxt,
                     bp_que_h, sibling_es, child_es, num_sibling_es, num_child_es>>
  BY DEF WriteTree, bpSearchVars, edgeVars
<1>2. BitParallelTypeOK /\ TreesInv /\ WriteInv /\ i_bpspt < K
  BY <1>1 DEF TreeInv
<1>3. i_bpspt \in Tree /\ i_bpspt \in 0..(K - 1) /\ i_bpspt' \in 0..K
  BY <1>1, <1>2, Numbers DEF BitParallelTypeOK, Tree
<1>4. /\ \A v \in Vertex : \A i \in Tree :
             bpspt_d'[v][i] = IF i = i_bpspt THEN tmp_d[v] ELSE bpspt_d[v][i]
      /\ \A v \in Vertex : \A i \in Tree :
             bpspt_s'[v][i] = IF i = i_bpspt THEN <<tmp_s[v][1], tmp_s[v][2] \ tmp_s[v][1]>>
                              ELSE bpspt_s[v][i]
  BY <1>1, <1>2 DEF BitParallelTypeOK
<1>5. \A v \in Vertex : <<tmp_s[v][1], tmp_s[v][2] \ tmp_s[v][1]>> \in Mask \X Mask
  BY <1>2 DEF BitParallelTypeOK, Mask
<1>6. BitParallelTypeOK'
  <2>1. bpspt_d' \in [Vertex -> [Tree -> (0..(Byte - 1)) \cup {Uninit}]]
    BY <1>1, <1>2 DEF BitParallelTypeOK
  <2>2. bpspt_s' \in [Vertex -> [Tree -> (Mask \X Mask) \cup {Uninit}]]
    BY <1>1, <1>2, <1>5 DEF BitParallelTypeOK
  <2> QED BY <1>1, <1>2, <1>3, <2>1, <2>2 DEF BitParallelTypeOK
<1>7. ASSUME NEW k, k = i_bpspt PROVE IsTree(k, bp_r, vs)'
  <2>1. IsRoot(bp_r, vs)'
    BY <1>1, <1>2 DEF WriteInv, IsRoot
  <2>2. ASSUME NEW v \in Vertex PROVE IsLabel(bp_r, vs, v, bpspt_d[v][k], bpspt_s[v][k])'
    <3>1. IsLabel(bp_r, vs, v, tmp_d[v], <<tmp_s[v][1], tmp_s[v][2] \ tmp_s[v][1]>>)
      BY <1>1, <1>2 DEF WriteInv
    <3>2. bpspt_d'[v][k] = tmp_d[v] /\ bpspt_s'[v][k] = <<tmp_s[v][1], tmp_s[v][2] \ tmp_s[v][1]>>
      BY <1>3, <1>4, <1>7
    <3> QED BY <1>1, <3>1, <3>2 DEF IsLabel, Near
  <2> QED BY <2>1, <2>2 DEF IsTree
<1>8. TreesInv'
  <2>1. PICK k : k = i_bpspt
    OBVIOUS
  <2>2. /\ \A v \in Vertex : \A i \in 0..(K - 1) : i # k =>
               bpspt_d'[v][i] = bpspt_d[v][i] /\ bpspt_s'[v][i] = bpspt_s[v][i]
        /\ \A v \in Vertex : v < bp_r' => v \in usd
    BY <1>1, <1>2, <1>4, <2>1 DEF Tree, TreesInv
  <2>3. bp_r \in usd /\ vs \subseteq usd
    BY <1>1, <1>2 DEF WriteInv, IsRoot
  <2> QED BY <1>1, <1>2, <1>3, <1>7, <2>1, <2>2, <2>3, TreesGrow
<1> QED BY <1>1, <1>6, <1>8 DEF TreeInv, DistancesInv, CopiesInv, EdgesInv, MasksInv, WriteInv

\* Leaving the phase changes nothing else.
LEMMA TreesDoneKeeps ==
    ASSUME TreeInv, TreesDone
    PROVE  TreeInv'
<1>1. /\ pc = "tree" /\ pc' = "root" /\ i_bpspt = K
      /\ UNCHANGED <<adj, usd, spt, bpspt_d, bpspt_s, bpVars>>
  BY DEF TreesDone
<1>2. UNCHANGED <<i_bpspt, bp_r, vs, tmp_d, tmp_s, bp_d, bp_cur, bp_nxt, bp_que_h,
                sibling_es, child_es, num_sibling_es, num_child_es>>
  BY <1>1 DEF bpVars, bpSearchVars, edgeVars
<1>3. BitParallelTypeOK /\ TreesInv
  BY DEF TreeInv
<1>4. BitParallelTypeOK'
  BY <1>1, <1>2, <1>3 DEF BitParallelTypeOK
<1>5. TreesInv'
  <2>1. usd' \subseteq Vertex /\ \A w \in Vertex : w < bp_r' => w \in usd'
    BY <1>1, <1>2, <1>3 DEF BitParallelTypeOK, TreesInv
  <2> QED BY <1>1, <1>2, <1>3, <2>1, TreesStay
<1> QED BY <1>1, <1>2, <1>4, <1>5 DEF TreeInv, DistancesInv, CopiesInv, EdgesInv, MasksInv, WriteInv

\* At the start there are no trees.
LEMMA StartKeeps ==
    ASSUME pc = "tree", adj \in Graphs, BitParallelInit
    PROVE  TreeInv
<1>1. BitParallelTypeOK
  BY Numbers, IndexAssumption DEF BitParallelInit, BitParallelTypeOK, NoMasks, Mask, Once
<1>2. TreesInv
  BY Numbers DEF BitParallelInit, TreesInv, Tree, Vertex
<1> QED BY <1>1, <1>2 DEF TreeInv, DistancesInv, CopiesInv, EdgesInv, MasksInv, WriteInv

\* Every step of the phase keeps the invariant.
LEMMA TreeKept ==
    ASSUME TreeInv, BitParallelNext \/ UNCHANGED <<indexVars, bpVars>>
    PROVE  TreeInv'
<1>1. ASSUME NEW v \in Vertex, ScanVertex(v) PROVE TreeInv'
  BY <1>1, ScanVertexKeeps
<1>2. CASE UNCHANGED <<indexVars, bpVars>>
  <2>1. UNCHANGED <<pc, adj, usd, bpspt_d, bpspt_s, i_bpspt, bp_r, vs, tmp_d, tmp_s, bp_d,
                    bp_cur, bp_nxt, bp_que_h, sibling_es, child_es, num_sibling_es, num_child_es>>
    BY <1>2 DEF indexVars, bpVars, bpSearchVars, edgeVars
  <2>2. BitParallelTypeOK' /\ i_bpspt' = i_bpspt
    BY <2>1 DEF TreeInv, BitParallelTypeOK
  <2>3. TreesInv'
    <3>1. TreesInv /\ usd' \subseteq Vertex /\ \A w \in Vertex : w < bp_r' => w \in usd'
      BY <2>1 DEF TreeInv, BitParallelTypeOK, TreesInv
    <3> QED BY <2>1, <3>1, TreesStay
  <2>4. DistancesInv' /\ CopiesInv' /\ EdgesInv'
    BY <2>1 DEF TreeInv, DistancesInv, CopiesInv, IsRoot, EdgesInv, Scanned
  <2>5. MasksInv'
    BY <2>1 DEF TreeInv, MasksInv, Near
  <2>6. WriteInv'
    BY <2>1 DEF TreeInv, WriteInv, IsRoot, IsLabel, Near
  <2> QED BY <2>1, <2>2, <2>3, <2>4, <2>5, <2>6 DEF TreeInv
<1> QED BY <1>1, <1>2, SelectRootKeeps, NoRootLeftKeeps, FoldLevelKeeps, WriteTreeKeeps,
           TreesDoneKeeps DEF BitParallelNext

\* Every state of the phase satisfies TreeInv.
THEOREM TreeInvariant == BitParallelSpec => []TreeInv
<1>1. BitParallelStart => TreeInv
  BY StartKeeps DEF BitParallelStart
<1>2. TreeInv /\ [BitParallelNext \/ TreesOver]_<<indexVars, bpVars>> => TreeInv'
  BY TreeKept DEF TreesOver
<1> QED BY <1>1, <1>2, PTL DEF BitParallelSpec

-----------------------------------------------------------------------------
(***************************************************************************)
(* What a tree is worth to a query.                                        *)
(***************************************************************************)
\* The test of td - 2 in uint64_t passes tds from 2 to limit + 2.
LEMMA ConsideredTd ==
    ASSUME NEW td \in 0..(2 * INF8), NEW limit \in 0..INF8
    PROVE  Considered(td, limit) <=> td >= 2 /\ td - 2 <= limit
<1>1. INF8 \in Nat /\ Word \in Nat /\ Word > 4 * INF8 /\ INF8 > 2
  BY Numbers
<1>2. CASE td >= 2
  <2>1. td - 2 \in 0..(Word - 1)
    BY <1>1, <1>2
  <2>2. (td - 2) % Word = td - 2
    BY <1>1, <2>1
  <2> QED BY <1>2, <2>2 DEF Considered
<1>3. CASE td < 2
  <2>1. td = 0 \/ td = 1
    BY <1>1, <1>3
  <2>2. (0 - 2) % Word = Word - 2 /\ (1 - 2) % Word = Word - 1
    <3>1. Word - 2 \in 0..(Word - 1) /\ Word - 1 \in 0..(Word - 1)
      BY <1>1
    <3> QED BY <1>1, <3>1
  <2>3. ~(Word - 2 <= limit) /\ ~(Word - 1 <= limit)
    BY <1>1
  <2> QED BY <1>3, <2>1, <2>2, <2>3 DEF Considered
<1> QED BY <1>1, <1>2, <1>3

\* A td of 2 and more is corrected without wrapping.
LEMMA CorrectedTd ==
    ASSUME NEW td \in 0..(2 * INF8), td >= 2, NEW sx, NEW sy
    PROVE  /\ Saved(sx, sy) \in 0..2
           /\ (td - Saved(sx, sy)) % Word = td - Saved(sx, sy)
           /\ td - Saved(sx, sy) \in Nat
<1>1. INF8 \in Nat /\ Word \in Nat /\ Word > 4 * INF8 /\ INF8 > 2
  BY Numbers
<1>2. Saved(sx, sy) \in 0..2
  BY DEF Saved
<1>3. td - Saved(sx, sy) \in 0..(Word - 1)
  BY <1>1, <1>2
<1> QED BY <1>1, <1>2, <1>3

\* A vertex within reach of the root has a label no larger than its distance.
LEMMA LabelOfNear ==
    ASSUME NEW root, NEW S, NEW v, NEW n, NEW s, IsLabel(root, S, v, n, s),
           NEW a \in Nat, a <= INF8, Within(adj, root, v, a)
    PROVE  n \in Nat /\ n < INF8 /\ n <= a /\ AtDistance(adj, root, v, n)
<1>1. n \in 0..INF8 /\ INF8 \in Nat
  BY Numbers DEF IsLabel
<1>2. n # INF8
  BY <1>1, WithinMonotone DEF IsLabel
<1>3. n \in Nat /\ n < INF8 /\ AtDistance(adj, root, v, n)
  BY <1>1, <1>2 DEF IsLabel
<1>4. n <= a
  BY <1>3, DistanceUnique
<1> QED BY <1>3, <1>4

\* The masks of a label are masks.
LEMMA LabelMasks ==
    ASSUME NEW root, NEW S, IsRoot(root, S), usd \subseteq Vertex, NEW v, NEW n, NEW s,
           IsLabel(root, S, v, n, s)
    PROVE  s \in Mask \X Mask
<1>1. n \in 0..INF8 /\ INF8 \in Nat
  BY Numbers DEF IsLabel
<1>2. CASE n = INF8
  BY <1>2 DEF IsLabel, NoMasks, Mask
<1>3. CASE n < INF8
  <2>1. Near(S, v, n - 1) \in Mask /\ Near(S, v, n) \in Mask
    BY NearIsMask
  <2>2. Near(S, v, n) \ Near(S, v, n - 1) \in Mask
    BY <2>1 DEF Mask
  <2> QED BY <1>3, <2>1, <2>2 DEF IsLabel
<1> QED BY <1>1, <1>2, <1>3

\* A bit of both masks is a chosen neighbour near both vertices.
LEMMA SharedBit ==
    ASSUME NEW S \in SUBSET Vertex, NEW x, NEW y, NEW m, NEW n, NEW b,
           b \in Near(S, x, m), b \in Near(S, y, n)
    PROVE  m >= 0 /\ n >= 0 /\ \E u \in S : Within(adj, u, x, m) /\ Within(adj, u, y, n)
<1>1. PICK u \in S : b = Bit(u, S) /\ Within(adj, u, x, m)
  BY NearMember
<1>2. PICK w \in S : b = Bit(w, S) /\ Within(adj, w, y, n)
  BY NearMember
<1>3. u = w
  BY <1>1, <1>2, BitInjective
<1> QED BY <1>1, <1>2, <1>3, NearMember

\* What the masks of two vertices save is the length of a walk over a used vertex.
LEMMA BoundIsWalk ==
    ASSUME usd \subseteq Vertex, adj \in Graphs, NEW root, NEW S, IsRoot(root, S),
           NEW x \in Vertex, NEW y \in Vertex, NEW dx, NEW dy, NEW sx, NEW sy,
           IsLabel(root, S, x, dx, sx), IsLabel(root, S, y, dy, sy),
           dx + dy >= 2, dx + dy - Saved(sx, sy) < INF8
    PROVE  Via(x, y, dx + dy - Saved(sx, sy)) # {}
<1> DEFINE c == dx + dy - Saved(sx, sy)
<1>1. dx \in 0..INF8 /\ dy \in 0..INF8 /\ INF8 \in Nat /\ dx \in Nat /\ dy \in Nat
  BY Numbers DEF IsLabel
<1>2. Saved(sx, sy) \in 0..2 /\ c \in Nat
  <2>1. Saved(sx, sy) \in 0..2
    BY DEF Saved
  <2> QED BY <1>1, <2>1
<1>3. dx # INF8 /\ dy # INF8
  <2>1. SUFFICES ASSUME sx = NoMasks \/ sy = NoMasks PROVE Saved(sx, sy) = 0
    <3>1. dx = INF8 \/ dy = INF8 => ~(dx + dy - 0 < INF8)
      BY <1>1
    <3> QED BY <3>1 DEF IsLabel
  <2> QED BY <2>1 DEF Saved, NoMasks
<1>4. /\ AtDistance(adj, root, x, dx) /\ AtDistance(adj, root, y, dy)
      /\ sx = <<Near(S, x, dx - 1), Near(S, x, dx) \ Near(S, x, dx - 1)>>
      /\ sy = <<Near(S, y, dy - 1), Near(S, y, dy) \ Near(S, y, dy - 1)>>
  <2>1. dx < INF8 /\ dy < INF8
    BY <1>1, <1>3
  <2> QED BY <2>1 DEF IsLabel
<1>5. root \in usd /\ S \subseteq usd /\ S \in SUBSET Vertex /\ root \in Vertex
  BY DEF IsRoot
<1>6. ASSUME NEW u \in usd, NEW a \in Nat, NEW b \in Nat, a + b = c,
             Within(adj, u, x, a), Within(adj, u, y, b)
      PROVE  Via(x, y, c) # {}
  <2>1. u \in Vertex /\ Within(adj, x, u, a)
    BY <1>6, WithinSymmetric
  <2>2. u \in Via(x, y, c)
    BY <1>2, <1>6, <2>1, ViaIntro
  <2> QED BY <2>2
<1>7. CASE sx[1] \cap sy[1] # {}
  <2>1. Saved(sx, sy) = 2
    BY <1>7 DEF Saved
  <2>2. PICK b : b \in Near(S, x, dx - 1) /\ b \in Near(S, y, dy - 1)
    BY <1>4, <1>7
  <2>3. dx - 1 >= 0 /\ dy - 1 >= 0
        /\ \E u \in S : Within(adj, u, x, dx - 1) /\ Within(adj, u, y, dy - 1)
    BY <1>5, <2>2, SharedBit
  <2>4. dx - 1 \in Nat /\ dy - 1 \in Nat /\ (dx - 1) + (dy - 1) = c
    BY <1>1, <2>1, <2>3
  <2> QED BY <1>5, <1>6, <2>3, <2>4
<1>8. CASE sx[1] \cap sy[1] = {} /\ (sx[1] \cap sy[2]) \cup (sx[2] \cap sy[1]) # {}
  <2>1. Saved(sx, sy) = 1
    BY <1>8 DEF Saved
  <2>2. CASE sx[1] \cap sy[2] # {}
    <3>1. PICK b : b \in Near(S, x, dx - 1) /\ b \in Near(S, y, dy)
      BY <1>4, <2>2
    <3>2. dx - 1 >= 0 /\ \E u \in S : Within(adj, u, x, dx - 1) /\ Within(adj, u, y, dy)
      BY <1>5, <3>1, SharedBit
    <3>3. dx - 1 \in Nat /\ (dx - 1) + dy = c
      BY <1>1, <2>1, <3>2
    <3> QED BY <1>1, <1>5, <1>6, <3>2, <3>3
  <2>3. CASE sx[2] \cap sy[1] # {}
    <3>1. PICK b : b \in Near(S, x, dx) /\ b \in Near(S, y, dy - 1)
      BY <1>4, <2>3
    <3>2. dy - 1 >= 0 /\ \E u \in S : Within(adj, u, x, dx) /\ Within(adj, u, y, dy - 1)
      BY <1>5, <3>1, SharedBit
    <3>3. dy - 1 \in Nat /\ dx + (dy - 1) = c
      BY <1>1, <2>1, <3>2
    <3> QED BY <1>1, <1>5, <1>6, <3>2, <3>3
  <2> QED BY <1>8, <2>2, <2>3
<1>9. CASE sx[1] \cap sy[1] = {} /\ (sx[1] \cap sy[2]) \cup (sx[2] \cap sy[1]) = {}
  <2>1. Saved(sx, sy) = 0
    BY <1>9 DEF Saved
  <2>2. dx + dy = c
    BY <1>1, <2>1
  <2> QED BY <1>1, <1>4, <1>5, <1>6, <2>2 DEF AtDistance
<1> QED BY <1>7, <1>8, <1>9

\* A walk over a chosen neighbour is matched when the masks are taken into account.
LEMMA WalkIsMatched ==
    ASSUME adj \in Graphs, usd \subseteq Vertex, NEW root, NEW S, IsRoot(root, S),
           NEW x \in Vertex, NEW y \in Vertex, NEW dx, NEW dy, NEW sx, NEW sy,
           IsLabel(root, S, x, dx, sx), IsLabel(root, S, y, dy, sy),
           NEW u \in {root} \cup S, NEW a \in Nat, NEW b \in Nat, a + b < INF8,
           Within(adj, u, x, a), Within(adj, u, y, b)
    PROVE  dx + dy - 2 <= a + b /\ dx + dy - Saved(sx, sy) <= a + b
<1>1. Saved(sx, sy) \in 0..2 /\ INF8 \in Nat
  BY Numbers DEF Saved
<1>2. CASE u = root
  <2>1. dx \in Nat /\ dy \in Nat /\ dx <= a /\ dy <= b
    <3>1. a <= INF8 /\ b <= INF8
      BY <1>1
    <3> QED BY <1>2, <3>1, LabelOfNear
  <2> QED BY <1>1, <2>1
<1>3. CASE u \in S
  <2>1. S \subseteq adj[root] /\ S \subseteq Vertex
    BY DEF IsRoot
  <2>2. Within(adj, root, x, a + 1) /\ Within(adj, root, y, b + 1)
    BY <1>3, <2>1, RootIsNear
  <2>3. a + 1 \in Nat /\ b + 1 \in Nat /\ a + 1 <= INF8 /\ b + 1 <= INF8
    BY <1>1
  <2>4. dx \in Nat /\ dy \in Nat /\ dx <= a + 1 /\ dy <= b + 1 /\ dx < INF8 /\ dy < INF8
    BY <2>2, <2>3, LabelOfNear
  <2>5. /\ sx = <<Near(S, x, dx - 1), Near(S, x, dx) \ Near(S, x, dx - 1)>>
        /\ sy = <<Near(S, y, dy - 1), Near(S, y, dy) \ Near(S, y, dy - 1)>>
    BY <2>4 DEF IsLabel
  <2> DEFINE bit == Bit(u, S)
  <2>6. \A v : \A m \in Nat : Within(adj, u, v, m) => bit \in Near(S, v, m)
    BY <1>3, NearMember
  <2>7. /\ dx = a + 1 => bit \in sx[1]
        /\ dx = a => bit \in sx[1] \cup sx[2]
        /\ dy = b + 1 => bit \in sy[1]
        /\ dy = b => bit \in sy[1] \cup sy[2]
    <3>1. dx = a + 1 => dx - 1 = a
      OBVIOUS
    <3>2. dy = b + 1 => dy - 1 = b
      OBVIOUS
    <3> QED BY <2>5, <2>6, <3>1, <3>2
  <2> HIDE DEF bit
  <2>8. CASE dx = a + 1 /\ dy = b + 1
    <3>1. Saved(sx, sy) = 2
      BY <2>7, <2>8 DEF Saved
    <3> QED BY <2>8, <3>1
  <2>9. CASE (dx = a + 1 /\ dy = b) \/ (dx = a /\ dy = b + 1)
    <3>1. Saved(sx, sy) >= 1
      BY <2>7, <2>9 DEF Saved
    <3> QED BY <1>1, <2>9, <3>1
  <2>10. CASE dx + dy <= a + b
    BY <1>1, <2>4, <2>10
  <2> QED BY <2>4, <2>8, <2>9, <2>10
<1> QED BY <1>2, <1>3

-----------------------------------------------------------------------------
(***************************************************************************)
(* The properties of the phase.                                            *)
(***************************************************************************)
\* Each tree so far is absent or has the labels of a root and its chosen neighbours.
LEMMA TreeCases ==
    ASSUME TreeInv, NEW i \in 0..(i_bpspt - 1)
    PROVE  \/ /\ usd = Vertex
              /\ \A v \in Vertex : bpspt_d[v][i] = INF8 /\ bpspt_s[v][i] = Uninit
           \/ \E root \in usd : \E S \in SUBSET usd :
                 /\ IsRoot(root, S)
                 /\ \A v \in Vertex : IsLabel(root, S, v, bpspt_d[v][i], bpspt_s[v][i])
<1>1. IsAbsent(i) \/ \E root \in usd : \E S \in SUBSET usd : IsTree(i, root, S)
  BY DEF TreeInv, TreesInv
<1> QED BY <1>1 DEF IsAbsent, IsTree

\* The finished phase has what pruned labelling relies on.
LEMMA HandedOver ==
    ASSUME TreeInv, pc = "root"
    PROVE  Handover
<1>1. /\ BitParallelTypeOK /\ TreesInv /\ i_bpspt = K
      /\ adj \in Graphs /\ usd \subseteq Vertex
  BY DEF TreeInv, BitParallelTypeOK
<1>2. ASSUME NEW i \in Tree
      PROVE  \/ /\ usd = Vertex
                /\ \A v \in Vertex : bpspt_d[v][i] = INF8 /\ bpspt_s[v][i] = Uninit
             \/ \E root \in usd : \E S \in SUBSET usd :
                   /\ IsRoot(root, S)
                   /\ \A v \in Vertex : IsLabel(root, S, v, bpspt_d[v][i], bpspt_s[v][i])
  <2>1. i \in 0..(i_bpspt - 1)
    BY <1>1 DEF Tree
  <2> QED BY <2>1, TreeCases
<1>3. \A v \in Vertex : \A i \in Tree : bpspt_d[v][i] \in 0..INF8
  BY <1>2, Numbers DEF IsLabel
<1>4. IndexTypeOK
  <2>1. bpspt_d \in [Vertex -> [Tree -> 0..INF8]]
    BY <1>1, <1>3 DEF BitParallelTypeOK
  <2> QED BY <1>1, <2>1 DEF IndexTypeOK, BitParallelTypeOK
<1>5. MasksWritten
  <2>1. ASSUME NEW i \in Tree, NEW root, NEW S, IsRoot(root, S), NEW v \in Vertex,
               IsLabel(root, S, v, bpspt_d[v][i], bpspt_s[v][i])
        PROVE  bpspt_s[v][i] # Uninit
    BY <1>1, <2>1, LabelMasks, UninitAssumption
  <2> QED BY <1>2, <2>1 DEF MasksWritten
<1>6. TreeRootsUsed
  <2>1. SUFFICES ASSUME NEW v \in Vertex, NEW i \in Tree, bpspt_d[v][i] = 0 PROVE v \in usd
    BY DEF TreeRootsUsed
  <2>2. CASE \E root \in usd : \E S \in SUBSET usd :
                 IsLabel(root, S, v, bpspt_d[v][i], bpspt_s[v][i])
    <3>1. PICK root \in usd : \E S \in SUBSET usd : IsLabel(root, S, v, bpspt_d[v][i], bpspt_s[v][i])
      BY <2>2
    <3>2. AtDistance(adj, root, v, 0)
      BY <2>1, <3>1, Numbers DEF IsLabel
    <3> QED BY <3>2, WithinZero DEF AtDistance
  <2> QED BY <1>2, <2>1, <2>2, Numbers
<1>7. \A x, y \in Vertex : \A i \in Tree : TreeTd(x, y, i) \in 0..(2 * INF8)
  BY <1>3, Numbers DEF TreeTd
<1>8. TreesSound
  <2>1. SUFFICES ASSUME NEW x \in Vertex, NEW y \in Vertex, NEW i \in Tree,
                        Considered(TreeTd(x, y, i), INF8), Corrected(x, y, i) < INF8
                 PROVE  Via(x, y, Corrected(x, y, i)) # {}
    BY DEF TreesSound
  <2>2. TreeTd(x, y, i) >= 2 /\ TreeTd(x, y, i) - 2 <= INF8
    BY <1>7, <2>1, ConsideredTd, Numbers
  <2>3. Corrected(x, y, i) = TreeTd(x, y, i) - Saved(bpspt_s[x][i], bpspt_s[y][i])
    BY <1>7, <2>2, CorrectedTd DEF Corrected
  <2>4. ~(bpspt_d[x][i] = INF8 /\ bpspt_d[y][i] = INF8)
    BY <2>2, Numbers DEF TreeTd
  <2>5. PICK root \in usd : \E S \in SUBSET usd :
            /\ IsRoot(root, S)
            /\ \A v \in Vertex : IsLabel(root, S, v, bpspt_d[v][i], bpspt_s[v][i])
    BY <1>2, <2>4
  <2>6. PICK S \in SUBSET usd :
            /\ IsRoot(root, S)
            /\ \A v \in Vertex : IsLabel(root, S, v, bpspt_d[v][i], bpspt_s[v][i])
    BY <2>5
  <2> DEFINE td == bpspt_d[x][i] + bpspt_d[y][i]
             saved == Saved(bpspt_s[x][i], bpspt_s[y][i])
  <2>7. IsLabel(root, S, x, bpspt_d[x][i], bpspt_s[x][i])
        /\ IsLabel(root, S, y, bpspt_d[y][i], bpspt_s[y][i])
    BY <2>6
  <2>8. td >= 2 /\ td - saved < INF8
    BY <2>1, <2>2, <2>3 DEF TreeTd
  <2>9. Via(x, y, td - saved) # {}
    <3>1. PICK dx, dy, sx, sy : /\ dx = bpspt_d[x][i] /\ dy = bpspt_d[y][i]
                                /\ sx = bpspt_s[x][i] /\ sy = bpspt_s[y][i]
      OBVIOUS
    <3>6. saved = Saved(sx, sy)
      BY <3>1
    <3>7. dx + dy = td
      BY <3>1
    <3>8. dx \in Int /\ dy \in Int /\ td \in Int /\ saved \in Int
      <4>1. bpspt_d[x][i] \in Int /\ bpspt_d[y][i] \in Int
        BY <1>3
      <4>2. saved \in {0, 1, 2}
        BY DEF Saved
      <4> HIDE DEF saved
      <4> QED BY <3>1, <4>1, <4>2
    <3>2. IsLabel(root, S, x, dx, sx) /\ IsLabel(root, S, y, dy, sy)
      BY <2>7, <3>1
    <3>3. dx + dy >= 2 /\ dx + dy - Saved(sx, sy) < INF8
      <4> HIDE DEF td, saved
      <4> QED BY <2>8, <3>6, <3>7, <3>8, Numbers
    <3>4. Via(x, y, dx + dy - Saved(sx, sy)) # {}
      BY <1>1, <2>6, <3>2, <3>3, BoundIsWalk
    <3> HIDE DEF td, saved
    <3>9. dx + dy - Saved(sx, sy) = td - saved
      BY <3>6, <3>7, <3>8
    <3> QED BY <3>4, <3>9
  <2> QED BY <2>3, <2>9 DEF TreeTd
<1>9. TreesCover
  <2>1. SUFFICES ASSUME NEW x \in Vertex, NEW y \in Vertex, NEW n \in 0..(INF8 - 1),
                        Via(x, y, n) # {}, ~TdWraps(x, y)
                 PROVE  \E i \in Tree : Considered(TreeTd(x, y, i), n) /\ Corrected(x, y, i) <= n
    BY DEF TreesCover
  <2>2. n \in Nat /\ n < INF8 /\ n \in 0..INF8
    BY Numbers
  <2>3. PICK u : u \in Via(x, y, n)
    BY <2>1
  <2>4. /\ u \in usd
        /\ \E a, b \in Nat : a + b = n /\ Within(adj, x, u, a) /\ Within(adj, u, y, b)
    BY <2>2, <2>3, ViaElim
  <2>5. PICK a, b \in Nat : a + b = n /\ Within(adj, x, u, a) /\ Within(adj, u, y, b)
    BY <2>4
  <2>6. Within(adj, u, x, a)
    BY <1>1, <2>4, <2>5, WithinSymmetric
  <2>7. \E i \in 0..(i_bpspt - 1) : \E root \in usd : \E S \in SUBSET usd :
            IsTree(i, root, S) /\ u \in {root} \cup S
    BY <1>1, <2>4 DEF TreesInv
  <2>8. PICK i \in Tree : \E root \in usd : \E S \in SUBSET usd :
            IsTree(i, root, S) /\ u \in {root} \cup S
    BY <1>1, <2>7 DEF Tree
  <2>9. PICK root \in usd : \E S \in SUBSET usd : IsTree(i, root, S) /\ u \in {root} \cup S
    BY <2>8
  <2>10. PICK S \in SUBSET usd : IsTree(i, root, S) /\ u \in {root} \cup S
    BY <2>9
  <2>11. /\ IsRoot(root, S) /\ IsLabel(root, S, x, bpspt_d[x][i], bpspt_s[x][i])
         /\ IsLabel(root, S, y, bpspt_d[y][i], bpspt_s[y][i])
    BY <2>10 DEF IsTree
  <2>12. /\ TreeTd(x, y, i) - 2 <= n
         /\ TreeTd(x, y, i) - Saved(bpspt_s[x][i], bpspt_s[y][i]) <= n
    <3>1. a + b < INF8
      BY <2>2, <2>5
    <3> DEFINE td == bpspt_d[x][i] + bpspt_d[y][i]
               saved == Saved(bpspt_s[x][i], bpspt_s[y][i])
    <3>2. td - 2 <= a + b /\ td - saved <= a + b
      <4>1. PICK dx, dy, sx, sy : /\ dx = bpspt_d[x][i] /\ dy = bpspt_d[y][i]
                                  /\ sx = bpspt_s[x][i] /\ sy = bpspt_s[y][i]
        OBVIOUS
      <4>2. IsLabel(root, S, x, dx, sx) /\ IsLabel(root, S, y, dy, sy)
        BY <2>11, <4>1
      <4>3. dx + dy - 2 <= a + b /\ dx + dy - Saved(sx, sy) <= a + b
        BY <1>1, <2>5, <2>6, <2>10, <2>11, <3>1, <4>2, WalkIsMatched
      <4>4. saved = Saved(sx, sy)
        BY <4>1
      <4>5. dx + dy = td
        BY <4>1
      <4>6. dx \in Int /\ dy \in Int /\ td \in Int /\ saved \in Int
        <5>1. bpspt_d[x][i] \in Int /\ bpspt_d[y][i] \in Int
          BY <1>3
        <5>2. saved \in {0, 1, 2}
          BY DEF Saved
        <5> HIDE DEF saved
        <5> QED BY <4>1, <5>1, <5>2
      <4> HIDE DEF td, saved
      <4> QED BY <4>3, <4>4, <4>5, <4>6
    <3> QED BY <2>5, <3>2 DEF TreeTd
  <2>13. TreeTd(x, y, i) \in 0..(2 * INF8) /\ TreeTd(x, y, i) >= 2
    <3>1. ~(TreeTd(x, y, i) < 2)
      BY <2>1 DEF TdWraps
    <3> QED BY <1>7, <3>1, Numbers
  <2>14. Considered(TreeTd(x, y, i), n)
    BY <2>2, <2>12, <2>13, ConsideredTd
  <2>15. Corrected(x, y, i) <= n
    BY <2>12, <2>13, CorrectedTd DEF Corrected
  <2> QED BY <2>14, <2>15
<1> QED BY <1>4, <1>5, <1>6, <1>8, <1>9 DEF Handover

\* The tds that wrap are distances: of a root from itself or from a neighbour.
LEMMA WrappedTds ==
    ASSUME TreeInv, pc = "root"
    PROVE  WrappedExact
<1>1. SUFFICES ASSUME NEW x \in Vertex, NEW y \in Vertex, NEW i \in Tree, TreeTd(x, y, i) < 2
               PROVE  AtDistance(adj, x, y, TreeTd(x, y, i))
  BY DEF WrappedExact
<1>2. i \in 0..(i_bpspt - 1) /\ adj \in Graphs /\ usd \subseteq Vertex
  BY DEF TreeInv, Tree, BitParallelTypeOK
<1>3. ~(bpspt_d[x][i] = INF8 /\ bpspt_d[y][i] = INF8)
  BY <1>1, Numbers DEF TreeTd
<1>4. PICK root \in usd : \E S \in SUBSET usd :
          IsLabel(root, S, x, bpspt_d[x][i], bpspt_s[x][i])
          /\ IsLabel(root, S, y, bpspt_d[y][i], bpspt_s[y][i])
  BY <1>2, <1>3, TreeCases
<1>5. bpspt_d[x][i] \in 0..INF8 /\ bpspt_d[y][i] \in 0..INF8
  BY <1>4 DEF IsLabel
<1>6. /\ bpspt_d[x][i] \in {0, 1} /\ bpspt_d[y][i] \in {0, 1}
      /\ bpspt_d[x][i] = 0 \/ bpspt_d[y][i] = 0
  BY <1>1, <1>5, Numbers DEF TreeTd
<1>7. AtDistance(adj, root, x, bpspt_d[x][i]) /\ AtDistance(adj, root, y, bpspt_d[y][i])
  BY <1>4, <1>6, Numbers DEF IsLabel
<1>8. CASE bpspt_d[x][i] = 0
  <2>1. x = root /\ TreeTd(x, y, i) = bpspt_d[y][i]
    BY <1>5, <1>7, <1>8, WithinZero DEF AtDistance, TreeTd
  <2> QED BY <1>7, <2>1
<1>9. CASE bpspt_d[y][i] = 0 /\ bpspt_d[x][i] = 1
  <2>1. y = root /\ TreeTd(x, y, i) = 1
    BY <1>7, <1>9, WithinZero DEF AtDistance, TreeTd
  <2>2. Within(adj, y, x, 1) /\ ~Within(adj, y, x, 0)
    BY <1>7, <1>9, <2>1 DEF AtDistance
  <2>3. Within(adj, x, y, 1) /\ ~Within(adj, x, y, 0)
    BY <1>2, <2>2, WithinSymmetric
  <2> QED BY <2>1, <2>3 DEF AtDistance
<1> QED BY <1>6, <1>8, <1>9

\* Every variable keeps its type.
THEOREM BitParallelTypeCorrect == BitParallelSpec => []BitParallelTypeOK
<1>1. TreeInv => BitParallelTypeOK
  BY DEF TreeInv
<1> QED BY <1>1, TreeInvariant, PTL

\* The finished levels of a search have exact distances and masks.
THEOREM LevelsAreExact == BitParallelSpec => []LevelsExact
<1>1. TreeInv => LevelsExact
  <2>1. SUFFICES ASSUME TreeInv, pc \in {"scan", "write"},
                        NEW v \in Vertex, tmp_d[v] < bp_d, tmp_d[v] < INF8
                 PROVE  /\ AtDistance(adj, bp_r, v, tmp_d[v])
                        /\ tmp_s[v][1] = Near(vs, v, tmp_d[v] - 1)
                        /\ tmp_s[v][2] \ tmp_s[v][1] = Near(vs, v, tmp_d[v]) \ Near(vs, v, tmp_d[v] - 1)
    BY DEF LevelsExact
  <2>2. CASE pc = "scan"
    <3>1. AtDistance(adj, bp_r, v, tmp_d[v])
      BY <2>1, <2>2, RootKnown
    <3>2. /\ tmp_s[v][1] = Near(vs, v, tmp_d[v] - 1)
          /\ tmp_s[v][1] \cup tmp_s[v][2] = Near(vs, v, tmp_d[v])
      BY <2>1, <2>2 DEF TreeInv, MasksInv
    <3> QED BY <3>1, <3>2
  <2>3. CASE pc = "write"
    <3>1. IsLabel(bp_r, vs, v, tmp_d[v], <<tmp_s[v][1], tmp_s[v][2] \ tmp_s[v][1]>>)
      BY <2>1, <2>3 DEF TreeInv, WriteInv
    <3> QED BY <2>1, <3>1 DEF IsLabel
  <2> QED BY <2>1, <2>2, <2>3
<1> QED BY <1>1, TreeInvariant, PTL

\* Masks that were never written are never looked at.
THEOREM UninitIsUnread == BitParallelSpec => []UninitUnread
<1>1. TreeInv => UninitUnread
  <2>1. SUFFICES ASSUME TreeInv, NEW x \in Vertex, NEW y \in Vertex, NEW i \in 0..(i_bpspt - 1),
                        bpspt_s[x][i] = Uninit
                 PROVE  ~Considered(TreeTd(x, y, i), INF8)
    BY DEF UninitUnread
  <2>2. ~ \E root \in usd : \E S \in SUBSET usd :
            /\ IsRoot(root, S)
            /\ \A v \in Vertex : IsLabel(root, S, v, bpspt_d[v][i], bpspt_s[v][i])
    <3>1. usd \subseteq Vertex
      BY <2>1 DEF TreeInv, BitParallelTypeOK
    <3>2. ASSUME NEW root, NEW S, IsRoot(root, S),
                 IsLabel(root, S, x, bpspt_d[x][i], bpspt_s[x][i])
          PROVE  FALSE
      BY <2>1, <3>1, <3>2, LabelMasks, UninitAssumption
    <3> QED BY <3>2
  <2>3. bpspt_d[x][i] = INF8 /\ bpspt_d[y][i] = INF8
    BY <2>1, <2>2, TreeCases
  <2>4. TreeTd(x, y, i) = 2 * INF8 /\ INF8 \in 0..INF8 /\ 2 * INF8 \in 0..(2 * INF8)
    BY <2>3, Numbers DEF TreeTd
  <2>5. ~(2 * INF8 - 2 <= INF8)
    BY Numbers
  <2> QED BY <2>4, <2>5, ConsideredTd
<1> QED BY <1>1, TreeInvariant, PTL

\* The phase hands sound, covering and fully written trees to pruned labelling.
THEOREM TreesAreHandedOver == BitParallelSpec => []TreesHandedOver
<1>1. TreeInv => TreesHandedOver
  BY HandedOver DEF TreesHandedOver
<1> QED BY <1>1, TreeInvariant, PTL

-----------------------------------------------------------------------------
(***************************************************************************)
(* What the arrays of a search hold.                                       *)
(***************************************************************************)
\* A vertex pushed at the depth before INF8 is INF8 away.
LEMMA PushedFar ==
    ASSUME TreeInv, NEW v \in Vertex, ScanVertex(v), bp_d + 1 = INF8, Unreached(v) # {}
    PROVE  FarVertex'
<1>1. /\ pc = "scan" /\ adj' = adj /\ bp_r' = bp_r
      /\ adj \in Graphs /\ DistancesInv
  BY DEF ScanVertex, indexVars, TreeInv, BitParallelTypeOK
<1>2. PICK w \in Unreached(v) : TRUE
  OBVIOUS
<1>3. w \in Vertex /\ w \in adj[v] /\ tmp_d[w] = INF8 /\ bp_d \in Nat /\ bp_d < INF8 /\ tmp_d[v] = bp_d
  <2>1. w \in Vertex
    BY <1>1, <1>2, GraphAssumption DEF Unreached, Children
  <2> QED BY <1>2, <2>1, ScannedDistances, Numbers
<1>4. Within(adj, bp_r, v, bp_d)
  BY <1>1, <1>3 DEF DistancesInv, AtDistance
<1>5. Within(adj, bp_r, w, INF8)
  BY <1>3, <1>4, WithinStep
<1>6. ~Within(adj, bp_r, w, INF8 - 1)
  BY <1>1, <1>3, Numbers DEF DistancesInv
<1> QED BY <1>1, <1>3, <1>5, <1>6 DEF FarVertex

\* A scan gives a first distance to the vertices it pushes, so the queue counts the
\* vertices that have one, until it pushes a vertex at distance INF8.
LEMMA ScanFillsQueue ==
    ASSUME TreeInv, BuffersInv, NEW v \in Vertex, ScanVertex(v)
    PROVE  bp_que_h' = Cardinality({w \in Vertex : tmp_d'[w] < INF8}) \/ FarVertex'
<1> DEFINE N == Unreached(v)
           D == {w \in Vertex : tmp_d[w] < INF8}
<1>1. /\ bp_d \in 0..INF8 /\ tmp_d[v] = bp_d
      /\ \A w \in Vertex : tmp_d[w] \in 0..INF8
      /\ bp_d = INF8 => N = {}
      /\ \A w \in Vertex : tmp_d'[w] = IF w \in N THEN bp_d + 1 ELSE tmp_d[w]
      /\ \A w \in Vertex : w \in N <=> w \in adj[v] /\ tmp_d[w] = INF8 /\ bp_d < INF8
  BY ScannedDistances
<1>2. /\ pc = "scan" /\ bp_que_h' = bp_que_h + Cardinality(N)
      /\ adj' = adj /\ bp_r' = bp_r
  BY DEF ScanVertex, indexVars
<1>3. /\ adj \in Graphs /\ adj[v] \subseteq Vertex
      /\ \A w \in Vertex : tmp_d[w] < INF8 => AtDistance(adj, bp_r, w, tmp_d[w])
      /\ \A w \in Vertex : \A n \in 0..(INF8 - 1) :
            n <= bp_d /\ Within(adj, bp_r, w, n) => tmp_d[w] <= n
  <2>1. adj \in Graphs /\ DistancesInv
    BY DEF TreeInv, BitParallelTypeOK
  <2> QED BY <1>2, <2>1, GraphAssumption DEF DistancesInv
<1>4. N \subseteq Vertex
  BY <1>3 DEF Unreached, Children
<1>5. bp_que_h = Cardinality(D) \/ FarVertex
  BY <1>2 DEF BuffersInv
<1> HIDE DEF N
<1>6. CASE FarVertex
  BY <1>2, <1>6 DEF FarVertex
<1>7. CASE N = {} /\ bp_que_h = Cardinality(D)
  <2>1. {w \in Vertex : tmp_d'[w] < INF8} = D
    BY <1>1, <1>7
  <2>2. Cardinality(D) \in Nat /\ Cardinality(N) = 0
    <3>1. D \in SUBSET Vertex
      OBVIOUS
    <3>2. Cardinality(N) = 0
      BY <1>7, FS_EmptySet
    <3> QED BY <3>1, <3>2, VertexFinite
  <2> QED BY <1>2, <1>7, <2>1, <2>2
<1>8. CASE bp_d + 1 < INF8 /\ bp_que_h = Cardinality(D)
  <2>1. {w \in Vertex : tmp_d'[w] < INF8} = D \cup N
    BY <1>1, <1>4, <1>8, Numbers
  <2>2. D \cap N = {}
    BY <1>1, <1>4, Numbers
  <2>3. IsFiniteSet(D) /\ IsFiniteSet(N) /\ Cardinality(D) \in Nat /\ Cardinality(N) \in Nat
    <3>1. D \in SUBSET Vertex /\ N \in SUBSET Vertex
      BY <1>4
    <3> QED BY <3>1, VertexFinite
  <2>4. Cardinality(D \cup N) = Cardinality(D) + Cardinality(N)
    <3> HIDE DEF D
    <3>1. Cardinality(D \cup N) = Cardinality(D) + Cardinality(N) - Cardinality(D \cap N)
      BY <2>3, FS_Union
    <3>2. Cardinality(D \cap N) = 0
      BY <2>2, FS_EmptySet
    <3> QED BY <2>3, <3>1, <3>2
  <2> QED BY <1>2, <1>8, <2>1, <2>4
<1>9. CASE bp_d + 1 = INF8 /\ N # {}
  BY <1>9, PushedFar DEF N
<1> QED BY <1>1, <1>5, <1>6, <1>7, <1>8, <1>9, Numbers

\* A scan collects edges of the graph: those to its level in one direction, the others
\* from the level outward, also after their ends have got a distance.
LEMMA ScanFillsEdges ==
    ASSUME TreeInv, BuffersInv, NEW v \in Vertex, ScanVertex(v)
    PROVE  /\ \A e \in sibling_es' : e[2] \in adj'[e[1]] /\ e[1] < e[2]
           /\ \A e \in child_es' : /\ e[2] \in adj'[e[1]]
                                   /\ tmp_d'[e[1]] = bp_d' /\ bp_d' < tmp_d'[e[2]]
<1>1. /\ bp_d \in 0..INF8 /\ tmp_d[v] = bp_d
      /\ \A w \in Vertex : tmp_d[w] \in 0..INF8
      /\ \A w \in Vertex : tmp_d'[w] = IF w \in Unreached(v) THEN bp_d + 1 ELSE tmp_d[w]
      /\ \A w \in Vertex : w \in Unreached(v) <=> w \in adj[v] /\ tmp_d[w] = INF8 /\ bp_d < INF8
  BY ScannedDistances
<1>2. /\ pc = "scan" /\ adj' = adj /\ bp_d' = bp_d
      /\ sibling_es' = sibling_es \cup ({v} \X Siblings(v))
      /\ child_es' = child_es \cup ({v} \X Children(v))
  BY DEF ScanVertex, indexVars
<1>3. /\ child_es \subseteq Vertex \X Vertex
      /\ adj[v] \subseteq Vertex
  BY GraphAssumption DEF TreeInv, BitParallelTypeOK
<1>4. /\ \A e \in sibling_es : e[2] \in adj[e[1]] /\ e[1] < e[2]
      /\ \A e \in child_es : e[2] \in adj[e[1]] /\ tmp_d[e[1]] = bp_d /\ bp_d < tmp_d[e[2]]
  BY <1>2 DEF BuffersInv
<1>5. \A e \in sibling_es' : e[2] \in adj'[e[1]] /\ e[1] < e[2]
  BY <1>2, <1>4 DEF Siblings
<1>6. \A u, w \in Vertex : tmp_d[u] = bp_d /\ bp_d < tmp_d[w]
                           => tmp_d'[u] = bp_d /\ bp_d < tmp_d'[w]
  BY <1>1, Numbers
<1>7. ASSUME NEW e \in child_es'
      PROVE  e[2] \in adj[e[1]] /\ e[1] \in Vertex /\ e[2] \in Vertex
             /\ tmp_d[e[1]] = bp_d /\ bp_d < tmp_d[e[2]]
  BY <1>1, <1>2, <1>3, <1>4 DEF Children
<1> QED BY <1>2, <1>5, <1>6, <1>7

\* Edges at a vertex that are new to a set count one by one.
LEMMA EdgesAdded ==
    ASSUME NEW es \in SUBSET (Vertex \X Vertex), NEW v \in Vertex, NEW W \in SUBSET Vertex,
           \A w \in W : <<v, w>> \notin es
    PROVE  Cardinality(es \cup ({v} \X W)) = Cardinality(es) + Cardinality(W)
<1> DEFINE new == {v} \X W
<1>1. IsFiniteSet(W) /\ Cardinality(W) \in Nat /\ IsFiniteSet(Vertex)
  BY VertexFinite
<1>2. IsFiniteSet({v}) /\ Cardinality({v}) = 1
  BY FS_Singleton
<1>3. IsFiniteSet(new) /\ Cardinality(new) = 1 * Cardinality(W)
  BY <1>1, <1>2, FS_Product
<1>4. IsFiniteSet(es) /\ Cardinality(es) \in Nat
  BY <1>1, FS_Product, FS_Subset, FS_CardinalityType
<1>5. es \cap new = {}
  OBVIOUS
<1> HIDE DEF new
<1>6. Cardinality(es \cup new) = Cardinality(es) + Cardinality(new) - Cardinality(es \cap new)
  BY <1>3, <1>4, FS_Union
<1>7. Cardinality(es \cap new) = 0
  BY <1>5, FS_EmptySet
<1> QED BY <1>1, <1>3, <1>4, <1>6, <1>7 DEF new

\* A scan uses a slot for each edge it collects, once for each vertex it scans: a second
\* time it scans only a vertex that is INF8 away.
LEMMA ScanCountsEdges ==
    ASSUME TreeInv, BuffersInv, NEW v \in Vertex, ScanVertex(v)
    PROVE  /\ num_sibling_es' = Cardinality(sibling_es') \/ FarVertex'
           /\ num_child_es' = Cardinality(child_es')
           /\ \A w \in Queued(bp_cur') : bp_d' = INF8 => FarVertex'
           /\ \A w \in Queued(bp_nxt') : bp_d' + 1 = INF8 => FarVertex'
<1>1. /\ pc = "scan" /\ v \in Queued(bp_cur) /\ bp_d' = bp_d
      /\ sibling_es' = sibling_es \cup ({v} \X Siblings(v))
      /\ child_es' = child_es \cup ({v} \X Children(v))
      /\ num_sibling_es' = num_sibling_es + Cardinality(Siblings(v))
      /\ num_child_es' = num_child_es + Cardinality(Children(v))
      /\ adj' = adj /\ bp_r' = bp_r
  BY DEF ScanVertex, indexVars
<1>2. /\ sibling_es \in SUBSET (Vertex \X Vertex) /\ child_es \in SUBSET (Vertex \X Vertex)
      /\ adj[v] \subseteq Vertex /\ EdgesInv
  BY GraphAssumption DEF TreeInv, BitParallelTypeOK
<1>3. Siblings(v) \in SUBSET Vertex /\ Children(v) \in SUBSET Vertex
  BY <1>2 DEF Siblings, Children
<1>4. /\ num_sibling_es = Cardinality(sibling_es) \/ FarVertex
      /\ num_child_es = Cardinality(child_es)
      /\ \A w \in Queued(bp_cur) : bp_d = INF8 => FarVertex
      /\ \A w \in Queued(bp_nxt) : bp_d + 1 = INF8 => FarVertex
  BY <1>1 DEF BuffersInv
<1>5. FarVertex => FarVertex'
  BY <1>1 DEF FarVertex
<1>6. v \notin Scanned
  BY <1>1 DEF Scanned
<1>7. bp_d < INF8 \/ bp_d = INF8
  BY ScannedDistances, Numbers
<1>8. num_sibling_es' = Cardinality(sibling_es') \/ FarVertex'
  <2>1. CASE bp_d < INF8
    <3>1. \A w \in Siblings(v) : <<v, w>> \notin sibling_es
      BY <1>1, <1>2, <1>3, <1>6, <2>1 DEF EdgesInv
    <3>2. Cardinality(sibling_es') = Cardinality(sibling_es) + Cardinality(Siblings(v))
      BY <1>1, <1>2, <1>3, <3>1, EdgesAdded
    <3> QED BY <1>1, <1>4, <1>5, <3>2
  <2>2. CASE bp_d = INF8
    BY <1>1, <1>4, <1>5, <2>2
  <2> QED BY <1>7, <2>1, <2>2
<1>9. num_child_es' = Cardinality(child_es')
  <2>1. \A w \in Children(v) : <<v, w>> \notin child_es
    <3>1. CASE bp_d < INF8
      BY <1>1, <1>2, <1>3, <1>6, <3>1 DEF EdgesInv
    <3>2. CASE bp_d = INF8
      BY <1>3, <3>2, ScannedDistances, Numbers DEF Children
    <3> QED BY <1>7, <3>1, <3>2
  <2>2. Cardinality(child_es') = Cardinality(child_es) + Cardinality(Children(v))
    BY <1>1, <1>2, <1>3, <2>1, EdgesAdded
  <2> QED BY <1>1, <1>4, <2>2
<1>10. \A w \in Queued(bp_cur') : bp_d' = INF8 => FarVertex'
  BY <1>1, <1>4, <1>5, ScannedQueue
<1>11. \A w \in Queued(bp_nxt') : bp_d' + 1 = INF8 => FarVertex'
  BY <1>1, <1>4, <1>5, ScannedQueue, PushedFar
<1> QED BY <1>8, <1>9, <1>10, <1>11

\* Every step keeps what is said of the arrays.
LEMMA BuffersKept == TreeInv /\ BuffersInv /\ [BitParallelNext \/ TreesOver]_<<indexVars, bpVars>>
                        => BuffersInv'
<1> SUFFICES ASSUME TreeInv, BuffersInv, [BitParallelNext \/ TreesOver]_<<indexVars, bpVars>>
             PROVE  BuffersInv'
  OBVIOUS
<1>1. CASE SelectRoot
  <2>1. PICK root, S : root = Smallest(Unused) /\ S = Chosen(root)
    OBVIOUS
  <2>2. /\ root \in Vertex /\ S \subseteq Vertex /\ root \notin S
    BY <1>1, <2>1, RootChosen DEF SelectRoot
  <2>3. /\ bp_que_h' = 1 + Cardinality(S)
        /\ sibling_es' = {} /\ child_es' = {} /\ num_sibling_es' = 0 /\ num_child_es' = 0
        /\ tmp_d' = [v \in Vertex |-> IF v = root THEN 0 ELSE IF v \in S THEN 1 ELSE INF8]
        /\ bp_d' = 0
    BY <1>1, <2>1 DEF SelectRoot, ForgetEdges
  <2>4. {v \in Vertex : tmp_d'[v] < INF8} = S \cup {root}
    BY <2>2, <2>3, Numbers
  <2>5. Cardinality(S \cup {root}) = Cardinality(S) + 1 /\ Cardinality(S) \in Nat
    <3>1. IsFiniteSet(S) /\ Cardinality(S) \in Nat
      BY <2>2, VertexFinite
    <3> QED BY <2>2, <3>1, FS_AddElement
  <2>6. bp_que_h' = Cardinality({v \in Vertex : tmp_d'[v] < INF8})
    <3>1. bp_que_h' = Cardinality(S \cup {root})
      BY <2>3, <2>5
    <3> QED BY <2>4, <3>1, Zenon
  <2>7. Cardinality({}) = 0
    BY FS_EmptySet
  <2>8. bp_d' # INF8 /\ bp_d' + 1 # INF8
    BY <2>3, Numbers
  <2> QED BY <2>3, <2>6, <2>7, <2>8, Zenon DEF BuffersInv
<1>2. ASSUME NEW v \in Vertex, ScanVertex(v) PROVE BuffersInv'
  BY <1>2, ScanFillsQueue, ScanFillsEdges, ScanCountsEdges DEF BuffersInv
<1>3. CASE FoldLevel
  <2>1. /\ pc = "scan" /\ sibling_es' = {} /\ child_es' = {}
        /\ num_sibling_es' = 0 /\ num_child_es' = 0
        /\ bp_cur' = bp_nxt /\ bp_nxt' = Once({}) /\ bp_d' = bp_d + 1
        /\ UNCHANGED <<adj, bp_r, tmp_d, bp_que_h>>
    BY <1>3 DEF FoldLevel, ForgetEdges
  <2>2. Cardinality({}) = 0
    BY FS_EmptySet
  <2>3. Queued(bp_nxt') = {}
    BY <2>1, OnceEach
  <2>4. FarVertex => FarVertex'
    BY <2>1 DEF FarVertex
  <2>5. /\ bp_que_h = Cardinality({v \in Vertex : tmp_d[v] < INF8}) \/ FarVertex
        /\ \A v \in Queued(bp_nxt) : bp_d + 1 = INF8 => FarVertex
    BY <2>1 DEF BuffersInv
  <2>6. Queued(bp_cur') = Queued(bp_nxt)
    BY <2>1
  <2> QED BY <2>1, <2>2, <2>3, <2>4, <2>5, <2>6 DEF BuffersInv
<1>4. CASE NoRootLeft \/ WriteTree \/ TreesDone
  <2>1. pc' \notin {"scan", "write"}
    BY <1>4 DEF NoRootLeft, WriteTree, TreesDone
  <2> QED BY <2>1 DEF BuffersInv
<1>5. CASE UNCHANGED <<indexVars, bpVars>>
  <2>1. UNCHANGED <<pc, adj, bp_r, tmp_d, bp_d, bp_cur, bp_nxt, bp_que_h,
                    sibling_es, child_es, num_sibling_es, num_child_es>>
    BY <1>5 DEF indexVars, bpVars, bpSearchVars, edgeVars
  <2> QED BY <2>1 DEF BuffersInv, FarVertex
<1> QED BY <1>1, <1>2, <1>3, <1>4, <1>5 DEF BitParallelNext, TreesOver

\* Two arrays of pairs in which no edge of the graph occurs in both directions are no
\* longer than the number of edges.
LEMMA EdgesFit ==
    ASSUME adj \in Graphs, NEW es, es \subseteq Vertex \X Vertex,
           \A e \in es : e[2] \in adj[e[1]],
           \A e, f \in es : ~(e[1] = f[2] /\ e[2] = f[1]),
           NEW pairs, pairs = {e \in Vertex \X Vertex : e[2] \in adj[e[1]]}
    PROVE  Cardinality(es) <= Cardinality({{e[1], e[2]} : e \in pairs})
<1> DEFINE T == {{e[1], e[2]} : e \in pairs}
           f == [e \in es |-> {e[1], e[2]}]
<1>1. IsFiniteSet(T)
  <2>1. T \subseteq SUBSET Vertex
    OBVIOUS
  <2>2. IsFiniteSet(SUBSET Vertex)
    BY VertexFinite, FS_SUBSET
  <2> HIDE DEF T
  <2> QED BY <2>1, <2>2, FS_Subset
<1>2. f \in [es -> T]
  OBVIOUS
<1>3. ASSUME NEW a \in es, NEW b \in es, f[a] = f[b] PROVE a = b
  <2>1. {a[1], a[2]} = {b[1], b[2]}
    BY <1>3
  <2>2. a = <<a[1], a[2]>> /\ b = <<b[1], b[2]>>
    OBVIOUS
  <2> QED BY <2>1, <2>2
<1>4. f \in Injection(es, T)
  BY <1>2, <1>3, Zenon DEF Injection, IsInjective
<1> HIDE DEF T, f
<1>5. Cardinality(es) <= Cardinality(T)
  BY <1>1, <1>4, FS_Injection
<1> QED BY <1>5 DEF T

\* No search writes behind the end of an array, unless a vertex is INF8 away; then only
\* the queue and the array of the edges inside a level can be too short.
THEOREM BuffersAreLargeEnough == BitParallelSpec => []BuffersFit
<1>1. BitParallelStart => BuffersInv
  BY DEF BitParallelStart, BuffersInv
<1>2. TreeInv /\ BuffersInv => BuffersFit
  <2> SUFFICES ASSUME TreeInv, BuffersInv, pc \in {"scan", "write"},
                      NEW pairs, pairs = {e \in Vertex \X Vertex : e[2] \in adj[e[1]]},
                      NEW E, E = Cardinality({{e[1], e[2]} : e \in pairs})
               PROVE  num_child_es <= E /\ (FarVertex \/ (num_sibling_es <= E /\ bp_que_h <= NumV))
    BY DEF BuffersFit
  <2>1. /\ adj \in Graphs /\ tmp_d \in [Vertex -> 0..(Byte - 1)] /\ bp_d \in 0..(INF8 + 1)
        /\ sibling_es \subseteq Vertex \X Vertex /\ child_es \subseteq Vertex \X Vertex
    BY DEF TreeInv, BitParallelTypeOK
  <2>2. num_sibling_es <= E \/ FarVertex
    <3>1. \A e, f \in sibling_es : ~(e[1] = f[2] /\ e[2] = f[1])
      BY <2>1, Numbers DEF BuffersInv, Vertex
    <3>2. \A e \in sibling_es : e[2] \in adj[e[1]]
      BY DEF BuffersInv
    <3>3. Cardinality(sibling_es) <= E
      BY <2>1, <3>1, <3>2, EdgesFit
    <3> QED BY <3>3 DEF BuffersInv
  <2>3. num_child_es <= E
    <3>1. \A e, f \in child_es : ~(e[1] = f[2] /\ e[2] = f[1])
      BY <2>1, Numbers DEF BuffersInv
    <3>2. \A e \in child_es : e[2] \in adj[e[1]]
      BY DEF BuffersInv
    <3>3. Cardinality(child_es) <= E
      BY <2>1, <3>1, <3>2, EdgesFit
    <3> QED BY <3>3 DEF BuffersInv
  <2>4. bp_que_h <= NumV \/ FarVertex
    <3>1. {v \in Vertex : tmp_d[v] < INF8} \in SUBSET Vertex
      OBVIOUS
    <3> QED BY <3>1, VertexFinite DEF BuffersInv
  <2> QED BY <2>2, <2>3, <2>4
<1> QED BY <1>1, <1>2, BuffersKept, TreeInvariant, PTL DEF BitParallelSpec
=============================================================================

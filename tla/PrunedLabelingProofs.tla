------------------------ MODULE PrunedLabelingProofs ------------------------
(***************************************************************************)
(* What holds of pruned labelling for every graph, every number of         *)
(* vertices and trees, and whatever labels the trees have.                 *)
(***************************************************************************)
EXTENDS PrunedLabeling, PLLIndexProofs, SequenceTheorems

pVars == <<indexVars, prunedVars>>

\* A search that finds new vertices pushes as many as its queue grows by.
LEMMA QueueGrows ==
    ASSUME NEW S \in SUBSET Vertex, NEW T \in SUBSET Vertex, S \cap T = {}
    PROVE  Cardinality(S \cup T) = Cardinality(S) + Cardinality(T)
<1>1. IsFiniteSet(S) /\ IsFiniteSet(T) /\ Cardinality(S) \in Nat /\ Cardinality(T) \in Nat
  BY VertexFinite
<1>2. Cardinality(S \cup T) = Cardinality(S) + Cardinality(T) - Cardinality(S \cap T)
  BY <1>1, FS_Union
<1>3. Cardinality(S \cap T) = 0
  BY FS_EmptySet
<1> QED BY <1>1, <1>2, <1>3

\* Adding a label keeps a list well formed when its hubs precede the new one, and
\* adds that label and no other.
LEMMA AddLabelWellFormed ==
    ASSUME NEW list, WellFormed(list), NEW hub \in Vertex, NEW dist \in Nat, dist < Byte,
           \A e \in Labels(list) : e[1] < hub
    PROVE  /\ WellFormed(AddLabel(list, hub, dist))
           /\ Labels(AddLabel(list, hub, dist)) \subseteq Labels(list) \cup {<<hub, dist>>}
           /\ Entries(list) \subseteq Entries(AddLabel(list, hub, dist))
<1> DEFINE n == Len(list)
           new == AddLabel(list, hub, dist)
           mid == [list EXCEPT ![n] = <<hub, dist>>]
<1>1. list \in Seq(Label) /\ n \in Nat /\ n > 0 /\ list[n] = Sentinel
  BY DEF WellFormed
<1>2. <<hub, dist>> \in Label /\ Sentinel \in Label
  BY Numbers DEF Vertex, Label, Sentinel
<1>3. new = Append(mid, Sentinel)
  BY ByteCast DEF AddLabel
<1>4. mid \in Seq(Label) /\ Len(mid) = n
      /\ \A j \in 1..n : mid[j] = IF j = n THEN <<hub, dist>> ELSE list[j]
  BY <1>1, <1>2, ExceptSeq
<1>5. new \in Seq(Label) /\ Len(new) = n + 1
      /\ new[n + 1] = Sentinel
      /\ \A j \in 1..n : new[j] = mid[j]
  <2> HIDE DEF mid
  <2> QED BY <1>2, <1>3, <1>4, AppendProperties
<1> HIDE DEF new, mid
<1>6. new[n] = <<hub, dist>> /\ \A j \in 1..(n - 1) : new[j] = list[j]
  BY <1>1, <1>4, <1>5
<1>7. \A j \in 1..(n - 1) : list[j] \in Labels(list)
  <2>1. TAKE j \in 1..(n - 1)
  <2>2. list[j][1] < list[n][1]
    BY <1>1 DEF WellFormed
  <2>3. list[j] # Sentinel
    BY <2>2, <1>1, Numbers DEF Sentinel
  <2> QED BY <2>3, <1>1 DEF Labels, Entries
<1>8. WellFormed(new)
  <2>1. SUFFICES ASSUME NEW i \in 1..(n + 1), NEW j \in 1..(n + 1), i < j
                 PROVE  new[i][1] < new[j][1]
    BY <1>1, <1>5 DEF WellFormed
  <2>2. CASE j < n
    BY <2>1, <2>2, <1>1, <1>6 DEF WellFormed
  <2>3. CASE j = n
    <3>1. i \in 1..(n - 1)
      BY <2>1, <2>3, <1>1
    <3> QED BY <3>1, <2>3, <1>6, <1>7
  <2>4. CASE j = n + 1
    <3>1. new[j][1] = NumV
      BY <2>4, <1>5 DEF Sentinel
    <3>2. new[i][1] \in Vertex
      <4>1. CASE i = n
        BY <4>1, <1>6
      <4>2. CASE i \in 1..(n - 1)
        BY <4>2, <1>6, <1>7, WellFormedEntries
      <4> QED BY <4>1, <4>2, <2>1, <2>4, <1>1
    <3> QED BY <3>1, <3>2, Numbers DEF Vertex
  <2> QED BY <2>1, <2>2, <2>3, <2>4, <1>1
<1>9. Labels(new) \subseteq Labels(list) \cup {<<hub, dist>>}
  <2>1. SUFFICES ASSUME NEW i \in 1..(n + 1), new[i] # Sentinel
                 PROVE  new[i] \in Labels(list) \cup {<<hub, dist>>}
    BY <1>5 DEF Labels, Entries
  <2>2. i = n \/ i \in 1..(n - 1)
    BY <2>1, <1>1, <1>5
  <2>3. CASE i = n
    BY <2>3, <1>6
  <2>4. CASE i \in 1..(n - 1)
    BY <2>4, <1>6, <1>7
  <2> QED BY <2>2, <2>3, <2>4
<1>10. Entries(list) \subseteq Entries(new)
  <2>1. SUFFICES ASSUME NEW i \in 1..n PROVE list[i] \in Entries(new)
    BY DEF Entries
  <2>2. CASE i = n
    BY <2>2, <1>1, <1>5 DEF Entries
  <2>3. CASE i \in 1..(n - 1)
    BY <2>3, <1>1, <1>5, <1>6 DEF Entries
  <2> QED BY <2>2, <2>3, <1>1
<1> QED BY <1>8, <1>9, <1>10 DEF new

\* Loading a list into dst_r, and clearing it, keeps dst_r an array of bytes.
LEMMA LoadedType ==
    ASSUME NEW list \in Seq(Label), dst_r \in [0..NumV -> 0..(Byte - 1)]
    PROVE  /\ Loaded(list) \in [0..NumV -> 0..(Byte - 1)]
           /\ Unloaded(list) \in [0..NumV -> 0..(Byte - 1)]
<1>1. \A e \in Entries(list) : e[2] \in 0..(Byte - 1)
  BY EntriesOfList
<1>2. \A w \in 0..NumV : (\E e \in Entries(list) : e[1] = w) =>
                 (CHOOSE e \in Entries(list) : e[1] = w) \in Entries(list)
  OBVIOUS
<1> QED BY <1>1, <1>2, Numbers DEF Loaded, Unloaded

-----------------------------------------------------------------------------
(***************************************************************************)
(* The invariant of a search, SearchInv, holds initially and is kept by    *)
(* every action.                                                           *)
(***************************************************************************)

\* A list of the sentinel alone is well formed and has no label.
LEMMA EmptyList ==
    WellFormed(<<Sentinel>>) /\ Labels(<<Sentinel>>) = {}
<1>1. Sentinel \in Label
  BY Numbers DEF Label, Sentinel
<1>2. <<Sentinel>> \in Seq(Label) /\ Len(<<Sentinel>>) = 1 /\ <<Sentinel>>[1] = Sentinel
  BY <1>1
<1>3. Entries(<<Sentinel>>) = {Sentinel}
  BY <1>2 DEF Entries
<1> QED BY <1>2, <1>3 DEF WellFormed, Labels

\* The phase starts with empty lists, no mark, and dst_r at INF8.
LEMMA SearchInvInit ==
    ASSUME pc = "root", IndexTypeOK, PrunedInit
    PROVE  SearchInv
<1>1. PrunedTypeOK
  <2>1. <<Sentinel>> \in Seq(Label) /\ <<>> \in Seq(Label)
    BY EmptyList DEF WellFormed
  <2>2. [w \in 0..NumV |-> INF8] \in [0..NumV -> 0..(Byte - 1)]
    BY Numbers
  <2> QED BY <2>1, <2>2, Numbers DEF PrunedInit, PrunedTypeOK
<1>2. que_h = Cardinality(que)
  BY FS_EmptySet DEF PrunedInit
<1>3. dst_r[NumV] = INF8
  BY Numbers DEF PrunedInit
<1>4. \A v \in Vertex : tmp_idx[v] = <<Sentinel>> /\ spt[v] = <<>>
  BY DEF PrunedInit
<1>5. ListsInv
  BY <1>4, EmptyList DEF ListsInv, Marked
<1>6. BetweenInv
  BY <1>4, EmptyList DEF BetweenInv, Marked, PrunedInit
<1>7. DuringInv
  BY DEF DuringInv
<1> QED BY <1>1, <1>2, <1>3, <1>5, <1>6, <1>7 DEF SearchInv

\* A root that a tree used is passed over.
LEMMA SkipRootInv ==
    ASSUME SearchInv, SkipRoot
    PROVE  SearchInv'
<1> USE DEF SearchInv, SkipRoot, givenVars, searchVars
<1>1. PrunedTypeOK'
  <2>1. r' \in 0..NumV
    BY Numbers DEF PrunedTypeOK
  <2> QED BY <2>1 DEF PrunedTypeOK, IndexTypeOK
<1>2. r \in Nat /\ r' = r + 1 /\ r < r'
  BY Numbers DEF PrunedTypeOK
<1>3. \A v \in Vertex : \A list :
          WellFormed(list) /\ Marked(adj, v, list, r + 1) => Marked(adj, v, list, r + 2)
  <2>1. TAKE v \in Vertex
  <2>2. TAKE list
  <2>3. HAVE WellFormed(list) /\ Marked(adj, v, list, r + 1)
  <2>4. \A e \in Labels(list) : e[1] \in Int
    BY <2>3, WellFormedEntries DEF Vertex
  <2> QED BY <2>3, <2>4, <1>2 DEF Marked
<1>4. ListsInv'
  <2>1. \A v \in Vertex : Marked(adj, v, tmp_idx[v], r + 1)
    BY DEF ListsInv
  <2> QED BY <1>2, <1>3, <2>1 DEF ListsInv
<1>5. BetweenInv'
  BY <1>2 DEF BetweenInv, ListsInv, Marked
<1>6. DuringInv'
  BY DEF DuringInv
<1> QED BY <1>1, <1>4, <1>5, <1>6

\* A search starts at its root, with the distances to the root's hubs in dst_r.
LEMMA StartRootInv ==
    ASSUME SearchInv, StartRoot
    PROVE  SearchInv'
<1> USE DEF SearchInv, StartRoot, givenVars
<1>1. r \in Vertex /\ WellFormed(tmp_idx[r]) /\ tmp_idx[r] \in Seq(Label)
  BY Numbers DEF PrunedTypeOK, Vertex, ListsInv
<1>2. Loaded(tmp_idx[r]) \in [0..NumV -> 0..(Byte - 1)]
  BY <1>1, LoadedType DEF PrunedTypeOK
<1>3. PrunedTypeOK'
  BY <1>1, <1>2 DEF PrunedTypeOK, IndexTypeOK
<1>4. que_h' = Cardinality(que')
  BY FS_Singleton
<1>5. dst_r'[NumV] = INF8
  <2>1. Sentinel \in Entries(tmp_idx[r]) /\ \A e \in Entries(tmp_idx[r]) : e[1] = NumV => e = Sentinel
    BY <1>1, WellFormedEntries
  <2>2. Sentinel[1] = NumV /\ Sentinel[2] = INF8
    BY DEF Sentinel
  <2>3. (CHOOSE e \in Entries(tmp_idx[r]) : e[1] = NumV) = Sentinel
    BY <2>1, <2>2
  <2> QED BY <2>1, <2>2, <2>3, Numbers DEF Loaded
<1>6. ListsInv'
  BY DEF ListsInv
<1>7. BetweenInv'
  BY DEF BetweenInv
<1>8. DuringInv'
  <2>1. Within(adj, r, r, 0)
    BY WithinZero
  <2>2. \A w \in 0..NumV : dst_r'[w] = INF8 \/ \E e \in Entries(tmp_idx[r]) : e[1] = w
    BY DEF Loaded, BetweenInv
  <2>3. vis' = {r}
    BY DEF BetweenInv
  <2>4. \A v \in Vertex : Marked(adj, v, tmp_idx[v], r)
    BY DEF BetweenInv
  <2> QED BY <1>1, <2>1, <2>2, <2>3, <2>4 DEF DuringInv
<1> QED BY <1>3, <1>4, <1>5, <1>6, <1>7, <1>8

\* A pruned vertex leaves the queue and changes nothing else.
LEMMA PruneVertexInv ==
    ASSUME SearchInv, NEW v \in Vertex, PruneVertex(v)
    PROVE  SearchInv'
<1> USE DEF SearchInv, PruneVertex, givenVars
<1>1. PrunedTypeOK'
  BY DEF PrunedTypeOK, IndexTypeOK
<1>2. ListsInv'
  BY DEF ListsInv
<1>3. BetweenInv'
  BY DEF BetweenInv
<1>4. DuringInv'
  BY DEF DuringInv
<1> QED BY <1>1, <1>2, <1>3, <1>4

\* The sentinel prunes a search at depth 2 * INF8, so a depth that becomes a label is
\* below Byte.
LEMMA DepthFits ==
    ASSUME SearchInv, NEW v \in Vertex, pc = "bfs", ~HubPrunes(v)
    PROVE  d < 2 * INF8 /\ d < Byte
<1>1. WellFormed(tmp_idx[v]) /\ dst_r[NumV] = INF8 /\ d \in Nat
  BY DEF SearchInv, ListsInv, PrunedTypeOK
<1>2. Sentinel \in Entries(tmp_idx[v]) /\ Sentinel[1] = NumV /\ Sentinel[2] = INF8
  BY <1>1, WellFormedEntries DEF Sentinel
<1>3. ~(INF8 + INF8 <= d)
  BY <1>1, <1>2 DEF HubPrunes
<1> QED BY <1>1, <1>3, Numbers

\* A labelled vertex gets the root as its last hub, at the depth of the search, and
\* its unmarked neighbours follow one level deeper.
LEMMA LabelVertexInv ==
    ASSUME SearchInv, NEW v \in Vertex, LabelVertex(v)
    PROVE  SearchInv'
<1> USE DEF SearchInv, LabelVertex, givenVars
<1> DEFINE new == AddLabel(tmp_idx[v], r, d)
<1>1. /\ pc = "bfs" /\ pc' = "bfs" /\ r \in Vertex /\ d \in Nat /\ v \in cur
      /\ tmp_idx \in [Vertex -> Seq(Label)] /\ adj \in Graphs
      /\ vis = que /\ que \subseteq Vertex /\ cur \cup nxt \subseteq que
  BY DEF DuringInv, PrunedTypeOK, IndexTypeOK
<1>2. WellFormed(tmp_idx[v]) /\ Marked(adj, v, tmp_idx[v], r)
  BY <1>1 DEF ListsInv, DuringInv
<1>3. d < Byte
  BY <1>1, DepthFits DEF Pruned
<1>4. /\ WellFormed(new)
      /\ Labels(new) \subseteq Labels(tmp_idx[v]) \cup {<<r, d>>}
      /\ Entries(tmp_idx[v]) \subseteq Entries(new)
  BY <1>1, <1>2, <1>3, AddLabelWellFormed DEF Marked
<1>5. Found(v) \subseteq Vertex /\ Found(v) \cap que = {} /\ Found(v) \subseteq adj[v]
  BY <1>1, GraphAssumption DEF Found
<1>6. /\ tmp_idx'[v] = new
      /\ \A u \in Vertex : u # v => tmp_idx'[u] = tmp_idx[u]
  BY <1>1
<1> HIDE DEF new
<1>7. PrunedTypeOK'
  <2>1. new \in Seq(Label)
    BY <1>4 DEF WellFormed
  <2>2. tmp_idx' \in [Vertex -> Seq(Label)]
    BY <2>1, <1>1 DEF new
  <2>3. que_h' \in Nat
    <3>1. Cardinality(Found(v)) \in Nat
      BY <1>5, VertexFinite
    <3>2. que_h \in Nat /\ que_h' = que_h + Cardinality(Found(v))
      BY DEF PrunedTypeOK
    <3> HIDE DEF SearchInv, LabelVertex
    <3> QED BY <3>1, <3>2
  <2> QED BY <1>1, <1>5, <2>2, <2>3 DEF PrunedTypeOK, IndexTypeOK
<1>8. que_h' = Cardinality(que')
  BY <1>1, <1>5, QueueGrows
<1>9. ListsInv'
  <2>1. Within(adj, r, v, d)
    BY <1>1 DEF DuringInv
  <2>2. Marked(adj, v, new, r + 1)
    <3>1. SUFFICES ASSUME NEW e \in Labels(new) PROVE e[1] < r + 1 /\ Within(adj, e[1], v, e[2])
      BY DEF Marked
    <3>2. CASE e = <<r, d>>
      BY <3>2, <2>1, <1>1 DEF Vertex
    <3>3. CASE e \in Labels(tmp_idx[v])
      <4>1. e[1] \in Vertex /\ e[1] < r /\ Within(adj, e[1], v, e[2])
        BY <3>3, <1>2, WellFormedEntries DEF Marked
      <4> QED BY <4>1, <1>1 DEF Vertex
    <3> QED BY <3>2, <3>3, <1>4
  <2> QED BY <1>1, <1>4, <1>6, <2>2 DEF ListsInv
<1>10. BetweenInv'
  BY <1>1 DEF BetweenInv
<1>11. DuringInv'
  <2>1. vis' = que' /\ cur' \cup nxt' \subseteq que' /\ cur' \cap nxt' = {} /\ v \notin cur' \cup nxt'
    BY <1>1, <1>5 DEF DuringInv
  <2>2. \A w \in 0..NumV : dst_r'[w] = INF8 \/ \E e \in Entries(tmp_idx'[r]) : e[1] = w
    <3>1. Entries(tmp_idx[r]) \subseteq Entries(tmp_idx'[r])
      BY <1>1, <1>4, <1>6
    <3> QED BY <3>1, <1>1 DEF DuringInv
  <2>3. \A u \in cur' : Within(adj, r, u, d)
    BY <1>1 DEF DuringInv
  <2>4. \A u \in nxt' : Within(adj, r, u, d + 1)
    <3>1. \A u \in Found(v) : Within(adj, r, u, d + 1)
      BY <1>1, <1>5, WithinStep DEF DuringInv
    <3> QED BY <3>1, <1>1 DEF DuringInv
  <2>5. ASSUME NEW u \in Vertex, u \notin que' \/ u \in cur' \cup nxt'
        PROVE  Marked(adj, u, tmp_idx'[u], r)
    <3>1. u # v
      BY <2>1, <2>5, <1>1
    <3>2. u \notin que \/ u \in cur \cup nxt
      BY <2>5, <1>5
    <3> QED BY <3>1, <3>2, <1>1, <1>6 DEF DuringInv
  <2> QED BY <1>1, <2>1, <2>2, <2>3, <2>4, <2>5 DEF DuringInv
<1> QED BY <1>1, <1>7, <1>8, <1>9, <1>10, <1>11

\* The next level becomes the current one.
LEMMA NextDepthInv ==
    ASSUME SearchInv, NextDepth
    PROVE  SearchInv'
<1> USE DEF SearchInv, NextDepth, givenVars
<1>1. PrunedTypeOK'
  BY DEF PrunedTypeOK, IndexTypeOK
<1>2. ListsInv'
  BY DEF ListsInv
<1>3. BetweenInv'
  BY DEF BetweenInv
<1>4. DuringInv'
  BY DEF DuringInv
<1> QED BY <1>1, <1>2, <1>3, <1>4

\* The search clears the marks and dst_r; every vertex may now have its root as a hub.
LEMMA FinishRootInv ==
    ASSUME SearchInv, FinishRoot
    PROVE  SearchInv'
<1> USE DEF SearchInv, FinishRoot, Unmarked, givenVars
<1>1. r \in Vertex /\ r' = r + 1 /\ r \in Nat /\ r' \in 0..NumV
      /\ tmp_idx[r] \in Seq(Label) /\ WellFormed(tmp_idx[r])
  BY Numbers DEF PrunedTypeOK, DuringInv, ListsInv, Vertex
<1>2. PrunedTypeOK'
  <2>1. Unloaded(tmp_idx[r]) \in [0..NumV -> 0..(Byte - 1)]
    BY <1>1, LoadedType DEF PrunedTypeOK
  <2> QED BY <1>1, <2>1 DEF PrunedTypeOK, IndexTypeOK
<1>3. dst_r' = [w \in 0..NumV |-> INF8]
  BY DEF DuringInv, Unloaded
<1>4. \A v \in Vertex : WellFormed(tmp_idx[v]) /\ Marked(adj, v, tmp_idx[v], r')
  BY <1>1 DEF ListsInv
<1>5. \A v \in Vertex : \A list :
          WellFormed(list) /\ Marked(adj, v, list, r') => Marked(adj, v, list, r' + 1)
  <2>1. TAKE v \in Vertex
  <2>2. TAKE list
  <2>3. HAVE WellFormed(list) /\ Marked(adj, v, list, r')
  <2>4. \A e \in Labels(list) : e[1] \in Int
    BY <2>3, WellFormedEntries DEF Vertex
  <2> QED BY <2>3, <2>4, <1>1 DEF Marked
<1>6. ListsInv'
  BY <1>1, <1>4, <1>5 DEF ListsInv
<1>7. BetweenInv'
  BY <1>3, <1>4 DEF BetweenInv, DuringInv
<1>8. DuringInv'
  BY DEF DuringInv
<1>9. dst_r'[NumV] = INF8
  BY <1>3, Numbers
<1> QED BY <1>2, <1>6, <1>7, <1>8, <1>9

\* The lists move into the index, or the index is freed.
LEMMA CopyInv ==
    ASSUME SearchInv, CopyLabels \/ CopyFails
    PROVE  SearchInv'
<1> USE DEF SearchInv, CopyLabels, CopyFails, givenVars, searchVars
<1>1. <<>> \in Seq(Label)
  OBVIOUS
<1>2. PrunedTypeOK'
  BY <1>1 DEF PrunedTypeOK, IndexTypeOK
<1>3. ListsInv'
  BY DEF ListsInv
<1>4. BetweenInv' /\ DuringInv'
  BY DEF BetweenInv, DuringInv
<1> QED BY <1>2, <1>3, <1>4

\* Every step of pruned labelling keeps the invariant.
LEMMA SearchInvStep ==
    ASSUME SearchInv, PrunedNext
    PROVE  SearchInv'
BY SkipRootInv, StartRootInv, PruneVertexInv, LabelVertexInv, NextDepthInv,
   FinishRootInv, CopyInv DEF PrunedNext

-----------------------------------------------------------------------------
(***************************************************************************)
(* The invariant, and the properties that follow from it.                  *)
(***************************************************************************)

\* Every reachable state of pruned labelling satisfies the invariant of a search.
THEOREM PrunedInvariant == PrunedSpec => []SearchInv
<1>1. PrunedStart => SearchInv
  BY SearchInvInit DEF PrunedStart, Handover
<1>2. SearchInv /\ [PrunedNext \/ Terminated]_pVars => SearchInv'
  <2>1. SUFFICES ASSUME SearchInv, [PrunedNext \/ Terminated]_pVars PROVE SearchInv'
    OBVIOUS
  <2>2. CASE PrunedNext
    BY <2>1, <2>2, SearchInvStep
  <2>3. CASE UNCHANGED pVars
    BY <2>1, <2>3 DEF pVars, indexVars, prunedVars, searchVars, SearchInv, PrunedTypeOK,
       IndexTypeOK, ListsInv, BetweenInv, DuringInv
  <2>4. CASE Terminated
    BY <2>3, <2>4 DEF Terminated, pVars
  <2> QED BY <2>1, <2>2, <2>3, <2>4
<1> QED BY <1>1, <1>2, PTL DEF PrunedSpec, pVars

\* Every variable keeps the type of its declaration.
THEOREM PrunedTypeCorrect == PrunedSpec => []PrunedTypeOK
<1>1. SearchInv => PrunedTypeOK
  BY DEF SearchInv
<1> QED BY <1>1, PrunedInvariant, PTL

\* No label ever promises less than the distance to its hub.
THEOREM LabelsAreSound == PrunedSpec => []LabelsSound
<1>1. SearchInv => LabelsSound
  <2>1. SUFFICES ASSUME SearchInv, NEW v \in Vertex,
                        NEW e \in Entries(tmp_idx[v]) \cup Entries(spt[v]), e # Sentinel
                 PROVE  Within(adj, e[1], v, e[2])
    BY DEF LabelsSound
  <2>2. Entries(<<>>) = {}
    BY DEF Entries
  <2>3. CASE e \in Entries(tmp_idx[v])
    BY <2>1, <2>2, <2>3 DEF SearchInv, ListsInv, Marked, Labels
  <2>4. CASE e \in Entries(spt[v])
    BY <2>1, <2>2, <2>4 DEF SearchInv, ListsInv, Marked, Labels
  <2> QED BY <2>1, <2>3, <2>4
<1> QED BY <1>1, PrunedInvariant, PTL

\* The lists are always what the merge of QueryDistance needs.
THEOREM HubsAreAscending == PrunedSpec => []HubsAscending
<1>1. SearchInv => HubsAscending
  BY DEF SearchInv, ListsInv, HubsAscending
<1> QED BY <1>1, PrunedInvariant, PTL

\* A search leaves no mark and no loaded distance behind.
THEOREM ArraysAreClean == PrunedSpec => []ArraysClean
<1>1. SearchInv => ArraysClean
  BY DEF SearchInv, BetweenInv, ArraysClean
<1> QED BY <1>1, PrunedInvariant, PTL

\* A search never pushes more vertices than the queue has slots.
THEOREM QueueAlwaysFits == PrunedSpec => []QueueFits
<1>1. SearchInv => QueueFits
  BY VertexFinite DEF SearchInv, PrunedTypeOK, QueueFits
<1> QED BY <1>1, PrunedInvariant, PTL
=============================================================================

-------------------------- MODULE PrunedExactProofs --------------------------
(***************************************************************************)
(* Pruned labelling answers exactly, for every graph, every number of      *)
(* vertices and trees, and all trees that keep the promises of Handover.   *)
(***************************************************************************)
EXTENDS PrunedLabelingProofs

(***************************************************************************)
(* When a search prunes.  A bound up to the depth prunes; where no used    *)
(* vertex lies between, nothing does.                                      *)
(***************************************************************************)
\* What the invariant says of a vertex that is still to be visited.
LEMMA InSearch ==
    ASSUME AnswerInv, pc = "bfs", NEW v \in cur
    PROVE  /\ IndexTypeOK /\ adj \in Graphs /\ r \in Vertex /\ r \in Nat /\ v \in Vertex
           /\ d \in Nat /\ Within(adj, r, v, d)
           /\ WellFormed(tmp_idx[r]) /\ WellFormed(tmp_idx[v])
           /\ Marked(adj, r, tmp_idx[r], r + 1) /\ Marked(adj, v, tmp_idx[v], r)
           /\ \A w \in 0..NumV : dst_r[w] \in 0..(Byte - 1)
<1>1. PrunedTypeOK /\ ListsInv /\ DuringInv
  BY DEF AnswerInv, SearchInv
<1>2. r \in Vertex /\ r \in Nat /\ v \in Vertex /\ d \in Nat /\ IndexTypeOK /\ adj \in Graphs
  BY <1>1 DEF DuringInv, PrunedTypeOK, IndexTypeOK, Vertex
<1>3. \A w \in 0..NumV : dst_r[w] \in 0..(Byte - 1)
  BY <1>1 DEF PrunedTypeOK
<1>4. \A w \in Vertex : WellFormed(tmp_idx[w]) /\ Marked(adj, w, tmp_idx[w], r + 1)
  BY <1>1 DEF ListsInv
<1>5. Within(adj, r, v, d) /\ Marked(adj, v, tmp_idx[v], r)
  BY <1>1, <1>2 DEF DuringInv
<1> QED BY <1>2, <1>3, <1>4, <1>5

\* A bound up to the depth of the search prunes it.
LEMMA BoundPrunes ==
    ASSUME AnswerInv, pc = "bfs", NEW v \in cur, NEW n \in Nat, n <= d,
           Bounded(r, v, tmp_idx[r], tmp_idx[v], n)
    PROVE  Pruned(v)
<1>1. CASE \E i \in Tree : Considered(TreeTd(r, v, i), n) /\ Corrected(r, v, i) <= n
  <2>1. PICK i \in Tree : Considered(TreeTd(r, v, i), n) /\ Corrected(r, v, i) <= n
    BY <1>1
  <2>2. Considered(TreeTd(r, v, i), d) /\ Corrected(r, v, i) <= d
    BY <2>1, InSearch, TreeNumbers
  <2> QED BY <2>2 DEF Pruned, TreePrunes
<1>2. CASE \E m \in HubBounds(tmp_idx[r], tmp_idx[v]) : m <= n
  <2>1. PICK m \in HubBounds(tmp_idx[r], tmp_idx[v]) : m <= n
    BY <1>2
  <2>2. PICK h \in Vertex, a \in 0..(Byte - 1), b \in 0..(Byte - 1) :
            <<h, a>> \in Labels(tmp_idx[r]) /\ <<h, b>> \in Labels(tmp_idx[v]) /\ m = a + b
    BY InSearch, HubBoundElim
  <2>3. h < r
    BY <2>2, InSearch DEF Marked
  <2>4. dst_r[h] = a
    BY <2>2, <2>3 DEF AnswerInv, LoadedInv, Labels
  <2>5. b + dst_r[h] <= d
    BY <2>1, <2>2, <2>4, InSearch
  <2> QED BY <2>2, <2>5 DEF Pruned, HubPrunes, Labels
<1> QED BY <1>1, <1>2 DEF Bounded

\* A search below depth INF8 is pruned only where a used vertex lies on a walk of
\* the length of its depth.
LEMMA PruneIsWalk ==
    ASSUME AnswerInv, pc = "bfs", NEW v \in cur, d < INF8, Pruned(v)
    PROVE  Via(r, v, d) # {}
<1>1. CASE v \in usd
  <2>1. Within(adj, v, v, 0)
    BY WithinZero
  <2>2. d + 0 <= d
    BY InSearch
  <2> QED BY <1>1, <2>1, <2>2, InSearch, ViaIntro
<1>2. CASE TreePrunes(v)
  <2>1. PICK i \in Tree : Considered(TreeTd(r, v, i), d) /\ Corrected(r, v, i) <= d
    BY <1>2 DEF TreePrunes
  <2>2. Considered(TreeTd(r, v, i), INF8)
    BY <2>1, InSearch, TreeNumbers, Numbers
  <2> QED BY <2>1, <2>2, InSearch, TreeBoundIsWalk DEF AnswerInv
<1>3. CASE HubPrunes(v)
  <2>1. PICK e \in Entries(tmp_idx[v]) : e[2] + dst_r[e[1]] <= d
    BY <1>3 DEF HubPrunes
  <2>2. e[1] \in 0..NumV /\ e[2] \in 0..(Byte - 1) /\ e = <<e[1], e[2]>>
    BY InSearch, EntriesOfList DEF WellFormed
  <2>3. dst_r[e[1]] \in 0..(Byte - 1) /\ dst_r[NumV] = INF8
    BY <2>2, InSearch DEF AnswerInv, SearchInv
  <2>4. e[2] \in Nat /\ dst_r[e[1]] \in Nat /\ dst_r[e[1]] < INF8
    BY <2>1, <2>2, <2>3, InSearch, Numbers
  <2>5. e[1] \in Vertex /\ e # Sentinel
    BY <2>2, <2>3, <2>4, Numbers DEF Vertex, Sentinel
  <2>6. e[1] < r /\ Within(adj, e[1], v, e[2])
    BY <2>5, InSearch DEF Marked, Labels
  <2>7. <<e[1], dst_r[e[1]]>> \in Entries(tmp_idx[r])
    BY <2>4, <2>5, Numbers DEF AnswerInv, LoadedInv
  <2>8. <<e[1], dst_r[e[1]]>> \in Labels(tmp_idx[r])
    BY <2>5, <2>7, Numbers DEF Labels, Sentinel, Vertex
  <2>9. Within(adj, e[1], r, dst_r[e[1]])
    BY <2>8, InSearch DEF Marked
  <2>10. Within(adj, r, e[1], dst_r[e[1]])
    BY <2>4, <2>5, <2>9, InSearch, WithinSymmetric
  <2>11. e[1] \in usd
    BY <2>5, <2>6 DEF AnswerInv, UsedInv
  <2>12. dst_r[e[1]] + e[2] <= d
    BY <2>1, <2>4
  <2> QED BY <2>4, <2>6, <2>10, <2>11, <2>12, InSearch, ViaIntro
<1> QED BY <1>1, <1>2, <1>3 DEF Pruned

\* Below depth INF8, a vertex is labelled with its distance, and then no used vertex
\* lies on a shortest path to it.
LEMMA LabelledExactly ==
    ASSUME AnswerInv, pc = "bfs", NEW v \in cur, d < INF8, ~Pruned(v)
    PROVE  AtDistance(adj, r, v, d) /\ Via(r, v, d) = {}
<1>1. ~TdWraps(r, v)
  <2>1. SUFFICES ASSUME NEW i \in Tree, TreeTd(r, v, i) < 2 PROVE FALSE
    BY DEF TdWraps
  <2>2. bpspt_d[r][i] \in Nat /\ bpspt_d[v][i] \in Nat
    BY InSearch DEF IndexTypeOK
  <2>3. bpspt_d[r][i] # 0 /\ bpspt_d[v][i] # 0
    BY InSearch DEF AnswerInv, UsedInv, TreeRootsUsed, Pruned
  <2> QED BY <2>1, <2>2, <2>3 DEF TreeTd
<1>2. Via(r, v, d) = {}
  <2>1. SUFFICES ASSUME Via(r, v, d) # {} PROVE FALSE
    OBVIOUS
  <2>2. d \in 0..(INF8 - 1)
    BY InSearch, Numbers
  <2>3. Covered(tmp_idx)
    BY DEF AnswerInv, CoverInv
  <2>4. Bounded(r, v, tmp_idx[r], tmp_idx[v], d)
    BY <1>1, <2>1, <2>2, <2>3, InSearch DEF Covered
  <2> QED BY <2>4, InSearch, BoundPrunes
<1>3. PICK m \in 0..d : AtDistance(adj, r, v, m)
  BY InSearch, DistanceExists
<1>4. ASSUME m < d PROVE FALSE
  <2>1. Via(r, v, m) = {}
    BY <1>2, InSearch, ViaMonotone
  <2>2. m \in 0..(INF8 - 1) /\ m <= d /\ m # d
    BY <1>4, InSearch, Numbers
  <2>3. <<r, m>> \in Entries(tmp_idx[v])
    BY <1>3, <2>1, <2>2, InSearch DEF AnswerInv, FrontInv
  <2>4. <<r, m>> \in Labels(tmp_idx[v])
    BY <2>3, InSearch, Numbers DEF Labels, Sentinel, Vertex
  <2>5. r < r
    BY <2>4, InSearch DEF Marked
  <2> QED BY <2>5, InSearch
<1> QED BY <1>2, <1>3, <1>4, InSearch

-----------------------------------------------------------------------------
(***************************************************************************)
(* AnswerInv holds initially and is kept by every action.                  *)
(***************************************************************************)
\* The trees do not change, nor what follows from them and the used vertices.
LEMMA TreesFrame ==
    ASSUME UNCHANGED givenVars
    PROVE  /\ \A x, y, i : TreeTd(x, y, i)' = TreeTd(x, y, i)
           /\ \A x, y, i : Corrected(x, y, i)' = Corrected(x, y, i)
           /\ \A x, y : TdWraps(x, y)' <=> TdWraps(x, y)
<1>1. bpspt_d' = bpspt_d /\ bpspt_s' = bpspt_s
  BY DEF givenVars
<1> QED BY <1>1 DEF TreeTd, Corrected, TdWraps

\* The same used vertices lie on the same walks.
LEMMA ViaFrame ==
    ASSUME adj' = adj, usd' = usd, NEW x, NEW y, NEW n
    PROVE  Via(x, y, n)' = Via(x, y, n)
BY DEF Via

\* What the trees promise stays true while vertices become used.
LEMMA TreesKept ==
    ASSUME UNCHANGED givenVars, usd \subseteq usd', TreesSound, TreeRootsUsed
    PROVE  TreesSound' /\ TreeRootsUsed'
<1>1. adj' = adj /\ bpspt_d' = bpspt_d
  BY DEF givenVars
<1>2. TreesSound'
  <2>1. SUFFICES ASSUME NEW x \in Vertex, NEW y \in Vertex, NEW i \in Tree,
                        Considered(TreeTd(x, y, i)', INF8), Corrected(x, y, i)' < INF8
                 PROVE  Via(x, y, Corrected(x, y, i))' # {}
    BY DEF TreesSound
  <2>2. Via(x, y, Corrected(x, y, i)) # {}
    BY <2>1, TreesFrame DEF TreesSound
  <2>3. Via(x, y, Corrected(x, y, i)) \subseteq Via(x, y, Corrected(x, y, i))'
    BY <1>1, TreesFrame DEF Via
  <2> QED BY <2>2, <2>3
<1>3. TreeRootsUsed'
  BY <1>1 DEF TreeRootsUsed
<1> QED BY <1>2, <1>3

\* Longer lists have more bounds.
LEMMA HubBoundsGrow ==
    ASSUME NEW lx, NEW ly, NEW mx, NEW my,
           Entries(lx) \subseteq Entries(mx), Entries(ly) \subseteq Entries(my)
    PROVE  HubBounds(lx, ly) \subseteq HubBounds(mx, my)
<1>1. SUFFICES ASSUME NEW m \in HubBounds(lx, ly) PROVE m \in HubBounds(mx, my)
  OBVIOUS
<1>2. PICK p \in Entries(lx) \X Entries(ly) :
          p[1][1] = p[2][1] /\ p[1][1] # NumV /\ m = p[1][2] + p[2][2]
  BY DEF HubBounds
<1>3. p \in Entries(mx) \X Entries(my)
  BY <1>2
<1> QED BY <1>2, <1>3 DEF HubBounds

\* While no vertex becomes used, lists that grow still match every walk.
LEMMA CoverKept ==
    ASSUME UNCHANGED givenVars, usd' = usd, Covered(tmp_idx),
           \A v \in Vertex : Entries(tmp_idx[v]) \subseteq Entries(tmp_idx'[v])
    PROVE  Covered(tmp_idx)'
<1>1. SUFFICES ASSUME NEW x \in Vertex, NEW y \in Vertex, NEW n \in 0..(INF8 - 1),
                      Via(x, y, n)' # {}, ~TdWraps(x, y)'
               PROVE  Bounded(x, y, tmp_idx[x], tmp_idx[y], n)'
  BY DEF Covered
<1>2. Bounded(x, y, tmp_idx[x], tmp_idx[y], n)
  BY <1>1, TreesFrame, ViaFrame DEF Covered, givenVars
<1>3. CASE \E i \in Tree : Considered(TreeTd(x, y, i), n) /\ Corrected(x, y, i) <= n
  BY <1>3, TreesFrame DEF Bounded
<1>4. CASE \E m \in HubBounds(tmp_idx[x], tmp_idx[y]) : m <= n
  <2>1. HubBounds(tmp_idx[x], tmp_idx[y]) \subseteq HubBounds(tmp_idx'[x], tmp_idx'[y])
    BY HubBoundsGrow
  <2> QED BY <1>4, <2>1 DEF Bounded
<1> QED BY <1>2, <1>3, <1>4 DEF Bounded

\* Labels that stay keep what was true of them.
LEMMA LabelsFrame ==
    ASSUME adj' = adj, tmp_idx' = tmp_idx, LabelsExact, LabelsMinimal
    PROVE  LabelsExact' /\ LabelsMinimal'
BY DEF LabelsExact, LabelsMinimal

\* The phase starts with the promises of the trees and no root.
LEMMA AnswerInvInit ==
    ASSUME PrunedStart
    PROVE  AnswerInv
<1>1. SearchInv
  BY SearchInvInit DEF PrunedStart, Handover
<1>2. pc = "root" /\ r = 0 /\ TreesSound /\ TreeRootsUsed /\ TreesCover /\ PrunedInit
  BY DEF PrunedStart, Handover, PrunedInit
<1>3. UsedInv
  BY <1>2 DEF UsedInv, Vertex
<1>4. CoverInv
  <2>1. Covered(tmp_idx)
    BY <1>2 DEF TreesCover, Covered, Bounded
  <2> QED BY <1>2, <2>1 DEF CoverInv
<1>5. LoadedInv /\ FrontInv
  BY <1>2 DEF LoadedInv, FrontInv
<1>6. LabelsExact /\ LabelsMinimal
  <2>1. ASSUME NEW v \in Vertex, NEW e \in Entries(tmp_idx[v]) PROVE ~(e[2] < INF8)
    <3>1. tmp_idx[v] = <<Sentinel>>
      BY <1>2 DEF PrunedInit
    <3>2. e = Sentinel
      BY <3>1 DEF Entries
    <3> QED BY <3>2, Numbers DEF Sentinel
  <2> QED BY <2>1 DEF LabelsExact, LabelsMinimal
<1> QED BY <1>1, <1>2, <1>3, <1>4, <1>5, <1>6 DEF AnswerInv

\* A used vertex is passed over.
LEMMA SkipRootAnswer ==
    ASSUME AnswerInv, SkipRoot
    PROVE  AnswerInv'
<1> USE DEF SkipRoot
<1>1. SearchInv'
  BY SearchInvStep DEF AnswerInv, PrunedNext
<1>2. TreesSound' /\ TreeRootsUsed'
  BY TreesKept DEF AnswerInv
<1>3. UsedInv'
  <2>1. r \in Nat /\ r' = r + 1
    BY Numbers DEF AnswerInv, SearchInv, PrunedTypeOK
  <2> QED BY <2>1 DEF AnswerInv, UsedInv, Vertex
<1>4. CoverInv'
  BY CoverKept DEF AnswerInv, CoverInv
<1>5. LoadedInv' /\ FrontInv'
  BY DEF LoadedInv, FrontInv
<1>6. LabelsExact' /\ LabelsMinimal'
  BY LabelsFrame DEF AnswerInv, givenVars
<1> QED BY <1>1, <1>2, <1>3, <1>4, <1>5, <1>6 DEF AnswerInv

\* Loading the root's list into an array of INF8 gives the distance to each hub.
LEMMA StartRootLoaded ==
    ASSUME AnswerInv, StartRoot
    PROVE  LoadedInv'
<1>1. /\ WellFormed(tmp_idx[r]) /\ tmp_idx[r] \in Seq(Label)
      /\ dst_r = [w \in 0..NumV |-> INF8]
      /\ r' = r /\ tmp_idx' = tmp_idx
  BY Numbers DEF AnswerInv, SearchInv, PrunedTypeOK, Vertex, ListsInv, BetweenInv, StartRoot
<1>2. SUFFICES ASSUME NEW w \in Vertex
               PROVE  /\ dst_r'[w] # INF8 => <<w, dst_r'[w]>> \in Entries(tmp_idx[r])
                      /\ \A n \in 0..(Byte - 1) :
                            <<w, n>> \in Entries(tmp_idx[r]) => dst_r'[w] = n
  BY <1>1 DEF LoadedInv
<1> DEFINE e == CHOOSE f \in Entries(tmp_idx[r]) : f[1] = w
<1>3. dst_r'[w] = IF \E f \in Entries(tmp_idx[r]) : f[1] = w THEN e[2] ELSE INF8
  <2>1. w \in 0..NumV
    BY Numbers DEF Vertex
  <2> QED BY <1>1, <2>1 DEF StartRoot, Loaded
<1>4. (\E f \in Entries(tmp_idx[r]) : f[1] = w) => e \in Entries(tmp_idx[r]) /\ e[1] = w
  OBVIOUS
<1> HIDE DEF e
<1>5. ASSUME dst_r'[w] # INF8 PROVE <<w, dst_r'[w]>> \in Entries(tmp_idx[r])
  <2>1. e \in Entries(tmp_idx[r]) /\ e[1] = w /\ dst_r'[w] = e[2]
    BY <1>3, <1>4, <1>5
  <2>2. e = <<e[1], e[2]>>
    BY <1>1, <2>1, EntriesOfList
  <2> QED BY <2>1, <2>2
<1>6. ASSUME NEW n \in 0..(Byte - 1), <<w, n>> \in Entries(tmp_idx[r]) PROVE dst_r'[w] = n
  <2>1. \E f \in Entries(tmp_idx[r]) : f[1] = w
    BY <1>6
  <2>2. e = <<w, n>>
    BY <1>1, <1>4, <1>6, <2>1, OneEntryPerHub
  <2> QED BY <1>3, <2>1, <2>2
<1> QED BY <1>5, <1>6

\* The search starts with its root in the queue and no label of its own.
LEMMA StartRootAnswer ==
    ASSUME AnswerInv, StartRoot
    PROVE  AnswerInv'
<1>1. SearchInv'
  BY SearchInvStep DEF AnswerInv, PrunedNext
<1>2. UNCHANGED givenVars /\ usd' = usd /\ tmp_idx' = tmp_idx /\ pc' = "bfs" /\ pc = "root"
  BY DEF StartRoot
<1>3. TreesSound' /\ TreeRootsUsed'
  BY <1>2, TreesKept DEF AnswerInv
<1>4. UsedInv'
  BY DEF AnswerInv, UsedInv, StartRoot
<1>5. CoverInv'
  BY <1>2, CoverKept DEF AnswerInv, CoverInv
<1>6. LoadedInv'
  BY StartRootLoaded
<1>7. FrontInv'
  <2>1. r' = r /\ r \in Vertex /\ d' = 0 /\ cur' = {r} /\ que' = {r} /\ nxt' = {} /\ adj' = adj
    BY Numbers DEF StartRoot, AnswerInv, SearchInv, PrunedTypeOK, Vertex, givenVars
  <2>2. \A v \in Vertex : \A n \in 0..(Byte - 1) : <<r, n>> \notin Entries(tmp_idx[v])
    <3>1. TAKE v \in Vertex
    <3>2. TAKE n \in 0..(Byte - 1)
    <3>3. Marked(adj, v, tmp_idx[v], r)
      BY <1>2 DEF AnswerInv, SearchInv, BetweenInv
    <3>4. <<r, n>> # Sentinel
      BY <2>1, Numbers DEF Sentinel, Vertex
    <3>5. ~(r < r)
      BY <2>1 DEF Vertex
    <3> QED BY <3>3, <3>4, <3>5 DEF Marked, Labels
  <2>3. Within(adj, r, r, 0)
    BY WithinZero
  <2>4. \A v : AtDistance(adj, r, v, 0) => v = r
    BY WithinZero DEF AtDistance
  <2>5. \A n \in 0..(INF8 - 1) : n <= 0 => n = 0
    OBVIOUS
  <2> QED BY <1>2, <2>1, <2>2, <2>3, <2>4, <2>5 DEF FrontInv
<1>8. LabelsExact' /\ LabelsMinimal'
  BY <1>2, LabelsFrame DEF AnswerInv, givenVars
<1> QED BY <1>1, <1>3, <1>4, <1>5, <1>6, <1>7, <1>8 DEF AnswerInv

\* Below depth INF8, a pruned vertex lies behind a used one.
LEMMA PruneVertexAnswer ==
    ASSUME AnswerInv, NEW v \in Vertex, PruneVertex(v)
    PROVE  AnswerInv'
<1>1. SearchInv'
  BY SearchInvStep DEF AnswerInv, PrunedNext
<1>2. /\ UNCHANGED givenVars /\ usd' = usd /\ tmp_idx' = tmp_idx /\ pc' = pc /\ pc = "bfs"
      /\ r' = r /\ d' = d /\ que' = que /\ nxt' = nxt /\ dst_r' = dst_r /\ adj' = adj
      /\ v \in cur /\ cur' = cur \ {v} /\ Pruned(v)
  BY DEF PruneVertex, givenVars
<1>3. TreesSound' /\ TreeRootsUsed'
  BY <1>2, TreesKept DEF AnswerInv
<1>4. UsedInv' /\ LoadedInv'
  BY <1>2 DEF AnswerInv, UsedInv, LoadedInv
<1>5. CoverInv'
  BY <1>2, CoverKept DEF AnswerInv, CoverInv
<1>6. FrontInv'
  <2>1. FrontInv
    BY DEF AnswerInv
  <2>2. ASSUME NEW w \in Vertex, NEW n \in 0..(INF8 - 1), n <= d,
               AtDistance(adj, r, w, n), Via(r, w, n)' = {}
        PROVE  <<r, n>> \in Entries(tmp_idx[w]) \/ (n = d /\ w \in cur')
    <3>1. Via(r, w, n) = {}
      BY <1>2, <2>2, ViaFrame
    <3>2. <<r, n>> \in Entries(tmp_idx[w]) \/ (n = d /\ w \in cur)
      BY <1>2, <2>1, <2>2, <3>1 DEF FrontInv
    <3>3. CASE n = d /\ w = v
      <4>1. d < INF8
        BY <3>3, Numbers
      <4> QED BY <1>2, <3>1, <3>3, <4>1, PruneIsWalk
    <3> QED BY <1>2, <3>2, <3>3
  <2> QED BY <1>2, <2>1, <2>2 DEF FrontInv
<1>7. LabelsExact' /\ LabelsMinimal'
  BY <1>2, LabelsFrame DEF AnswerInv
<1> QED BY <1>1, <1>3, <1>4, <1>5, <1>6, <1>7 DEF AnswerInv

\* The label a vertex gets, beside those it has.
LEMMA NewLabel ==
    ASSUME SearchInv, NEW v \in Vertex, LabelVertex(v)
    PROVE  /\ \A w \in Vertex : Entries(tmp_idx[w]) \subseteq Entries(tmp_idx'[w])
           /\ <<r, d>> \in Entries(tmp_idx'[v])
           /\ \A w \in Vertex : \A e \in Entries(tmp_idx'[w]) :
                 e \in Entries(tmp_idx[w]) \/ (w = v /\ e = <<r, d>>)
<1> DEFINE new == AddLabel(tmp_idx[v], r, d)
<1>1. /\ r \in Vertex /\ d \in Nat /\ v \in cur /\ tmp_idx \in [Vertex -> Seq(Label)]
      /\ WellFormed(tmp_idx[v]) /\ Marked(adj, v, tmp_idx[v], r) /\ pc = "bfs"
  <2>1. pc = "bfs" /\ v \in cur
    BY DEF LabelVertex
  <2>2. ListsInv /\ DuringInv /\ PrunedTypeOK
    BY DEF SearchInv
  <2> QED BY <2>1, <2>2 DEF ListsInv, DuringInv, PrunedTypeOK
<1>2. d < Byte
  BY <1>1, DepthFits DEF Pruned, LabelVertex
<1>3. /\ WellFormed(new)
      /\ Labels(new) \subseteq Labels(tmp_idx[v]) \cup {<<r, d>>}
      /\ Entries(tmp_idx[v]) \subseteq Entries(new)
  BY <1>1, <1>2, AddLabelWellFormed DEF Marked
<1>4. <<r, d>> \in Entries(new)
  <2> DEFINE n == Len(tmp_idx[v])
             mid == [tmp_idx[v] EXCEPT ![n] = <<r, d % Byte>>]
  <2>1. n \in Nat /\ n > 0 /\ tmp_idx[v] \in Seq(Label)
    BY <1>1 DEF WellFormed
  <2>2. <<r, d>> \in Label /\ d % Byte = d
    <3>1. d % Byte = d
      BY <1>1, <1>2, ByteCast
    <3> QED BY <1>1, <1>2, <3>1, Numbers DEF Label, Vertex
  <2>3. mid \in Seq(Label) /\ Len(mid) = n /\ mid[n] = <<r, d>>
    BY <2>1, <2>2, ExceptSeq
  <2>4. new = Append(mid, Sentinel)
    BY DEF AddLabel
  <2>5. Sentinel \in Label
    BY Numbers DEF Sentinel, Label
  <2> HIDE DEF mid, new, n
  <2>6. Len(new) = n + 1 /\ new[n] = <<r, d>>
    BY <2>1, <2>3, <2>4, <2>5, AppendProperties
  <2>7. n \in 1..Len(new)
    BY <2>1, <2>6
  <2> QED BY <2>6, <2>7 DEF Entries
<1>5. tmp_idx'[v] = new /\ \A w \in Vertex : w # v => tmp_idx'[w] = tmp_idx[w]
  BY <1>1 DEF LabelVertex
<1> HIDE DEF new
<1>6. Sentinel \in Entries(tmp_idx[v])
  BY <1>1, WellFormedEntries
<1> QED BY <1>3, <1>4, <1>5, <1>6 DEF Labels

\* A labelled vertex is labelled with its distance, and its neighbours are in the queue.
LEMMA LabelVertexAnswer ==
    ASSUME AnswerInv, NEW v \in Vertex, LabelVertex(v)
    PROVE  AnswerInv'
<1>1. SearchInv /\ SearchInv'
  BY SearchInvStep DEF AnswerInv, PrunedNext
<1>2. /\ UNCHANGED givenVars /\ usd' = usd /\ pc' = pc /\ pc = "bfs"
      /\ r' = r /\ d' = d /\ dst_r' = dst_r /\ adj' = adj
      /\ v \in cur /\ cur' = cur \ {v} /\ ~Pruned(v)
      /\ que' = que \cup Found(v) /\ nxt' = nxt \cup Found(v)
  BY DEF LabelVertex, givenVars
<1>3. /\ r \in Vertex /\ d \in Nat /\ Within(adj, r, v, d)
      /\ vis = que /\ nxt \subseteq que
  BY <1>1, <1>2, InSearch DEF AnswerInv, SearchInv, DuringInv
<1>4. TreesSound' /\ TreeRootsUsed'
  BY <1>2, TreesKept DEF AnswerInv
<1>5. UsedInv'
  BY <1>2 DEF AnswerInv, UsedInv
<1>6. CoverInv'
  BY <1>1, <1>2, CoverKept, NewLabel DEF AnswerInv, CoverInv
<1>7. LoadedInv'
  <2>1. SUFFICES ASSUME NEW w \in Vertex
                 PROVE  /\ dst_r[w] # INF8 => <<w, dst_r[w]>> \in Entries(tmp_idx'[r])
                        /\ \A n \in 0..(Byte - 1) :
                              w < r /\ <<w, n>> \in Entries(tmp_idx'[r]) => dst_r[w] = n
    BY <1>2 DEF LoadedInv
  <2>2. dst_r[w] # INF8 => <<w, dst_r[w]>> \in Entries(tmp_idx[r])
    BY <1>2 DEF AnswerInv, LoadedInv
  <2>3. ASSUME NEW n \in 0..(Byte - 1), w < r, <<w, n>> \in Entries(tmp_idx'[r])
        PROVE  dst_r[w] = n
    <3>1. <<w, n>> # <<r, d>>
      BY <2>3, <1>3 DEF Vertex
    <3>2. <<w, n>> \in Entries(tmp_idx[r])
      BY <1>1, <1>3, <2>3, <3>1, NewLabel
    <3> QED BY <1>2, <2>3, <3>2 DEF AnswerInv, LoadedInv
  <2> QED BY <1>1, <1>3, <2>2, <2>3, NewLabel
<1>8. FrontInv'
  <2>1. FrontInv
    BY DEF AnswerInv
  <2>2. ASSUME NEW w \in Vertex, NEW n \in 0..(Byte - 1), <<r, n>> \in Entries(tmp_idx'[w])
        PROVE  adj[w] \subseteq que'
    <3>1. CASE w = v
      BY <1>2, <1>3, <3>1 DEF Found
    <3>2. CASE <<r, n>> \in Entries(tmp_idx[w])
      BY <1>2, <2>1, <3>2 DEF FrontInv
    <3> QED BY <1>1, <2>2, <3>1, <3>2, NewLabel
  <2>3. ASSUME NEW w \in que' \ nxt' PROVE Within(adj, r, w, d)
    BY <1>2, <1>3, <2>1 DEF FrontInv
  <2>4. ASSUME NEW w \in Vertex, NEW n \in 0..(INF8 - 1), n <= d,
               AtDistance(adj, r, w, n), Via(r, w, n)' = {}
        PROVE  <<r, n>> \in Entries(tmp_idx'[w]) \/ (n = d /\ w \in cur')
    <3>1. Via(r, w, n) = {}
      BY <1>2, <2>4, ViaFrame
    <3>2. <<r, n>> \in Entries(tmp_idx[w]) \/ (n = d /\ w \in cur)
      BY <1>2, <2>1, <2>4, <3>1 DEF FrontInv
    <3> QED BY <1>1, <1>2, <3>2, NewLabel
  <2> QED BY <1>2, <2>2, <2>3, <2>4 DEF FrontInv
<1>9. ASSUME NEW w \in Vertex, NEW e \in Entries(tmp_idx'[w]), e[2] < INF8
      PROVE  /\ AtDistance(adj, e[1], w, e[2])
             /\ \A u \in 0..(e[1] - 1) : \A n \in 0..e[2] :
                   ~(Within(adj, e[1], u, n) /\ Within(adj, u, w, e[2] - n))
  <2>1. CASE e \in Entries(tmp_idx[w])
    BY <1>9, <2>1 DEF AnswerInv, LabelsExact, LabelsMinimal
  <2>2. CASE w = v /\ e = <<r, d>>
    <3>1. AtDistance(adj, r, v, d) /\ Via(r, v, d) = {}
      BY <1>2, <1>9, <2>2, LabelledExactly
    <3>2. ASSUME NEW u \in 0..(r - 1), NEW n \in 0..d,
                 Within(adj, r, u, n), Within(adj, u, v, d - n)
          PROVE  FALSE
      <4>1. u \in usd
        BY <1>3, Numbers DEF AnswerInv, UsedInv, Vertex
      <4>2. n \in Nat /\ d - n \in Nat /\ n + (d - n) <= d
        BY <1>3
      <4> QED BY <1>3, <3>1, <3>2, <4>1, <4>2, ViaIntro
    <3> QED BY <2>2, <3>1, <3>2
  <2> QED BY <1>1, <1>9, <2>1, <2>2, NewLabel
<1>10. LabelsExact' /\ LabelsMinimal'
  BY <1>2, <1>9 DEF LabelsExact, LabelsMinimal
<1> QED BY <1>1, <1>4, <1>5, <1>6, <1>7, <1>8, <1>10 DEF AnswerInv

\* A vertex one level further that no used vertex lies before has been found when all
\* vertices of this level are visited.
LEMMA NextLevelFound ==
    ASSUME AnswerInv, pc = "bfs", cur = {}, d + 1 < INF8, NEW v \in Vertex,
           AtDistance(adj, r, v, d + 1), Via(r, v, d + 1) = {}
    PROVE  v \in nxt
<1>1. FrontInv /\ r \in Vertex /\ adj \in Graphs /\ d \in Nat
  BY DEF AnswerInv, SearchInv, DuringInv, PrunedTypeOK, IndexTypeOK
<1>2. PICK w : AtDistance(adj, r, w, d) /\ v \in adj[w]
  BY <1>1, Predecessor
<1>3. w \in Vertex
  BY <1>1, <1>2, WithinVertex DEF AtDistance
<1>4. Via(r, w, d) = {}
  BY <1>1, <1>2, ViaStep
<1>5. d \in 0..(INF8 - 1) /\ d \in 0..(Byte - 1)
  BY <1>1, Numbers
<1>6. <<r, d>> \in Entries(tmp_idx[w])
  BY <1>1, <1>2, <1>3, <1>4, <1>5 DEF FrontInv
<1>7. v \in que
  BY <1>1, <1>2, <1>3, <1>5, <1>6 DEF FrontInv
<1>8. ~Within(adj, r, v, d)
  <2>1. d + 1 > 0 /\ (d + 1) - 1 = d
    BY <1>1
  <2> QED BY <2>1 DEF AtDistance
<1> QED BY <1>1, <1>7, <1>8 DEF FrontInv

\* The vertices found are the next level.
LEMMA NextDepthAnswer ==
    ASSUME AnswerInv, NextDepth
    PROVE  AnswerInv'
<1>1. SearchInv /\ SearchInv'
  BY SearchInvStep DEF AnswerInv, PrunedNext
<1>2. /\ UNCHANGED givenVars /\ usd' = usd /\ tmp_idx' = tmp_idx /\ pc' = pc /\ pc = "bfs"
      /\ r' = r /\ que' = que /\ dst_r' = dst_r /\ adj' = adj
      /\ cur = {} /\ cur' = nxt /\ nxt' = {} /\ d' = d + 1
  BY DEF NextDepth, givenVars
<1>3. d \in Nat /\ r \in Vertex
  BY <1>1, <1>2 DEF SearchInv, PrunedTypeOK, DuringInv
<1>4. TreesSound' /\ TreeRootsUsed'
  BY <1>2, TreesKept DEF AnswerInv
<1>5. UsedInv' /\ LoadedInv'
  BY <1>2 DEF AnswerInv, UsedInv, LoadedInv
<1>6. CoverInv'
  BY <1>2, CoverKept DEF AnswerInv, CoverInv
<1>7. FrontInv'
  <2>1. FrontInv /\ DuringInv
    BY <1>1 DEF AnswerInv, SearchInv
  <2>2. ASSUME NEW w \in que PROVE Within(adj, r, w, d + 1)
    <3>1. CASE w \in nxt
      BY <1>2, <2>1, <3>1 DEF DuringInv
    <3>2. CASE w \notin nxt
      <4>1. Within(adj, r, w, d)
        BY <1>2, <2>1, <3>2 DEF FrontInv
      <4> QED BY <1>3, <4>1, WithinStep
    <3> QED BY <3>1, <3>2
  <2>3. ASSUME NEW w \in Vertex, NEW n \in 0..(INF8 - 1), n <= d + 1,
               AtDistance(adj, r, w, n), Via(r, w, n)' = {}
        PROVE  <<r, n>> \in Entries(tmp_idx[w]) \/ (n = d + 1 /\ w \in nxt)
    <3>1. Via(r, w, n) = {}
      BY <1>2, <2>3, ViaFrame
    <3>2. CASE n <= d
      BY <1>2, <2>1, <2>3, <3>1, <3>2 DEF FrontInv
    <3>3. CASE n = d + 1
      <4>1. d + 1 < INF8
        BY <3>3, Numbers
      <4> QED BY <1>2, <2>3, <3>1, <3>3, <4>1, NextLevelFound
    <3> QED BY <1>3, <2>3, <3>2, <3>3
  <2> QED BY <1>2, <2>1, <2>2, <2>3 DEF FrontInv
<1>8. LabelsExact' /\ LabelsMinimal'
  BY <1>2, LabelsFrame DEF AnswerInv
<1> QED BY <1>1, <1>4, <1>5, <1>6, <1>7, <1>8 DEF AnswerInv

\* When the queue is empty, no vertex that no used one lies before is further away.
LEMMA NothingFurther ==
    ASSUME AnswerInv, pc = "bfs", cur = {}, nxt = {}, NEW n \in Nat, d < n, n < INF8,
           NEW v \in Vertex, AtDistance(adj, r, v, n), Via(r, v, n) = {}
    PROVE  FALSE
<1>1. r \in Vertex /\ adj \in Graphs /\ d \in Nat
  BY DEF AnswerInv, SearchInv, DuringInv, PrunedTypeOK, IndexTypeOK
<1> DEFINE S == {k \in Nat : d + 1 + k < INF8 =>
                   \A w \in Vertex : ~(AtDistance(adj, r, w, d + 1 + k)
                                       /\ Via(r, w, d + 1 + k) = {})}
<1>2. 0 \in S
  <2>1. d + 1 + 0 = d + 1
    BY <1>1
  <2> QED BY <2>1, NextLevelFound
<1>3. ASSUME NEW k \in Nat, k \in S PROVE k + 1 \in S
  <2> DEFINE m == d + 1 + k
  <2>1. m \in Nat /\ d + 1 + (k + 1) = m + 1
    BY <1>1
  <2>2. SUFFICES ASSUME m + 1 < INF8, NEW w \in Vertex, AtDistance(adj, r, w, m + 1),
                        Via(r, w, m + 1) = {}
                 PROVE  FALSE
    BY <2>1
  <2>3. PICK x : AtDistance(adj, r, x, m) /\ w \in adj[x]
    BY <2>1, <2>2, Predecessor
  <2>4. x \in Vertex
    BY <1>1, <2>1, <2>3, WithinVertex DEF AtDistance
  <2>5. Via(r, x, m) = {}
    BY <2>1, <2>2, <2>3, ViaStep
  <2>6. m < INF8
    BY <2>1, <2>2, Numbers
  <2> QED BY <1>3, <2>3, <2>4, <2>5, <2>6
<1>4. Nat \subseteq S
  <2> HIDE DEF S
  <2> QED BY <1>2, <1>3, SetInduction
<1>5. n - (d + 1) \in Nat /\ d + 1 + (n - (d + 1)) = n
  BY <1>1
<1> QED BY <1>4, <1>5

\* A finished search has labelled every vertex that no used one lies before.
LEMMA SearchComplete ==
    ASSUME AnswerInv, pc = "bfs", cur = {}, nxt = {}, NEW v \in Vertex,
           NEW n \in Nat, n < INF8, Within(adj, r, v, n), Via(r, v, n) = {}
    PROVE  \E m \in 0..n : <<r, m>> \in Entries(tmp_idx[v])
<1>1. PICK m \in 0..n : AtDistance(adj, r, v, m)
  BY DistanceExists
<1>2. Via(r, v, m) = {} /\ m \in 0..(INF8 - 1)
  BY ViaMonotone, Numbers
<1>3. d \in Nat
  BY DEF AnswerInv, SearchInv, PrunedTypeOK
<1>4. m <= d
  BY <1>1, <1>2, <1>3, NothingFurther, Numbers
<1> QED BY <1>1, <1>2, <1>4 DEF AnswerInv, FrontInv

\* Walks through the new root are matched by its labels at both ends.
LEMMA FinishRootCovers ==
    ASSUME AnswerInv, FinishRoot
    PROVE  Covered(tmp_idx)'
<1>1. /\ UNCHANGED givenVars /\ adj' = adj /\ usd' = usd \cup {r} /\ tmp_idx' = tmp_idx
      /\ pc = "bfs" /\ cur = {} /\ nxt = {}
  BY DEF FinishRoot, givenVars
<1>2. r \in Vertex /\ adj \in Graphs /\ usd \subseteq Vertex /\ Covered(tmp_idx)
  BY <1>1 DEF AnswerInv, CoverInv, SearchInv, DuringInv, PrunedTypeOK, IndexTypeOK
<1>3. SUFFICES ASSUME NEW x \in Vertex, NEW y \in Vertex, NEW n \in 0..(INF8 - 1),
                      Via(x, y, n)' # {}, ~TdWraps(x, y)'
               PROVE  Bounded(x, y, tmp_idx[x], tmp_idx[y], n)'
  BY DEF Covered
<1>4. n \in Nat /\ n < INF8
  BY Numbers
<1>5. Bounded(x, y, tmp_idx[x], tmp_idx[y], n)
  <2>1. CASE Via(x, y, n) # {}
    BY <1>1, <1>2, <1>3, <2>1, TreesFrame DEF Covered
  <2>2. CASE Via(x, y, n) = {}
    <3>1. PICK a \in 0..n : Within(adj, x, r, a) /\ Within(adj, r, y, n - a)
      BY <1>1, <1>3, <2>2 DEF Via
    <3>2. a \in Nat /\ n - a \in Nat /\ a + (n - a) = n /\ a < INF8 /\ n - a < INF8
      BY <1>4, Numbers
    <3>3. Within(adj, r, x, a)
      BY <1>2, <3>1, <3>2, WithinSymmetric
    <3>4. Via(r, y, n - a) = {}
      <4>1. SUFFICES ASSUME NEW u \in Via(r, y, n - a) PROVE FALSE
        OBVIOUS
      <4>2. PICK p, q \in Nat : p + q = n - a /\ Within(adj, r, u, p) /\ Within(adj, u, y, q)
        BY <3>2, ViaElim
      <4>3. Within(adj, x, u, a + p)
        BY <3>1, <3>2, <4>2, WithinTriangle
      <4>4. a + p \in Nat /\ (a + p) + q <= n
        BY <1>4, <3>2, <4>2
      <4>5. u \in Via(x, y, n)
        BY <1>4, <3>2, <4>2, <4>3, <4>4, ViaElim, ViaIntro
      <4> QED BY <2>2, <4>5
    <3>5. Via(r, x, a) = {}
      <4>1. SUFFICES ASSUME NEW u \in Via(r, x, a) PROVE FALSE
        OBVIOUS
      <4>2. PICK p, q \in Nat : p + q = a /\ Within(adj, r, u, p) /\ Within(adj, u, x, q)
        BY <3>2, ViaElim
      <4>3. u \in usd /\ u \in Vertex
        BY <1>2, <3>2, ViaElim
      <4>4. Within(adj, x, u, q) /\ Within(adj, u, r, p)
        BY <1>2, <4>2, <4>3, WithinSymmetric
      <4>5. Within(adj, u, y, p + (n - a))
        BY <3>1, <3>2, <4>2, <4>4, WithinTriangle
      <4>6. p + (n - a) \in Nat /\ q + (p + (n - a)) <= n
        BY <1>4, <3>2, <4>2
      <4>7. u \in Via(x, y, n)
        BY <1>4, <4>2, <4>3, <4>4, <4>5, <4>6, ViaIntro
      <4> QED BY <2>2, <4>7
    <3>6. PICK i \in 0..a : <<r, i>> \in Entries(tmp_idx[x])
      BY <1>1, <3>2, <3>3, <3>5, SearchComplete
    <3>7. PICK j \in 0..(n - a) : <<r, j>> \in Entries(tmp_idx[y])
      BY <1>1, <3>1, <3>2, <3>4, SearchComplete
    <3>8. i + j \in HubBounds(tmp_idx[x], tmp_idx[y])
      BY <1>2, <3>6, <3>7, HubBoundIntro
    <3>9. i + j <= n
      BY <1>4, <3>2
    <3> QED BY <3>8, <3>9 DEF Bounded
  <2> QED BY <2>1, <2>2
<1> QED BY <1>1, <1>5, TreesFrame DEF Bounded

\* The root of a finished search is used from then on.
LEMMA FinishRootAnswer ==
    ASSUME AnswerInv, FinishRoot
    PROVE  AnswerInv'
<1>1. SearchInv'
  BY SearchInvStep DEF AnswerInv, PrunedNext
<1>2. /\ UNCHANGED givenVars /\ adj' = adj /\ usd' = usd \cup {r} /\ tmp_idx' = tmp_idx
      /\ pc = "bfs" /\ pc' = "root" /\ r' = r + 1
  BY DEF FinishRoot, givenVars
<1>3. TreesSound' /\ TreeRootsUsed'
  BY <1>2, TreesKept DEF AnswerInv
<1>4. UsedInv'
  <2>1. r \in Nat
    BY DEF AnswerInv, SearchInv, PrunedTypeOK
  <2> QED BY <1>2, <2>1 DEF AnswerInv, UsedInv, Vertex
<1>5. CoverInv'
  BY <1>2, FinishRootCovers DEF CoverInv
<1>6. LoadedInv' /\ FrontInv'
  BY <1>2 DEF LoadedInv, FrontInv
<1>7. LabelsExact' /\ LabelsMinimal'
  BY <1>2, LabelsFrame DEF AnswerInv
<1> QED BY <1>1, <1>3, <1>4, <1>5, <1>6, <1>7 DEF AnswerInv

\* The lists in the index are those the searches made.
LEMMA CopyAnswer ==
    ASSUME AnswerInv, CopyLabels \/ CopyFails
    PROVE  AnswerInv'
<1>1. SearchInv'
  BY SearchInvStep DEF AnswerInv, PrunedNext
<1>2. /\ UNCHANGED givenVars /\ adj' = adj /\ usd' = usd /\ r' = r /\ r = NumV
      /\ pc = "root" /\ pc' \in {"done", "failed"}
  BY DEF CopyLabels, CopyFails, givenVars
<1>3. TreesSound' /\ TreeRootsUsed'
  BY <1>2, TreesKept DEF AnswerInv
<1>4. UsedInv'
  BY <1>2 DEF AnswerInv, UsedInv
<1>5. CoverInv'
  <2>1. SUFFICES ASSUME pc' = "done" PROVE Covered(spt)' /\ \A v \in Vertex : spt'[v] # <<>>
    BY <1>2 DEF CoverInv
  <2>2. spt' = tmp_idx
    BY <2>1 DEF CopyLabels, CopyFails
  <2>3. Covered(tmp_idx) /\ \A v \in Vertex : WellFormed(tmp_idx[v])
    BY <1>2 DEF AnswerInv, CoverInv, SearchInv, ListsInv
  <2>6. \A v \in Vertex : tmp_idx[v] # <<>>
    BY <2>3 DEF WellFormed
  <2>4. SUFFICES ASSUME NEW x \in Vertex, NEW y \in Vertex, NEW n \in 0..(INF8 - 1),
                        Via(x, y, n)' # {}, ~TdWraps(x, y)'
                 PROVE  Bounded(x, y, spt[x], spt[y], n)'
    BY <2>2, <2>6 DEF Covered
  <2>5. Bounded(x, y, tmp_idx[x], tmp_idx[y], n)
    BY <1>2, <2>3, <2>4, TreesFrame, ViaFrame DEF Covered
  <2> QED BY <1>2, <2>2, <2>5, TreesFrame DEF Bounded
<1>6. LoadedInv' /\ FrontInv'
  BY <1>2 DEF LoadedInv, FrontInv
<1>7. LabelsExact' /\ LabelsMinimal'
  <2>1. CASE tmp_idx' = tmp_idx
    BY <1>2, <2>1, LabelsFrame DEF AnswerInv
  <2>2. CASE tmp_idx' = [v \in Vertex |-> <<>>]
    BY <2>2 DEF LabelsExact, LabelsMinimal, Entries
  <2> QED BY <2>1, <2>2 DEF CopyLabels, CopyFails
<1> QED BY <1>1, <1>3, <1>4, <1>5, <1>6, <1>7 DEF AnswerInv

\* Every step of the phase keeps the invariant.
LEMMA AnswerKept ==
    ASSUME AnswerInv, PrunedNext \/ UNCHANGED pVars
    PROVE  AnswerInv'
<1>2. CASE PrunedNext
  BY <1>2, SkipRootAnswer, StartRootAnswer, PruneVertexAnswer, LabelVertexAnswer,
     NextDepthAnswer, FinishRootAnswer, CopyAnswer DEF PrunedNext
<1>3. CASE UNCHANGED pVars
  <2>1. SearchInv'
    BY <1>3 DEF AnswerInv, pVars, indexVars, prunedVars, searchVars, SearchInv,
       PrunedTypeOK, IndexTypeOK, ListsInv, BetweenInv, DuringInv
  <2>2. /\ UNCHANGED givenVars /\ adj' = adj /\ usd' = usd /\ tmp_idx' = tmp_idx
        /\ spt' = spt /\ pc' = pc /\ r' = r /\ d' = d /\ cur' = cur /\ nxt' = nxt
        /\ que' = que /\ dst_r' = dst_r
    BY <1>3 DEF pVars, indexVars, prunedVars, searchVars, givenVars
  <2>3. TreesSound' /\ TreeRootsUsed'
    BY <2>2, TreesKept DEF AnswerInv
  <2>4. UsedInv' /\ LoadedInv'
    BY <2>2 DEF AnswerInv, UsedInv, LoadedInv
  <2>5. CoverInv'
    BY <2>2, TreesFrame, ViaFrame DEF AnswerInv, CoverInv, Covered, Bounded
  <2>6. FrontInv'
    BY <2>2, ViaFrame DEF AnswerInv, FrontInv
  <2>7. LabelsExact' /\ LabelsMinimal'
    BY <2>2, LabelsFrame DEF AnswerInv
  <2> QED BY <2>1, <2>3, <2>4, <2>5, <2>6, <2>7 DEF AnswerInv
<1> QED BY <1>2, <1>3

\* Every reachable state of pruned labelling satisfies the invariant of the answers.
THEOREM AnswerInvariant == PrunedSpec => []AnswerInv
<1>1. PrunedStart => AnswerInv
  BY AnswerInvInit
<1>2. AnswerInv /\ [PrunedNext \/ Terminated]_pVars => AnswerInv'
  BY AnswerKept DEF Terminated, pVars
<1> QED BY <1>1, <1>2, PTL DEF PrunedSpec, pVars

-----------------------------------------------------------------------------
(***************************************************************************)
(* The exact answers.                                                      *)
(***************************************************************************)
\* What a query computes from two lists: a number up to INF8 that is no less than the
\* distance, and no more than a walk through a used vertex.
LEMMA BestBound ==
    ASSUME IndexTypeOK, TreesSound, NEW x \in Vertex, NEW y \in Vertex, NEW lx, NEW ly,
           WellFormed(lx), WellFormed(ly),
           \A e \in Labels(lx) : Within(adj, e[1], x, e[2]),
           \A e \in Labels(ly) : Within(adj, e[1], y, e[2]),
           NEW best, best = Smallest({INF8} \cup TreeBounds(x, y) \cup HubBounds(lx, ly))
    PROVE  /\ best \in 0..INF8
           /\ best < INF8 => Within(adj, x, y, best)
           /\ \A n \in Nat : n < INF8 /\ Bounded(x, y, lx, ly, n) => best <= n
<1> DEFINE S == {INF8} \cup TreeBounds(x, y) \cup HubBounds(lx, ly)
<1>1. HubBounds(lx, ly) \subseteq Nat
  <2>1. SUFFICES ASSUME NEW m \in HubBounds(lx, ly) PROVE m \in Nat
    OBVIOUS
  <2>2. PICK h \in Vertex, a \in 0..(Byte - 1), b \in 0..(Byte - 1) :
            <<h, a>> \in Labels(lx) /\ <<h, b>> \in Labels(ly) /\ m = a + b
    BY HubBoundElim
  <2> QED BY <2>2
<1>2. TreeBounds(x, y) \subseteq Nat
  BY TreeNumbers DEF TreeBounds
<1>3. best \in S /\ \A m \in S : best <= m
  <2>1. S \subseteq Nat /\ INF8 \in S
    BY <1>1, <1>2, Numbers
  <2> HIDE DEF S
  <2>2. Smallest(S) \in S /\ \A m \in S : Smallest(S) <= m
    BY <2>1, SmallestExists
  <2> QED BY <2>2 DEF S
<1>4. best \in 0..INF8
  <2>1. best \in Nat
    BY <1>1, <1>2, <1>3, Numbers
  <2>2. best <= INF8
    BY <1>3
  <2> QED BY <2>1, <2>2, Numbers
<1> HIDE DEF S
<1>5. ASSUME best < INF8 PROVE Within(adj, x, y, best)
  <2>1. CASE best \in TreeBounds(x, y)
    <3>1. PICK i \in Tree : Considered(TreeTd(x, y, i), INF8) /\ best = Corrected(x, y, i)
      BY <2>1 DEF TreeBounds
    <3>2. Via(x, y, best) # {}
      <4>1. best \in Nat /\ Corrected(x, y, i) <= best
        BY <1>4, <3>1
      <4> QED BY <1>5, <3>1, <4>1, TreeBoundIsWalk
    <3>3. PICK u \in Via(x, y, best) : TRUE
      BY <3>2
    <3>4. PICK a, b \in Nat : a + b = best /\ Within(adj, x, u, a) /\ Within(adj, u, y, b)
      BY <1>4, ViaElim
    <3> QED BY <3>4, WithinTriangle
  <2>2. CASE best \in HubBounds(lx, ly)
    <3>1. PICK h \in Vertex, a \in 0..(Byte - 1), b \in 0..(Byte - 1) :
              <<h, a>> \in Labels(lx) /\ <<h, b>> \in Labels(ly) /\ best = a + b
      BY <2>2, HubBoundElim
    <3>2. Within(adj, h, x, a) /\ Within(adj, h, y, b)
      BY <3>1
    <3>3. Within(adj, x, h, a)
      BY <3>2, WithinSymmetric DEF IndexTypeOK
    <3> QED BY <3>1, <3>2, <3>3, WithinTriangle
  <2> QED BY <1>3, <1>5, <2>1, <2>2, Numbers DEF S
<1>6. ASSUME NEW n \in Nat, n < INF8, Bounded(x, y, lx, ly, n) PROVE best <= n
  <2>1. CASE \E i \in Tree : Considered(TreeTd(x, y, i), n) /\ Corrected(x, y, i) <= n
    <3>1. PICK i \in Tree : Considered(TreeTd(x, y, i), n) /\ Corrected(x, y, i) <= n
      BY <2>1
    <3>2. Considered(TreeTd(x, y, i), INF8) /\ Corrected(x, y, i) \in Nat
      BY <1>6, <3>1, TreeNumbers, Numbers
    <3>3. Corrected(x, y, i) \in TreeBounds(x, y)
      BY <3>2 DEF TreeBounds
    <3>4. best <= Corrected(x, y, i)
      BY <1>3, <3>3 DEF S
    <3> QED BY <1>4, <1>6, <3>1, <3>2, <3>4
  <2>2. CASE \E m \in HubBounds(lx, ly) : m <= n
    <3>1. PICK m \in HubBounds(lx, ly) : m <= n
      BY <2>2
    <3>2. m \in Nat /\ best <= m
      BY <1>1, <1>3, <3>1 DEF S
    <3> QED BY <1>4, <1>6, <3>1, <3>2
  <2> QED BY <1>6, <2>1, <2>2 DEF Bounded
<1> QED BY <1>4, <1>5, <1>6

\* With lists that match every walk through a used vertex, a used vertex x is told its
\* distance to y.
LEMMA UsedIsAnswered ==
    ASSUME AnswerInv, NEW lists, Covered(lists), NEW x \in Vertex, x \in usd,
           NEW y \in Vertex, NEW n \in Nat, n < INF8, Within(adj, x, y, n), ~TdWraps(x, y)
    PROVE  Bounded(x, y, lists[x], lists[y], n)
<1>1. Within(adj, x, x, 0) /\ 0 + n <= n
  BY WithinZero
<1>2. Via(x, y, n) # {}
  BY <1>1, ViaIntro
<1>3. n \in 0..(INF8 - 1)
  BY Numbers
<1> QED BY <1>2, <1>3 DEF Covered

\* After the searches of the roots below r, every pair with such a root is answered
\* exactly, by the trees and the labels so far.
THEOREM PrefixIsAnswered == PrunedSpec => []PrefixAnswered
<1>1. AnswerInv => PrefixAnswered
  <2>1. SUFFICES ASSUME AnswerInv, pc = "root", NEW h \in 0..(r - 1), NEW v \in Vertex,
                        NEW n \in 0..(INF8 - 1), AtDistance(adj, h, v, n), ~TdWraps(h, v)
                 PROVE  n = Smallest({INF8} \cup TreeBounds(h, v)
                                     \cup HubBounds(tmp_idx[h], tmp_idx[v]))
    BY DEF PrefixAnswered
  <2> DEFINE best == Smallest({INF8} \cup TreeBounds(h, v) \cup HubBounds(tmp_idx[h], tmp_idx[v]))
  <2>2. h \in Vertex /\ h \in usd /\ IndexTypeOK /\ TreesSound /\ ListsInv /\ Covered(tmp_idx)
    BY <2>1, Numbers DEF AnswerInv, SearchInv, PrunedTypeOK, UsedInv, CoverInv, Vertex
  <2>3. /\ WellFormed(tmp_idx[h]) /\ WellFormed(tmp_idx[v])
        /\ \A e \in Labels(tmp_idx[h]) : Within(adj, e[1], h, e[2])
        /\ \A e \in Labels(tmp_idx[v]) : Within(adj, e[1], v, e[2])
    BY <2>1, <2>2 DEF ListsInv, Marked
  <2>4. n \in Nat /\ n < INF8 /\ Within(adj, h, v, n)
    BY <2>1, Numbers DEF AtDistance
  <2>5. Bounded(h, v, tmp_idx[h], tmp_idx[v], n)
    BY <2>1, <2>2, <2>4, UsedIsAnswered
  <2>6. best \in 0..INF8 /\ (best < INF8 => Within(adj, h, v, best)) /\ best <= n
    BY <2>2, <2>3, <2>4, <2>5, BestBound
  <2> HIDE DEF best
  <2>7. ASSUME best < n PROVE FALSE
    <3>1. n > 0 /\ n - 1 \in Nat /\ best \in Nat /\ best <= n - 1 /\ best < INF8
      <4>1. n \in Nat /\ n < INF8 /\ best \in Nat /\ INF8 \in Nat
        BY <2>4, <2>6, Numbers
      <4> QED BY <2>7, <4>1
    <3>2. Within(adj, h, v, n - 1)
      BY <2>6, <3>1, WithinMonotone
    <3> QED BY <2>1, <3>1, <3>2 DEF AtDistance
  <2>8. n = best
    BY <2>4, <2>6, <2>7, Numbers
  <2> QED BY <2>8 DEF best
<1> QED BY <1>1, AnswerInvariant, PTL

\* Below depth INF8, every label is the distance to its hub.
THEOREM LabelsAreExact == PrunedSpec => []LabelsExact
<1>1. AnswerInv => LabelsExact
  BY DEF AnswerInv
<1> QED BY <1>1, AnswerInvariant, PTL

\* No label is redundant: no smaller vertex lies on a shortest path to the hub.
THEOREM LabelsAreMinimal == PrunedSpec => []LabelsMinimal
<1>1. AnswerInv => LabelsMinimal
  BY DEF AnswerInv
<1> QED BY <1>1, AnswerInvariant, PTL

\* A query of the finished index returns INT_MAX or the length of a walk, and exactly
\* the distance when no td wraps.
LEMMA FinishedQuery ==
    ASSUME AnswerInv, pc = "done", NEW x \in Vertex, NEW y \in Vertex
    PROVE  /\ \/ QueryDistance(x, y) = IntMax
              \/ /\ QueryDistance(x, y) \in 0..(INF8 - 3) /\ QueryDistance(x, y) # IntMax
                 /\ Within(adj, x, y, QueryDistance(x, y))
           /\ ~TdWraps(x, y) => Answered(x, y)
<1> DEFINE best == Smallest({INF8} \cup TreeBounds(x, y) \cup HubBounds(spt[x], spt[y]))
<1>1. r = NumV /\ Covered(spt) /\ IndexTypeOK /\ TreesSound
  BY DEF AnswerInv, SearchInv, PrunedTypeOK, CoverInv
<1>2. x \in usd
  BY <1>1, Numbers DEF AnswerInv, UsedInv, Vertex
<1>3. \A v \in {x, y} : WellFormed(spt[v]) /\ Marked(adj, v, spt[v], r + 1)
  BY DEF AnswerInv, CoverInv, SearchInv, ListsInv
<1>4. /\ WellFormed(spt[x]) /\ WellFormed(spt[y])
      /\ \A e \in Labels(spt[x]) : Within(adj, e[1], x, e[2])
      /\ \A e \in Labels(spt[y]) : Within(adj, e[1], y, e[2])
  BY <1>3 DEF Marked
<1>5. /\ best \in 0..INF8
      /\ best < INF8 => Within(adj, x, y, best)
      /\ \A n \in Nat : n < INF8 /\ Bounded(x, y, spt[x], spt[y], n) => best <= n
  BY <1>1, <1>4, BestBound
<1>6. QueryDistance(x, y) = IF best >= INF8 - 2 THEN IntMax ELSE best
  BY DEF QueryDistance
<1> HIDE DEF best
<1>7. ~TdWraps(x, y) => \A n \in Nat : n < INF8 /\ Within(adj, x, y, n) => best <= n
  <2>1. ~TdWraps(x, y) => \A n \in Nat :
            n < INF8 /\ Within(adj, x, y, n) => Bounded(x, y, spt[x], spt[y], n)
    BY <1>1, <1>2, UsedIsAnswered
  <2> QED BY <1>5, <2>1
<1>8. CASE best >= INF8 - 2
  <2>1. INF8 - 3 \in Nat /\ INF8 - 3 < INF8 /\ ~(best <= INF8 - 3)
    BY <1>5, <1>8, Numbers
  <2> QED BY <1>6, <1>7, <1>8, <2>1 DEF Answered
<1>9. CASE best < INF8 - 2
  <2>1. ~TdWraps(x, y) => AtDistance(adj, x, y, best)
    <3>1. ASSUME ~TdWraps(x, y), best > 0, Within(adj, x, y, best - 1) PROVE FALSE
      <4>1. best - 1 \in Nat /\ best - 1 < INF8 /\ ~(best <= best - 1)
        BY <1>5, <3>1, Numbers
      <4> QED BY <1>7, <3>1, <4>1
    <3> QED BY <1>5, <1>9, <3>1, Numbers DEF AtDistance
  <2>2. QueryDistance(x, y) = best /\ best # IntMax
    BY <1>5, <1>6, <1>9, IndexAssumption
  <2>3. best \in 0..(INF8 - 3) /\ Within(adj, x, y, best)
    BY <1>5, <1>9, Numbers
  <2> QED BY <2>1, <2>2, <2>3 DEF Answered
<1> QED BY <1>5, <1>8, <1>9, Numbers

\* The finished index answers every pair whose tds do not wrap with the distance, or
\* with INT_MAX when that is INF8 - 2 or more.
THEOREM QueriesAreExact == PrunedSpec => []QueryExact
<1>1. AnswerInv => QueryExact
  BY FinishedQuery DEF QueryExact
<1> QED BY <1>1, AnswerInvariant, PTL
=============================================================================

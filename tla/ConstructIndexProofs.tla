------------------------ MODULE ConstructIndexProofs ------------------------
(***************************************************************************)
(* The two phases together: what the bit-parallel phase promises is what   *)
(* pruned labelling starts from, so the finished index answers as the      *)
(* oracle that a user sees.                                                *)
(***************************************************************************)
EXTENDS ConstructIndex, BitParallelProofs, PrunedExactProofs

(***************************************************************************)
(* The invariant of the construction.                                      *)
(***************************************************************************)
\* The promises of the first phase start the second.
LEMMA PhaseChange == TreeInv /\ pc = "root" /\ PrunedInit => AnswerInv /\ WrappedExact
<1> SUFFICES ASSUME TreeInv, pc = "root", PrunedInit PROVE AnswerInv /\ WrappedExact
  OBVIOUS
<1>1. PrunedStart
  BY HandedOver DEF PrunedStart
<1> QED BY <1>1, AnswerInvInit, WrappedTds

\* Before the search of a root, no label is below INF8.
LEMMA NoLabels == PrunedInit => LabelsExact
<1> SUFFICES ASSUME PrunedInit, NEW v \in Vertex, NEW e \in Entries(tmp_idx[v]), e[2] < INF8
             PROVE  FALSE
  BY DEF LabelsExact
<1>1. e = Sentinel
  BY DEF PrunedInit, Entries
<1> QED BY <1>1, Numbers DEF Sentinel

\* A fresh index starts the first phase.
LEMMA TreesBegin == pc = "tree" /\ adj \in Graphs /\ BitParallelInit => TreeInv
BY StartKeeps

\* A step of the first phase keeps the invariant of the construction.
LEMMA BitParallelBuilds ==
    ASSUME BuildInv, BitParallelNext, UNCHANGED <<prunedVars, answer>>
    PROVE  BuildInv'
<1>1. /\ pc \in {"tree", "scan", "write"} /\ pc' \in {"tree", "scan", "write", "root", "exited"}
      /\ adj' = adj /\ spt' = spt
  BY DEF BitParallelNext, SelectRoot, NoRootLeft, ScanVertex, FoldLevel, WriteTree, TreesDone, indexVars
<1>2. PrunedInit' /\ answer' = answer /\ answer = None
  BY <1>1 DEF BuildInv, PrunedInit, prunedVars, searchVars
<1>3. TreeInv'
  BY <1>1, TreeKept DEF BuildInv
<1>4. (TreeInv /\ pc = "root" /\ PrunedInit => AnswerInv /\ WrappedExact)'
  BY PhaseChange, PTL
<1>5. pc' = "root" => (AnswerInv /\ WrappedExact)'
  BY <1>2, <1>3, <1>4
<1> QED BY <1>1, <1>2, <1>3, <1>5 DEF BuildInv

\* A step of the second phase keeps the invariant of the construction.
LEMMA PrunedBuilds ==
    ASSUME BuildInv, PrunedNext, UNCHANGED <<bpVars, answer>>
    PROVE  BuildInv'
<1>1. /\ pc \in {"root", "bfs"} /\ pc' \in {"root", "bfs", "done", "failed"}
      /\ UNCHANGED givenVars
  BY DEF PrunedNext, SkipRoot, StartRoot, PruneVertex, LabelVertex, NextDepth, FinishRoot,
         CopyLabels, CopyFails
<1>2. AnswerInv'
  BY <1>1, AnswerKept DEF BuildInv
<1>3. LabelsExact'
  BY <1>2 DEF AnswerInv
<1>4. WrappedExact'
  BY <1>1 DEF BuildInv, WrappedExact, TreeTd, givenVars
<1> QED BY <1>1, <1>2, <1>3, <1>4 DEF BuildInv, givenVars

\* The invariant does not look at the answer, but for whether there is one.
LEMMA AskingBuilds ==
    ASSUME BuildInv, UNCHANGED <<indexVars, bpVars, prunedVars>>, answer' # None => pc = "done"
    PROVE  BuildInv'
<1>1. UNCHANGED <<pc, adj, usd, bpspt_d, bpspt_s, spt>>
  BY DEF indexVars
<1>2. BitParallelInit => BitParallelInit'
  BY <1>1 DEF BitParallelInit, bpVars, bpSearchVars, edgeVars
<1>3. PrunedInit => PrunedInit'
  BY <1>1 DEF PrunedInit, prunedVars, searchVars
<1>4. TreeInv => TreeInv'
  BY TreeKept
<1>5. AnswerInv => AnswerInv'
  BY AnswerKept DEF pVars
<1>6. WrappedExact => WrappedExact'
  BY <1>1 DEF WrappedExact, TreeTd
<1>7. LabelsExact => LabelsExact'
  BY <1>1 DEF LabelsExact, prunedVars
<1> QED BY <1>1, <1>2, <1>3, <1>4, <1>5, <1>6, <1>7 DEF BuildInv

\* Every state of the construction and of the queries satisfies the invariant.
THEOREM BuildInvariant == Spec => []BuildInv
<1>1. Init => BuildInv
  BY DEF Init, BuildInv
<1>2. BuildInv /\ [Next]_vars => BuildInv'
  <2> SUFFICES ASSUME BuildInv, [Next]_vars PROVE BuildInv'
    OBVIOUS
  <2>1. CASE Allocate
    <3>1. /\ pc = "start" /\ pc' \in {"tree", "failed"}
          /\ UNCHANGED <<adj, bpspt_d, bpspt_s, usd, spt, bpVars, prunedVars, answer>>
      BY <2>1 DEF Allocate, givenVars
    <3>2. PrunedInit' /\ BitParallelInit'
      BY <3>1 DEF BuildInv, PrunedInit, BitParallelInit, prunedVars, searchVars, bpVars, bpSearchVars, edgeVars
    <3>3. (PrunedInit => LabelsExact)'
      BY NoLabels, PTL
    <3>4. (pc = "tree" /\ adj \in Graphs /\ BitParallelInit => TreeInv)'
      BY TreesBegin, PTL
    <3> QED BY <3>1, <3>2, <3>3, <3>4 DEF BuildInv
  <2>2. CASE BitParallelNext /\ UNCHANGED <<prunedVars, answer>>
    BY <2>2, BitParallelBuilds
  <2>3. CASE PrunedNext /\ UNCHANGED <<bpVars, answer>>
    BY <2>3, PrunedBuilds
  <2>4. ASSUME NEW x \in 0..NumV, NEW y \in 0..NumV, Query(x, y) PROVE BuildInv'
    BY <2>4, AskingBuilds DEF Query
  <2>5. CASE Return
    BY <2>5, AskingBuilds DEF Return
  <2>6. CASE Stopped \/ UNCHANGED vars
    BY <2>6, AskingBuilds DEF Stopped, vars, BuildInv
  <2> QED BY <2>1, <2>2, <2>3, <2>4, <2>5, <2>6 DEF Next, Construct
<1> QED BY <1>1, <1>2, PTL DEF Spec

\* Below depth INF8, every label of the construction is the distance to its hub,
\* whatever trees the first phase built.
THEOREM ConstructedLabelsAreExact == Spec => []LabelsExact
<1>1. BuildInv => LabelsExact
  BY NoLabels DEF BuildInv, AnswerInv
<1> QED BY <1>1, BuildInvariant, PTL

-----------------------------------------------------------------------------
(***************************************************************************)
(* The refinement of the oracle.                                           *)
(***************************************************************************)
\* The distances the oracle speaks of are those of the graph module.
LEMMA SameDistances ==
    ASSUME NEW g, NEW x, NEW y, NEW n
    PROVE  /\ Oracle!Within(g, x, y, n) <=> Within(g, x, y, n)
           /\ Oracle!AtDistance(g, x, y, n) <=> AtDistance(g, x, y, n)
<1>1. ASSUME NEW m PROVE Oracle!Within(g, x, y, m) <=> Within(g, x, y, m)
  BY DEF Oracle!Within, Oracle!Ball, Oracle!Expand, Within, Ball, Expand
<1> QED BY <1>1 DEF Oracle!AtDistance, AtDistance

\* Two vertices for which a td wraps are at that distance, 0 or 1; a query may tell
\* them more, but nothing that is no walk.
LEMMA WrappedPromise ==
    ASSUME AnswerInv, WrappedExact, pc = "done", NEW x \in Vertex, NEW y \in Vertex,
           TdWraps(x, y)
    PROVE  \E n \in 0..1 : /\ AtDistance(adj, x, y, n)
                           /\ K # 0
                           /\ QueryDistance(x, y) = n \/ n < QueryDistance(x, y)
<1>1. PICK i \in Tree : TreeTd(x, y, i) < 2
  BY DEF TdWraps
<1>2. IndexTypeOK
  BY DEF AnswerInv, SearchInv, PrunedTypeOK
<1>3. PICK n \in Nat : n = TreeTd(x, y, i) /\ n < 2
  BY <1>1, <1>2, TreeNumbers
<1>4. AtDistance(adj, x, y, n) /\ n \in 0..1
  BY <1>1, <1>3 DEF WrappedExact
<1>5. K # 0
  BY Numbers DEF Tree
<1>6. QueryDistance(x, y) = IntMax \/ (QueryDistance(x, y) \in Nat /\ Within(adj, x, y, QueryDistance(x, y)))
  BY FinishedQuery, Numbers
<1>7. CASE QueryDistance(x, y) = IntMax
  BY <1>4, <1>5, <1>7 DEF IntMax
<1>8. CASE QueryDistance(x, y) \in Nat /\ Within(adj, x, y, QueryDistance(x, y))
  <2>1. n <= QueryDistance(x, y)
    BY <1>3, <1>4, <1>8, DistanceUnique
  <2> QED BY <1>3, <1>4, <1>5, <1>8, <2>1
<1> QED BY <1>6, <1>7, <1>8

\* Every query of a finished index is answered as the oracle promises.
LEMMA QueryPromised ==
    ASSUME AnswerInv, WrappedExact, pc = "done", NEW x \in 0..NumV, NEW y \in 0..NumV
    PROVE  /\ QueryDistance(x, y) \in (0..((INF8 - 2) - 1)) \cup {IntMax}
           /\ Oracle!Promised(x, y, QueryDistance(x, y))
<1> DEFINE q == QueryDistance(x, y)
           gap == IF K = 0 THEN 0 ELSE 2
<1>1. CASE x \notin Vertex \/ y \notin Vertex
  <2>1. q = IF x = y THEN 0 ELSE IntMax
    BY <1>1 DEF QueryDistance
  <2> HIDE DEF q
  <2>2. q \in (0..((INF8 - 2) - 1)) \cup {IntMax}
    BY <2>1, Numbers
  <2>3. Oracle!Promised(x, y, q)
    BY <1>1, <2>1 DEF Oracle!Promised, Oracle!Vertex, Vertex
  <2> QED BY <2>2, <2>3 DEF q
<1>2. CASE x \in Vertex /\ y \in Vertex
  <2>1. \/ q = IntMax
        \/ q \in 0..(INF8 - 3) /\ q # IntMax /\ Within(adj, x, y, q)
    BY <1>2, FinishedQuery
  <2>2. q \in (0..((INF8 - 2) - 1)) \cup {IntMax}
    BY <2>1, Numbers
  <2>3. \/ q < INF8 - 2 /\ AtDistance(adj, x, y, q)
        \/ q = IntMax /\ ~Within(adj, x, y, (INF8 - 2) - 1)
        \/ \E n \in 0..(gap - 1) : n < q /\ AtDistance(adj, x, y, n)
    <3>1. CASE ~TdWraps(x, y)
      <4>1. Answered(x, y)
        BY <1>2, <3>1, FinishedQuery
      <4>2. (INF8 - 2) - 1 = INF8 - 3
        BY Numbers
      <4> QED BY <2>1, <4>1, <4>2, Numbers DEF Answered
    <3>2. CASE TdWraps(x, y)
      <4>1. PICK n \in 0..1 : AtDistance(adj, x, y, n) /\ K # 0 /\ (q = n \/ n < q)
        BY <1>2, <3>2, WrappedPromise
      <4>2. CASE n < q
        <5>1. n \in 0..(gap - 1)
          BY <4>1
        <5> QED BY <4>1, <4>2, <5>1
      <4>3. CASE q = n
        <5>1. q < INF8 - 2
          BY <2>1, <4>3, Numbers DEF IntMax
        <5> QED BY <4>1, <4>3, <5>1
      <4> QED BY <4>1, <4>2, <4>3
    <3> QED BY <3>1, <3>2
  <2> HIDE DEF q
  <2>4. Oracle!Promised(x, y, q)
    BY <1>2, <2>3, SameDistances DEF Oracle!Promised, Oracle!Vertex, Vertex
  <2> QED BY <2>2, <2>4 DEF q
<1> QED BY <1>1, <1>2

\* Construction takes the oracle from building to ready or failed, in one step of it.
LEMMA ConstructRefines ==
    ASSUME BuildInv, Construct
    PROVE  Oracle!Next \/ UNCHANGED <<adj, stage, answer>>
<1>1. /\ adj' = adj /\ answer' = answer
      /\ pc \in {"start", "tree", "scan", "write", "root", "bfs"}
      /\ pc' \in {"tree", "scan", "write", "root", "bfs", "done", "failed", "exited"}
  BY DEF Construct, Allocate, BitParallelNext, PrunedNext, SelectRoot, NoRootLeft, ScanVertex,
         FoldLevel, WriteTree, TreesDone, SkipRoot, StartRoot, PruneVertex, LabelVertex,
         NextDepth, FinishRoot, CopyLabels, CopyFails, givenVars, indexVars
<1>2. stage = "building"
  BY <1>1 DEF stage
<1>3. stage' \in {"building", "ready", "failed"}
  BY <1>1 DEF stage
<1>4. CASE stage' = "building"
  BY <1>1, <1>2, <1>4
<1>5. CASE stage' \in {"ready", "failed"}
  BY <1>1, <1>2, <1>5 DEF Oracle!Next, Oracle!Finish
<1> QED BY <1>3, <1>4, <1>5

\* What the class does is what the oracle does: the safety part of the refinement
\* ImplementsOracle, which run construct_index checks with its liveness.
THEOREM OracleRefined == Spec => Oracle!Init /\ [][Oracle!Next]_<<adj, stage, answer>>
<1>1. Init => Oracle!Init
  BY DEF Init, Oracle!Init, stage
<1>2. BuildInv /\ [Next]_vars => [Oracle!Next]_<<adj, stage, answer>>
  <2> SUFFICES ASSUME BuildInv, [Next]_vars PROVE [Oracle!Next]_<<adj, stage, answer>>
    OBVIOUS
  <2>1. CASE Construct
    BY <2>1, ConstructRefines
  <2>2. ASSUME NEW x \in 0..NumV, NEW y \in 0..NumV, Query(x, y)
        PROVE  Oracle!Next
    <3>1. /\ pc = "done" /\ answer = None /\ adj' = adj /\ stage' = stage
          /\ answer' = <<x, y, QueryDistance(x, y)>>
      BY <2>2 DEF Query, stage, indexVars
    <3>2. AnswerInv /\ WrappedExact /\ stage = "ready"
      BY <3>1 DEF BuildInv, stage
    <3>3. Oracle!Ask(x, y)
      BY <3>1, <3>2, QueryPromised DEF Oracle!Ask
    <3> QED BY <3>3 DEF Oracle!Next
  <2>3. CASE Return
    BY <2>3 DEF Return, indexVars, stage, Oracle!Next, Oracle!Take
  <2>4. CASE Stopped \/ UNCHANGED vars
    BY <2>4 DEF Stopped, vars, indexVars, stage
  <2> QED BY <2>1, <2>2, <2>3, <2>4 DEF Next
<1> QED BY <1>1, <1>2, BuildInvariant, PTL DEF Spec

(***************************************************************************)
(* The loops of QueryDistance on the finished index.                       *)
(***************************************************************************)
\* The loops of module QueryMerge about to answer x and y.
Loops(x, y) ==
    INSTANCE QueryMerge
        WITH qx <- x, qy <- y, qpc <- "trees", qi <- 0, qd <- INF8, i1 <- 1, i2 <- 1

\* The invariant of the construction has the loops start as QueryMerge assumes.
LEMMA LoopsStart == BuildInv /\ pc = "done" => \A x, y \in Vertex : Loops(x, y)!QueryInit
<1> SUFFICES ASSUME BuildInv, pc = "done", NEW x \in Vertex, NEW y \in Vertex
             PROVE  Loops(x, y)!QueryInit
  OBVIOUS
<1>1. IndexTypeOK /\ spt \in [Vertex -> Seq(Label)]
  BY DEF BuildInv, AnswerInv, SearchInv, PrunedTypeOK
<1>2. \A v \in Vertex : WellFormed(spt[v])
  BY DEF BuildInv, AnswerInv, SearchInv, ListsInv, CoverInv
<1>3. Loops(x, y)!IndexTypeOK
  BY <1>1 DEF IndexTypeOK, Vertex, Tree, Mask,
              Loops!IndexTypeOK, Loops!Vertex, Loops!Tree, Loops!Mask
<1>4. ASSUME NEW list PROVE WellFormed(list) = Loops(x, y)!WellFormed(list)
  BY DEF WellFormed, Label, Sentinel, Loops!WellFormed, Loops!Label, Loops!Sentinel
<1> QED
  BY <1>1, <1>2, <1>3, <1>4
  DEF Loops!QueryInit, Loops!QueryStart, Loops!Vertex, Vertex, Label, Loops!Label

\* Whatever graph was given and whichever trees were chosen, a finished construction
\* leaves lists QueryDistance can merge: the theorems of QueryMergeProofs, which start
\* from QueryInit, are about the index that ConstructIndex builds.
THEOREM FinishedIndexIsQueried ==
    Spec => [](pc = "done" => \A x, y \in Vertex : Loops(x, y)!QueryInit)
  BY BuildInvariant, LoopsStart, PTL
=============================================================================

-------------------------- MODULE QueryMergeProofs --------------------------
(***************************************************************************)
(* The loops of QueryDistance on any well-formed index: they stay inside   *)
(* the lists and compute the smallest bound of a tree or a common hub.     *)
(***************************************************************************)
EXTENDS QueryMerge, PLLIndexProofs

\* Arithmetic in uint64_t, for the few values below zero that occur.
LEMMA WordCast ==
    ASSUME NEW n \in Int, -2 <= n, n < Word
    PROVE  n % Word = IF n >= 0 THEN n ELSE n + Word
BY Numbers

\* The bound of a tree is a natural number; one that the test against a lower limit
\* passes over is no smaller than that limit.
LEMMA TreeBound ==
    ASSUME IndexTypeOK, NEW x \in Vertex, NEW y \in Vertex, NEW i \in Tree,
           NEW limit \in 0..INF8
    PROVE  /\ Corrected(x, y, i) \in Nat
           /\ Considered(TreeTd(x, y, i), limit) => Considered(TreeTd(x, y, i), INF8)
           /\ Considered(TreeTd(x, y, i), INF8) /\ ~Considered(TreeTd(x, y, i), limit)
                => limit <= Corrected(x, y, i)
<1> DEFINE td == TreeTd(x, y, i)
           s == Saved(bpspt_s[x][i], bpspt_s[y][i])
<1>1. td \in Nat /\ td <= 2 * INF8 /\ INF8 \in Nat /\ Word \in Nat /\ 2 * INF8 < Word
      /\ limit \in Nat /\ limit <= INF8
  BY Numbers DEF IndexTypeOK, TreeTd
<1>2. s \in {0, 1, 2}
  BY DEF Saved
<1>3. Corrected(x, y, i) = (td - s) % Word
  BY DEF Corrected
<1>4. \A lim : Considered(td, lim) <=> (td - 2) % Word <= lim
  BY DEF Considered
<1> HIDE DEF td, s
<1>5. (td - 2) % Word = IF td >= 2 THEN td - 2 ELSE td - 2 + Word
  BY <1>1, WordCast
<1>6. (td - s) % Word = IF td >= s THEN td - s ELSE td - s + Word
  BY <1>1, <1>2, WordCast
<1>7. Corrected(x, y, i) \in Nat
  BY <1>1, <1>2, <1>3, <1>6
<1>8. (td - 2) % Word <= limit => (td - 2) % Word <= INF8
  BY <1>1, <1>5
<1>9. (td - 2) % Word <= INF8 /\ ~((td - 2) % Word <= limit) => limit <= (td - s) % Word
  <2>1. CASE td >= 2
    BY <2>1, <1>1, <1>2, <1>5, <1>6
  <2>2. CASE td < 2
    <3>1. ~((td - 2) % Word <= INF8)
      BY <2>2, <1>1, <1>5, Numbers
    <3> QED BY <3>1
  <2> QED BY <2>1, <2>2, <1>1
<1> QED BY <1>3, <1>4, <1>7, <1>8, <1>9 DEF td

\* The entries of a well-formed list; only the last one has the hub NumV.
LEMMA EntryAt ==
    ASSUME NEW list, WellFormed(list), NEW k \in 1..Len(list)
    PROVE  /\ Len(list) \in Nat /\ Len(list) > 0
           /\ list[k] \in Entries(list)
           /\ list[k][1] \in 0..NumV /\ list[k][2] \in Nat
           /\ list[k][1] = NumV <=> k = Len(list)
           /\ \A j \in 1..Len(list) : j < k => list[j][1] < list[k][1]
<1>1. list \in Seq(Label) /\ Len(list) \in Nat /\ Len(list) > 0 /\ list[Len(list)][1] = NumV
  BY DEF WellFormed, Sentinel
<1>2. list[k] \in Entries(list)
  BY DEF Entries
<1>3. list[k][1] \in 0..NumV /\ list[k][2] \in Nat
  BY <1>1, <1>2, EntriesOfList, Numbers
<1>4. \A i, j \in 1..Len(list) : i < j => list[i][1] < list[j][1]
  BY DEF WellFormed
<1>5. list[k][1] = NumV => k = Len(list)
  BY <1>1, <1>3, <1>4
<1> QED BY <1>1, <1>2, <1>3, <1>4, <1>5

\* What the loops know of the entries they look at and of those they passed.
LEMMA PassedEntries ==
    ASSUME MergeInv
    PROVE  /\ WellFormed(spt[qx]) /\ WellFormed(spt[qy])
           /\ i1 \in Nat /\ i2 \in Nat /\ Len(spt[qx]) \in Nat /\ Len(spt[qy]) \in Nat
           /\ Hub1 \in 0..NumV /\ Hub2 \in 0..NumV
           /\ Hub1 = NumV <=> i1 = Len(spt[qx])
           /\ Hub2 = NumV <=> i2 = Len(spt[qy])
           /\ \A k \in 1..i1 : k \in 1..Len(spt[qx]) /\ spt[qx][k][1] \in 0..NumV
                               /\ spt[qx][k][2] \in Nat
           /\ \A k \in 1..i2 : k \in 1..Len(spt[qy]) /\ spt[qy][k][1] \in 0..NumV
                               /\ spt[qy][k][2] \in Nat
<1>1. WellFormed(spt[qx]) /\ WellFormed(spt[qy])
      /\ i1 \in 1..Len(spt[qx]) /\ i2 \in 1..Len(spt[qy])
  BY DEF MergeInv, MergeInBounds
<1>2. Len(spt[qx]) \in Nat /\ Len(spt[qy]) \in Nat
  BY <1>1, EntryAt
<1>3. /\ \A k \in 1..i1 : k \in 1..Len(spt[qx]) /\ spt[qx][k][1] \in 0..NumV
                          /\ spt[qx][k][2] \in Nat
      /\ \A k \in 1..i2 : k \in 1..Len(spt[qy]) /\ spt[qy][k][1] \in 0..NumV
                          /\ spt[qy][k][2] \in Nat
  BY <1>1, <1>2, EntryAt
<1>4. (Hub1 = NumV <=> i1 = Len(spt[qx])) /\ (Hub2 = NumV <=> i2 = Len(spt[qy]))
  BY <1>1, EntryAt DEF Hub1, Hub2
<1>5. Hub1 \in 0..NumV /\ Hub2 \in 0..NumV
  BY <1>1, EntryAt DEF Hub1, Hub2
<1> QED BY <1>1, <1>2, <1>3, <1>4, <1>5

\* The candidates for the answer are natural numbers.
LEMMA CandidatesAreNat ==
    ASSUME MergeInv
    PROVE  Candidates \subseteq Nat
<1>1. TreeBounds(qx, qy) \subseteq Nat
  <2>1. \A i \in Tree : Corrected(qx, qy, i) \in Nat
    BY TreeBound, Numbers DEF MergeInv
  <2> QED BY <2>1 DEF TreeBounds
<1>2. HubBounds(spt[qx], spt[qy]) \subseteq Nat
  <2>1. WellFormed(spt[qx]) /\ WellFormed(spt[qy])
    BY DEF MergeInv
  <2>2. spt[qx] \in Seq(Label) /\ spt[qy] \in Seq(Label)
    BY <2>1 DEF WellFormed
  <2>3. \A e \in Entries(spt[qx]) \cup Entries(spt[qy]) : e[2] \in Nat
    BY <2>2, EntriesOfList, Numbers
  <2> QED BY <2>3 DEF HubBounds
<1> QED BY <1>1, <1>2, Numbers DEF Candidates

\* The loops change neither the index nor the vertices asked about.
LEMMA SameCandidates ==
    ASSUME UNCHANGED <<indexVars, qx, qy>>
    PROVE  /\ Candidates' = Candidates
           /\ QueryDistance(qx, qy)' = QueryDistance(qx, qy)
           /\ \A i : /\ TreeTd(qx, qy, i)' = TreeTd(qx, qy, i)
                     /\ Corrected(qx, qy, i)' = Corrected(qx, qy, i)
<1> USE DEF indexVars
<1>1. \A x, y, i : TreeTd(x, y, i)' = TreeTd(x, y, i) /\ Corrected(x, y, i)' = Corrected(x, y, i)
  BY DEF TreeTd, Corrected
<1>2. \A x, y : TreeBounds(x, y)' = TreeBounds(x, y)
  BY <1>1 DEF TreeBounds, TreeTd, Corrected
<1>3. \A x, y : QueryDistance(x, y)' = QueryDistance(x, y)
  BY <1>2 DEF QueryDistance
<1> QED BY <1>1, <1>2, <1>3 DEF Candidates, TreeTd, Corrected, QueryDistance

-----------------------------------------------------------------------------
(***************************************************************************)
(* The invariant of the loops, MergeInv, holds initially and is kept by    *)
(* every step.                                                             *)
(***************************************************************************)

\* The loops start at the first tree and the first entries, with the bound INF8.
LEMMA MergeInvInit ==
    ASSUME QueryInit
    PROVE  MergeInv
<1> USE DEF QueryInit, QueryStart
<1>1. Len(spt[qx]) \in Nat /\ Len(spt[qx]) > 0 /\ Len(spt[qy]) \in Nat /\ Len(spt[qy]) > 0
  BY DEF WellFormed
<1>2. MergeInBounds
  BY <1>1 DEF MergeInBounds
<1>3. PassedInv
  BY DEF PassedInv
<1>4. BestInv
  BY Numbers DEF BestInv, Candidates
<1> QED BY <1>2, <1>3, <1>4, Numbers DEF MergeInv, MergeExact

\* A tree lowers qd to its bound when that is smaller.
LEMMA TryTreeInv ==
    ASSUME MergeInv, TryTree
    PROVE  MergeInv'
<1> USE DEF TryTree
<1> DEFINE bound == Corrected(qx, qy, qi)
<1>1. /\ qi \in Tree /\ qx \in Vertex /\ qy \in Vertex /\ IndexTypeOK /\ BestInv
      /\ qi \in Nat /\ qi' = qi + 1 /\ qi' \in 0..K
  BY Numbers DEF MergeInv, Tree
<1>2. qd \in 0..INF8 /\ Candidates \subseteq Nat
  BY <1>1, CandidatesAreNat DEF BestInv
<1>3. /\ bound \in Nat
      /\ Considered(TreeTd(qx, qy, qi), qd) => Considered(TreeTd(qx, qy, qi), INF8)
      /\ Considered(TreeTd(qx, qy, qi), INF8) /\ ~Considered(TreeTd(qx, qy, qi), qd) => qd <= bound
  BY <1>1, <1>2, TreeBound
<1>4. Considered(TreeTd(qx, qy, qi), INF8) => bound \in Candidates
  BY <1>1 DEF Candidates, TreeBounds
<1>5. qd' = IF Considered(TreeTd(qx, qy, qi), qd) /\ bound < qd THEN bound ELSE qd
  BY DEF Lower
<1>6. /\ Candidates' = Candidates
      /\ \A i : /\ TreeTd(qx, qy, i)' = TreeTd(qx, qy, i)
                /\ Corrected(qx, qy, i)' = Corrected(qx, qy, i)
  BY SameCandidates
<1> HIDE DEF bound
<1>7. qd' \in Candidates /\ qd' <= INF8 /\ qd' <= qd
      /\ (Considered(TreeTd(qx, qy, qi), INF8) => qd' <= bound)
  BY <1>1, <1>2, <1>3, <1>4, <1>5, Numbers DEF BestInv
<1>8. BestInv'
  <2>1. ASSUME NEW i \in 0..qi, Considered(TreeTd(qx, qy, i), INF8)
        PROVE  qd' <= Corrected(qx, qy, i)
    <3>1. CASE i = qi
      BY <3>1, <2>1, <1>7 DEF bound
    <3>2. CASE i \in 0..(qi - 1)
      <4>1. qd <= Corrected(qx, qy, i) /\ Corrected(qx, qy, i) \in Nat
        BY <3>2, <2>1, <1>1, <1>2, TreeBound, Numbers DEF BestInv, Tree
      <4> QED BY <4>1, <1>2, <1>7
    <3> QED BY <3>1, <3>2, <1>1
  <2>2. ASSUME NEW k1 \in 1..(i1 - 1), NEW k2 \in 1..(i2 - 1), spt[qx][k1][1] = spt[qy][k2][1]
        PROVE  qd' <= spt[qx][k1][2] + spt[qy][k2][2]
    <3>1. k1 \in 1..i1 /\ k2 \in 1..i2
      BY PassedEntries
    <3>2. spt[qx][k1][2] \in Nat /\ spt[qy][k2][2] \in Nat
      BY <3>1, PassedEntries
    <3>3. qd <= spt[qx][k1][2] + spt[qy][k2][2]
      BY <2>2, <1>1 DEF BestInv
    <3>4. qd' \in Nat /\ qd' <= qd /\ qd \in Nat
      BY <1>2, <1>7
    <3> HIDE DEF TryTree
    <3> QED BY <3>2, <3>3, <3>4
  <2> QED BY <1>1, <1>6, <1>7, <2>1, <2>2 DEF BestInv, indexVars
<1>9. PassedInv' /\ MergeInBounds'
  BY DEF MergeInv, PassedInv, MergeInBounds, Hub1, Hub2, indexVars
<1>10. IndexTypeOK' /\ \A v \in Vertex : WellFormed(spt'[v])
  BY DEF MergeInv, IndexTypeOK, indexVars
<1> QED BY <1>1, <1>8, <1>9, <1>10 DEF MergeInv, MergeExact, indexVars

\* The merge starts with the bounds of all trees met.
LEMMA TreesTriedInv ==
    ASSUME MergeInv, TreesTried
    PROVE  MergeInv'
<1> USE DEF TreesTried
<1>1. Candidates' = Candidates
      /\ \A i : /\ TreeTd(qx, qy, i)' = TreeTd(qx, qy, i)
                /\ Corrected(qx, qy, i)' = Corrected(qx, qy, i)
  BY SameCandidates
<1>2. BestInv'
  BY <1>1 DEF MergeInv, BestInv, indexVars
<1>3. PassedInv' /\ MergeInBounds'
  BY DEF MergeInv, PassedInv, MergeInBounds, Hub1, Hub2, indexVars
<1>4. IndexTypeOK' /\ \A v \in Vertex : WellFormed(spt'[v])
  BY DEF MergeInv, IndexTypeOK, indexVars
<1> QED BY <1>2, <1>3, <1>4 DEF MergeInv, MergeExact, indexVars

\* A common hub lowers qd to the distance over it, and both lists pass the hub.
LEMMA CommonHubInv ==
    ASSUME MergeInv, CommonHub
    PROVE  MergeInv'
<1> USE DEF CommonHub
<1> DEFINE sum == spt[qx][i1][2] + spt[qy][i2][2]
<1>1. /\ WellFormed(spt[qx]) /\ WellFormed(spt[qy])
      /\ i1 \in 1..Len(spt[qx]) /\ i2 \in 1..Len(spt[qy])
      /\ i1 # Len(spt[qx]) /\ i2 # Len(spt[qy])
      /\ Len(spt[qx]) \in Nat /\ Len(spt[qy]) \in Nat
      /\ i1' = i1 + 1 /\ i2' = i2 + 1 /\ spt' = spt /\ qx' = qx /\ qy' = qy
  BY PassedEntries DEF MergeInv, MergeInBounds, indexVars
<1>2. Candidates' = Candidates /\ Candidates \subseteq Nat /\ qd \in Candidates /\ qd <= INF8
      /\ INF8 \in Nat
      /\ \A i : /\ TreeTd(qx, qy, i)' = TreeTd(qx, qy, i)
                /\ Corrected(qx, qy, i)' = Corrected(qx, qy, i)
  BY SameCandidates, CandidatesAreNat, Numbers DEF MergeInv, BestInv
<1>3. sum \in Nat /\ sum \in Candidates
  <2>1. spt[qx][i1] \in Entries(spt[qx]) /\ spt[qy][i2] \in Entries(spt[qy])
        /\ spt[qx][i1][2] \in Nat /\ spt[qy][i2][2] \in Nat
    BY <1>1, EntryAt
  <2>2. sum \in HubBounds(spt[qx], spt[qy])
    <3> DEFINE p == <<spt[qx][i1], spt[qy][i2]>>
    <3>1. p \in Entries(spt[qx]) \X Entries(spt[qy]) /\ p[1][1] = p[2][1] /\ p[1][1] # NumV
          /\ sum = p[1][2] + p[2][2]
      BY <2>1 DEF Hub1, Hub2
    <3> HIDE DEF p, sum
    <3> QED BY <3>1 DEF HubBounds
  <2> QED BY <2>1, <2>2 DEF Candidates
<1>4. qd' = IF sum < qd THEN sum ELSE qd
  BY DEF Lower
<1> HIDE DEF sum
<1>5. qd' \in Candidates /\ qd' \in Nat /\ qd \in Nat /\ qd' <= qd /\ qd' <= sum /\ qd' <= INF8
  BY <1>2, <1>3, <1>4
<1>6. MergeInBounds'
  BY <1>1 DEF MergeInBounds
<1>7. PassedInv'
  <2>1. ASSUME NEW k \in 1..i1 PROVE spt[qx][k][1] < Hub2'
    <3>1. k \in 1..Len(spt[qx]) /\ i1 \in 1..Len(spt[qx]) /\ (k = i1 \/ k < i1)
      BY <1>1
    <3>2. spt[qx][k][1] \in Nat /\ spt[qx][i1][1] \in Nat
          /\ (k = i1 \/ spt[qx][k][1] < spt[qx][i1][1])
      BY <1>1, <3>1, EntryAt, Numbers
    <3>3. spt[qy][i2][1] < spt[qy][i2 + 1][1] /\ spt[qy][i2 + 1][1] \in Nat
          /\ spt[qy][i2][1] \in Nat
      <4>1. i2 + 1 \in 1..Len(spt[qy]) /\ i2 \in 1..Len(spt[qy]) /\ i2 < i2 + 1
        BY <1>1
      <4> QED BY <1>1, <4>1, EntryAt, Numbers
    <3>4. Hub2' = spt[qy][i2 + 1][1] /\ spt[qx][i1][1] = spt[qy][i2][1]
      BY <1>1 DEF Hub1, Hub2
    <3> QED BY <3>2, <3>3, <3>4
  <2>2. ASSUME NEW k \in 1..i2 PROVE spt[qy][k][1] < Hub1'
    <3>1. k \in 1..Len(spt[qy]) /\ i2 \in 1..Len(spt[qy]) /\ (k = i2 \/ k < i2)
      BY <1>1
    <3>2. spt[qy][k][1] \in Nat /\ spt[qy][i2][1] \in Nat
          /\ (k = i2 \/ spt[qy][k][1] < spt[qy][i2][1])
      BY <1>1, <3>1, EntryAt, Numbers
    <3>3. spt[qx][i1][1] < spt[qx][i1 + 1][1] /\ spt[qx][i1 + 1][1] \in Nat
          /\ spt[qx][i1][1] \in Nat
      <4>1. i1 + 1 \in 1..Len(spt[qx]) /\ i1 \in 1..Len(spt[qx]) /\ i1 < i1 + 1
        BY <1>1
      <4> QED BY <1>1, <4>1, EntryAt, Numbers
    <3>4. Hub1' = spt[qx][i1 + 1][1] /\ spt[qy][i2][1] = spt[qx][i1][1]
      BY <1>1 DEF Hub1, Hub2
    <3> QED BY <3>2, <3>3, <3>4
  <2> QED BY <1>1, <2>1, <2>2 DEF PassedInv
<1>8. BestInv'
  <2>1. ASSUME NEW i \in 0..(qi - 1), Considered(TreeTd(qx, qy, i), INF8)
        PROVE  qd' <= Corrected(qx, qy, i)
    <3>1. qd <= Corrected(qx, qy, i) /\ Corrected(qx, qy, i) \in Nat
      BY <2>1, TreeBound, Numbers DEF MergeInv, BestInv, Tree
    <3> QED BY <3>1, <1>5
  <2>2. ASSUME NEW k1 \in 1..i1, NEW k2 \in 1..i2, spt[qx][k1][1] = spt[qy][k2][1]
        PROVE  qd' <= spt[qx][k1][2] + spt[qy][k2][2]
    <3>1. CASE k1 = i1 /\ k2 = i2
      BY <3>1, <1>5 DEF sum
    <3>2. CASE k1 = i1 /\ k2 < i2
      <4>1. k2 \in 1..(i2 - 1)
        BY <3>2, <1>1
      <4>2. spt[qy][k2][1] < Hub1 /\ spt[qy][k2][1] = Hub1
        BY <4>1, <3>2, <2>2 DEF MergeInv, PassedInv, Hub1, Hub2
      <4>3. Hub1 \in Int
        BY PassedEntries, Numbers
      <4> HIDE DEF CommonHub
      <4> QED BY <4>2, <4>3
    <3>3. CASE k1 < i1 /\ k2 = i2
      <4>1. k1 \in 1..(i1 - 1)
        BY <3>3, <1>1
      <4>2. spt[qx][k1][1] < Hub2 /\ spt[qx][k1][1] = Hub2
        BY <4>1, <3>3, <2>2 DEF MergeInv, PassedInv, Hub1, Hub2
      <4>3. Hub2 \in Int
        BY PassedEntries, Numbers
      <4> HIDE DEF CommonHub
      <4> QED BY <4>2, <4>3
    <3>4. CASE k1 < i1 /\ k2 < i2
      <4>1. k1 \in 1..(i1 - 1) /\ k2 \in 1..(i2 - 1)
        BY <3>4, <1>1
      <4>2. qd <= spt[qx][k1][2] + spt[qy][k2][2]
        BY <4>1, <2>2 DEF MergeInv, BestInv
      <4>3. spt[qx][k1][2] \in Nat /\ spt[qy][k2][2] \in Nat
        BY <1>1, PassedEntries
      <4> HIDE DEF CommonHub
      <4> QED BY <4>2, <4>3, <1>5
    <3> QED BY <3>1, <3>2, <3>3, <3>4, <1>1
  <2>3. 1..(i1' - 1) = 1..i1 /\ 1..(i2' - 1) = 1..i2 /\ qi' = qi
    BY <1>1
  <2>4. /\ \A i \in 0..(qi' - 1) :
              Considered(TreeTd(qx, qy, i), INF8)' => qd' <= Corrected(qx, qy, i)'
        /\ \A k1 \in 1..(i1' - 1), k2 \in 1..(i2' - 1) :
              spt'[qx'][k1][1] = spt'[qy'][k2][1]
              => qd' <= spt'[qx'][k1][2] + spt'[qy'][k2][2]
    <3> HIDE DEF CommonHub
    <3> QED BY <1>1, <1>2, <2>1, <2>2, <2>3
  <2> QED BY <1>2, <1>5, <2>4 DEF BestInv
<1>9. IndexTypeOK' /\ \A v \in Vertex : WellFormed(spt'[v])
  BY DEF MergeInv, IndexTypeOK, indexVars
<1> QED BY <1>1, <1>6, <1>7, <1>8, <1>9 DEF MergeInv, MergeExact

\* The list with the smaller hub passes it; the other list has no such hub any more.
LEMMA DifferentHubsInv ==
    ASSUME MergeInv, DifferentHubs
    PROVE  MergeInv'
<1> USE DEF DifferentHubs
<1>1. /\ WellFormed(spt[qx]) /\ WellFormed(spt[qy])
      /\ i1 \in 1..Len(spt[qx]) /\ i2 \in 1..Len(spt[qy])
      /\ Len(spt[qx]) \in Nat /\ Len(spt[qy]) \in Nat
      /\ spt' = spt /\ qx' = qx /\ qy' = qy /\ qd' = qd /\ qi' = qi
      /\ Hub1 \in Int /\ Hub2 \in Int /\ Hub1 # Hub2
  BY PassedEntries, Numbers DEF MergeInv, MergeInBounds, indexVars
<1>2. Candidates' = Candidates
      /\ \A i : /\ TreeTd(qx, qy, i)' = TreeTd(qx, qy, i)
                /\ Corrected(qx, qy, i)' = Corrected(qx, qy, i)
  BY SameCandidates
<1>3. IndexTypeOK' /\ \A v \in Vertex : WellFormed(spt'[v])
  BY DEF MergeInv, IndexTypeOK, indexVars
<1>4. CASE Hub1 < Hub2
  <2>1. i1' = i1 + 1 /\ i2' = i2
    BY <1>1, <1>4 DEF AdvanceSmaller
  <2>2. i1 # Len(spt[qx])
    BY <1>4, PassedEntries, Numbers
  <2>3. MergeInBounds'
    BY <1>1, <2>1, <2>2 DEF MergeInBounds
  <2>4. Hub1' = spt[qx][i1 + 1][1] /\ Hub2' = Hub2 /\ Hub1 < Hub1' /\ Hub1' \in Int
    <3>1. i1 + 1 \in 1..Len(spt[qx]) /\ i1 < i1 + 1
      BY <1>1, <2>2
    <3>2. spt[qx][i1][1] < spt[qx][i1 + 1][1] /\ spt[qx][i1 + 1][1] \in Int
      BY <1>1, <3>1, EntryAt, Numbers
    <3> QED BY <1>1, <2>1, <3>2 DEF Hub1, Hub2
  <2>5. PassedInv'
    <3>1. ASSUME NEW k \in 1..i1 PROVE spt[qx][k][1] < Hub2
      BY <1>1, <1>4 DEF MergeInv, PassedInv, Hub1
    <3>2. ASSUME NEW k \in 1..(i2 - 1) PROVE spt[qy][k][1] < Hub1'
      <4>1. spt[qy][k][1] < Hub1
        BY DEF MergeInv, PassedInv
      <4>2. spt[qy][k][1] \in Int
        BY <1>1, PassedEntries, Numbers
      <4> QED BY <4>1, <4>2, <1>1, <2>4
    <3> QED BY <1>1, <2>1, <2>4, <3>1, <3>2 DEF PassedInv
  <2>6. ASSUME NEW k1 \in 1..i1, NEW k2 \in 1..(i2 - 1), spt[qx][k1][1] = spt[qy][k2][1]
        PROVE  qd <= spt[qx][k1][2] + spt[qy][k2][2]
    <3>1. CASE k1 = i1
      <4>1. spt[qy][k2][1] < Hub1 /\ spt[qy][k2][1] = Hub1
        BY <3>1, <2>6 DEF MergeInv, PassedInv, Hub1
      <4> QED BY <4>1, <1>1
    <3>2. CASE k1 \in 1..(i1 - 1)
      BY <3>2, <2>6 DEF MergeInv, BestInv
    <3> QED BY <3>1, <3>2, <1>1
  <2>7. BestInv'
    BY <1>1, <1>2, <2>1, <2>6 DEF MergeInv, BestInv
  <2> QED BY <1>1, <1>3, <2>3, <2>5, <2>7 DEF MergeInv, MergeExact
<1>5. CASE Hub2 < Hub1
  <2>1. i1' = i1 /\ i2' = i2 + 1
    BY <1>1, <1>5 DEF AdvanceSmaller
  <2>2. i2 # Len(spt[qy])
    BY <1>5, PassedEntries, Numbers
  <2>3. MergeInBounds'
    BY <1>1, <2>1, <2>2 DEF MergeInBounds
  <2>4. Hub2' = spt[qy][i2 + 1][1] /\ Hub1' = Hub1 /\ Hub2 < Hub2' /\ Hub2' \in Int
    <3>1. i2 + 1 \in 1..Len(spt[qy]) /\ i2 < i2 + 1
      BY <1>1, <2>2
    <3>2. spt[qy][i2][1] < spt[qy][i2 + 1][1] /\ spt[qy][i2 + 1][1] \in Int
      BY <1>1, <3>1, EntryAt, Numbers
    <3> QED BY <1>1, <2>1, <3>2 DEF Hub1, Hub2
  <2>5. PassedInv'
    <3>1. ASSUME NEW k \in 1..i2 PROVE spt[qy][k][1] < Hub1
      BY <1>1, <1>5 DEF MergeInv, PassedInv, Hub2
    <3>2. ASSUME NEW k \in 1..(i1 - 1) PROVE spt[qx][k][1] < Hub2'
      <4>1. spt[qx][k][1] < Hub2
        BY DEF MergeInv, PassedInv
      <4>2. spt[qx][k][1] \in Int
        BY <1>1, PassedEntries, Numbers
      <4> QED BY <4>1, <4>2, <1>1, <2>4
    <3> QED BY <1>1, <2>1, <2>4, <3>1, <3>2 DEF PassedInv
  <2>6. ASSUME NEW k1 \in 1..(i1 - 1), NEW k2 \in 1..i2, spt[qx][k1][1] = spt[qy][k2][1]
        PROVE  qd <= spt[qx][k1][2] + spt[qy][k2][2]
    <3>1. CASE k2 = i2
      <4>1. spt[qx][k1][1] < Hub2 /\ spt[qx][k1][1] = Hub2
        BY <3>1, <2>6 DEF MergeInv, PassedInv, Hub2
      <4> QED BY <4>1, <1>1
    <3>2. CASE k2 \in 1..(i2 - 1)
      BY <3>2, <2>6 DEF MergeInv, BestInv
    <3> QED BY <3>1, <3>2, <1>1
  <2>7. BestInv'
    BY <1>1, <1>2, <2>1, <2>6 DEF MergeInv, BestInv
  <2> QED BY <1>1, <1>3, <2>3, <2>5, <2>7 DEF MergeInv, MergeExact
<1> QED BY <1>1, <1>4, <1>5

\* At both sentinels every candidate has been met, so qd is the smallest.
LEMMA BothSentinelsInv ==
    ASSUME MergeInv, BothSentinels
    PROVE  MergeInv'
<1> USE DEF BothSentinels
<1>1. /\ WellFormed(spt[qx]) /\ WellFormed(spt[qy])
      /\ i1 = Len(spt[qx]) /\ i2 = Len(spt[qy])
      /\ Len(spt[qx]) \in Nat /\ Len(spt[qy]) \in Nat
      /\ qi = K /\ qx \in Vertex /\ qy \in Vertex /\ BestInv /\ IndexTypeOK
  BY PassedEntries DEF MergeInv
<1>2. ASSUME NEW n \in Candidates PROVE qd <= n
  <2>1. CASE n = INF8
    BY <2>1, <1>1 DEF BestInv
  <2>2. CASE n \in TreeBounds(qx, qy)
    BY <2>2, <1>1, Numbers DEF TreeBounds, BestInv, Tree
  <2>3. CASE n \in HubBounds(spt[qx], spt[qy])
    <3>1. PICK p \in Entries(spt[qx]) \X Entries(spt[qy]) :
              p[1][1] = p[2][1] /\ p[1][1] # NumV /\ n = p[1][2] + p[2][2]
      BY <2>3 DEF HubBounds
    <3>2. PICK k1 \in 1..Len(spt[qx]) : p[1] = spt[qx][k1]
      BY <3>1 DEF Entries
    <3>3. PICK k2 \in 1..Len(spt[qy]) : p[2] = spt[qy][k2]
      BY <3>1 DEF Entries
    <3>4. k1 # i1 /\ k2 # i2
      BY <1>1, <3>1, <3>2, <3>3, EntryAt
    <3>5. k1 \in 1..(i1 - 1) /\ k2 \in 1..(i2 - 1)
      BY <1>1, <3>4
    <3> QED BY <1>1, <3>1, <3>2, <3>3, <3>5 DEF BestInv
  <2> QED BY <2>1, <2>2, <2>3 DEF Candidates
<1>3. Smallest(Candidates) = qd
  <2>1. qd \in Candidates /\ Candidates \subseteq Nat
    BY <1>1, CandidatesAreNat DEF BestInv
  <2>2. \A n \in Candidates : (\A m \in Candidates : n <= m) => n = qd
    BY <2>1, <1>2
  <2> QED BY <2>1, <2>2, <1>2 DEF Smallest
<1>4. qd' = QueryDistance(qx, qy)
  BY <1>1, <1>3 DEF QueryDistance, Candidates
<1>5. MergeExact'
  BY <1>4, SameCandidates DEF MergeExact
<1>6. PassedInv' /\ MergeInBounds'
  BY DEF MergeInv, PassedInv, MergeInBounds, Hub1, Hub2, indexVars
<1>7. IndexTypeOK' /\ \A v \in Vertex : WellFormed(spt'[v])
  BY DEF MergeInv, IndexTypeOK, indexVars
<1> QED BY <1>5, <1>6, <1>7 DEF MergeInv

-----------------------------------------------------------------------------
(***************************************************************************)
(* The invariant, and the properties that follow from it.                  *)
(***************************************************************************)
qVars == <<indexVars, queryVars>>

\* Every state of the loops satisfies their invariant, on any well-formed index.
THEOREM MergeInvariant == QuerySpec => []MergeInv
<1>1. QueryInit => MergeInv
  BY MergeInvInit
<1>2. MergeInv /\ [QueryNext]_qVars => MergeInv'
  <2>1. SUFFICES ASSUME MergeInv, [QueryNext]_qVars PROVE MergeInv'
    OBVIOUS
  <2>2. CASE QueryStep
    BY <2>1, <2>2, TryTreeInv, TreesTriedInv, CommonHubInv, DifferentHubsInv, BothSentinelsInv
       DEF QueryStep
  <2>3. CASE UNCHANGED qVars
    <3>1. UNCHANGED <<indexVars, qx, qy>>
      BY <2>3 DEF qVars, queryVars
    <3>2. Candidates' = Candidates /\ QueryDistance(qx, qy)' = QueryDistance(qx, qy)
          /\ \A i : /\ TreeTd(qx, qy, i)' = TreeTd(qx, qy, i)
                    /\ Corrected(qx, qy, i)' = Corrected(qx, qy, i)
      BY <3>1, SameCandidates
    <3>3. BestInv' <=> BestInv
      BY <2>3, <3>2 DEF BestInv, qVars, queryVars, indexVars
    <3>4. PassedInv' <=> PassedInv
      BY <2>3 DEF PassedInv, Hub1, Hub2, qVars, queryVars, indexVars
    <3>5. MergeExact' <=> MergeExact
      BY <2>3, <3>2 DEF MergeExact, qVars, queryVars
    <3> QED BY <2>1, <2>3, <3>3, <3>4, <3>5
            DEF MergeInv, MergeInBounds, IndexTypeOK, qVars, queryVars, indexVars
  <2>4. CASE QueryOver
    BY <2>3, <2>4 DEF QueryOver, qVars
  <2> QED BY <2>1, <2>2, <2>3, <2>4 DEF QueryNext
<1> QED BY <1>1, <1>2, PTL DEF QuerySpec, QueryLoops, qVars

\* The merge never reads past the end of a list.
THEOREM MergeStaysInBounds == QuerySpec => []MergeInBounds
<1>1. MergeInv => MergeInBounds
  BY DEF MergeInv
<1> QED BY <1>1, MergeInvariant, PTL

\* A query that returns has computed the smallest bound of a tree or a common hub.
THEOREM MergeIsExact == QuerySpec => []MergeExact
<1>1. MergeInv => MergeExact
  BY DEF MergeInv
<1> QED BY <1>1, MergeInvariant, PTL
=============================================================================

--------------------------- MODULE PLLIndexProofs ---------------------------
(***************************************************************************)
(* Facts about graphs and indexes that the proofs of several modules use.  *)
(* Of graphs: the recursive function of the balls exists, so a ball obeys  *)
(* its own equation, and distance bounds extend along edges and walks.  Of *)
(* indexes: the sizes of the numbers, what is in a label list, and what    *)
(* trees and common hubs bound.                                            *)
(***************************************************************************)
EXTENDS PLLIndex, FiniteSetTheorems, WellFoundedInduction, TLAPS

(***************************************************************************)
(* Induction over the naturals, for a set in place of a predicate.         *)
(***************************************************************************)
LEMMA SetInduction ==
    ASSUME NEW S, 0 \in S, \A n \in Nat : n \in S => n + 1 \in S
    PROVE  Nat \subseteq S
<1> DEFINE R == {ss \in Nat \X Nat : ss[1] < ss[2]}
           T == Nat \ S
<1>1. IsWellFoundedOn(R, Nat)
  BY NatLessThanWellFounded DEF OpToRel
<1>2. SUFFICES ASSUME T # {} PROVE FALSE
  OBVIOUS
<1>3. PICK x \in T : \A y \in T : ~ (<<y, x>> \in R)
  <2>1. T \subseteq Nat
    OBVIOUS
  <2> HIDE DEF R, T
  <2> QED BY <1>1, <1>2, <2>1, WFMin
<1>4. x \in Nat /\ x \notin S /\ x # 0
  BY <1>3
<1>5. x - 1 \in T /\ <<x - 1, x>> \in R
  <2>1. x - 1 \in Nat /\ (x - 1) + 1 = x
    BY <1>4
  <2> QED BY <1>4, <2>1
<1> QED BY <1>3, <1>5

(***************************************************************************)
(* The defining equation of Ball: the partial functions that obey it on    *)
(* 0..n exist for every n and agree, so the recursive function exists.     *)
(***************************************************************************)
BallStep(g, u, f, n) == f[n] = IF n = 0 THEN {u} ELSE Expand(g, f[n - 1])

\* A function that satisfies the recursive definition of Ball exists.
LEMMA BallExists ==
    ASSUME NEW g, NEW u
    PROVE  \E f : f = [n \in Nat |-> IF n = 0 THEN {u} ELSE Expand(g, f[n - 1])]
<1> DEFINE Upto(n, f) == \A m \in 0..n : BallStep(g, u, f, m)
           S == {n \in Nat : \E f : Upto(n, f)}
<1>1. Nat \subseteq S
  <2>1. 0 \in S
    <3>1. Upto(0, [m \in Nat |-> {u}])
      BY DEF BallStep
    <3> QED BY <3>1
  <2>2. ASSUME NEW n \in Nat, n \in S PROVE n + 1 \in S
    <3>1. PICK f : Upto(n, f)
      BY <2>2
    <3> DEFINE h == [m \in Nat |-> IF m = n + 1 THEN Expand(g, f[n]) ELSE f[m]]
    <3>2. ASSUME NEW m \in 0..(n + 1) PROVE BallStep(g, u, h, m)
      <4>1. CASE m = n + 1
        BY <4>1 DEF BallStep
      <4>2. CASE m \in 0..n
        <5>1. h[m] = f[m] /\ (m # 0 => h[m - 1] = f[m - 1])
          BY <4>2
        <5> QED BY <5>1, <4>2, <3>1 DEF BallStep
      <4> QED BY <4>1, <4>2
    <3>3. Upto(n + 1, h)
      BY <3>2
    <3> HIDE DEF h, Upto
    <3> QED BY <3>3
  <2> HIDE DEF S
  <2> QED BY <2>1, <2>2, SetInduction
<1>2. \A n \in Nat : \E f : Upto(n, f)
  BY <1>1
<1>3. PICK part : \A n \in Nat : Upto(n, part[n])
  <2> DEFINE witness == [n \in Nat |-> CHOOSE f : Upto(n, f)]
  <2>1. \A n \in Nat : Upto(n, witness[n])
    BY <1>2
  <2> HIDE DEF witness
  <2> QED BY <2>1
<1>4. \A n \in Nat : \A m \in Nat : m <= n => part[n][m] = part[m][m]
  <2> DEFINE A == {m \in Nat : \A n \in Nat : m <= n => part[n][m] = part[m][m]}
  <2>1. 0 \in A
    BY <1>3 DEF BallStep
  <2>2. ASSUME NEW m \in Nat, m \in A PROVE m + 1 \in A
    <3>1. ASSUME NEW n \in Nat, m + 1 <= n PROVE part[n][m + 1] = part[m + 1][m + 1]
      <4>1. part[n][m] = part[m][m] /\ part[m + 1][m] = part[m][m]
        BY <2>2, <3>1
      <4>2. BallStep(g, u, part[n], m + 1) /\ BallStep(g, u, part[m + 1], m + 1)
        BY <1>3, <3>1
      <4> QED BY <4>1, <4>2 DEF BallStep
    <3> QED BY <3>1
  <2>3. Nat \subseteq A
    <3> HIDE DEF A
    <3> QED BY <2>1, <2>2, SetInduction
  <2> QED BY <2>3
<1> DEFINE total == [n \in Nat |-> part[n][n]]
<1>5. ASSUME NEW n \in Nat
      PROVE total[n] = IF n = 0 THEN {u} ELSE Expand(g, total[n - 1])
  <2>1. BallStep(g, u, part[n], n)
    BY <1>3
  <2>2. n # 0 => part[n][n - 1] = part[n - 1][n - 1]
    BY <1>4
  <2> QED BY <2>1, <2>2 DEF BallStep
<1>6. total = [n \in Nat |-> IF n = 0 THEN {u} ELSE Expand(g, total[n - 1])]
  <2> DEFINE rhs == [n \in Nat |-> IF n = 0 THEN {u} ELSE Expand(g, total[n - 1])]
  <2>1. \A n \in Nat : total[n] = rhs[n]
    BY <1>5
  <2> QED BY <2>1
<1> QED BY <1>6

\* The 0-th ball is its centre, and each ball is the one before with its neighbours:
\* the levels of a breadth-first search.
THEOREM BallEquation ==
    ASSUME NEW g, NEW u
    PROVE  /\ Ball(g, u)[0] = {u}
           /\ \A n \in Nat : Ball(g, u)[n + 1] = Expand(g, Ball(g, u)[n])
<1> DEFINE b == Ball(g, u)
<1>1. b = [n \in Nat |-> IF n = 0 THEN {u} ELSE Expand(g, b[n - 1])]
  BY BallExists DEF Ball
<1>2. \A n \in Nat : b[n] = IF n = 0 THEN {u} ELSE Expand(g, b[n - 1])
  <2> HIDE DEF b
  <2> DEFINE rhs == [n \in Nat |-> IF n = 0 THEN {u} ELSE Expand(g, b[n - 1])]
  <2>1. b = rhs BY <1>1
  <2>2. \A n \in Nat : rhs[n] = IF n = 0 THEN {u} ELSE Expand(g, b[n - 1])
    OBVIOUS
  <2> QED BY <2>1, <2>2
<1>3. b[0] = {u}
  BY <1>2
<1>4. ASSUME NEW n \in Nat PROVE b[n + 1] = Expand(g, b[n])
  <2>1. n + 1 \in Nat /\ n + 1 # 0 /\ (n + 1) - 1 = n
    OBVIOUS
  <2> HIDE DEF b
  <2> QED BY <1>2, <2>1
<1> QED BY <1>3, <1>4

-----------------------------------------------------------------------------
(***************************************************************************)
(* Distance bounds: a vertex is within 0 of itself, an edge adds one, a    *)
(* bound may be weakened.                                                  *)
(***************************************************************************)
\* Only the vertex itself is within distance 0.
LEMMA WithinZero ==
    ASSUME NEW g, NEW u, NEW v
    PROVE  Within(g, u, v, 0) <=> v = u
BY BallEquation DEF Within

\* A vertex is within n + 1 when it is within n or next to a vertex that is.
LEMMA WithinStep ==
    ASSUME NEW g, NEW u, NEW w, NEW n \in Nat
    PROVE  Within(g, u, w, n + 1)
             <=> \/ Within(g, u, w, n)
                 \/ \E v : Within(g, u, v, n) /\ w \in g[v]
<1>1. Ball(g, u)[n + 1] = Expand(g, Ball(g, u)[n])
  BY BallEquation
<1> QED BY <1>1 DEF Within, Expand

\* A distance bound may be weakened.
LEMMA WithinMonotone ==
    ASSUME NEW g, NEW u, NEW v, NEW m \in Nat, NEW n \in Nat, m <= n,
           Within(g, u, v, m)
    PROVE  Within(g, u, v, n)
<1> DEFINE S == {k \in Nat : Within(g, u, v, m + k)}
<1>1. 0 \in S
  OBVIOUS
<1>2. ASSUME NEW k \in Nat, k \in S PROVE k + 1 \in S
  <2>1. m + k \in Nat /\ m + (k + 1) = (m + k) + 1
    OBVIOUS
  <2>2. Within(g, u, v, (m + k) + 1)
    BY <2>1, <1>2, WithinStep
  <2> QED BY <2>1, <2>2
<1>3. Nat \subseteq S
  <2> HIDE DEF S
  <2> QED BY <1>1, <1>2, SetInduction
<1>4. n - m \in S /\ m + (n - m) = n
  BY <1>3
<1> QED BY <1>4

\* Distance bounds add up along a walk.
LEMMA WithinTriangle ==
    ASSUME NEW g, NEW u, NEW v, NEW w, NEW a \in Nat, NEW b \in Nat,
           Within(g, u, v, a), Within(g, v, w, b)
    PROVE  Within(g, u, w, a + b)
<1> DEFINE S == {n \in Nat : \A x : Within(g, v, x, n) => Within(g, u, x, a + n)}
<1>1. 0 \in S
  BY WithinZero
<1>2. ASSUME NEW n \in Nat, n \in S PROVE n + 1 \in S
  <2>1. ASSUME NEW x, Within(g, v, x, n + 1) PROVE Within(g, u, x, a + (n + 1))
    <3>1. a + n \in Nat /\ a + (n + 1) = (a + n) + 1
      OBVIOUS
    <3>2. \/ Within(g, v, x, n)
          \/ \E y : Within(g, v, y, n) /\ x \in g[y]
      BY <2>1, WithinStep
    <3>3. Within(g, u, x, (a + n) + 1)
      BY <3>1, <3>2, <1>2, WithinStep
    <3> QED BY <3>1, <3>3
  <2> QED BY <2>1
<1>3. Nat \subseteq S
  <2> HIDE DEF S
  <2> QED BY <1>1, <1>2, SetInduction
<1> QED BY <1>3

\* In an undirected graph a distance bound holds in both directions.
LEMMA WithinSymmetric ==
    ASSUME NEW g \in Graphs, NEW u \in Vertex, NEW v \in Vertex,
           NEW n \in Nat, Within(g, u, v, n)
    PROVE  Within(g, v, u, n)
<1>1. \A x \in Vertex : g[x] \subseteq Vertex
  BY GraphAssumption
<1>2. \A x, y \in Vertex : y \in g[x] => x \in g[y]
  BY GraphAssumption
<1> DEFINE S == {k \in Nat : \A x : Within(g, u, x, k)
                               => x \in Vertex /\ Within(g, x, u, k)}
<1>3. 0 \in S
  BY WithinZero
<1>4. ASSUME NEW k \in Nat, k \in S PROVE k + 1 \in S
  <2>1. ASSUME NEW x, Within(g, u, x, k + 1)
        PROVE  x \in Vertex /\ Within(g, x, u, k + 1)
    <3>1. CASE Within(g, u, x, k)
      BY <3>1, <1>4, WithinStep
    <3>2. CASE \E y : Within(g, u, y, k) /\ x \in g[y]
      <4>1. PICK y : Within(g, u, y, k) /\ x \in g[y]
        BY <3>2
      <4>2. y \in Vertex /\ Within(g, y, u, k)
        BY <4>1, <1>4
      <4>3. x \in Vertex /\ y \in g[x]
        BY <4>1, <4>2, <1>1, <1>2
      <4>4. Within(g, x, y, 1)
        <5>1. Within(g, x, x, 0)
          BY WithinZero
        <5>2. Within(g, x, y, 0 + 1)
          BY <5>1, <4>3, WithinStep
        <5> QED BY <5>2
      <4>5. Within(g, x, u, 1 + k)
        BY <4>2, <4>4, WithinTriangle
      <4>6. 1 + k = k + 1
        OBVIOUS
      <4> QED BY <4>3, <4>5, <4>6
    <3> QED BY <2>1, <3>1, <3>2, WithinStep
  <2> QED BY <2>1
<1>5. Nat \subseteq S
  <2> HIDE DEF S
  <2> QED BY <1>3, <1>4, SetInduction
<1> QED BY <1>5

-----------------------------------------------------------------------------
(***************************************************************************)
(* Numbers and label lists.                                                *)
(***************************************************************************)
\* The numbers among the constants.
LEMMA Numbers ==
    /\ NumV \in Nat /\ K \in Nat /\ INF8 \in Nat /\ Byte \in Nat /\ Word \in Nat
    /\ INF8 > 2 /\ Byte >= 2 * INF8 /\ Word > 2 * Byte
BY GraphAssumption, IndexAssumption

\* The vertices, and so every set of them, are finite.
LEMMA VertexFinite ==
    /\ IsFiniteSet(Vertex)
    /\ Cardinality(Vertex) = NumV
    /\ \A S \in SUBSET Vertex : /\ IsFiniteSet(S)
                                /\ Cardinality(S) \in Nat
                                /\ Cardinality(S) <= NumV
<1>1. 0 \in Int /\ NumV - 1 \in Int /\ NumV \in Nat
  BY Numbers
<1>2. IsFiniteSet(Vertex) /\ Cardinality(Vertex) = NumV
  BY <1>1, FS_Interval DEF Vertex
<1>3. ASSUME NEW S \in SUBSET Vertex
      PROVE  IsFiniteSet(S) /\ Cardinality(S) \in Nat /\ Cardinality(S) <= NumV
  BY <1>2, FS_Subset, FS_CardinalityType
<1> QED BY <1>2, <1>3

\* The cast to uint8_t yields a uint8_t, and is the identity below Byte.
LEMMA ByteCast ==
    ASSUME NEW n \in Nat
    PROVE  /\ n % Byte \in 0..(Byte - 1)
           /\ n < Byte => n % Byte = n
BY Numbers

\* Smallest finds the least of a set of numbers.
LEMMA SmallestExists ==
    ASSUME NEW S \in SUBSET Nat, NEW k \in S
    PROVE  Smallest(S) \in S /\ \A m \in S : Smallest(S) <= m
<1> DEFINE T == {n \in Nat : (\E m \in S : m <= n) => \E l \in S : \A m \in S : l <= m}
<1>1. 0 \in T
  OBVIOUS
<1>2. ASSUME NEW n \in Nat, n \in T PROVE n + 1 \in T
  <2>1. CASE \E m \in S : m <= n
    BY <1>2, <2>1
  <2>2. CASE ~ \E m \in S : m <= n
    BY <2>2
  <2> QED BY <2>1, <2>2
<1>3. Nat \subseteq T
  <2> HIDE DEF T
  <2> QED BY <1>1, <1>2, SetInduction
<1>4. \E l \in S : \A m \in S : l <= m
  BY <1>3
<1> QED BY <1>4 DEF Smallest

\* The members of a list.
LEMMA EntriesOfList ==
    ASSUME NEW list \in Seq(Label), NEW e \in Entries(list)
    PROVE  /\ e \in Label
           /\ e[1] \in 0..NumV /\ e[2] \in 0..(Byte - 1)
           /\ e = <<e[1], e[2]>>
<1>1. e \in Label
  BY DEF Entries
<1> QED BY <1>1 DEF Label

\* A well-formed list has the sentinel, and its other entries have vertices as hubs.
LEMMA WellFormedEntries ==
    ASSUME NEW list, WellFormed(list)
    PROVE  /\ Sentinel \in Entries(list)
           /\ \A e \in Entries(list) : e[1] = NumV => e = Sentinel
           /\ \A e \in Labels(list) : e[1] \in Vertex /\ e[2] \in 0..(Byte - 1)
<1>1. list \in Seq(Label) /\ Len(list) \in Nat /\ Len(list) > 0
  BY DEF WellFormed
<1>2. Sentinel \in Entries(list)
  BY <1>1 DEF WellFormed, Entries
<1>3. ASSUME NEW e \in Entries(list), e # Sentinel
      PROVE  e[1] \in Vertex /\ e[2] \in 0..(Byte - 1) /\ e[1] # NumV
  <2>1. PICK k \in 1..Len(list) : e = list[k]
    BY DEF Entries
  <2>2. k < Len(list)
    BY <2>1, <1>1, <1>3 DEF WellFormed
  <2>3. list[k][1] < list[Len(list)][1]
    BY <2>2, <1>1 DEF WellFormed
  <2>4. list[Len(list)][1] = NumV
    BY DEF WellFormed, Sentinel
  <2> QED BY <2>1, <2>3, <2>4, <1>1, EntriesOfList, Numbers DEF Vertex
<1> QED BY <1>2, <1>3 DEF Labels

-----------------------------------------------------------------------------
(***************************************************************************)
(* Distances and walks through used vertices.                              *)
(***************************************************************************)
\* A vertex within n of another has a distance to it, which is at most n.
LEMMA DistanceExists ==
    ASSUME NEW g, NEW u, NEW v, NEW n \in Nat, Within(g, u, v, n)
    PROVE  \E m \in 0..n : AtDistance(g, u, v, m)
<1> DEFINE S == {k \in Nat : (\E j \in 0..k : Within(g, u, v, j))
                              => \E m \in 0..k : AtDistance(g, u, v, m)}
<1>1. 0 \in S
  BY DEF AtDistance
<1>2. ASSUME NEW k \in Nat, k \in S PROVE k + 1 \in S
  <2>1. SUFFICES ASSUME NEW j \in 0..(k + 1), Within(g, u, v, j)
                 PROVE  \E m \in 0..(k + 1) : AtDistance(g, u, v, m)
    OBVIOUS
  <2>2. CASE \E i \in 0..k : Within(g, u, v, i)
    BY <2>2, <1>2
  <2>3. CASE ~ \E i \in 0..k : Within(g, u, v, i)
    BY <2>1, <2>3 DEF AtDistance
  <2> QED BY <2>2, <2>3
<1>3. Nat \subseteq S
  <2> HIDE DEF S
  <2> QED BY <1>1, <1>2, SetInduction
<1> QED BY <1>3

\* A vertex has one distance, and no smaller bound holds.
LEMMA DistanceUnique ==
    ASSUME NEW g, NEW u, NEW v, NEW m \in Nat, NEW n \in Nat,
           AtDistance(g, u, v, m), Within(g, u, v, n)
    PROVE  m <= n
<1>1. SUFFICES ASSUME n < m PROVE FALSE
  OBVIOUS
<1>2. m > 0 /\ m - 1 \in Nat /\ n <= m - 1
  BY <1>1
<1>3. Within(g, u, v, m - 1)
  BY <1>2, WithinMonotone
<1> QED BY <1>2, <1>3 DEF AtDistance

\* Where a level is empty, the search has reached everything it ever will.
LEMMA BallStops ==
    ASSUME NEW g, NEW u, NEW n \in Nat, \A w : ~AtDistance(g, u, w, n + 1),
           NEW v, NEW m \in Nat, Within(g, u, v, m)
    PROVE  Within(g, u, v, n)
<1>1. \A w : Within(g, u, w, n + 1) => Within(g, u, w, n)
  <2>1. n + 1 > 0 /\ (n + 1) - 1 = n
    OBVIOUS
  <2> QED BY <2>1 DEF AtDistance
<1> DEFINE S == {k \in Nat : \A w : Within(g, u, w, n + k) => Within(g, u, w, n)}
<1>2. 0 \in S
  OBVIOUS
<1>3. ASSUME NEW k \in Nat, k \in S PROVE k + 1 \in S
  <2>1. SUFFICES ASSUME NEW w, Within(g, u, w, n + (k + 1)) PROVE Within(g, u, w, n)
    OBVIOUS
  <2>2. n + k \in Nat /\ n + (k + 1) = (n + k) + 1
    OBVIOUS
  <2>3. Within(g, u, w, n + k) \/ \E x : Within(g, u, x, n + k) /\ w \in g[x]
    BY <2>1, <2>2, WithinStep
  <2> QED BY <2>3, <1>1, <1>3, WithinStep
<1>4. Nat \subseteq S
  <2> HIDE DEF S
  <2> QED BY <1>2, <1>3, SetInduction
<1>5. Within(g, u, v, n + m)
  BY WithinMonotone
<1> QED BY <1>4, <1>5

\* A walk of a and then b edges over a used vertex puts it in Via.
LEMMA ViaIntro ==
    ASSUME NEW x, NEW y, NEW u \in usd, NEW a \in Nat, NEW b \in Nat, NEW n \in Nat,
           a + b <= n, Within(adj, x, u, a), Within(adj, u, y, b)
    PROVE  u \in Via(x, y, n)
<1>1. a \in 0..n /\ n - a \in Nat /\ b <= n - a
  OBVIOUS
<1>2. Within(adj, u, y, n - a)
  BY <1>1, WithinMonotone
<1> QED BY <1>1, <1>2 DEF Via

\* Taking the parts of such a walk.
LEMMA ViaElim ==
    ASSUME NEW x, NEW y, NEW n \in Nat, NEW u \in Via(x, y, n)
    PROVE  /\ u \in usd
           /\ \E a, b \in Nat : a + b = n /\ Within(adj, x, u, a) /\ Within(adj, u, y, b)
<1>1. u \in usd
  BY DEF Via
<1>2. PICK a \in 0..n : Within(adj, x, u, a) /\ Within(adj, u, y, n - a)
  BY DEF Via
<1>3. a \in Nat /\ n - a \in Nat /\ a + (n - a) = n
  OBVIOUS
<1> QED BY <1>1, <1>2, <1>3

\* A longer walk goes through the vertices of a shorter one.
LEMMA ViaMonotone ==
    ASSUME NEW x, NEW y, NEW m \in Nat, NEW n \in Nat, m <= n
    PROVE  Via(x, y, m) \subseteq Via(x, y, n)
<1>1. SUFFICES ASSUME NEW u \in Via(x, y, m) PROVE u \in Via(x, y, n)
  OBVIOUS
<1>2. PICK a, b \in Nat : a + b = m /\ Within(adj, x, u, a) /\ Within(adj, u, y, b)
  BY ViaElim
<1> QED BY <1>2, ViaElim, ViaIntro

\* An edge at the end lengthens a walk by one.
LEMMA ViaStep ==
    ASSUME NEW x, NEW w, NEW y \in adj[w], NEW n \in Nat
    PROVE  Via(x, w, n) \subseteq Via(x, y, n + 1)
<1>1. SUFFICES ASSUME NEW u \in Via(x, w, n) PROVE u \in Via(x, y, n + 1)
  OBVIOUS
<1>2. PICK a, b \in Nat : a + b = n /\ Within(adj, x, u, a) /\ Within(adj, u, w, b)
  BY ViaElim
<1>3. Within(adj, u, y, b + 1)
  BY <1>2, WithinStep
<1>4. a + (b + 1) <= n + 1 /\ b + 1 \in Nat /\ n + 1 \in Nat
  BY <1>2
<1> QED BY <1>2, <1>3, <1>4, ViaElim, ViaIntro

\* A vertex at distance n + 1 has a neighbour at distance n.
LEMMA Predecessor ==
    ASSUME NEW g, NEW x, NEW y, NEW n \in Nat, AtDistance(g, x, y, n + 1)
    PROVE  \E w : AtDistance(g, x, w, n) /\ y \in g[w]
<1>1. Within(g, x, y, n + 1) /\ ~Within(g, x, y, n)
  <2>1. n + 1 > 0 /\ (n + 1) - 1 = n
    OBVIOUS
  <2> QED BY <2>1 DEF AtDistance
<1>2. PICK w : Within(g, x, w, n) /\ y \in g[w]
  BY <1>1, WithinStep
<1>3. ASSUME n > 0 PROVE ~Within(g, x, w, n - 1)
  <2>1. n - 1 \in Nat /\ (n - 1) + 1 = n
    BY <1>3
  <2> QED BY <2>1, <1>1, <1>2, WithinStep
<1> QED BY <1>2, <1>3 DEF AtDistance

\* Vertices near a vertex are vertices.
LEMMA WithinVertex ==
    ASSUME NEW g \in Graphs, NEW x \in Vertex, NEW y, NEW n \in Nat, Within(g, x, y, n)
    PROVE  y \in Vertex
<1>1. \A z \in Vertex : g[z] \subseteq Vertex
  BY GraphAssumption
<1> DEFINE S == {k \in Nat : \A z : Within(g, x, z, k) => z \in Vertex}
<1>2. 0 \in S
  BY WithinZero
<1>3. ASSUME NEW k \in Nat, k \in S PROVE k + 1 \in S
  BY <1>1, <1>3, WithinStep
<1>4. Nat \subseteq S
  <2> HIDE DEF S
  <2> QED BY <1>2, <1>3, SetInduction
<1> QED BY <1>4

-----------------------------------------------------------------------------
(***************************************************************************)
(* The bounds of trees and hubs.                                           *)
(***************************************************************************)
\* A tree's bound is a number, and a tree considered for one limit is for any larger.
LEMMA TreeNumbers ==
    ASSUME IndexTypeOK, NEW x \in Vertex, NEW y \in Vertex, NEW i \in Tree
    PROVE  /\ TreeTd(x, y, i) \in Nat
           /\ Corrected(x, y, i) \in Nat
           /\ \A m, n \in Nat : m <= n /\ Considered(TreeTd(x, y, i), m)
                                => Considered(TreeTd(x, y, i), n)
<1>1. bpspt_d[x][i] \in Nat /\ bpspt_d[y][i] \in Nat
  BY DEF IndexTypeOK
<1>2. TreeTd(x, y, i) \in Nat
  BY <1>1 DEF TreeTd
<1>3. Saved(bpspt_s[x][i], bpspt_s[y][i]) \in {0, 1, 2}
  BY DEF Saved
<1>4. \A k \in Int : k % Word \in Nat
  BY Numbers
<1>5. Corrected(x, y, i) \in Nat
  BY <1>2, <1>3, <1>4 DEF Corrected
<1>6. (TreeTd(x, y, i) - 2) % Word \in Nat
  BY <1>2, <1>4
<1> QED BY <1>2, <1>5, <1>6 DEF Considered

\* A tree that bounds a distance below INF8 stands for a walk through a used vertex.
LEMMA TreeBoundIsWalk ==
    ASSUME IndexTypeOK, TreesSound, NEW x \in Vertex, NEW y \in Vertex, NEW i \in Tree,
           NEW n \in Nat, n < INF8, Considered(TreeTd(x, y, i), INF8), Corrected(x, y, i) <= n
    PROVE  Via(x, y, n) # {}
<1>1. Corrected(x, y, i) \in Nat /\ Corrected(x, y, i) < INF8
  BY TreeNumbers, Numbers
<1>2. Via(x, y, Corrected(x, y, i)) # {}
  BY <1>1 DEF TreesSound
<1> QED BY <1>1, <1>2, ViaMonotone

\* A bound by hubs is the sum of two labels with the same hub.
LEMMA HubBoundElim ==
    ASSUME NEW lx, NEW ly, WellFormed(lx), WellFormed(ly), NEW m \in HubBounds(lx, ly)
    PROVE  \E h \in Vertex : \E a, b \in 0..(Byte - 1) :
              <<h, a>> \in Labels(lx) /\ <<h, b>> \in Labels(ly) /\ m = a + b
<1>1. PICK p \in Entries(lx) \X Entries(ly) :
          p[1][1] = p[2][1] /\ p[1][1] # NumV /\ m = p[1][2] + p[2][2]
  BY DEF HubBounds
<1>2. lx \in Seq(Label) /\ ly \in Seq(Label)
  BY DEF WellFormed
<1>3. p[1] \in Entries(lx) /\ p[2] \in Entries(ly)
  BY <1>1
<1>4. p[1] = <<p[1][1], p[1][2]>> /\ p[2] = <<p[2][1], p[2][2]>>
  BY <1>2, <1>3, EntriesOfList
<1>5. p[1] # Sentinel /\ p[2] # Sentinel
  BY <1>1 DEF Sentinel
<1>6. p[1] \in Labels(lx) /\ p[2] \in Labels(ly)
  BY <1>3, <1>5 DEF Labels
<1>7. p[1][1] \in Vertex /\ p[1][2] \in 0..(Byte - 1) /\ p[2][2] \in 0..(Byte - 1)
  BY <1>6, WellFormedEntries
<1> QED BY <1>1, <1>4, <1>6, <1>7

\* Two entries with the same vertex as hub give a bound.
LEMMA HubBoundIntro ==
    ASSUME NEW lx, NEW ly, NEW h \in Vertex, NEW a, NEW b,
           <<h, a>> \in Entries(lx), <<h, b>> \in Entries(ly)
    PROVE  a + b \in HubBounds(lx, ly)
<1> DEFINE p == <<<<h, a>>, <<h, b>>>>
<1>1. p \in Entries(lx) \X Entries(ly) /\ p[1][1] = h /\ p[2][1] = h
      /\ p[1][2] = a /\ p[2][2] = b
  OBVIOUS
<1>2. h # NumV
  BY Numbers DEF Vertex
<1> HIDE DEF p
<1> QED BY <1>1, <1>2 DEF HubBounds

\* A well-formed list has one entry for a hub.
LEMMA OneEntryPerHub ==
    ASSUME NEW list, WellFormed(list), NEW e \in Entries(list), NEW f \in Entries(list),
           e[1] = f[1]
    PROVE  e = f
<1>1. PICK i \in 1..Len(list) : e = list[i]
  BY DEF Entries
<1>2. PICK j \in 1..Len(list) : f = list[j]
  BY DEF Entries
<1>3. list \in Seq(Label) /\ Len(list) \in Nat
  BY DEF WellFormed
<1>4. e[1] \in Int /\ f[1] \in Int
  BY <1>3, EntriesOfList
<1>5. ~(i < j) /\ ~(j < i)
  BY <1>1, <1>2, <1>4 DEF WellFormed
<1> QED BY <1>1, <1>2, <1>3, <1>5
=============================================================================

------------------------- MODULE PreparationProofs -------------------------
(***************************************************************************)
(* A whole life of an index, for every input, order, graph, number of      *)
(* threads and of samples, and wherever an interrupt comes.                *)
(*                                                                         *)
(*   - An interrupt never leaves a ranking made from half of the samples:  *)
(*     a thread that skips one has seen the interrupt, which only the end  *)
(*     of the loop forgets.                                                *)
(*   - The order the graph is labelled in has every vertex once.  Degrees  *)
(*     with their random parts, ties going to the larger vertex, are a     *)
(*     strict total order.  A ranking has all nodes of a graph, which may  *)
(*     go on behind the last vertex; those have no edge, so they do not    *)
(*     score, and come after every vertex that does not score either.      *)
(*   - The graph that was read is the file.                                *)
(*   - What is labelled is the graph of the input in other names, so       *)
(*     queries in the numbers of the input are answered as the oracle of   *)
(*     the input promises.                                                 *)
(*   - A node scores only if it lies strictly inside a shortest path.      *)
(***************************************************************************)
EXTENDS Preparation, ConstructIndexProofs, SequenceTheorems

(***************************************************************************)
(* Interrupts.                                                             *)
(***************************************************************************)
\* Samples are worked on inside the loop only, and one is skipped for an interrupt only.
SamplingInv ==
    /\ running # "sampling" => \A thread \in Threads : sample[thread] = NoSample
    /\ skipped /\ running = "sampling" => receivedSIGINT
    /\ RankingComplete

\* A new life.
LEMMA SamplingInit == LifeInit => SamplingInv
    BY DEF LifeInit, BetweennessInit, SamplingInv, RankingComplete

\* Every step of the ranking keeps the invariant.
LEMMA RunStep ==
    ASSUME SamplingInv, Run \/ Interrupt
    PROVE  SamplingInv'
<1>1. CASE RunTrivial
    BY <1>1 DEF RunTrivial, samplingVars, SamplingInv, RankingComplete
<1>2. CASE RunBegin
    BY <1>2 DEF RunBegin, SamplingInv, RankingComplete
<1>3. CASE Interrupt
    BY <1>3 DEF Interrupt, samplingVars, SamplingInv, RankingComplete
<1>4. ASSUME NEW thread \in Threads,
             DrawSample(thread) \/ SkipSample(thread) \/ SearchPaths(thread) \/ WalkBack(thread)
      PROVE  SamplingInv'
  <2>1. running = "sampling"
    BY <1>4 DEF DrawSample, SkipSample, SearchPaths, WalkBack, SamplingInv
  <2>2. running' = running /\ receivedSIGINT' = receivedSIGINT
    BY <1>4 DEF DrawSample, SkipSample, SearchPaths, WalkBack
  <2>3. skipped' = skipped \/ receivedSIGINT
    BY <1>4 DEF DrawSample, SkipSample, SearchPaths, WalkBack
  <2> QED
    BY <2>1, <2>2, <2>3 DEF SamplingInv, RankingComplete
<1>5. CASE Join
    BY <1>5 DEF Join, SamplingInv, RankingComplete
<1> QED
    BY <1>1, <1>2, <1>3, <1>4, <1>5 DEF Run

\* No other step touches the samples.
LEMMA SamplingStep == SamplingInv /\ [LifeNext]_lifeVars => SamplingInv'
<1> SUFFICES ASSUME SamplingInv, [LifeNext]_lifeVars PROVE SamplingInv'
    OBVIOUS
<1>1. CASE RankVertices \/ InterruptRanking
    BY <1>1, RunStep DEF RankVertices, InterruptRanking
<1>2. CASE UNCHANGED <<running, sample, receivedSIGINT, skipped>>
    BY <1>2 DEF SamplingInv, RankingComplete
<1>3. ASSUME \/ ReadFile \/ ReadFailed \/ MakeGraph \/ GiveEdge \/ GraphGiven \/ ListEdges
             \/ ReadStream \/ BuildGraph \/ OrderByDegree \/ RankingInterrupted \/ OrderByRanking \/ Relabel
      PROVE  UNCHANGED <<running, sample, receivedSIGINT, skipped>>
    BY <1>3 DEF ReadFile, ReadFailed, MakeGraph, GiveEdge, GraphGiven, ListEdges, ReadStream, BuildGraph,
        OrderByDegree, RankingInterrupted, OrderByRanking, Relabel, rankVars, samplingVars,
        prepVars
<1>4. ASSUME \/ LabelVertices
             \/ \E x, y \in 0..NumV : Ask(x, y)
             \/ Return /\ UNCHANGED prepVars
             \/ Stopped /\ UNCHANGED prepVars
             \/ UNCHANGED lifeVars
      PROVE  UNCHANGED <<running, sample, receivedSIGINT, skipped>>
    BY <1>4 DEF LabelVertices, Ask, lifeVars, prepVars, rankVars, samplingVars
<1> QED
    BY <1>1, <1>2, <1>3, <1>4 DEF LifeNext, Prepare

\* A ranking that comes into being is one of all samples.
THEOREM RankingIsComplete == LifeSpec => []RankingComplete
<1>1. SamplingInv => RankingComplete
    BY DEF SamplingInv
<1> QED
    BY <1>1, SamplingInit, SamplingStep, PTL DEF LifeSpec

(***************************************************************************)
(* The order of the degrees.                                               *)
(***************************************************************************)
\* Sequences put one behind the other are a sequence.
LEMMA FlattenType ==
    ASSUME NEW S, NEW s \in Seq(Seq(S))
    PROVE  FlattenSeq(s) \in Seq(S)
<1> DEFINE n == Len(s)
           Longer(f, i) == IF i = 1 THEN s[i] ELSE f[i - 1] \o s[i]
           Obeys(f, m) == \A i \in 1..m : f[i] = Longer(f, i)
           A == {m \in Nat : m <= n => \E f : Obeys(f, m)}
<1>1. n \in Nat /\ \A i \in 1..n : s[i] \in Seq(S)
  BY ElementOfSeq, LenProperties
<1>2. CASE n = 0
  BY <1>2, EmptySeq DEF FlattenSeq
<1>3. CASE n > 0
  <2>1. Nat \subseteq A
    <3>1. 0 \in A
      OBVIOUS
    <3>2. ASSUME NEW m \in Nat, m \in A PROVE m + 1 \in A
      <4> SUFFICES ASSUME m + 1 <= n PROVE \E f : Obeys(f, m + 1)
        OBVIOUS
      <4>1. PICK f : Obeys(f, m)
        <5>1. m <= n
          BY <1>1
        <5> HIDE DEF Obeys
        <5> QED BY <3>2, <5>1
      <4> DEFINE h == [i \in 1..(m + 1) |-> IF i = m + 1 THEN Longer(f, m + 1) ELSE f[i]]
      <4>2. ASSUME NEW i \in 1..(m + 1) PROVE h[i] = Longer(h, i)
        <5>1. i # 1 => h[i - 1] = f[i - 1]
          OBVIOUS
        <5>2. Longer(h, i) = Longer(f, i)
          BY <5>1
        <5> QED BY <5>2, <4>1
      <4> HIDE DEF h
      <4> QED BY <4>2
    <3> HIDE DEF A
    <3> QED BY <3>1, <3>2, SetInduction
  <2>2. PICK f : Obeys(f, n)
    <3>1. n \in A
      <4> HIDE DEF A
      <4> QED BY <2>1, <1>1
    <3> HIDE DEF Obeys
    <3> QED BY <3>1, <1>1
  <2> DEFINE g == [i \in 1..n |-> f[i]]
             flatten == CHOOSE e : e = [i \in 1..n |-> Longer(e, i)]
  <2>3. g = [i \in 1..n |-> Longer(g, i)]
    <3>1. ASSUME NEW i \in 1..n PROVE g[i] = Longer(g, i)
      <4>1. i # 1 => g[i - 1] = f[i - 1]
        BY <1>1
      <4> QED BY <4>1, <2>2
    <3> HIDE DEF Longer
    <3> QED BY <3>1
  <2>4. flatten = [i \in 1..n |-> Longer(flatten, i)]
    <3> HIDE DEF Longer, g
    <3> QED BY <2>3
  <2>5. \A i \in 1..n : flatten[i] = Longer(flatten, i)
    <3> HIDE DEF Longer, flatten
    <3> QED BY <2>4
  <2> DEFINE B == {m \in Nat : m \in 1..n => flatten[m] \in Seq(S)}
  <2>6. Nat \subseteq B
    <3> HIDE DEF flatten
    <3>1. 0 \in B
      OBVIOUS
    <3>2. ASSUME NEW m \in Nat, m \in B PROVE m + 1 \in B
      <4> SUFFICES ASSUME m + 1 \in 1..n PROVE flatten[m + 1] \in Seq(S)
        OBVIOUS
      <4>1. flatten[m + 1] = IF m = 0 THEN s[m + 1] ELSE flatten[m] \o s[m + 1]
        BY <2>5
      <4>2. s[m + 1] \in Seq(S)
        BY <1>1
      <4>3. m # 0 => flatten[m] \in Seq(S)
        BY <3>2, <1>1
      <4> QED BY <4>1, <4>2, <4>3, ConcatProperties
    <3> HIDE DEF B
    <3> QED BY <3>1, <3>2, SetInduction
  <2>7. FlattenSeq(s) = flatten[n]
    BY <1>3 DEF FlattenSeq
  <2> HIDE DEF flatten
  <2> QED BY <2>6, <2>7, <1>1, <1>3
<1> QED BY <1>1, <1>2, <1>3

\* In a strict total order every element has a position of its own.
LEMMA OrderPositions ==
    ASSUME NEW n \in Nat, NEW B,
           \A v \in 0..(n - 1) : <<v, v>> \notin B,
           \A v, w \in 0..(n - 1) : v # w => <<v, w>> \in B \/ <<w, v>> \in B,
           \A u, v, w \in 0..(n - 1) : <<u, v>> \in B /\ <<v, w>> \in B => <<u, w>> \in B
    PROVE  LET pos == [v \in 0..(n - 1) |-> Cardinality({w \in 0..(n - 1) : <<w, v>> \in B})]
           IN  /\ \A v, w \in 0..(n - 1) : pos[v] = pos[w] => v = w
               /\ \A i \in 0..(n - 1) : \E v \in 0..(n - 1) : pos[v] = i
               /\ \A v \in 0..(n - 1) : pos[v] \in 0..(n - 1)
<1> DEFINE V == 0..(n - 1)
           Before(v) == {w \in V : <<w, v>> \in B}
           pos == [v \in V |-> Cardinality(Before(v))]
<1>1. IsFiniteSet(V) /\ Cardinality(V) = n
  BY FS_Interval
<1>2. \A v \in V : IsFiniteSet(Before(v)) /\ Cardinality(Before(v)) \in Nat
  <2> TAKE v \in V
  <2>1. Before(v) \in SUBSET V
    OBVIOUS
  <2> HIDE DEF Before, V
  <2> QED BY <2>1, <1>1, FS_Subset, FS_CardinalityType
<1>3. \A v \in V : pos[v] \in V
  <2> TAKE v \in V
  <2>1. Cardinality(Before(v)) <= Cardinality(V)
    BY <1>1, FS_Subset
  <2>2. Before(v) # V
    OBVIOUS
  <2>3. Before(v) \in SUBSET V
    OBVIOUS
  <2>4. Cardinality(V) = Cardinality(Before(v)) => V = Before(v)
    <3> HIDE DEF Before, V
    <3> QED BY <1>1, <2>3, FS_Subset
  <2>5. Cardinality(Before(v)) \in Nat /\ Cardinality(Before(v)) < n
    <3> HIDE DEF Before, V
    <3> QED BY <2>1, <2>2, <2>4, <1>1, <1>2
  <2>6. pos[v] = Cardinality(Before(v))
    OBVIOUS
  <2> HIDE DEF pos, Before
  <2> QED BY <2>5, <2>6
<1>4. ASSUME NEW v \in V, NEW w \in V, <<v, w>> \in B PROVE pos[v] # pos[w]
  <2>1. Before(v) \subseteq Before(w) /\ v \in Before(w) /\ v \notin Before(v)
    BY <1>4
  <2>2. Cardinality(Before(w)) = Cardinality(Before(v)) => Before(w) = Before(v)
    <3>1. Before(v) \in SUBSET Before(w) /\ IsFiniteSet(Before(w))
      BY <2>1, <1>2
    <3> HIDE DEF Before
    <3> QED BY <3>1, FS_Subset
  <2> QED BY <2>1, <2>2
<1>5. \A v, w \in V : pos[v] = pos[w] => v = w
  BY <1>4
<1>6. pos \in Injection(V, V)
  <2>1. pos \in [V -> V]
    BY <1>3
  <2> HIDE DEF pos
  <2> QED BY <2>1, <1>5 DEF Injection, IsInjective
<1>7. pos \in Surjection(V, V)
  <2> HIDE DEF pos, V
  <2> QED BY <1>1, <1>6, FS_Injection
<1>8. \A i \in V : \E v \in V : pos[v] = i
  <2> HIDE DEF pos
  <2> QED BY <1>7 DEF Surjection
<1> QED BY <1>3, <1>5, <1>8

\* A degree is a number.
LEMMA DegreeIsNat ==
    ASSUME IsFiniteSet(DOMAIN es), NEW v
    PROVE  Degree(v) \in Nat
<1>1. ASSUME NEW T \in SUBSET DOMAIN es PROVE Cardinality(T) \in Nat
  BY FS_Subset, FS_CardinalityType
<1>2. /\ Cardinality({i \in DOMAIN es : es[i][1] = v}) \in Nat
      /\ Cardinality({i \in DOMAIN es : es[i][2] = v}) \in Nat
  BY <1>1
<1> QED BY <1>2 DEF Degree

\* Whatever the random parts are, the order of the degrees has every vertex once.
LEMMA DegreeOrder ==
    ASSUME IsFiniteSet(DOMAIN es), NEW random \in [Vertex -> 0..Jitter]
    PROVE  {OrderedWith(random)[i] : i \in Vertex} = Vertex
<1> DEFINE key(v) == Jitter * Degree(v) + random[v]
           before(v, w) == key(v) > key(w) \/ (key(v) = key(w) /\ v > w)
           B == {p \in Vertex \X Vertex : before(p[1], p[2])}
           pos == [v \in Vertex |-> Cardinality({w \in Vertex : <<w, v>> \in B})]
           order == OrderedWith(random)
<1>1. NumV \in Nat
  BY GraphAssumption
<1>2. \A v \in Vertex : key(v) \in Int /\ v \in Int
  <2> TAKE v \in Vertex
  <2>1. Degree(v) \in Nat /\ Jitter \in Nat /\ random[v] \in Nat
    BY DegreeIsNat, JitterAssumption
  <2>2. \A a, b, c \in Nat : a * b + c \in Int
    OBVIOUS
  <2> QED BY <2>1, <2>2, <1>1 DEF Vertex
<1>3. \A v, w \in Vertex : <<v, w>> \in B <=> before(v, w)
  OBVIOUS
<1> HIDE DEF key
<1>4. /\ \A v \in Vertex : ~before(v, v)
      /\ \A v, w \in Vertex : v # w => before(v, w) \/ before(w, v)
      /\ \A u, v, w \in Vertex : before(u, v) /\ before(v, w) => before(u, w)
  BY <1>2
<1>5. \A v \in Vertex : {w \in Vertex : <<w, v>> \in B} = {w \in Vertex : before(w, v)}
  BY <1>3
<1> HIDE DEF B
<1>6. /\ \A v, w \in Vertex : pos[v] = pos[w] => v = w
      /\ \A i \in Vertex : \E v \in Vertex : pos[v] = i
      /\ \A v \in Vertex : pos[v] \in Vertex
  <2>1. /\ \A v \in Vertex : <<v, v>> \notin B
        /\ \A v, w \in Vertex : v # w => <<v, w>> \in B \/ <<w, v>> \in B
        /\ \A u, v, w \in Vertex : <<u, v>> \in B /\ <<v, w>> \in B => <<u, w>> \in B
    <3> HIDE DEF before
    <3> QED BY <1>3, <1>4
  <2> QED BY <2>1, <1>1, OrderPositions DEF Vertex
<1>7. \A v \in Vertex : pos[v] = Cardinality({w \in Vertex : before(w, v)})
  BY <1>5
<1>8. order = [i \in Vertex |-> CHOOSE v \in Vertex : pos[v] = i]
  <2>1. order = [i \in Vertex |->
                    CHOOSE v \in Vertex : Cardinality({w \in Vertex : before(w, v)}) = i]
    BY DEF OrderedWith, key
  <2> HIDE DEF pos, before, order
  <2> QED BY <2>1, <1>7
<1> HIDE DEF pos, order
<1>9. \A i \in Vertex : order[i] \in Vertex /\ pos[order[i]] = i
  BY <1>6, <1>8
<1> QED BY <1>6, <1>9 DEF order

(***************************************************************************)
(* The inductive invariant behind OrderIsPermutation.                      *)
(***************************************************************************)
\* A graph of n nodes; if it is not directed both ends of an edge know it.
IsGraph(g, n) ==
    LET node == 0..(n - 1)
    IN  /\ g \in [directed : BOOLEAN, out : [node -> Seq(node)], in : [node -> Seq(node)]]
        /\ ~g.directed => \A u, v \in node : v \in ToSet(g.out[u]) => u \in ToSet(g.out[v])

\* What is read is a graph, and streams are not read into one.
GraphInv ==
    /\ input \in Inputs
    /\ line \in Nat /\ line > 0
    /\ reading \in {"second pass", "given", "read"} => \E n \in Nat : IsGraph(G, n)
    /\ reading = "given" => input.caller = "library" /\ IsGraph(G, input.nodes)
    /\ input.caller = "stream" => reading = "first pass"

\* The edges are those of the graph or of the stream, and V is counted from them.
Ends == UNION {{es[i][1], es[i][2]} : i \in DOMAIN es}

ListedInv ==
    /\ pc \in {"edges", "order"} =>
          IF input.caller = "stream" THEN IsFiniteSet(DOMAIN es)
          ELSE reading = "read" /\ es = EdgesOf(G)
    /\ pc = "order" => NumV - 1 \in Ends /\ \A v \in Ends : v < NumV

\* Nodes that score have an edge, and the first NumV of a ranking are the vertices.
Scored(score) ==
    /\ score \in [NodesOf(G) -> Nat]
    /\ \A z \in NodesOf(G) : score[z] > 0 => ToSet(G.out[z]) # {}

RankInv ==
    /\ pc \in {"read", "edges"} => running = "start"
    /\ running = "sampling" =>
          /\ pc = "order" /\ input.caller # "stream"
          /\ scorePerThread \in [Threads -> [NodesOf(G) -> Nat]]
          /\ \A thread \in Threads : Scored(scorePerThread[thread])
    /\ running = "ranked" /\ pc = "order" => {ranking[i + 1] : i \in Vertex} = Vertex

OrderInv == GraphInv /\ ListedInv /\ RankInv /\ OrderIsPermutation


(***************************************************************************)
(* The graph that is read or given.                                        *)
(***************************************************************************)
\* What a sequence contains after an element was added.
LEMMA AppendContent ==
    ASSUME NEW S, NEW s \in Seq(S), NEW e \in S
    PROVE  /\ Append(s, e) \in Seq(S)
           /\ ToSet(Append(s, e)) = ToSet(s) \cup {e}
<1>1. /\ Append(s, e) \in Seq(S) /\ Len(s) \in Nat
      /\ DOMAIN s = 1..Len(s) /\ DOMAIN Append(s, e) = 1..(Len(s) + 1)
      /\ \A k \in 1..Len(s) : Append(s, e)[k] = s[k]
      /\ Append(s, e)[Len(s) + 1] = e
  OBVIOUS
<1> DEFINE t == Append(s, e)
<1> HIDE DEF t
<1>2. /\ t \in Seq(S)
      /\ Len(s) \in Nat /\ DOMAIN s = 1..Len(s) /\ DOMAIN t = 1..(Len(s) + 1)
      /\ \A k \in 1..Len(s) : t[k] = s[k]
      /\ t[Len(s) + 1] = e
  BY <1>1 DEF t
<1>3. ToSet(t) = ToSet(s) \cup {e}
  <2>1. ASSUME NEW x \in ToSet(t) PROVE x \in ToSet(s) \cup {e}
    <3>1. PICK k \in 1..(Len(s) + 1) : t[k] = x
      BY <1>2 DEF ToSet
    <3>2. CASE k \in 1..Len(s)
      <4>1. k \in DOMAIN s /\ s[k] = x
        BY <3>1, <3>2, <1>2
      <4> QED BY <4>1 DEF ToSet
    <3>3. CASE k = Len(s) + 1
      BY <3>1, <3>3, <1>2
    <3> QED BY <3>2, <3>3, <1>2
  <2>2. ASSUME NEW x \in ToSet(s) PROVE x \in ToSet(t)
    <3>1. PICK k \in 1..Len(s) : s[k] = x
      BY <1>2 DEF ToSet
    <3>2. k \in DOMAIN t /\ t[k] = x
      BY <3>1, <1>2
    <3> QED BY <3>2 DEF ToSet
  <2>3. e \in ToSet(t)
    <3>1. \E k \in DOMAIN t : t[k] = e
      BY <1>2
    <3> QED BY <3>1 DEF ToSet
  <2> QED BY <2>1, <2>2, <2>3
<1> QED BY <1>2, <1>3 DEF t

\* A graph starts without edges,
LEMMA EmptyIsGraph ==
    ASSUME NEW n \in Nat, NEW directed \in BOOLEAN
    PROVE  IsGraph(EmptyGraph(n, directed), n)
<1> DEFINE none == [u \in 0..(n - 1) |-> <<>>]
<1>1. none \in [0..(n - 1) -> Seq(0..(n - 1))]
  BY EmptySeq
<1>2. \A u \in 0..(n - 1) : ToSet(none[u]) = {}
  BY DEF ToSet
<1> QED BY <1>1, <1>2 DEF IsGraph, EmptyGraph

\* and is one with each edge that is added.
LEMMA AddEdgeIsGraph ==
    ASSUME NEW n \in Nat, NEW g, IsGraph(g, n), NEW u \in 0..(n - 1), NEW v \in 0..(n - 1)
    PROVE  IsGraph(AddEdge(g, u, v), n)
<1> DEFINE node == 0..(n - 1)
           h == AddEdge(g, u, v)
<1>1. g \in [directed : BOOLEAN, out : [node -> Seq(node)], in : [node -> Seq(node)]]
  BY DEF IsGraph
<1> HIDE DEF node
<1>2. ASSUME NEW s \in Seq(node), NEW e \in node
      PROVE  Append(s, e) \in Seq(node) /\ ToSet(Append(s, e)) = ToSet(s) \cup {e}
  BY AppendContent
<1>3. u \in node /\ v \in node
  BY DEF node
<1>4. CASE g.directed
  <2> DEFINE out == [g.out EXCEPT ![u] = Append(g.out[u], v)]
             into == [g.in EXCEPT ![v] = Append(g.in[v], u)]
  <2>1. h = [g EXCEPT !.out = out, !.in = into]
    BY <1>1, <1>4 DEF AddEdge
  <2>2. out \in [node -> Seq(node)] /\ into \in [node -> Seq(node)]
    BY <1>1, <1>2, <1>3
  <2>3. h \in [directed : BOOLEAN, out : [node -> Seq(node)], in : [node -> Seq(node)]]
        /\ h.directed
    <3> HIDE DEF out, into
    <3> QED BY <2>1, <2>2, <1>1, <1>4
  <2>4. IsGraph(h, n)
    <3> HIDE DEF h
    <3> QED BY <2>3 DEF IsGraph, node
  <2> QED BY <2>4
<1>5. CASE ~g.directed
  <2> DEFINE out == [x \in node |-> IF x = u THEN Append(g.out[x], v)
                                    ELSE IF x = v THEN Append(g.out[x], u) ELSE g.out[x]]
  <2>1. NodesOf(g) = node
    BY <1>1 DEF NodesOf
  <2>2. h = [g EXCEPT !.out = out]
    BY <2>1, <1>5 DEF AddEdge
  <2>3. out \in [node -> Seq(node)]
    BY <1>1, <1>2, <1>3
  <2>4. /\ h \in [directed : BOOLEAN, out : [node -> Seq(node)], in : [node -> Seq(node)]]
        /\ ~h.directed /\ h.out = out
    <3> HIDE DEF out
    <3> QED BY <2>2, <2>3, <1>1, <1>5
  <2>5. \A x \in node : ToSet(out[x]) = ToSet(g.out[x]) \cup
            (IF x = u THEN {v} ELSE IF x = v THEN {u} ELSE {})
    BY <1>1, <1>2, <1>3
  <2>6. \A x, y \in node : y \in ToSet(g.out[x]) => x \in ToSet(g.out[y])
    BY <1>5 DEF IsGraph, node
  <2>7. \A x, y \in node : y \in ToSet(out[x]) => x \in ToSet(out[y])
    <3> HIDE DEF out
    <3> QED BY <2>5, <2>6
  <2>8. IsGraph(h, n)
    <3> HIDE DEF out, h
    <3> QED BY <2>4, <2>7 DEF IsGraph, node
  <2> QED BY <2>8
<1>6. g.directed \in BOOLEAN
  BY <1>1
<1> QED BY <1>4, <1>5, <1>6

\* The edges of a graph have their ends among its nodes, and every node with a neighbour
\* is the end of one.
LEMMA EdgesListed ==
    ASSUME NEW n \in Nat, NEW g, IsGraph(g, n)
    PROVE  LET list == EdgesOf(g)
           IN  /\ \A i \in DOMAIN list :
                     list[i][1] \in 0..(n - 1) /\ list[i][2] \in 0..(n - 1)
               /\ \A u \in NodesOf(g) : ToSet(g.out[u]) # {} =>
                     \E i \in DOMAIN list : u \in {list[i][1], list[i][2]}
<1> DEFINE node == 0..(n - 1)
           places == UNION {{u} \X DOMAIN g.out[u] : u \in NodesOf(g)}
           counts(p) == g.directed \/ p[1] >= g.out[p[1]][p[2]]
           list == EdgesOf(g)
<1>1. g \in [directed : BOOLEAN, out : [node -> Seq(node)], in : [node -> Seq(node)]]
      /\ NodesOf(g) = node
  BY DEF IsGraph, NodesOf
<1>2. list = [p \in {q \in places : counts(q)} |-> <<p[1], g.out[p[1]][p[2]]>>]
  BY DEF EdgesOf
<1>3. \A u \in node : \A k \in DOMAIN g.out[u] : <<u, k>> \in places
  BY <1>1
<1>4. \A p \in places : \E u \in node : \E k \in DOMAIN g.out[u] : p = <<u, k>>
  BY <1>1
<1>5. \A u \in node : \A k \in DOMAIN g.out[u] : g.out[u][k] \in node
  <2> TAKE u \in node
  <2>1. g.out[u] \in Seq(node)
    BY <1>1
  <2> HIDE DEF node
  <2> QED BY <2>1
<1> HIDE DEF list, places
<1>6. ASSUME NEW i \in DOMAIN list PROVE list[i][1] \in node /\ list[i][2] \in node
  <2>1. i \in places /\ list[i] = <<i[1], g.out[i[1]][i[2]]>>
    BY <1>2
  <2>2. PICK u \in node : \E k \in DOMAIN g.out[u] : i = <<u, k>>
    BY <1>4, <2>1
  <2> QED BY <2>1, <2>2, <1>5
<1>7. ASSUME NEW u \in node, NEW k \in DOMAIN g.out[u], counts(<<u, k>>)
      PROVE  <<u, k>> \in DOMAIN list /\ list[<<u, k>>] = <<u, g.out[u][k]>>
  BY <1>2, <1>3, <1>7
<1>8. ASSUME NEW u \in node, ToSet(g.out[u]) # {}
      PROVE  \E i \in DOMAIN list : u \in {list[i][1], list[i][2]}
  <2>1. PICK k \in DOMAIN g.out[u] : TRUE
    BY <1>8 DEF ToSet
  <2> DEFINE v == g.out[u][k]
  <2>2. v \in node
    BY <1>5
  <2>3. CASE g.directed \/ u >= v
    <3>1. counts(<<u, k>>)
      BY <2>3
    <3>2. <<u, k>> \in DOMAIN list /\ list[<<u, k>>] = <<u, v>>
      BY <3>1, <1>7
    <3> QED BY <3>2
  <2>4. CASE ~g.directed /\ ~(u >= v)
    <3>1. u \in ToSet(g.out[v])
      BY <2>1, <2>2, <2>4 DEF IsGraph, ToSet
    <3>2. PICK j \in DOMAIN g.out[v] : g.out[v][j] = u
      BY <3>1 DEF ToSet
    <3>3. v >= u
      BY <2>2, <2>4
    <3>4. counts(<<v, j>>)
      BY <3>2, <3>3
    <3>5. <<v, j>> \in DOMAIN list /\ list[<<v, j>>] = <<v, u>>
      BY <3>2, <3>4, <2>2, <1>7
    <3> QED BY <3>5
  <2> QED BY <2>3, <2>4
<1> QED BY <1>1, <1>6, <1>8 DEF list

(***************************************************************************)
(* The ranking.                                                            *)
(***************************************************************************)
\* A node has scored in all threads together only if it has in one of them.
LEMMA TotalScored ==
    ASSUME scorePerThread \in [Threads -> [NodesOf(G) -> Nat]],
           \A thread \in Threads : Scored(scorePerThread[thread])
    PROVE  Scored(TotalScore)
<1>1. ASSUME NEW x \in NodesOf(G)
      PROVE  TotalScore[x] \in Nat /\ (TotalScore[x] > 0 => ToSet(G.out[x]) # {})
  <2> DEFINE points == [thread \in Threads |-> {thread} \X (1..scorePerThread[thread][x])]
             all == {points[thread] : thread \in Threads}
  <2>1. TotalScore[x] = Cardinality(UNION all)
    BY DEF TotalScore
  <2>2. \A thread \in Threads : scorePerThread[thread][x] \in Nat
    OBVIOUS
  <2>3. \A thread \in Threads : IsFiniteSet(points[thread])
    <3> TAKE thread \in Threads
    <3> DEFINE m == scorePerThread[thread][x]
    <3>1. 1 \in Int /\ m \in Int
      BY <2>2
    <3> HIDE DEF m
    <3>2. IsFiniteSet(1..m)
      BY <3>1, FS_Interval
    <3>3. IsFiniteSet({thread})
      BY FS_Singleton
    <3>4. IsFiniteSet({thread} \X (1..m))
      BY <3>2, <3>3, FS_Product
    <3> QED BY <3>4 DEF m
  <2>4. IsFiniteSet(all)
    <3>1. points \in Surjection(Threads, all)
      <4>1. points \in [Threads -> all]
        OBVIOUS
      <4> HIDE DEF points
      <4> QED BY <4>1 DEF Surjection
    <3> HIDE DEF points, all
    <3> QED BY <3>1, BetweennessAssumption, FS_Surjection
  <2>5. IsFiniteSet(UNION all)
    <3>1. \A T \in all : IsFiniteSet(T)
      BY <2>3
    <3> HIDE DEF all
    <3> QED BY <3>1, <2>4, FS_UNION
  <2>6. ASSUME ToSet(G.out[x]) = {} PROVE UNION all = {}
    <3>1. \A thread \in Threads : scorePerThread[thread][x] = 0
      BY <2>2, <2>6 DEF Scored
    <3>2. \A thread \in Threads : points[thread] = {}
      BY <3>1
    <3> HIDE DEF points
    <3> QED BY <3>2
  <2> HIDE DEF all
  <2>7. Cardinality(UNION all) \in Nat /\ (UNION all = {} => Cardinality(UNION all) = 0)
    BY <2>5, FS_CardinalityType, FS_EmptySet
  <2> QED BY <2>1, <2>6, <2>7
<1>2. TotalScore \in [NodesOf(G) -> Nat]
  <2>1. TotalScore = [x \in NodesOf(G) |-> TotalScore[x]]
    BY DEF TotalScore
  <2> QED BY <2>1, <1>1
<1> QED BY <1>1, <1>2 DEF Scored

\* Nodes behind the last edge do not score and come after all vertices that do not
\* score either, so the first NumV of a ranking are the vertices.
LEMMA VerticesRankFirst ==
    ASSUME NEW n \in Nat, NodesOf(G) = 0..(n - 1), NumV <= n,
           NEW score, Scored(score),
           \A z \in NodesOf(G) : ToSet(G.out[z]) # {} => z < NumV,
           NEW s \in Rankings(score)
    PROVE  {s[i + 1] : i \in Vertex} = Vertex
<1> DEFINE node == 0..(n - 1)
<1>1. IsFiniteSet(node) /\ Cardinality(node) = n /\ NumV \in Nat
  BY FS_Interval, Numbers
<1>2. s \in [1..n -> node] /\ \A i, j \in 1..n : i # j => s[i] # s[j]
  BY <1>1 DEF Rankings, SetToSeqs
<1>3. \A i, j \in 1..n : i < j => RankedBefore(score, s[i], s[j])
  BY <1>2 DEF Rankings
<1>4. \A x \in node : score[x] \in Nat /\ (score[x] > 0 => x < NumV)
  BY DEF Scored
<1>5. \A y \in node : \E j \in 1..n : s[j] = y
  <2>1. s \in Injection(1..n, node)
    BY <1>2 DEF Injection, IsInjective
  <2>2. Cardinality(1..n) = n /\ IsFiniteSet(1..n)
    BY FS_Interval
  <2>3. s \in Surjection(1..n, node)
    <3> HIDE DEF node
    <3> QED BY <2>1, <2>2, <1>1, FS_Injection
  <2> QED BY <2>3 DEF Surjection
<1>6. ASSUME NEW i \in Vertex PROVE s[i + 1] \in Vertex
  <2>1. i + 1 \in 1..n /\ i \in Nat /\ i < NumV
    BY <1>1 DEF Vertex
  <2>2. SUFFICES ASSUME s[i + 1] >= NumV PROVE FALSE
    BY <2>1, <1>1, <1>2 DEF Vertex
  <2>3. score[s[i + 1]] = 0 /\ s[i + 1] \in Nat
    BY <2>1, <2>2, <1>1, <1>2, <1>4
  <2>4. ASSUME NEW y \in Vertex PROVE \E j \in 1..i : s[j] = y
    <3>1. y \in node /\ y < NumV
      BY <1>1 DEF Vertex
    <3>2. PICK j \in 1..n : s[j] = y
      BY <3>1, <1>5
    <3>3. ~RankedBefore(score, s[i + 1], y)
      BY <3>1, <2>2, <2>3, <1>1, <1>4 DEF RankedBefore
    <3>4. j # i + 1 /\ ~(i + 1 < j)
      BY <3>1, <3>2, <3>3, <2>1, <2>2, <2>3, <1>1, <1>3
    <3> QED BY <3>2, <3>4, <2>1
  <2> DEFINE place == [y \in Vertex |-> CHOOSE j \in 1..i : s[j] = y]
  <2>5. \A y \in Vertex : place[y] \in 1..i /\ s[place[y]] = y
    BY <2>4
  <2>6. place \in Injection(Vertex, 1..i)
    <3>1. place \in [Vertex -> 1..i]
      BY <2>5
    <3> HIDE DEF place
    <3> QED BY <3>1, <2>5 DEF Injection, IsInjective
  <2>7. IsFiniteSet(1..i) /\ Cardinality(1..i) = i
    BY <2>1, FS_Interval
  <2>8. Cardinality(Vertex) <= i
    <3> HIDE DEF place
    <3> QED BY <2>6, <2>7, FS_Injection
  <2> QED BY <2>1, <2>8, <1>1, VertexFinite
<1> DEFINE first == [i \in Vertex |-> s[i + 1]]
<1>7. first \in Injection(Vertex, Vertex)
  <2>1. first \in [Vertex -> Vertex]
    BY <1>6
  <2>2. ASSUME NEW i \in Vertex, NEW j \in Vertex, i # j PROVE first[i] # first[j]
    <3>1. i + 1 \in 1..n /\ j + 1 \in 1..n /\ i + 1 # j + 1
      BY <2>2, <1>1 DEF Vertex
    <3> QED BY <3>1, <1>2
  <2> HIDE DEF first
  <2> QED BY <2>1, <2>2 DEF Injection, IsInjective
<1>8. first \in Surjection(Vertex, Vertex)
  <2> HIDE DEF first
  <2> QED BY <1>7, VertexFinite, FS_Injection
<1>9. \A v \in Vertex : \E i \in Vertex : first[i] = v
  <2> HIDE DEF first
  <2> QED BY <1>8 DEF Surjection
<1> QED BY <1>6, <1>9

\* Whatever the scores, a ranking of the graph begins with the vertices.
LEMMA RankingOrders ==
    ASSUME GraphInv, ListedInv, pc = "order", input.caller # "stream",
           NEW score, Scored(score), NEW s \in Rankings(score)
    PROVE  {s[i + 1] : i \in Vertex} = Vertex
<1>1. PICK n \in Nat : IsGraph(G, n)
  BY DEF GraphInv, ListedInv
<1>2. NodesOf(G) = 0..(n - 1)
  BY <1>1 DEF IsGraph, NodesOf
<1>3. es = EdgesOf(G) /\ NumV - 1 \in Ends /\ \A v \in Ends : v < NumV
  BY DEF ListedInv
<1>4. \A v \in Ends : v \in 0..(n - 1)
  BY <1>1, <1>3, EdgesListed DEF Ends
<1>5. NumV <= n
  BY <1>3, <1>4, Numbers
<1>6. ASSUME NEW z \in NodesOf(G), ToSet(G.out[z]) # {} PROVE z < NumV
  <2>1. z \in Ends
    BY <1>1, <1>3, <1>6, EdgesListed DEF Ends
  <2> QED BY <2>1, <1>3
<1> QED BY <1>2, <1>5, <1>6, VerticesRankFirst

(***************************************************************************)
(* What the steps of a life keep.                                          *)
(***************************************************************************)
\* The steps of labelling and of the queries leave the preparation alone, and their
\* places are behind it.
LEMMA LaterSteps ==
    ASSUME \/ LabelVertices
           \/ \E x, y \in 0..NumV : Ask(x, y)
           \/ Return /\ UNCHANGED prepVars
           \/ Stopped /\ UNCHANGED prepVars
           \/ UNCHANGED lifeVars
    PROVE  /\ UNCHANGED prepVars
           /\ UNCHANGED pc \/ {pc, pc'} \cap {"read", "edges", "order"} = {}
<1>1. CASE BitParallelNext /\ UNCHANGED <<prunedVars, answer, prepVars>>
  <2>1. UNCHANGED pc \/ /\ pc \in {"tree", "scan", "write"}
                        /\ pc' \in {"scan", "write", "tree", "root", "exited"}
    BY <1>1 DEF BitParallelNext, SelectRoot, NoRootLeft, ScanVertex, FoldLevel, WriteTree, TreesDone,
                indexVars, givenVars
  <2> QED BY <1>1, <2>1
<1>2. CASE PrunedNext /\ UNCHANGED <<bpVars, answer, prepVars>>
  <2>1. UNCHANGED pc \/ (pc \in {"root", "bfs"} /\ pc' \in {"root", "bfs", "done", "failed"})
    BY <1>2 DEF PrunedNext, SkipRoot, StartRoot, PruneVertex, LabelVertex, NextDepth, FinishRoot,
                CopyLabels, CopyFails, indexVars, givenVars
  <2> QED BY <1>2, <2>1
<1>3. CASE (\E x, y \in 0..NumV : Ask(x, y)) \/ (Return /\ UNCHANGED prepVars)
           \/ (Stopped /\ UNCHANGED prepVars) \/ UNCHANGED lifeVars
  BY <1>3 DEF Ask, Return, Stopped, lifeVars, vars, indexVars, prepVars
<1> QED BY <1>1, <1>2, <1>3 DEF LabelVertices

\* The steps of the ranking leave the graph and the edges alone.
LEMMA RankingSteps ==
    ASSUME RankVertices \/ InterruptRanking
    PROVE  UNCHANGED <<pc, inv, es, input, reading, line, G>> /\ pc = "order"
<1>1. ASSUME Run \/ Interrupt PROVE UNCHANGED <<input, reading, line, G>>
  BY <1>1 DEF Run, Interrupt, RunTrivial, RunBegin, DrawSample, SkipSample, SearchPaths, WalkBack,
              Join, readerVars
<1> QED BY <1>1 DEF RankVertices, InterruptRanking, vars, indexVars

\* The fields of a line are numbers, and only a text has some.
LEMMA LineFields ==
    ASSUME NEW l \in Line
    PROVE  l.fields \in Seq(Nat) /\ (l.kind # "text" => l.fields = <<>>)
<1>1. <<>> \in Seq(Nat)
  BY EmptySeq
<1>2. CASE l \in [kind : {"text"}, fields : Seq(Nat)]
  <2>1. l.kind = "text" /\ l.fields \in Seq(Nat)
    BY <1>2
  <2> QED BY <2>1
<1>3. CASE l \in {Comment, EmptyLine}
  <2>1. l.fields = <<>>
    BY <1>3 DEF Comment, EmptyLine
  <2> QED BY <1>1, <2>1
<1> QED BY <1>2, <1>3 DEF Line

\* The largest number in a file is one.
LEMMA LargestExists ==
    ASSUME NEW S, IsFiniteSet(S), S \subseteq Nat
    PROVE  (CHOOSE k \in S \cup {0} : \A n \in S : n <= k) \in Nat
<1> DEFINE T == {n \in Nat : \A R \in SUBSET Nat : IsFiniteSet(R) /\ Cardinality(R) = n
                                 => \E k \in R \cup {0} : \A l \in R : l <= k}
<1>1. 0 \in T
  BY FS_EmptySet
<1>2. ASSUME NEW n \in Nat, n \in T PROVE n + 1 \in T
  <2> SUFFICES ASSUME NEW R \in SUBSET Nat, IsFiniteSet(R), Cardinality(R) = n + 1
               PROVE  \E k \in R \cup {0} : \A l \in R : l <= k
    OBVIOUS
  <2>1. PICK x \in R : TRUE
    <3>1. n + 1 # 0 /\ Cardinality({}) = 0
      BY FS_EmptySet
    <3> QED BY <3>1
  <2>2. IsFiniteSet(R \ {x}) /\ Cardinality(R \ {x}) = n /\ R \ {x} \in SUBSET Nat
    <3>1. Cardinality(R \ {x}) = Cardinality(R) - 1 /\ IsFiniteSet(R \ {x})
      BY <2>1, FS_RemoveElement
    <3> QED BY <3>1
  <2>3. PICK k \in (R \ {x}) \cup {0} : \A l \in R \ {x} : l <= k
    BY <1>2, <2>2
  <2>4. k \in Nat /\ x \in Nat /\ k \in R \cup {0}
    BY <2>1, <2>3
  <2>5. CASE x <= k
    BY <2>3, <2>4, <2>5
  <2>6. CASE k < x
    <3>1. \A l \in R : l <= x
      BY <2>3, <2>4, <2>6
    <3> QED BY <2>1, <3>1
  <2> QED BY <2>4, <2>5, <2>6
<1>3. Nat \subseteq T
  <2> HIDE DEF T
  <2> QED BY <1>1, <1>2, SetInduction
<1>4. Cardinality(S) \in Nat
  BY FS_CardinalityType
<1>5. \E k \in S \cup {0} : \A n \in S : n <= k
  BY <1>3, <1>4
<1> DEFINE m == CHOOSE k \in S \cup {0} : \A n \in S : n <= k
<1>6. m \in S \cup {0}
  BY <1>5
<1>7. m \in Nat
  <2> HIDE DEF m
  <2> QED BY <1>6
<1> QED BY <1>7

\* Both passes of the reader keep a graph.
LEMMA ReadKeepsGraph ==
    ASSUME GraphInv, ReadFile
    PROVE  GraphInv'
<1>1. input.caller = "reader" /\ UNCHANGED input /\ input \in Inputs /\ line \in Nat /\ line > 0
  BY DEF ReadFile, GraphInv, ReaderNext, FirstPass, SkipLine, ReadEdge, ReadThrows, EndOfFile
<1>2. input.lines \in Seq(Line) /\ input.firstNode \in Nat /\ input.directed \in BOOLEAN
  BY <1>1, InputsAssumption
<1>3. CASE FirstPass
  <2> DEFINE texts == Texts(input.lines)
             numbers == UNION {{t.fields[1], t.fields[2]} : t \in texts}
             maxNode == CHOOSE m \in numbers \cup {0} : \A n \in numbers : n <= m
  <2>1. CASE reading' = "thrown"
    BY <1>1, <1>3, <2>1 DEF GraphInv, FirstPass
  <2>2. CASE reading' = "second pass"
    <3>1. /\ \A t \in texts : Len(t.fields) \in {2, 3}
          /\ ~(maxNode + 1 < input.firstNode)
          /\ G' = EmptyGraph(maxNode - input.firstNode + 1, input.directed)
          /\ line' = line
      BY <1>3, <2>2 DEF FirstPass
    <3>2. IsFiniteSet(ToSet(input.lines)) /\ \A t \in ToSet(input.lines) : t \in Line
      <4>1. DOMAIN input.lines = 1..Len(input.lines) /\ Len(input.lines) \in Nat
            /\ \A i \in 1..Len(input.lines) : input.lines[i] \in Line
        BY <1>2, LenProperties, ElementOfSeq
      <4>2. IsFiniteSet(1..Len(input.lines))
        BY <4>1, FS_Interval
      <4>3. input.lines \in Surjection(1..Len(input.lines), ToSet(input.lines))
        <5>1. input.lines \in [1..Len(input.lines) -> Line]
          BY <1>2, LenProperties
        <5>2. input.lines \in [1..Len(input.lines) -> ToSet(input.lines)]
          BY <4>1, <5>1 DEF ToSet
        <5> QED BY <4>1, <5>2 DEF Surjection, ToSet
      <4> QED BY <4>1, <4>2, <4>3, FS_Surjection DEF ToSet
    <3>3. texts \in SUBSET ToSet(input.lines)
      BY DEF Texts
    <3>4. IsFiniteSet(texts)
      BY <3>2, <3>3, FS_Subset
    <3>5. \A t \in texts : t.fields[1] \in Nat /\ t.fields[2] \in Nat
      <4> TAKE t \in texts
      <4>1. t.fields \in Seq(Nat) /\ Len(t.fields) \in {2, 3}
        BY <3>1, <3>2, <3>3, LineFields
      <4> DEFINE m == Len(t.fields)
      <4> HIDE DEF m
      <4>2. m \in {2, 3}
        BY <4>1 DEF m
      <4>3. 1 \in 1..m /\ 2 \in 1..m
        BY <4>2
      <4> QED BY <4>1, <4>3, ElementOfSeq DEF m
    <3>6. IsFiniteSet(numbers)
      <4> DEFINE pair == [t \in texts |-> {t.fields[1], t.fields[2]}]
                 pairs == {{t.fields[1], t.fields[2]} : t \in texts}
      <4>1. pair \in Surjection(texts, pairs)
        BY DEF Surjection
      <4>2. IsFiniteSet(pairs)
        <5> HIDE DEF pair, pairs, texts
        <5> QED BY <4>1, <3>4, FS_Surjection
      <4>3. \A T \in pairs : IsFiniteSet(T)
        <5>1. ASSUME NEW a, NEW b PROVE IsFiniteSet({a, b})
          <6>1. IsFiniteSet({a} \cup {b})
            BY FS_Singleton, FS_AddElement
          <6>2. {a, b} = {a} \cup {b}
            OBVIOUS
          <6> QED BY <6>1, <6>2
        <5> QED BY <5>1
      <4> HIDE DEF pairs
      <4>4. IsFiniteSet(UNION pairs)
        BY <4>2, <4>3, FS_UNION
      <4> QED BY <4>4 DEF pairs
    <3>7. maxNode \in Nat
      <4>1. numbers \subseteq Nat
        BY <3>5
      <4> HIDE DEF numbers
      <4> QED BY <3>6, <4>1, LargestExists
    <3> HIDE DEF maxNode
    <3>8. maxNode - input.firstNode + 1 \in Nat
      BY <1>2, <3>1, <3>7
    <3>9. IsGraph(G', maxNode - input.firstNode + 1)
      BY <1>2, <3>1, <3>8, EmptyIsGraph
    <3>10. \E n \in Nat : IsGraph(G', n)
      BY <3>8, <3>9
    <3>11. UNCHANGED <<input, line>>
      BY <1>1, <3>1
    <3> QED BY <1>1, <2>2, <3>10, <3>11 DEF GraphInv
  <2> QED BY <1>3, <2>1, <2>2 DEF FirstPass
<1>4. CASE ReadEdge
  <2>1. PICK n \in Nat : IsGraph(G, n)
    BY <1>4 DEF ReadEdge, GraphInv
  <2>2. NodesOf(G) = 0..(n - 1)
    BY <2>1 DEF IsGraph, NodesOf
  <2>3. PICK u \in NodesOf(G), v \in NodesOf(G) :
            G' = IF HasEdge(G, u, v) THEN G ELSE AddEdge(G, u, v)
    BY <1>4 DEF ReadEdge
  <2>4. IsGraph(G', n)
    BY <2>1, <2>2, <2>3, AddEdgeIsGraph
  <2>5. reading' = reading /\ reading = "second pass"
    BY <1>4 DEF ReadEdge
  <2>6. line' \in Nat /\ line' > 0
    <3>1. line \in Nat /\ line > 0
      BY <1>1
    <3>2. line' = line + 1
      BY <1>4 DEF ReadEdge
    <3> QED BY <3>1, <3>2
  <2>7. UNCHANGED input /\ \E k \in Nat : IsGraph(G', k)
    BY <1>1, <2>4
  <2> QED BY <1>1, <2>5, <2>6, <2>7 DEF GraphInv
<1>5. CASE SkipLine \/ ReadThrows \/ EndOfFile
  <2>1. /\ UNCHANGED G /\ reading = "second pass"
        /\ reading' \in {"second pass", "thrown", "read"}
    BY <1>5 DEF SkipLine, ReadThrows, EndOfFile
  <2>2. line' \in Nat /\ line' > 0
    <3>1. line \in Nat /\ line > 0
      BY <1>1
    <3>2. line' \in {line, line + 1}
      BY <1>5 DEF SkipLine, ReadThrows, EndOfFile
    <3> QED BY <3>1, <3>2
  <2>3. UNCHANGED input
    BY <1>1
  <2> QED BY <1>1, <2>1, <2>2, <2>3 DEF GraphInv
<1> QED BY <1>3, <1>4, <1>5 DEF ReadFile, ReaderNext

\* So does the user who gives one.
LEMMA GivenIsGraph ==
    ASSUME GraphInv, MakeGraph \/ GiveEdge \/ GraphGiven
    PROVE  GraphInv'
<1>1. input \in Inputs /\ UNCHANGED input /\ line \in Nat /\ line > 0
  BY DEF GraphInv, MakeGraph, GiveEdge, GraphGiven
<1>2. CASE MakeGraph
  <2>1. IsGraph(G', input.nodes) /\ input.nodes \in Nat
    BY <1>1, <1>2, InputsAssumption, EmptyIsGraph DEF MakeGraph
  <2> QED BY <1>1, <1>2, <2>1 DEF MakeGraph, GraphInv
<1>3. CASE GiveEdge
  <2>1. /\ input.caller = "library" /\ reading = "given" /\ UNCHANGED reading
        /\ IsGraph(G, input.nodes) /\ input.nodes \in Nat /\ input.lines \in Seq(Line)
        /\ line <= Len(input.lines) /\ line' = line + 1
        /\ G' = AddEdge(G, input.lines[line].fields[1], input.lines[line].fields[2])
    BY <1>1, <1>3, InputsAssumption DEF GiveEdge, GraphInv
  <2>2. line \in DOMAIN input.lines
    BY <1>1, <2>1, LenProperties
  <2>3. input.lines[line].fields \in (0..(input.nodes - 1)) \X (0..(input.nodes - 1))
    BY <1>1, <2>1, <2>2, InputsAssumption DEF ToSet
  <2>4. IsGraph(G', input.nodes)
    BY <2>1, <2>3, AddEdgeIsGraph
  <2> QED BY <1>1, <2>1, <2>4 DEF GraphInv
<1>4. CASE GraphGiven
  BY <1>1, <1>4 DEF GraphGiven, GraphInv
<1> QED BY <1>2, <1>3, <1>4

\* Every step keeps what was read a graph.
LEMMA GraphKept == GraphInv /\ [LifeNext]_lifeVars => GraphInv'
<1> SUFFICES ASSUME GraphInv, [LifeNext]_lifeVars PROVE GraphInv'
  OBVIOUS
<1>1. CASE ReadFile
  BY <1>1, ReadKeepsGraph
<1>2. CASE MakeGraph \/ GiveEdge \/ GraphGiven
  BY <1>2, GivenIsGraph
<1>3. CASE UNCHANGED <<input, reading, line, G>>
  BY <1>3 DEF GraphInv
<1>4. CASE RankVertices \/ InterruptRanking
  BY <1>3, <1>4, RankingSteps
<1>5. CASE \/ ReadFailed \/ ListEdges \/ ReadStream \/ BuildGraph \/ OrderByDegree
           \/ RankingInterrupted \/ OrderByRanking \/ Relabel
  BY <1>3, <1>5 DEF ReadFailed, ListEdges, ReadStream, BuildGraph, OrderByDegree,
      RankingInterrupted, OrderByRanking, Relabel, prepVars, readerVars
<1>6. CASE \/ LabelVertices
           \/ \E x, y \in 0..NumV : Ask(x, y)
           \/ Return /\ UNCHANGED prepVars
           \/ Stopped /\ UNCHANGED prepVars
           \/ UNCHANGED lifeVars
  <2>1. UNCHANGED prepVars
    BY <1>6, LaterSteps
  <2> QED BY <1>3, <2>1 DEF prepVars, readerVars
<1> QED BY <1>1, <1>2, <1>4, <1>5, <1>6 DEF LifeNext, Prepare

\* The stream of numbers is a sequence of numbers.
LEMMA StreamNumbersType ==
    ASSUME NEW lines \in Seq(Line)
    PROVE  StreamNumbers(lines) \in Seq(Nat)
<1> DEFINE comments == {i \in DOMAIN lines : lines[i].kind = "comment"}
           upTo == IF comments = {} THEN Len(lines)
                   ELSE (CHOOSE i \in comments : \A j \in comments : i <= j) - 1
           fields == [i \in 1..upTo |-> lines[i].fields]
<1>1. Len(lines) \in Nat /\ DOMAIN lines = 1..Len(lines)
  BY LenProperties
<1>2. upTo \in 0..Len(lines)
  <2>1. CASE comments = {}
    BY <2>1, <1>1
  <2>2. CASE comments # {}
    <3>1. PICK k \in comments : TRUE
      BY <2>2
    <3>2. comments \in SUBSET Nat
      BY <1>1
    <3>3. Smallest(comments) \in comments
      <4> HIDE DEF comments
      <4> QED BY <3>1, <3>2, SmallestExists
    <3>4. Smallest(comments) \in 1..Len(lines)
      BY <3>3, <1>1
    <3>5. upTo = Smallest(comments) - 1
      BY <2>2 DEF Smallest
    <3> HIDE DEF upTo
    <3> QED BY <3>4, <3>5, <1>1
  <2> QED BY <2>1, <2>2
<1> HIDE DEF upTo
<1>3. fields \in Seq(Seq(Nat))
  <2>1. \A i \in 1..upTo : lines[i].fields \in Seq(Nat)
    <3> TAKE i \in 1..upTo
    <3>1. i \in 1..Len(lines)
      BY <1>1, <1>2
    <3>2. lines[i] \in Line
      BY <3>1, ElementOfSeq
    <3> QED BY <3>2, LineFields
  <2>2. upTo \in Nat
    BY <1>2
  <2> QED BY <2>1, <2>2, IsASeq
<1>4. StreamNumbers(lines) = FlattenSeq(fields)
  BY DEF StreamNumbers, upTo
<1> HIDE DEF fields
<1> QED BY <1>3, <1>4, FlattenType

\* The edges of a stream are finitely many.
LEMMA StreamIsFinite ==
    ASSUME NEW lines \in Seq(Line)
    PROVE  IsFiniteSet(DOMAIN StreamEdges(lines))
<1> DEFINE m == Len(StreamNumbers(lines)) \div 2
<1>1. m \in Int
  BY StreamNumbersType, LenProperties
<1>2. DOMAIN StreamEdges(lines) = 1..m
  BY DEF StreamEdges
<1> HIDE DEF m
<1> QED BY <1>1, <1>2, FS_Interval

\* Every step keeps the edges those of the input.
LEMMA ListedKept == GraphInv /\ ListedInv /\ [LifeNext]_lifeVars => ListedInv'
<1> SUFFICES ASSUME GraphInv, ListedInv, [LifeNext]_lifeVars PROVE ListedInv'
  OBVIOUS
<1>1. CASE ReadFile \/ MakeGraph \/ GiveEdge \/ GraphGiven
  <2>1. pc = "read" /\ UNCHANGED pc
    BY <1>1 DEF ReadFile, MakeGraph, GiveEdge, GraphGiven, vars, indexVars
  <2> QED BY <2>1 DEF ListedInv
<1>2. CASE UNCHANGED <<input, reading, G, es, pc>>
  BY <1>2 DEF ListedInv, Ends
<1>3. CASE pc' \notin {"edges", "order"}
  BY <1>3 DEF ListedInv
<1>4. CASE RankVertices \/ InterruptRanking
  BY <1>2, <1>4, RankingSteps
<1>5. CASE ReadFailed \/ OrderByDegree \/ RankingInterrupted \/ OrderByRanking \/ Relabel
  BY <1>3, <1>5 DEF ReadFailed, OrderByDegree, RankingInterrupted, OrderByRanking, Relabel
<1>6. CASE ListEdges
  <2>1. /\ reading = "read" /\ UNCHANGED <<input, reading, G>>
        /\ es' = EdgesOf(G) /\ pc' = "edges"
    BY <1>6 DEF ListEdges, readerVars
  <2>2. input.caller # "stream"
    BY <2>1 DEF GraphInv
  <2> QED BY <2>1, <2>2 DEF ListedInv
<1>7. CASE ReadStream
  <2>1. CASE pc' = "edges"
    <3>1. input.caller = "stream" /\ UNCHANGED input /\ es' = StreamEdges(input.lines)
      BY <1>7, <2>1 DEF ReadStream
    <3>2. input.lines \in Seq(Line)
      BY InputsAssumption DEF GraphInv
    <3>3. IsFiniteSet(DOMAIN es')
      BY <3>1, <3>2, StreamIsFinite
    <3> QED BY <2>1, <3>1, <3>3 DEF ListedInv
  <2>2. CASE pc' = "failed"
    BY <1>3, <2>2
  <2> QED BY <1>7, <2>1, <2>2 DEF ReadStream
<1>8. CASE BuildGraph
  <2>1. /\ pc = "edges" /\ UNCHANGED <<input, reading, G, es>> /\ pc' \in {"order", "failed"}
        /\ NumV - 1 \in Ends /\ \A v \in Ends : v < NumV
    BY <1>8 DEF BuildGraph, prepVars, readerVars, Ends
  <2>2. Ends' = Ends
    BY <2>1 DEF Ends
  <2> QED BY <2>1, <2>2 DEF ListedInv
<1>9. CASE \/ LabelVertices
           \/ \E x, y \in 0..NumV : Ask(x, y)
           \/ Return /\ UNCHANGED prepVars
           \/ Stopped /\ UNCHANGED prepVars
           \/ UNCHANGED lifeVars
  <2>1. UNCHANGED <<input, reading, G, es>> /\ (UNCHANGED pc \/ pc' \notin {"edges", "order"})
    BY <1>9, LaterSteps DEF prepVars, readerVars
  <2> QED BY <1>2, <1>3, <2>1
<1> QED BY <1>1, <1>4, <1>5, <1>6, <1>7, <1>8, <1>9 DEF LifeNext, Prepare

\* The steps of the ranking make one that begins with the vertices.
LEMMA RankingKept ==
    ASSUME SamplingInv, GraphInv, ListedInv, RankInv, RankVertices \/ InterruptRanking
    PROVE  RankInv'
<1>1. pc = "order" /\ input.caller # "stream" /\ UNCHANGED <<pc, input, G>> /\ Vertex' = Vertex
  BY RankingSteps DEF RankVertices, InterruptRanking, Vertex
<1> DEFINE Counts(scores) ==
               /\ scores \in [Threads -> [NodesOf(G) -> Nat]]
               /\ \A thread \in Threads : Scored(scores[thread])
<1>2. /\ NodesOf(G)' = NodesOf(G)
      /\ \A score : Scored(score)' <=> Scored(score)
  BY <1>1 DEF NodesOf, Scored
<1>3. ASSUME running' = "sampling", Counts(scorePerThread') PROVE RankInv'
  BY <1>1, <1>2, <1>3 DEF RankInv, Scored
<1>4. ASSUME running' = "ranked", NEW score, Scored(score), ranking' \in Rankings(score)
      PROVE  RankInv'
  <2>1. {ranking'[i + 1] : i \in Vertex} = Vertex
    BY <1>1, <1>4, RankingOrders
  <2> QED BY <1>1, <1>4, <2>1 DEF RankInv
<1>5. ASSUME running' \in {"start", "interrupted"} PROVE RankInv'
  BY <1>1, <1>5 DEF RankInv
<1>6. CASE RunTrivial
  <2>1. Scored([x \in NodesOf(G) |-> 0])
    BY DEF Scored
  <2> QED BY <1>4, <1>6, <2>1 DEF RunTrivial
<1>7. CASE RunBegin
  <2>1. Counts(NoScore)
    BY DEF NoScore, Scored
  <2> QED BY <1>3, <1>5, <1>7, <2>1 DEF RunBegin
<1>8. CASE Interrupt
  <2>1. UNCHANGED <<running, scorePerThread>> /\ running \in {"start", "sampling"}
    BY <1>8 DEF Interrupt, samplingVars
  <2>2. running = "sampling" => Counts(scorePerThread')
    BY <2>1 DEF RankInv
  <2> QED BY <1>3, <1>5, <2>1, <2>2
<1>9. ASSUME NEW thread \in Threads,
             DrawSample(thread) \/ SkipSample(thread) \/ SearchPaths(thread) \/ WalkBack(thread)
      PROVE  RankInv'
  <2>1. running = "sampling" /\ running' = running
    BY <1>9 DEF DrawSample, SkipSample, SearchPaths, WalkBack, SamplingInv
  <2>2. Counts(scorePerThread)
    BY <2>1 DEF RankInv
  <2>3. CASE UNCHANGED scorePerThread
    BY <1>3, <2>1, <2>2, <2>3
  <2>4. ASSUME NEW z, z \in Predecessors(sample[thread].u, sample[thread].t),
               scorePerThread' = [scorePerThread EXCEPT ![thread][z] = @ + 1]
        PROVE  RankInv'
    <3>1. ToSet(G.out[z]) # {}
      BY <2>4 DEF Predecessors
    <3> DEFINE own == scorePerThread[thread]
               grown == [own EXCEPT ![z] = @ + 1]
    <3>2. own \in [NodesOf(G) -> Nat] /\ Scored(own)
      BY <2>2
    <3>3. Scored(grown)
      <4> HIDE DEF own
      <4>1. grown \in [NodesOf(G) -> Nat]
        <5>1. grown = [x \in NodesOf(G) |-> IF x = z THEN own[z] + 1 ELSE own[x]]
          BY <3>2
        <5>2. \A x \in NodesOf(G) : own[x] \in Nat /\ own[x] + 1 \in Nat
          BY <3>2
        <5> HIDE DEF grown
        <5> QED BY <5>1, <5>2
      <4>2. \A x \in NodesOf(G) : x # z => grown[x] = own[x]
        BY <3>2
      <4> HIDE DEF grown
      <4> QED BY <3>1, <3>2, <4>1, <4>2 DEF Scored
    <3>4. scorePerThread' = [scorePerThread EXCEPT ![thread] = grown]
      BY <2>4
    <3> HIDE DEF grown
    <3>5. Counts(scorePerThread')
      <4>1. grown \in [NodesOf(G) -> Nat]
        BY <3>3 DEF Scored
      <4> QED BY <2>2, <3>3, <3>4, <4>1
    <3> QED BY <1>3, <2>1, <3>5
  <2> QED BY <1>9, <2>3, <2>4 DEF DrawSample, SkipSample, SearchPaths, WalkBack
<1>10. CASE Join
  <2>1. Scored(TotalScore)
    BY <1>10, TotalScored DEF Join, RankInv
  <2> QED BY <1>4, <1>5, <1>10, <2>1 DEF Join
<1> QED BY <1>6, <1>7, <1>8, <1>9, <1>10 DEF RankVertices, InterruptRanking, Run

\* No other step touches a ranking before it is used.
LEMMA RankKept ==
    SamplingInv /\ GraphInv /\ ListedInv /\ RankInv /\ [LifeNext]_lifeVars => RankInv'
<1> SUFFICES ASSUME SamplingInv, GraphInv, ListedInv, RankInv, [LifeNext]_lifeVars
             PROVE  RankInv'
  OBVIOUS
<1>1. CASE RankVertices \/ InterruptRanking
  BY <1>1, RankingKept
<1>2. CASE running = "start" /\ UNCHANGED running
  BY <1>2 DEF RankInv
<1>3. CASE \/ ReadFile \/ MakeGraph \/ GiveEdge \/ GraphGiven \/ ReadFailed \/ ListEdges
           \/ ReadStream \/ BuildGraph
  <2>1. pc \in {"read", "edges"} /\ UNCHANGED running
    BY <1>3 DEF ReadFile, MakeGraph, GiveEdge, GraphGiven, ReadFailed, ListEdges, ReadStream, BuildGraph,
        prepVars, rankVars
  <2> QED BY <1>2, <2>1 DEF RankInv
<1>4. CASE running # "sampling" /\ UNCHANGED running /\ pc' \notin {"read", "edges", "order"}
  BY <1>4 DEF RankInv
<1>5. CASE OrderByDegree \/ RankingInterrupted \/ OrderByRanking \/ Relabel
  <2>1. UNCHANGED running /\ pc' \in {"failed", "relabel", "tree"}
    BY <1>5 DEF OrderByDegree, RankingInterrupted, OrderByRanking, Relabel, prepVars, rankVars
  <2>2. running # "sampling"
    BY <1>5 DEF OrderByDegree, RankingInterrupted, OrderByRanking, Relabel, RankInv
  <2> QED BY <1>4, <2>1, <2>2
<1>6. CASE \/ LabelVertices
           \/ \E x, y \in 0..NumV : Ask(x, y)
           \/ Return /\ UNCHANGED prepVars
           \/ Stopped /\ UNCHANGED prepVars
           \/ UNCHANGED lifeVars
  <2>1. UNCHANGED <<input, G, running, scorePerThread, ranking>>
        /\ (UNCHANGED pc \/ {pc, pc'} \cap {"read", "edges", "order"} = {})
    BY <1>6, LaterSteps DEF prepVars, readerVars, rankVars, samplingVars
  <2>2. CASE UNCHANGED pc
    <3>1. /\ NodesOf(G)' = NodesOf(G) /\ Vertex' = Vertex
          /\ \A score : Scored(score)' <=> Scored(score)
      BY <2>1 DEF NodesOf, Vertex, Scored
    <3> QED BY <2>1, <2>2, <3>1 DEF RankInv, Scored
  <2>3. CASE running # "sampling"
    BY <1>4, <2>1, <2>2, <2>3
  <2>4. CASE running = "sampling"
    <3>1. pc = "order"
      BY <2>4 DEF RankInv
    <3>2. UNCHANGED pc
      BY <1>6, <3>1, LaterSteps
    <3> QED BY <2>2, <3>2
  <2> QED BY <2>3, <2>4
<1> QED BY <1>1, <1>3, <1>5, <1>6 DEF LifeNext, Prepare

\* The order is made once, and from a ranking that begins with the vertices or from the
\* degrees.
LEMMA PermutationKept ==
    ListedInv /\ RankInv /\ OrderIsPermutation /\ [LifeNext]_lifeVars => OrderIsPermutation'
<1> SUFFICES ASSUME ListedInv, RankInv, OrderIsPermutation, [LifeNext]_lifeVars
             PROVE  OrderIsPermutation'
  OBVIOUS
<1>1. Vertex' = Vertex
  BY DEF Vertex
<1>2. CASE UNCHANGED inv
  BY <1>1, <1>2 DEF OrderIsPermutation
<1>3. CASE OrderByDegree
  <2>1. PICK random \in [Vertex -> 0..Jitter] : inv' = OrderedWith(random)
    BY <1>3 DEF OrderByDegree, DegreeOrders
  <2>2. IsFiniteSet(DOMAIN es)
    BY <1>3 DEF OrderByDegree, ListedInv
  <2> QED BY <1>1, <2>1, <2>2, DegreeOrder DEF OrderIsPermutation
<1>4. CASE OrderByRanking
  BY <1>1, <1>4 DEF OrderByRanking, RankInv, OrderIsPermutation
<1>5. CASE RankVertices \/ InterruptRanking
  BY <1>2, <1>5, RankingSteps
<1>6. CASE \/ ReadFile \/ MakeGraph \/ GiveEdge \/ GraphGiven \/ ReadFailed \/ ListEdges
           \/ ReadStream \/ BuildGraph \/ RankingInterrupted \/ Relabel
  BY <1>2, <1>6 DEF ReadFile, MakeGraph, GiveEdge, GraphGiven, ReadFailed, ListEdges, ReadStream,
      BuildGraph, RankingInterrupted, Relabel, prepVars
<1>7. CASE \/ LabelVertices
           \/ \E x, y \in 0..NumV : Ask(x, y)
           \/ Return /\ UNCHANGED prepVars
           \/ Stopped /\ UNCHANGED prepVars
           \/ UNCHANGED lifeVars
  BY <1>2, <1>7, LaterSteps DEF prepVars
<1> QED BY <1>3, <1>4, <1>5, <1>6, <1>7 DEF LifeNext, Prepare

\* A new life.
LEMMA OrderInit == LifeInit => OrderInv
<1> SUFFICES ASSUME LifeInit PROVE OrderInv
  OBVIOUS
<1>1. input \in Inputs /\ reading = "first pass" /\ pc = "read" /\ running = "start" /\ inv = <<>>
  BY DEF LifeInit, ReaderInit, BetweennessInit
<1>2. line \in Nat /\ line > 0
  <2>1. line = 1
    BY DEF LifeInit, ReaderInit
  <2> QED BY <2>1
<1>3. GraphInv
  BY <1>1, <1>2 DEF GraphInv
<1> QED BY <1>1, <1>3 DEF OrderInv, ListedInv, RankInv, OrderIsPermutation

\* Whoever gives the graph, the order it is labelled in has every vertex once.
THEOREM OrderIsPermuted == LifeSpec => []OrderIsPermutation
<1>1. LifeInit => SamplingInv /\ OrderInv
  BY SamplingInit, OrderInit
<1>2. SamplingInv /\ OrderInv /\ [LifeNext]_lifeVars => (SamplingInv /\ OrderInv)'
  <2>1. SamplingInv /\ [LifeNext]_lifeVars => SamplingInv'
    BY SamplingStep
  <2>2. OrderInv /\ SamplingInv /\ [LifeNext]_lifeVars => OrderInv'
    BY GraphKept, ListedKept, RankKept, PermutationKept DEF OrderInv
  <2> QED BY <2>1, <2>2
<1>3. OrderInv => OrderIsPermutation
  BY DEF OrderInv
<1> QED BY <1>1, <1>2, <1>3, PTL DEF LifeSpec

(***************************************************************************)
(* The graph has the edges of the file.                                    *)
(***************************************************************************)
\* What the lines before the one in turn give.
Given == {k \in DOMAIN input.lines : k < line /\ input.lines[k].kind = "text"}
EdgeAt(k) == Shifted(input.lines[k].fields)
Joins(p, u, v) == p = <<u, v>> \/ (~input.directed /\ p = <<v, u>>)

NoRepeat(s) == \A j, k \in DOMAIN s : s[j] = s[k] => j = k

\* The graph is the one these lines give: its arrays have their edges, and the reader's
\* have each of them once.
Recorded ==
    /\ G.directed = input.directed
    /\ \A k \in Given : /\ Len(input.lines[k].fields) = 2
                        /\ EdgeAt(k) \in NodesOf(G) \X NodesOf(G)
    /\ \A u, v \in NodesOf(G) :
          /\ v \in ToSet(G.out[u]) <=> \E k \in Given : Joins(EdgeAt(k), u, v)
          /\ G.directed => (v \in ToSet(G.out[u]) <=> u \in ToSet(G.in[v]))
    /\ input.caller = "reader" => \A u \in NodesOf(G) : NoRepeat(G.out[u])

FileInv ==
    /\ reading = "first pass" => line = 1
    /\ reading = "read" => line > Len(input.lines)
    /\ reading \in {"second pass", "given", "read"} => Recorded

\* An element appended that was not there does not repeat one.
LEMMA AppendNoRepeat ==
    ASSUME NEW S, NEW s \in Seq(S), NEW e \in S, NoRepeat(s), e \notin ToSet(s)
    PROVE  NoRepeat(Append(s, e))
<1>1. /\ Len(s) \in Nat
      /\ DOMAIN s = 1..Len(s) /\ DOMAIN Append(s, e) = 1..(Len(s) + 1)
      /\ \A k \in 1..Len(s) : Append(s, e)[k] = s[k]
      /\ Append(s, e)[Len(s) + 1] = e
  OBVIOUS
<1> DEFINE t == Append(s, e)
<1>2. \A k \in 1..Len(s) : s[k] # e
  BY <1>1 DEF ToSet
<1> HIDE DEF t
<1>3. /\ DOMAIN t = 1..(Len(s) + 1)
      /\ \A k \in 1..Len(s) : t[k] = s[k]
      /\ t[Len(s) + 1] = e
  BY <1>1 DEF t
<1>4. ASSUME NEW j \in DOMAIN t, NEW k \in DOMAIN t, t[j] = t[k] PROVE j = k
  <2>1. CASE j \in 1..Len(s) /\ k \in 1..Len(s)
    BY <2>1, <1>1, <1>3, <1>4 DEF NoRepeat
  <2>2. CASE j = Len(s) + 1 \/ k = Len(s) + 1
    BY <2>2, <1>1, <1>2, <1>3, <1>4
  <2> QED BY <1>1, <1>3, <2>1, <2>2
<1> QED BY <1>4 DEF t, NoRepeat

\* What the arrays contain with an edge more.
LEMMA AddEdgeContent ==
    ASSUME NEW n \in Nat, NEW g, IsGraph(g, n), NEW u \in 0..(n - 1), NEW v \in 0..(n - 1)
    PROVE  LET h == AddEdge(g, u, v)
           IN  /\ NodesOf(h) = NodesOf(g) /\ h.directed = g.directed
               /\ \A x, y \in NodesOf(g) :
                    /\ y \in ToSet(h.out[x]) <=>
                          \/ y \in ToSet(g.out[x])
                          \/ x = u /\ y = v
                          \/ ~g.directed /\ x = v /\ y = u
                    /\ g.directed =>
                          (x \in ToSet(h.in[y]) <=> x \in ToSet(g.in[y]) \/ (x = u /\ y = v))
               /\ v \notin ToSet(g.out[u]) /\ (\A x \in NodesOf(g) : NoRepeat(g.out[x])) =>
                    \A x \in NodesOf(g) : NoRepeat(h.out[x])
<1> DEFINE node == 0..(n - 1)
           h == AddEdge(g, u, v)
<1>1. /\ g \in [directed : BOOLEAN, out : [node -> Seq(node)], in : [node -> Seq(node)]]
      /\ NodesOf(g) = node
  BY DEF IsGraph, NodesOf
<1> HIDE DEF node
<1>2. ASSUME NEW s \in Seq(node), NEW e \in node
      PROVE  /\ Append(s, e) \in Seq(node) /\ ToSet(Append(s, e)) = ToSet(s) \cup {e}
             /\ NoRepeat(s) /\ e \notin ToSet(s) => NoRepeat(Append(s, e))
  BY AppendContent, AppendNoRepeat
<1>3. u \in node /\ v \in node
  BY DEF node
<1>4. CASE g.directed
  <2> DEFINE out == [g.out EXCEPT ![u] = Append(g.out[u], v)]
             into == [g.in EXCEPT ![v] = Append(g.in[v], u)]
  <2>1. h = [g EXCEPT !.out = out, !.in = into]
    BY <1>1, <1>4 DEF AddEdge
  <2>2. /\ DOMAIN out = node
        /\ \A x \in node : out[x] = IF x = u THEN Append(g.out[x], v) ELSE g.out[x]
        /\ \A y \in node : into[y] = IF y = v THEN Append(g.in[y], u) ELSE g.in[y]
    BY <1>1, <1>3
  <2> HIDE DEF out, into
  <2>3. h.directed = g.directed /\ h.out = out /\ h.in = into
    BY <2>1, <1>1
  <2> HIDE DEF h
  <2>4. NodesOf(h) = node
    BY <2>2, <2>3 DEF NodesOf
  <2>5. ASSUME NEW x \in node, NEW y \in node
        PROVE  /\ y \in ToSet(out[x]) <=> y \in ToSet(g.out[x]) \/ (x = u /\ y = v)
               /\ x \in ToSet(into[y]) <=> x \in ToSet(g.in[y]) \/ (x = u /\ y = v)
    <3>1. g.out[x] \in Seq(node) /\ g.in[y] \in Seq(node)
      BY <1>1
    <3>2. /\ ToSet(Append(g.out[x], v)) = ToSet(g.out[x]) \cup {v}
          /\ ToSet(Append(g.in[y], u)) = ToSet(g.in[y]) \cup {u}
      BY <3>1, <1>2, <1>3
    <3> QED BY <2>2, <3>2
  <2>6. ASSUME v \notin ToSet(g.out[u]), \A x \in node : NoRepeat(g.out[x]), NEW x \in node
        PROVE  NoRepeat(out[x])
    <3>1. g.out[x] \in Seq(node)
      BY <1>1
    <3> QED BY <2>2, <2>6, <3>1, <1>2, <1>3
  <2> QED BY <1>1, <1>4, <2>3, <2>4, <2>5, <2>6 DEF h
<1>5. CASE ~g.directed
  <2> DEFINE out == [x \in node |-> IF x = u THEN Append(g.out[x], v)
                                    ELSE IF x = v THEN Append(g.out[x], u) ELSE g.out[x]]
  <2>1. h = [g EXCEPT !.out = out]
    BY <1>1, <1>5 DEF AddEdge
  <2>2. /\ DOMAIN out = node
        /\ \A x \in node : out[x] = IF x = u THEN Append(g.out[x], v)
                                    ELSE IF x = v THEN Append(g.out[x], u) ELSE g.out[x]
    OBVIOUS
  <2> HIDE DEF out
  <2>3. h.directed = g.directed /\ h.out = out
    BY <2>1, <1>1
  <2> HIDE DEF h
  <2>4. NodesOf(h) = node
    BY <2>2, <2>3 DEF NodesOf
  <2>5. ASSUME NEW x \in node, NEW y \in node
        PROVE  y \in ToSet(out[x]) <=> \/ y \in ToSet(g.out[x])
                                       \/ x = u /\ y = v
                                       \/ x = v /\ y = u
    <3>1. g.out[x] \in Seq(node)
      BY <1>1
    <3>2. /\ ToSet(Append(g.out[x], v)) = ToSet(g.out[x]) \cup {v}
          /\ ToSet(Append(g.out[x], u)) = ToSet(g.out[x]) \cup {u}
      BY <3>1, <1>2, <1>3
    <3> QED BY <2>2, <3>2
  <2>6. ASSUME v \notin ToSet(g.out[u]), \A x \in node : NoRepeat(g.out[x]), NEW x \in node
        PROVE  NoRepeat(out[x])
    <3>1. g.out[x] \in Seq(node)
      BY <1>1
    <3>2. u \in ToSet(g.out[v]) => v \in ToSet(g.out[u])
      BY <1>5 DEF IsGraph, node
    <3> QED BY <2>2, <2>6, <3>1, <3>2, <1>2, <1>3
  <2> QED BY <1>1, <1>5, <2>3, <2>4, <2>5, <2>6 DEF h
<1>6. g.directed \in BOOLEAN
  BY <1>1
<1> QED BY <1>4, <1>5, <1>6

\* hasEdge finds an edge, whichever array it looks through.
LEMMA HasEdgeLooks ==
    ASSUME NEW n \in Nat, NEW g, IsGraph(g, n), NEW u \in 0..(n - 1), NEW v \in 0..(n - 1),
           g.directed => (v \in ToSet(g.out[u]) <=> u \in ToSet(g.in[v]))
    PROVE  HasEdge(g, u, v) <=> v \in ToSet(g.out[u])
<1> DEFINE node == 0..(n - 1)
<1>1. g \in [directed : BOOLEAN, out : [node -> Seq(node)], in : [node -> Seq(node)]]
  BY DEF IsGraph
<1>2. ASSUME NEW s \in Seq(node), NEW e PROVE Contains(s, e) <=> e \in ToSet(s)
  <2>1. DOMAIN s = 1..Len(s)
    OBVIOUS
  <2> QED BY <2>1 DEF Contains, ToSet
<1>3. g.out[u] \in Seq(node) /\ g.out[v] \in Seq(node) /\ g.in[v] \in Seq(node)
  BY <1>1
<1>4. ~g.directed => (v \in ToSet(g.out[u]) <=> u \in ToSet(g.out[v]))
  BY DEF IsGraph
<1> QED BY <1>2, <1>3, <1>4 DEF HasEdge

\* A line that is no text gives nothing.
LEMMA LineSkipped ==
    ASSUME input.lines \in Seq(Line), line \in Nat,
           line \in DOMAIN input.lines => input.lines[line].kind # "text",
           line' = line + 1, UNCHANGED <<input, G>>, Recorded
    PROVE  Recorded'
<1>1. DOMAIN input.lines \subseteq Nat
  BY LenProperties
<1>2. Given' = Given
  BY <1>1 DEF Given
<1>3. /\ NodesOf(G)' = NodesOf(G)
      /\ \A k : EdgeAt(k)' = EdgeAt(k)
      /\ \A p, u, v : Joins(p, u, v)' = Joins(p, u, v)
  BY DEF NodesOf, EdgeAt, Shifted, Joins
<1> QED BY <1>2, <1>3 DEF Recorded, NoRepeat

\* A text gives its edge, whether it is added or found to be there.
LEMMA EdgeRecorded ==
    ASSUME NEW n \in Nat, IsGraph(G, n), input.lines \in Seq(Line), line \in Nat,
           line \in DOMAIN input.lines, input.lines[line].kind = "text",
           Len(input.lines[line].fields) = 2,
           NEW u \in NodesOf(G), NEW v \in NodesOf(G), EdgeAt(line) = <<u, v>>,
           \/ G' = AddEdge(G, u, v) /\ (input.caller = "reader" => v \notin ToSet(G.out[u]))
           \/ G' = G /\ v \in ToSet(G.out[u]),
           line' = line + 1, UNCHANGED input, Recorded
    PROVE  Recorded'
<1>1. DOMAIN input.lines \subseteq Nat
  BY LenProperties
<1>2. Given' = Given \cup {line}
  BY <1>1 DEF Given
<1>3. NodesOf(G) = 0..(n - 1)
  BY DEF IsGraph, NodesOf
<1>4. /\ NodesOf(G') = NodesOf(G) /\ G'.directed = G.directed
      /\ \A x, y \in NodesOf(G) :
            /\ y \in ToSet(G'.out[x]) <=> \/ y \in ToSet(G.out[x])
                                          \/ x = u /\ y = v
                                          \/ ~G.directed /\ x = v /\ y = u
            /\ G.directed =>
                  (x \in ToSet(G'.in[y]) <=> x \in ToSet(G.in[y]) \/ (x = u /\ y = v))
      /\ input.caller = "reader" => \A x \in NodesOf(G) : NoRepeat(G'.out[x])
  <2>1. CASE G' = AddEdge(G, u, v) /\ (input.caller = "reader" => v \notin ToSet(G.out[u]))
    <3>1. input.caller = "reader" =>
            v \notin ToSet(G.out[u]) /\ \A x \in NodesOf(G) : NoRepeat(G.out[x])
      BY <2>1 DEF Recorded
    <3>2. u \in 0..(n - 1) /\ v \in 0..(n - 1)
      BY <1>3
    <3> DEFINE h == AddEdge(G, u, v)
    <3>3. /\ NodesOf(h) = NodesOf(G) /\ h.directed = G.directed
          /\ \A x, y \in NodesOf(G) :
               /\ y \in ToSet(h.out[x]) <=> \/ y \in ToSet(G.out[x])
                                            \/ x = u /\ y = v
                                            \/ ~G.directed /\ x = v /\ y = u
               /\ G.directed =>
                     (x \in ToSet(h.in[y]) <=> x \in ToSet(G.in[y]) \/ (x = u /\ y = v))
          /\ v \notin ToSet(G.out[u]) /\ (\A x \in NodesOf(G) : NoRepeat(G.out[x])) =>
               \A x \in NodesOf(G) : NoRepeat(h.out[x])
      BY <3>2, AddEdgeContent
    <3> HIDE DEF h
    <3>4. G' = h
      BY <2>1 DEF h
    <3> QED BY <3>1, <3>3, <3>4
  <2>2. CASE G' = G /\ v \in ToSet(G.out[u])
    <3>1. ~G.directed => u \in ToSet(G.out[v])
      BY <1>3, <2>2 DEF IsGraph
    <3>2. G.directed => u \in ToSet(G.in[v])
      BY <2>2 DEF Recorded
    <3> QED BY <2>2, <3>1, <3>2 DEF Recorded
  <2> QED BY <2>1, <2>2
<1>5. /\ \A k : EdgeAt(k)' = EdgeAt(k)
      /\ \A p, x, y : Joins(p, x, y)' = Joins(p, x, y)
      /\ NodesOf(G)' = NodesOf(G)
  BY <1>4 DEF NodesOf, EdgeAt, Shifted, Joins
<1>6. \A x, y : Joins(EdgeAt(line), x, y) <=> \/ x = u /\ y = v
                                              \/ ~G.directed /\ x = v /\ y = u
  BY DEF Joins, Recorded
<1>7. \A x, y \in NodesOf(G) :
          (\E k \in Given' : Joins(EdgeAt(k), x, y)) <=>
              \/ \E k \in Given : Joins(EdgeAt(k), x, y)
              \/ x = u /\ y = v
              \/ ~G.directed /\ x = v /\ y = u
  BY <1>2, <1>6
<1>8. \A k \in Given' : /\ Len(input.lines[k].fields) = 2
                        /\ EdgeAt(k) \in NodesOf(G) \X NodesOf(G)
  BY <1>2 DEF Recorded
<1>9. \A x, y \in NodesOf(G) :
          /\ y \in ToSet(G'.out[x]) <=> \E k \in Given' : Joins(EdgeAt(k), x, y)
          /\ G'.directed => (y \in ToSet(G'.out[x]) <=> x \in ToSet(G'.in[y]))
  BY <1>4, <1>7 DEF Recorded
<1>10. G'.directed = input'.directed
  BY <1>4 DEF Recorded
<1> QED BY <1>4, <1>5, <1>8, <1>9, <1>10 DEF Recorded, NoRepeat

\* A graph without edges is that of no line.
LEMMA EmptyRecorded ==
    ASSUME input.lines \in Seq(Line), line = 1, UNCHANGED <<input, line>>,
           NEW n, G' = EmptyGraph(n, input.directed)
    PROVE  Recorded'
<1>1. Given' = {}
  <2>1. \A k \in DOMAIN input.lines : ~(k < 1)
    BY LenProperties
  <2> QED BY <2>1 DEF Given
<1>2. /\ G'.directed = input.directed
      /\ \A x \in NodesOf(G') : G'.out[x] = <<>> /\ G'.in[x] = <<>>
  BY DEF EmptyGraph, NodesOf
<1>3. \A x \in NodesOf(G') : ToSet(G'.out[x]) = {} /\ ToSet(G'.in[x]) = {} /\ NoRepeat(G'.out[x])
  BY <1>2 DEF ToSet, NoRepeat
<1> QED BY <1>1, <1>2, <1>3 DEF Recorded, NoRepeat, NodesOf

\* What is recorded depends on the input, the line and the graph.
LEMMA RecordStays == UNCHANGED <<input, line, G>> /\ Recorded => Recorded'
<1> SUFFICES ASSUME UNCHANGED <<input, line, G>>, Recorded PROVE Recorded'
  OBVIOUS
<1>1. input' = input /\ line' = line /\ G' = G
  OBVIOUS
<1>2. /\ Given' = Given /\ NodesOf(G)' = NodesOf(G)
      /\ \A k : EdgeAt(k)' = EdgeAt(k)
      /\ \A p, u, v : Joins(p, u, v)' = Joins(p, u, v)
      /\ \A s : NoRepeat(s)' = NoRepeat(s)
  BY <1>1 DEF Given, NodesOf, EdgeAt, Shifted, Joins, NoRepeat
<1>3. \A u : (NoRepeat(G.out[u]))' = NoRepeat(G.out[u])
  BY <1>1 DEF NoRepeat
<1> QED BY <1>1, <1>2, <1>3 DEF Recorded

\* The reader records what it has read,
LEMMA ReaderRecords ==
    ASSUME GraphInv, FileInv, ReadFile
    PROVE  FileInv'
<1>1. /\ input.caller = "reader" /\ UNCHANGED input /\ input \in Inputs
      /\ line \in Nat /\ input.lines \in Seq(Line)
  BY InputsAssumption
     DEF ReadFile, GraphInv, ReaderNext, FirstPass, SkipLine, ReadEdge, ReadThrows, EndOfFile
<1>2. CASE reading' = "second pass" /\ Recorded'
  BY <1>2 DEF FileInv
<1>3. CASE reading' = "thrown"
  BY <1>3 DEF FileInv
<1>4. CASE FirstPass
  <2>1. CASE reading' = "second pass"
    <3>1. line = 1 /\ UNCHANGED line
      BY <1>4 DEF FirstPass, FileInv
    <3>2. \E n : G' = EmptyGraph(n, input.directed)
      BY <1>4, <2>1 DEF FirstPass
    <3>3. Recorded'
      BY <1>1, <3>1, <3>2, EmptyRecorded
    <3> QED BY <1>2, <2>1, <3>3
  <2> QED BY <1>3, <1>4, <2>1 DEF FirstPass
<1>5. CASE SkipLine
  <2>1. /\ reading = "second pass" /\ UNCHANGED reading
        /\ line' = line + 1 /\ UNCHANGED G /\ input.lines[line].kind # "text"
    BY <1>5 DEF SkipLine
  <2>2. Recorded
    BY <2>1 DEF FileInv
  <2>3. Recorded'
    BY <1>1, <2>1, <2>2, LineSkipped
  <2> QED BY <1>2, <2>1, <2>3
<1>6. CASE ReadEdge
  <2>1. reading = "second pass" /\ UNCHANGED reading /\ input.lines[line].kind = "text"
    BY <1>6 DEF ReadEdge
  <2> DEFINE u == EdgeAt(line)[1]
             v == EdgeAt(line)[2]
  <2>2. /\ line <= Len(input.lines) /\ line' = line + 1
        /\ Len(input.lines[line].fields) = 2 /\ u \in NodesOf(G) /\ v \in NodesOf(G)
        /\ G' = IF HasEdge(G, u, v) THEN G ELSE AddEdge(G, u, v)
    BY <1>6 DEF ReadEdge, EdgeAt
  <2>3. EdgeAt(line) = <<u, v>>
    BY DEF EdgeAt, Shifted
  <2> HIDE DEF u, v
  <2>4. line \in DOMAIN input.lines
    <3>1. line > 0
      BY DEF GraphInv
    <3> QED BY <1>1, <2>2, <3>1, LenProperties
  <2>5. Recorded
    BY <2>1 DEF FileInv
  <2>6. PICK n \in Nat : IsGraph(G, n)
    BY <2>1 DEF GraphInv
  <2>7. HasEdge(G, u, v) <=> v \in ToSet(G.out[u])
    <3>1. NodesOf(G) = 0..(n - 1)
      BY <2>6 DEF IsGraph, NodesOf
    <3>2. G.directed => (v \in ToSet(G.out[u]) <=> u \in ToSet(G.in[v]))
      BY <2>2, <2>5 DEF Recorded
    <3> QED BY <2>2, <2>6, <3>1, <3>2, HasEdgeLooks
  <2>8. \/ G' = AddEdge(G, u, v) /\ (input.caller = "reader" => v \notin ToSet(G.out[u]))
        \/ G' = G /\ v \in ToSet(G.out[u])
    BY <2>2, <2>7
  <2>9. Recorded'
    BY <1>1, <2>1, <2>2, <2>3, <2>4, <2>5, <2>6, <2>8, EdgeRecorded
  <2> QED BY <1>2, <2>1, <2>9
<1>7. CASE ReadThrows
  BY <1>3, <1>7 DEF ReadThrows
<1>8. CASE EndOfFile
  <2>1. /\ reading = "second pass" /\ reading' = "read" /\ UNCHANGED <<line, G>>
    BY <1>8 DEF EndOfFile
  <2>2. line' > Len(input'.lines)
    <3>1. line > Len(input.lines)
      BY <1>8 DEF EndOfFile
    <3> QED BY <1>1, <2>1, <3>1
  <2>3. Recorded => Recorded'
    BY <1>1, <2>1, RecordStays
  <2> QED BY <2>1, <2>2, <2>3 DEF FileInv
<1> QED BY <1>4, <1>5, <1>6, <1>7, <1>8 DEF ReadFile, ReaderNext

\* and so does the graph a user makes record what he has given.
LEMMA GivenRecorded ==
    ASSUME GraphInv, FileInv, MakeGraph \/ GiveEdge \/ GraphGiven
    PROVE  FileInv'
<1>1. /\ UNCHANGED input /\ input \in Inputs /\ line \in Nat /\ line > 0
      /\ input.lines \in Seq(Line)
  BY InputsAssumption DEF GraphInv, MakeGraph, GiveEdge, GraphGiven
<1>2. CASE reading' = "given" /\ Recorded'
  BY <1>2 DEF FileInv
<1>3. CASE MakeGraph
  <2>1. line = 1 /\ UNCHANGED line /\ G' = EmptyGraph(input.nodes, input.directed)
    BY <1>3 DEF MakeGraph, FileInv
  <2>2. Recorded'
    BY <1>1, <2>1, EmptyRecorded
  <2> QED BY <1>2, <1>3, <2>2 DEF MakeGraph
<1>4. CASE GiveEdge
  <2> DEFINE fields == input.lines[line].fields
             node == 0..(input.nodes - 1)
  <2>1. reading = "given" /\ UNCHANGED reading /\ input.caller = "library" /\ IsGraph(G, input.nodes)
    BY <1>4 DEF GiveEdge, GraphInv
  <2>2. /\ line <= Len(input.lines) /\ line' = line + 1
        /\ G' = AddEdge(G, fields[1], fields[2])
    BY <1>4 DEF GiveEdge
  <2>3. line \in DOMAIN input.lines
    BY <1>1, <2>2, LenProperties
  <2>4. fields \in node \X node /\ input.firstNode = 0 /\ input.nodes \in Nat
    <3>1. input.lines[line] \in ToSet(input.lines)
      BY <2>3 DEF ToSet
    <3>2. input.caller # "reader"
      BY <2>1
    <3> QED BY <1>1, <2>1, <3>1, <3>2, InputsAssumption
  <2>5. PICK u \in node, v \in node : fields = <<u, v>>
    BY <2>4
  <2>6. Len(fields) = 2 /\ fields[1] = u /\ fields[2] = v
    BY <2>5
  <2>7. EdgeAt(line) = <<u, v>>
    <3>1. u - 0 = u /\ v - 0 = v
      BY <2>4
    <3> QED BY <2>4, <2>6, <3>1 DEF EdgeAt, Shifted
  <2>8. input.lines[line].kind = "text"
    <3>1. input.lines[line] \in Line
      BY <1>1, <2>3, LenProperties, ElementOfSeq
    <3>2. Len(<<>>) # 2
      OBVIOUS
    <3> QED BY <3>1, <3>2, <2>6, LineFields
  <2>9. NodesOf(G) = node
    BY <2>1 DEF IsGraph, NodesOf
  <2>10. Recorded
    BY <2>1 DEF FileInv
  <2>11. input.caller # "reader"
    BY <2>1
  <2>12. Recorded'
    <3> HIDE DEF node
    <3> QED BY <1>1, <2>1, <2>2, <2>3, <2>4, <2>6, <2>7, <2>8, <2>9, <2>10, <2>11, EdgeRecorded
  <2> QED BY <1>2, <2>1, <2>12
<1>5. CASE GraphGiven
  <2>1. /\ reading = "given" /\ reading' = "read" /\ UNCHANGED <<line, G>>
    BY <1>5 DEF GraphGiven
  <2>2. line' > Len(input'.lines)
    <3>1. line > Len(input.lines)
      BY <1>5 DEF GraphGiven
    <3> QED BY <1>1, <2>1, <3>1
  <2>3. Recorded => Recorded'
    BY <1>1, <2>1, RecordStays
  <2> QED BY <2>1, <2>2, <2>3 DEF FileInv
<1> QED BY <1>3, <1>4, <1>5

\* Every step keeps the graph that of the lines.
LEMMA FileKept == GraphInv /\ FileInv /\ [LifeNext]_lifeVars => FileInv'
<1> SUFFICES ASSUME GraphInv, FileInv, [LifeNext]_lifeVars PROVE FileInv'
  OBVIOUS
<1>1. CASE UNCHANGED <<input, reading, line, G>>
  BY <1>1, RecordStays DEF FileInv
<1>2. CASE RankVertices \/ InterruptRanking
  BY <1>1, <1>2, RankingSteps
<1>3. CASE \/ ReadFailed \/ ListEdges \/ ReadStream \/ BuildGraph \/ OrderByDegree
           \/ RankingInterrupted \/ OrderByRanking \/ Relabel
  BY <1>1, <1>3 DEF ReadFailed, ListEdges, ReadStream, BuildGraph, OrderByDegree,
      RankingInterrupted, OrderByRanking, Relabel, prepVars, readerVars
<1>4. CASE \/ LabelVertices
           \/ \E x, y \in 0..NumV : Ask(x, y)
           \/ Return /\ UNCHANGED prepVars
           \/ Stopped /\ UNCHANGED prepVars
           \/ UNCHANGED lifeVars
  <2>1. UNCHANGED prepVars
    BY <1>4, LaterSteps
  <2> QED BY <1>1, <2>1 DEF prepVars, readerVars
<1> QED BY <1>2, <1>3, <1>4, ReaderRecords, GivenRecorded DEF LifeNext, Prepare

\* EdgesOf lists the places of the arrays that count.
LEMMA EdgesPlaced ==
    ASSUME NEW n \in Nat, NEW g, IsGraph(g, n)
    PROVE  LET list == EdgesOf(g)
               counts(u, k) == g.directed \/ u >= g.out[u][k]
           IN  /\ \A u \in NodesOf(g) : \A k \in DOMAIN g.out[u] :
                     counts(u, k) => /\ <<u, k>> \in DOMAIN list
                                     /\ list[<<u, k>>] = <<u, g.out[u][k]>>
               /\ \A i \in DOMAIN list : \E u \in NodesOf(g) : \E k \in DOMAIN g.out[u] :
                     /\ i = <<u, k>> /\ counts(u, k) /\ list[i] = <<u, g.out[u][k]>>
                     /\ g.out[u][k] \in NodesOf(g)
<1> DEFINE places == UNION {{u} \X DOMAIN g.out[u] : u \in NodesOf(g)}
           counts(p) == g.directed \/ p[1] >= g.out[p[1]][p[2]]
           list == EdgesOf(g)
<1>1. list = [p \in {q \in places : counts(q)} |-> <<p[1], g.out[p[1]][p[2]]>>]
  BY DEF EdgesOf
<1>2. \A u \in NodesOf(g) : \A k \in DOMAIN g.out[u] : <<u, k>> \in places
  OBVIOUS
<1>3. \A p \in places : \E u \in NodesOf(g) : \E k \in DOMAIN g.out[u] : p = <<u, k>>
  OBVIOUS
<1>4. \A u \in NodesOf(g) : \A k \in DOMAIN g.out[u] : g.out[u][k] \in NodesOf(g)
  <2> TAKE u \in NodesOf(g)
  <2>1. g.out[u] \in Seq(NodesOf(g))
    BY DEF IsGraph, NodesOf
  <2> QED BY <2>1
<1> HIDE DEF list, places
<1>5. \A u \in NodesOf(g) : \A k \in DOMAIN g.out[u] :
          counts(<<u, k>>) => <<u, k>> \in DOMAIN list /\ list[<<u, k>>] = <<u, g.out[u][k]>>
  BY <1>1, <1>2
<1>6. ASSUME NEW i \in DOMAIN list
      PROVE  \E u \in NodesOf(g) : \E k \in DOMAIN g.out[u] :
                /\ i = <<u, k>> /\ counts(<<u, k>>) /\ list[i] = <<u, g.out[u][k]>>
                /\ g.out[u][k] \in NodesOf(g)
  <2>1. i \in places /\ counts(i) /\ list[i] = <<i[1], g.out[i[1]][i[2]]>>
    BY <1>1
  <2>2. PICK u \in NodesOf(g) : \E k \in DOMAIN g.out[u] : i = <<u, k>>
    BY <1>3, <2>1
  <2> QED BY <2>1, <2>2, <1>4
<1> QED BY <1>5, <1>6 DEF list

\* The lines that were given when the graph is complete are all texts.
LEMMA AllGiven ==
    ASSUME GraphInv, FileInv, reading = "read"
    PROVE  /\ Recorded /\ input.lines \in Seq(Line)
           /\ Given = {k \in DOMAIN input.lines : input.lines[k].kind = "text"}
<1>1. Recorded /\ line > Len(input.lines)
  BY DEF FileInv
<1>2. line \in Nat /\ input.lines \in Seq(Line)
  BY InputsAssumption DEF GraphInv
<1>3. \A k \in DOMAIN input.lines : k < line
  BY <1>1, <1>2, LenProperties
<1> QED BY <1>1, <1>2, <1>3 DEF Given

\* The edges a complete graph lists are those of the lines.
LEMMA EdgesGiven ==
    ASSUME GraphInv, FileInv, reading = "read"
    PROVE  LET edges == EdgesOf(G)
           IN  /\ \A i \in DOMAIN edges : \E u, v \in NodesOf(G) :
                     edges[i] = <<u, v>> /\ \E k \in Given : Joins(EdgeAt(k), u, v)
               /\ \A k \in Given : \E i \in DOMAIN edges : \E u, v \in NodesOf(G) :
                     edges[i] = <<u, v>> /\ Joins(EdgeAt(k), u, v)
<1> DEFINE edges == EdgesOf(G)
<1>1. Recorded
  BY AllGiven
<1>2. PICK n \in Nat : IsGraph(G, n)
  BY DEF GraphInv
<1>3. NodesOf(G) = 0..(n - 1)
  BY <1>2 DEF IsGraph, NodesOf
<1>4. /\ \A u \in NodesOf(G) : \A k \in DOMAIN G.out[u] :
            G.directed \/ u >= G.out[u][k] =>
                <<u, k>> \in DOMAIN edges /\ edges[<<u, k>>] = <<u, G.out[u][k]>>
      /\ \A i \in DOMAIN edges : \E u \in NodesOf(G) : \E k \in DOMAIN G.out[u] :
            edges[i] = <<u, G.out[u][k]>> /\ G.out[u][k] \in NodesOf(G)
  BY <1>2, EdgesPlaced
<1> HIDE DEF edges
<1>5. \A u \in NodesOf(G) : \A k \in DOMAIN G.out[u] : G.out[u][k] \in ToSet(G.out[u])
  BY DEF ToSet
<1>6. \A i \in DOMAIN edges : \E u, v \in NodesOf(G) :
          edges[i] = <<u, v>> /\ \E k \in Given : Joins(EdgeAt(k), u, v)
  BY <1>1, <1>4, <1>5 DEF Recorded
<1>7. ASSUME NEW k \in Given
      PROVE  \E i \in DOMAIN edges : \E u, v \in NodesOf(G) :
                 edges[i] = <<u, v>> /\ Joins(EdgeAt(k), u, v)
  <2>1. PICK u \in NodesOf(G), v \in NodesOf(G) : EdgeAt(k) = <<u, v>>
    BY <1>1 DEF Recorded
  <2>2. v \in ToSet(G.out[u])
    BY <1>1, <2>1 DEF Recorded, Joins
  <2>3. CASE G.directed \/ u >= v
    <3>1. PICK j \in DOMAIN G.out[u] : G.out[u][j] = v
      BY <2>2 DEF ToSet
    <3>2. <<u, j>> \in DOMAIN edges /\ edges[<<u, j>>] = <<u, v>>
      BY <1>4, <2>3, <3>1
    <3> QED BY <2>1, <3>2 DEF Joins
  <2>4. CASE ~G.directed /\ ~(u >= v)
    <3>1. u \in ToSet(G.out[v]) /\ ~input.directed
      BY <1>1, <1>2, <1>3, <2>2, <2>4 DEF IsGraph, Recorded
    <3>2. PICK j \in DOMAIN G.out[v] : G.out[v][j] = u
      BY <3>1 DEF ToSet
    <3>3. v >= u
      BY <1>3, <2>4
    <3>4. <<v, j>> \in DOMAIN edges /\ edges[<<v, j>>] = <<v, u>>
      BY <1>4, <3>2, <3>3
    <3> QED BY <2>1, <3>1, <3>4 DEF Joins
  <2> QED BY <2>3, <2>4
<1> QED BY <1>6, <1>7 DEF edges

\* The invariant says that the graph is the file.
LEMMA FileIsGraph == GraphInv /\ FileInv => GraphIsFile
<1> SUFFICES ASSUME GraphInv, FileInv, input.caller = "reader", reading = "read"
             PROVE  GraphIsFile
  BY DEF GraphIsFile
<1> DEFINE edges == EdgesOf(G)
           pairs == {Shifted(t.fields) : t \in Texts(input.lines)}
           same(p, q) == p = q \/ (~input.directed /\ p = <<q[2], q[1]>>)
<1>1. /\ Recorded /\ Given = {k \in DOMAIN input.lines : input.lines[k].kind = "text"}
  BY AllGiven
<1>2. PICK n \in Nat : IsGraph(G, n)
  BY DEF GraphInv
<1>3. NodesOf(G) = 0..(n - 1)
  BY <1>2 DEF IsGraph, NodesOf
<1>4. pairs = {EdgeAt(k) : k \in Given}
  <2>1. \A k \in Given : input.lines[k] \in Texts(input.lines)
    BY <1>1 DEF Texts, ToSet
  <2>2. \A t \in Texts(input.lines) : \E k \in Given : t = input.lines[k]
    BY <1>1 DEF Texts, ToSet
  <2> QED BY <2>1, <2>2 DEF EdgeAt
<1>5. \A p, u, v : Joins(p, u, v) <=> same(p, <<u, v>>)
  BY DEF Joins
<1>6. /\ \A i \in DOMAIN edges : \E p \in pairs : same(p, edges[i])
      /\ \A p \in pairs : \E i \in DOMAIN edges : same(p, edges[i])
  <2> HIDE DEF edges, pairs, same
  <2> QED BY <1>4, <1>5, EdgesGiven DEF edges
<1>7. ASSUME NEW i \in DOMAIN edges, NEW j \in DOMAIN edges, same(edges[i], edges[j])
      PROVE  i = j
  <2>1. PICK u \in NodesOf(G) : \E m \in DOMAIN G.out[u] :
            /\ i = <<u, m>> /\ edges[i] = <<u, G.out[u][m]>>
            /\ G.directed \/ u >= G.out[u][m]
            /\ G.out[u][m] \in NodesOf(G)
    BY <1>2, EdgesPlaced
  <2>2. PICK k \in DOMAIN G.out[u] :
            /\ i = <<u, k>> /\ edges[i] = <<u, G.out[u][k]>>
            /\ G.directed \/ u >= G.out[u][k]
            /\ G.out[u][k] \in NodesOf(G)
    BY <2>1
  <2>3. PICK x \in NodesOf(G) : \E m \in DOMAIN G.out[x] :
            /\ j = <<x, m>> /\ edges[j] = <<x, G.out[x][m]>>
            /\ G.directed \/ x >= G.out[x][m]
            /\ G.out[x][m] \in NodesOf(G)
    BY <1>2, EdgesPlaced
  <2>4. PICK l \in DOMAIN G.out[x] :
            /\ j = <<x, l>> /\ edges[j] = <<x, G.out[x][l]>>
            /\ G.directed \/ x >= G.out[x][l]
            /\ G.out[x][l] \in NodesOf(G)
    BY <2>3
  <2> HIDE DEF edges
  <2> DEFINE v == G.out[u][k]
             y == G.out[x][l]
  <2>5. \/ u = x /\ v = y
        \/ ~G.directed /\ u = y /\ v = x
    BY <1>1, <1>7, <2>2, <2>4 DEF Recorded
  <2>6. u \in Nat /\ v \in Nat /\ x \in Nat /\ y \in Nat
    BY <1>3, <2>2, <2>4
  <2> HIDE DEF v, y
  <2>7. u = x /\ v = y
    BY <2>2, <2>4, <2>5, <2>6 DEF v, y
  <2>8. NoRepeat(G.out[u])
    BY <1>1 DEF Recorded
  <2>9. k = l
    BY <2>7, <2>8 DEF NoRepeat, v, y
  <2> QED BY <2>2, <2>4, <2>7, <2>9
<1>8. ASSUME NEW u \in NodesOf(G), NEW v \in NodesOf(G)
      PROVE  Contains(G.out[u], v) <=> Contains(IF G.directed THEN G.in[v] ELSE G.out[v], u)
  <2>1. ASSUME NEW s \in Seq(NodesOf(G)), NEW e PROVE Contains(s, e) <=> e \in ToSet(s)
    <3>1. DOMAIN s = 1..Len(s)
      OBVIOUS
    <3> QED BY <3>1 DEF Contains, ToSet
  <2>2. /\ G.out[u] \in Seq(NodesOf(G)) /\ G.out[v] \in Seq(NodesOf(G))
        /\ G.in[v] \in Seq(NodesOf(G))
    BY <1>2, <1>3 DEF IsGraph
  <2>3. /\ G.directed => (v \in ToSet(G.out[u]) <=> u \in ToSet(G.in[v]))
        /\ ~G.directed => (v \in ToSet(G.out[u]) <=> u \in ToSet(G.out[v]))
    BY <1>1, <1>2, <1>3 DEF Recorded, IsGraph
  <2> QED BY <2>1, <2>2, <2>3
<1> HIDE DEF edges, pairs
<1> QED BY <1>6, <1>7, <1>8 DEF GraphIsFile, edges, pairs

\* A new life has read nothing.
LEMMA FileInit == LifeInit => GraphInv /\ FileInv
<1> SUFFICES ASSUME LifeInit PROVE FileInv
  BY OrderInit DEF OrderInv
<1>1. reading = "first pass" /\ line = 1
  BY DEF LifeInit, ReaderInit
<1> QED BY <1>1 DEF FileInv

\* A graph that was read has the edges of its file and no others, each of them once
\* however often and in whichever direction the file lists it, and both ends of an edge
\* know it: whatever the file, for the two passes of readContinuous.
THEOREM GraphRead == LifeSpec => []GraphIsFile
  BY FileInit, GraphKept, FileKept, FileIsGraph, PTL DEF LifeSpec

(***************************************************************************)
(* From the input to the graph that is labelled.                           *)
(***************************************************************************)
GivenBetween(u, v) == {<<u, v>>, <<v, u>>} \cap GivenEdges # {}

\* The list has the edges of the input, in whichever direction, and no others.
ListsGiven ==
    /\ \A i \in DOMAIN es : es[i] \in Nat \X Nat
    /\ \A u, v \in Nat :
          (\E i \in DOMAIN es : es[i] \in {<<u, v>>, <<v, u>>}) <=> GivenBetween(u, v)

OrdersVertices == inv \in [Vertex -> Vertex] /\ {inv[i] : i \in Vertex} = Vertex

\* The new labels have the edges of the vertices they stand for.
Renamed == \A i, j \in Vertex : j \in adj[i] <=> inv[j] \in GivenGraph[inv[i]]

Unlabelled == {"read", "edges", "order", "relabel"}

InputInv ==
    /\ pc = "edges" => ListsGiven
    /\ pc \in {"order", "relabel"} => adj = GivenGraph
    /\ pc \notin {"read", "edges", "order", "failed"} => OrdersVertices
    /\ pc \notin Unlabelled \cup {"failed"} => Renamed

\* The graph of the input stays as it is.
LEMMA GivenStays ==
    UNCHANGED input => /\ GivenGraph' = GivenGraph
                       /\ \A u, v : GivenBetween(u, v)' = GivenBetween(u, v)
<1> SUFFICES ASSUME UNCHANGED input
             PROVE  /\ GivenGraph' = GivenGraph
                    /\ \A u, v : GivenBetween(u, v)' = GivenBetween(u, v)
  OBVIOUS
<1>1. GivenEdges' = GivenEdges
  BY DEF GivenEdges, Shifted
<1> QED BY <1>1 DEF GivenGraph, GivenBetween, Vertex

\* A stream lists the edges it is taken for.
LEMMA StreamLists ==
    ASSUME input \in Inputs, input.caller = "stream", es' = StreamEdges(input.lines),
           UNCHANGED input
    PROVE  ListsGiven'
<1> DEFINE list == StreamEdges(input.lines)
           numbers == StreamNumbers(input.lines)
<1>1. GivenEdges = ToSet(list)
  BY DEF GivenEdges
<1>2. numbers \in Seq(Nat) /\ Len(numbers) \in Nat
  BY InputsAssumption, StreamNumbersType, LenProperties
<1>3. list = [i \in 1..(Len(numbers) \div 2) |-> <<numbers[2 * i - 1], numbers[2 * i]>>]
  BY DEF StreamEdges
<1> HIDE DEF numbers, list
<1>4. ASSUME NEW i \in DOMAIN list PROVE list[i] \in Nat \X Nat
  <2>1. i \in 1..(Len(numbers) \div 2) /\ list[i] = <<numbers[2 * i - 1], numbers[2 * i]>>
    BY <1>3, <1>4
  <2>2. 2 * i - 1 \in 1..Len(numbers) /\ 2 * i \in 1..Len(numbers)
    BY <1>2, <2>1
  <2>3. numbers[2 * i - 1] \in Nat /\ numbers[2 * i] \in Nat
    BY <1>2, <2>2, ElementOfSeq
  <2> QED BY <2>1, <2>3
<1>5. \A u, v : (\E i \in DOMAIN list : list[i] \in {<<u, v>>, <<v, u>>}) <=> GivenBetween(u, v)
  BY <1>1 DEF GivenBetween, ToSet
<1>6. es' = list
  BY DEF list
<1> QED BY <1>4, <1>5, <1>6, GivenStays DEF ListsGiven

\* A complete graph lists the edges of the input.
LEMMA GraphLists ==
    ASSUME GraphInv, FileInv, reading = "read", es' = EdgesOf(G), UNCHANGED input
    PROVE  ListsGiven'
<1> DEFINE edges == EdgesOf(G)
<1>1. /\ Recorded /\ input.lines \in Seq(Line)
      /\ Given = {k \in DOMAIN input.lines : input.lines[k].kind = "text"}
  BY AllGiven
<1>2. PICK n \in Nat : IsGraph(G, n)
  BY DEF GraphInv
<1>3. NodesOf(G) \subseteq Nat
  BY <1>2 DEF IsGraph, NodesOf
<1>4. input.caller # "stream"
  <2>1. "read" # "first pass"
    OBVIOUS
  <2> QED BY <2>1 DEF GraphInv
<1>5. GivenEdges = {EdgeAt(k) : k \in Given}
  <2>1. ASSUME NEW k \in DOMAIN input.lines
        PROVE  Len(input.lines[k].fields) >= 2 <=> k \in Given
    <3>1. input.lines[k] \in Line
      BY <1>1, LenProperties, ElementOfSeq
    <3>2. CASE k \in Given
      BY <1>1, <3>2 DEF Recorded
    <3>3. CASE k \notin Given
      <4>1. input.lines[k].fields = <<>>
        BY <3>1, <3>3, <1>1, LineFields
      <4>2. ~(Len(<<>>) >= 2)
        OBVIOUS
      <4> QED BY <3>3, <4>1, <4>2
    <3> QED BY <3>2, <3>3
  <2>2. GivenEdges = {Shifted(l.fields) : l \in {m \in ToSet(input.lines) : Len(m.fields) >= 2}}
    BY <1>4 DEF GivenEdges
  <2>3. {m \in ToSet(input.lines) : Len(m.fields) >= 2} = {input.lines[k] : k \in Given}
    BY <1>1, <2>1 DEF ToSet
  <2> QED BY <2>2, <2>3 DEF EdgeAt
<1>6. /\ \A i \in DOMAIN edges : \E u, v \in NodesOf(G) :
            edges[i] = <<u, v>> /\ \E k \in Given : Joins(EdgeAt(k), u, v)
      /\ \A k \in Given : \E i \in DOMAIN edges : \E u, v \in NodesOf(G) :
            edges[i] = <<u, v>> /\ Joins(EdgeAt(k), u, v)
  BY EdgesGiven
<1>7. \A p, u, v : Joins(p, u, v) => p \in {<<u, v>>, <<v, u>>}
  BY DEF Joins
<1>8. es' = edges
  OBVIOUS
<1> HIDE DEF edges
<1>9. \A i \in DOMAIN edges : edges[i] \in Nat \X Nat
  BY <1>3, <1>6
<1>10. ASSUME NEW u, NEW v
       PROVE  (\E i \in DOMAIN edges : edges[i] \in {<<u, v>>, <<v, u>>}) <=> GivenBetween(u, v)
  <2>1. ASSUME NEW i \in DOMAIN edges, edges[i] \in {<<u, v>>, <<v, u>>}
        PROVE  GivenBetween(u, v)
    <3>1. PICK x \in NodesOf(G), y \in NodesOf(G), k \in Given :
             edges[i] = <<x, y>> /\ Joins(EdgeAt(k), x, y)
      BY <1>6
    <3>2. EdgeAt(k) \in {<<u, v>>, <<v, u>>} /\ EdgeAt(k) \in GivenEdges
      BY <2>1, <3>1, <1>5, <1>7
    <3> QED BY <3>2 DEF GivenBetween
  <2>2. ASSUME GivenBetween(u, v)
        PROVE  \E i \in DOMAIN edges : edges[i] \in {<<u, v>>, <<v, u>>}
    <3>1. PICK k \in Given : EdgeAt(k) \in {<<u, v>>, <<v, u>>}
      BY <1>5, <2>2 DEF GivenBetween
    <3>2. PICK i \in DOMAIN edges, x \in NodesOf(G), y \in NodesOf(G) :
              edges[i] = <<x, y>> /\ Joins(EdgeAt(k), x, y)
      BY <1>6
    <3> QED BY <3>1, <3>2, <1>7
  <2> QED BY <2>1, <2>2
<1> QED BY <1>8, <1>9, <1>10, GivenStays DEF ListsGiven

\* The graph that is built is the one of the input.
LEMMA BuiltGraph ==
    ASSUME ListsGiven, BuildGraph
    PROVE  adj' = GivenGraph
<1>1. NumV - 1 \in Ends /\ \A v \in Ends : v < NumV
  BY DEF BuildGraph, Ends
<1>2. adj' = [v \in Vertex |-> Adjacent(v)]
  BY DEF BuildGraph
<1>3. NumV \in Nat /\ Vertex = 0..(NumV - 1)
  BY GraphAssumption DEF Vertex
<1>4. ASSUME NEW i \in DOMAIN es
      PROVE  /\ es[i] = <<es[i][1], es[i][2]>>
             /\ es[i][1] \in Vertex /\ es[i][2] \in Vertex
  <2>1. es[i] \in Nat \X Nat
    BY DEF ListsGiven
  <2>2. es[i][1] \in Ends /\ es[i][2] \in Ends
    BY DEF Ends
  <2>3. es[i][1] < NumV /\ es[i][2] < NumV
    BY <1>1, <2>2
  <2> QED BY <2>1, <2>3, <1>3
<1>5. ASSUME NEW v \in Vertex, NEW w
      PROVE  w \in Adjacent(v) <=> \E i \in DOMAIN es : es[i] \in {<<v, w>>, <<w, v>>}
  BY <1>4 DEF Adjacent
<1>6. ASSUME NEW v \in Vertex PROVE Adjacent(v) = GivenGraph[v]
  <2>1. \A w \in Adjacent(v) : w \in Vertex
    BY <1>4 DEF Adjacent
  <2>2. \A w \in Vertex : w \in Adjacent(v) <=> GivenBetween(v, w)
    BY <1>3, <1>5 DEF ListsGiven
  <2> QED BY <2>1, <2>2 DEF GivenGraph, GivenBetween
<1> QED BY <1>2, <1>6 DEF GivenGraph

\* The ranks are the inverse of the order.
LEMMA RankInverse ==
    ASSUME OrdersVertices
    PROVE  /\ \A v \in Vertex : Rank(v) \in Vertex /\ inv[Rank(v)] = v
           /\ \A i \in Vertex : Rank(inv[i]) = i
<1> DEFINE place == [v \in Vertex |-> CHOOSE i \in Vertex : inv[i] = v]
<1>1. \A v \in Vertex : \E i \in Vertex : inv[i] = v
  BY DEF OrdersVertices
<1>2. \A v \in Vertex : place[v] \in Vertex /\ inv[place[v]] = v
  BY <1>1
<1>3. place \in Injection(Vertex, Vertex)
  <2>1. place \in [Vertex -> Vertex]
    BY <1>2
  <2> HIDE DEF place
  <2> QED BY <1>2, <2>1 DEF Injection, IsInjective
<1> HIDE DEF place
<1>4. place \in Surjection(Vertex, Vertex)
  BY <1>3, VertexFinite, FS_Injection
<1>5. ASSUME NEW i \in Vertex PROVE place[inv[i]] = i
  <2>1. PICK v \in Vertex : place[v] = i
    BY <1>4 DEF Surjection
  <2> QED BY <2>1, <1>2
<1>6. ASSUME NEW v \in Vertex PROVE Rank(v) = place[v]
  <2>1. {i \in Vertex : inv[i] = v} = {place[v]}
    BY <1>2, <1>5
  <2>2. place[v] \in Int
    BY <1>2, Numbers DEF Vertex
  <2>3. place[v] <= place[v]
    BY <2>2
  <2>4. Rank(v) = CHOOSE i \in {place[v]} : \A j \in {place[v]} : j <= i
    BY <2>1 DEF Rank
  <2> QED BY <2>3, <2>4
<1>7. \A i \in Vertex : inv[i] \in Vertex
  BY DEF OrdersVertices
<1> QED BY <1>2, <1>5, <1>6, <1>7

\* Relabelling renames the vertices.
LEMMA RelabelRenames ==
    ASSUME OrdersVertices, adj = GivenGraph, NEW i \in Vertex, NEW j \in Vertex
    PROVE  j \in Relabeled[i] <=> inv[j] \in GivenGraph[inv[i]]
<1>1. /\ \A v \in Vertex : Rank(v) \in Vertex /\ inv[Rank(v)] = v
      /\ \A k \in Vertex : Rank(inv[k]) = k
  BY RankInverse
<1>2. inv[i] \in Vertex /\ inv[j] \in Vertex
  BY DEF OrdersVertices
<1>3. \A v \in Vertex : GivenGraph[v] \subseteq Vertex
  BY DEF GivenGraph
<1>4. Relabeled[i] = UNION {{Rank(w) : w \in GivenGraph[v]} : v \in {x \in Vertex : Rank(x) = i}}
  BY DEF Relabeled
<1>5. {x \in Vertex : Rank(x) = i} = {inv[i]}
  BY <1>1, <1>2
<1>6. Relabeled[i] = {Rank(w) : w \in GivenGraph[inv[i]]}
  BY <1>4, <1>5
<1> QED BY <1>1, <1>2, <1>3, <1>6

\* The steps after the preparation leave the graph alone, and their places are others.
LEMMA LabellingSteps ==
    ASSUME \/ LabelVertices
           \/ \E x, y \in 0..NumV : Ask(x, y)
           \/ Return /\ UNCHANGED prepVars
           \/ Stopped /\ UNCHANGED prepVars
           \/ UNCHANGED lifeVars
    PROVE  /\ UNCHANGED <<adj, input, inv, es>>
           /\ \/ UNCHANGED pc
              \/ pc \notin Unlabelled \cup {"failed"} /\ pc' \notin Unlabelled
<1>1. CASE BitParallelNext /\ UNCHANGED <<prunedVars, answer, prepVars>>
  <2>1. /\ UNCHANGED adj
        /\ \/ UNCHANGED pc
           \/ pc \in {"tree", "scan", "write"} /\ pc' \in {"scan", "write", "tree", "root", "exited"}
    BY <1>1 DEF BitParallelNext, SelectRoot, NoRootLeft, ScanVertex, FoldLevel, WriteTree, TreesDone,
                indexVars, givenVars
  <2> QED BY <1>1, <2>1 DEF Unlabelled, prepVars
<1>2. CASE PrunedNext /\ UNCHANGED <<bpVars, answer, prepVars>>
  <2>1. /\ UNCHANGED adj
        /\ \/ UNCHANGED pc
           \/ (pc \in {"root", "bfs"} /\ pc' \in {"root", "bfs", "done", "failed"})
    BY <1>2 DEF PrunedNext, SkipRoot, StartRoot, PruneVertex, LabelVertex, NextDepth, FinishRoot,
                CopyLabels, CopyFails, indexVars, givenVars
  <2> QED BY <1>2, <2>1 DEF Unlabelled, prepVars
<1>3. CASE (\E x, y \in 0..NumV : Ask(x, y)) \/ (Return /\ UNCHANGED prepVars)
           \/ (Stopped /\ UNCHANGED prepVars) \/ UNCHANGED lifeVars
  BY <1>3 DEF Ask, Return, Stopped, lifeVars, vars, indexVars, prepVars
<1> QED BY <1>1, <1>2, <1>3 DEF LabelVertices

\* Every step keeps what is labelled the graph of the input.
LEMMA InputKept ==
    GraphInv /\ ListedInv /\ RankInv /\ FileInv /\ InputInv /\ [LifeNext]_lifeVars => InputInv'
<1> SUFFICES ASSUME GraphInv, ListedInv, RankInv, FileInv, InputInv, [LifeNext]_lifeVars
             PROVE  InputInv'
  OBVIOUS
<1>1. Vertex' = Vertex
  BY DEF Vertex
<1>2. CASE UNCHANGED <<input, inv, es, adj, pc>>
  BY <1>1, <1>2, GivenStays DEF InputInv, ListsGiven, OrdersVertices, Renamed, Unlabelled
<1>3. CASE pc' \in {"read", "failed"}
  BY <1>3 DEF InputInv, Unlabelled
<1>4. CASE \/ ReadFile \/ ReadFailed \/ MakeGraph \/ GiveEdge \/ GraphGiven \/ RankingInterrupted
  <2>1. pc' \in {"read", "failed"}
    BY <1>4 DEF ReadFile, ReadFailed, MakeGraph, GiveEdge, GraphGiven, RankingInterrupted, vars, indexVars
  <2> QED BY <1>3, <2>1
<1>5. CASE ListEdges
  <2>1. reading = "read" /\ es' = EdgesOf(G) /\ pc' = "edges" /\ UNCHANGED input
    BY <1>5 DEF ListEdges
  <2>2. ListsGiven'
    BY <2>1, GraphLists
  <2> QED BY <2>1, <2>2 DEF InputInv, Unlabelled
<1>6. CASE ReadStream
  <2>1. CASE pc' = "failed"
    BY <1>3, <2>1
  <2>2. CASE pc' = "edges"
    <3>1. input.caller = "stream" /\ es' = StreamEdges(input.lines) /\ UNCHANGED input
      BY <1>6, <2>2 DEF ReadStream
    <3>2. ListsGiven'
      BY <3>1, StreamLists DEF GraphInv
    <3> QED BY <2>2, <3>2 DEF InputInv, Unlabelled
  <2> QED BY <1>6, <2>1, <2>2 DEF ReadStream
<1>7. CASE BuildGraph
  <2>1. pc = "edges" /\ pc' \in {"order", "failed"} /\ UNCHANGED input
    BY <1>7 DEF BuildGraph, prepVars
  <2>2. ListsGiven
    BY <2>1 DEF InputInv
  <2>3. adj' = GivenGraph'
    BY <1>7, <2>1, <2>2, BuiltGraph, GivenStays
  <2> QED BY <2>1, <2>3 DEF InputInv, Unlabelled
<1>8. CASE OrderByDegree \/ OrderByRanking
  <2>1. pc = "order" /\ pc' = "relabel" /\ UNCHANGED <<input, adj>>
    BY <1>8 DEF OrderByDegree, OrderByRanking
  <2>2. adj' = GivenGraph'
    BY <2>1, GivenStays DEF InputInv
  <2>3. \E f : inv' = [i \in Vertex |-> f[i]]
    <3>1. ASSUME NEW random PROVE \E f : OrderedWith(random) = [i \in Vertex |-> f[i]]
      <4> DEFINE key(v) == Jitter * Degree(v) + random[v]
                 before(v, w) == key(v) > key(w) \/ (key(v) = key(w) /\ v > w)
                 order == [i \in Vertex |->
                            CHOOSE v \in Vertex : Cardinality({w \in Vertex : before(w, v)}) = i]
      <4>1. OrderedWith(random) = order
        BY DEF OrderedWith
      <4>2. order = [i \in Vertex |-> order[i]]
        <5> HIDE DEF before
        <5> QED OBVIOUS
      <4> HIDE DEF order
      <4> QED BY <4>1, <4>2
    <3>2. CASE OrderByDegree
      BY <3>1, <3>2 DEF OrderByDegree, DegreeOrders
    <3>3. CASE OrderByRanking
      <4> DEFINE first == [i \in Vertex |-> ranking[i + 1]]
      <4>1. inv' = first
        BY <3>3 DEF OrderByRanking
      <4>2. first = [i \in Vertex |-> first[i]]
        OBVIOUS
      <4> QED BY <4>1, <4>2
    <3> QED BY <1>8, <3>2, <3>3
  <2>4. {inv'[i] : i \in Vertex} = Vertex
    <3>1. CASE OrderByDegree
      <4>1. PICK random \in [Vertex -> 0..Jitter] : inv' = OrderedWith(random)
        BY <3>1 DEF OrderByDegree, DegreeOrders
      <4>2. IsFiniteSet(DOMAIN es)
        BY <3>1 DEF OrderByDegree, ListedInv
      <4> QED BY <4>1, <4>2, DegreeOrder
    <3>2. CASE OrderByRanking
      BY <3>2 DEF OrderByRanking, RankInv
    <3> QED BY <1>8, <3>1, <3>2
  <2>5. OrdersVertices'
    BY <1>1, <2>3, <2>4 DEF OrdersVertices
  <2> QED BY <2>1, <2>2, <2>5 DEF InputInv, Unlabelled
<1>9. CASE Relabel
  <2>1. pc = "relabel" /\ pc' = "tree" /\ UNCHANGED <<input, inv>> /\ adj' = Relabeled
    BY <1>9 DEF Relabel
  <2>2. OrdersVertices /\ adj = GivenGraph
    BY <2>1 DEF InputInv
  <2>3. Renamed'
    BY <1>1, <2>1, <2>2, RelabelRenames, GivenStays DEF Renamed
  <2>4. OrdersVertices'
    BY <1>1, <2>1, <2>2 DEF OrdersVertices
  <2> QED BY <2>1, <2>3, <2>4 DEF InputInv, Unlabelled
<1>10. CASE RankVertices \/ InterruptRanking
  <2>1. UNCHANGED <<input, inv, es, adj, pc>>
    BY <1>10, RankingSteps DEF RankVertices, InterruptRanking, vars, indexVars
  <2> QED BY <1>2, <2>1
<1>11. CASE \/ LabelVertices
            \/ \E x, y \in 0..NumV : Ask(x, y)
            \/ Return /\ UNCHANGED prepVars
            \/ Stopped /\ UNCHANGED prepVars
            \/ UNCHANGED lifeVars
  <2>1. /\ UNCHANGED <<adj, input, inv, es>>
        /\ UNCHANGED pc \/ (pc \notin Unlabelled \cup {"failed"} /\ pc' \notin Unlabelled)
    BY <1>11, LabellingSteps
  <2>2. CASE pc \notin Unlabelled \cup {"failed"} /\ pc' \notin Unlabelled
    <3>1. OrdersVertices /\ Renamed
      BY <2>2 DEF InputInv, Unlabelled
    <3>2. OrdersVertices' /\ Renamed'
      BY <1>1, <2>1, <3>1, GivenStays DEF OrdersVertices, Renamed
    <3> QED BY <2>2, <3>2 DEF InputInv, Unlabelled
  <2> QED BY <1>2, <2>1, <2>2
<1> QED BY <1>4, <1>5, <1>6, <1>7, <1>8, <1>9, <1>10, <1>11 DEF LifeNext, Prepare

(***************************************************************************)
(* The labelling of a graph that was read.                                 *)
(***************************************************************************)
\* Before the labelling nothing is built; then the invariant of the construction holds.
PhaseInv ==
    /\ adj \in Graphs
    /\ IF pc \in Unlabelled THEN BitParallelInit /\ PrunedInit /\ answer = None ELSE BuildInv

\* The graphs of a life are among those that may be labelled.
LEMMA GraphsOfALife ==
    /\ [v \in Vertex |-> {}] \in Graphs
    /\ GivenGraph \in Graphs
    /\ OrdersVertices /\ adj = GivenGraph => Relabeled \in Graphs
<1>1. ASSUME NEW g \in [Vertex -> SUBSET Vertex], \A v, w \in Vertex : w \in g[v] => v \in g[w]
      PROVE  g \in Graphs
  BY <1>1, AllGraphsAssumption
<1>2. [v \in Vertex |-> {}] \in Graphs
  BY <1>1
<1>3. /\ GivenGraph \in [Vertex -> SUBSET Vertex]
      /\ \A v, w \in Vertex : w \in GivenGraph[v] => v \in GivenGraph[w]
  BY DEF GivenGraph
<1>4. ASSUME OrdersVertices, adj = GivenGraph PROVE Relabeled \in Graphs
  <2>1. \A v \in Vertex : Rank(v) \in Vertex
    BY <1>4, RankInverse
  <2>2. \A v \in Vertex : GivenGraph[v] \subseteq Vertex
    BY DEF GivenGraph
  <2>3. Relabeled = [i \in Vertex |-> Relabeled[i]]
    BY DEF Relabeled
  <2>4. \A i \in Vertex : Relabeled[i] \subseteq Vertex
    BY <1>4, <2>1, <2>2 DEF Relabeled
  <2>5. Relabeled \in [Vertex -> SUBSET Vertex]
    BY <2>3, <2>4
  <2>6. \A i, j \in Vertex : j \in Relabeled[i] => i \in Relabeled[j]
    <3>1. \A i \in Vertex : inv[i] \in Vertex
      BY <1>4 DEF OrdersVertices
    <3> QED BY <1>3, <1>4, <3>1, RelabelRenames
  <2> QED BY <1>1, <2>5, <2>6
<1> QED BY <1>1, <1>2, <1>3, <1>4

\* The steps of the preparation build nothing.
LEMMA PreparationBuilds ==
    ASSUME PhaseInv, InputInv, pc \in Unlabelled, UNCHANGED labelVars,
           pc' \in Unlabelled \cup {"failed", "tree"}, adj' \in Graphs
    PROVE  PhaseInv'
<1>1. BitParallelInit' /\ PrunedInit' /\ answer' = None
  BY DEF PhaseInv, BitParallelInit, PrunedInit, labelVars, bpVars, bpSearchVars, edgeVars, prunedVars, searchVars
<1>2. CASE pc' \in Unlabelled
  BY <1>1, <1>2 DEF PhaseInv, Unlabelled
<1>3. CASE pc' = "failed"
  <2>1. (PrunedInit => LabelsExact)'
    BY NoLabels, PTL
  <2> QED BY <1>1, <1>3, <2>1 DEF PhaseInv, BuildInv, Unlabelled
<1>4. CASE pc' = "tree"
  <2>1. (pc = "tree" /\ adj \in Graphs /\ BitParallelInit => TreeInv)'
    BY TreesBegin, PTL
  <2> QED BY <1>1, <1>4, <2>1 DEF PhaseInv, BuildInv, Unlabelled
<1> QED BY <1>2, <1>3, <1>4

\* Every step keeps the invariant of the construction.
LEMMA PhaseKept == PhaseInv /\ InputInv /\ [LifeNext]_lifeVars => PhaseInv'
<1> SUFFICES ASSUME PhaseInv, InputInv, [LifeNext]_lifeVars PROVE PhaseInv'
  OBVIOUS
<1>1. CASE \/ ReadFile \/ ReadFailed \/ MakeGraph \/ GiveEdge \/ GraphGiven \/ ListEdges
           \/ ReadStream \/ OrderByDegree \/ RankingInterrupted \/ OrderByRanking
  <2>1. /\ pc \in Unlabelled /\ pc' \in Unlabelled \cup {"failed"}
        /\ UNCHANGED labelVars /\ adj' = adj
    BY <1>1 DEF ReadFile, ReadFailed, MakeGraph, GiveEdge, GraphGiven, ListEdges, ReadStream,
        OrderByDegree, RankingInterrupted, OrderByRanking, vars, indexVars, labelVars, Unlabelled
  <2> QED BY <2>1, PreparationBuilds DEF PhaseInv
<1>2. CASE RankVertices \/ InterruptRanking
  <2>1. pc = "order" /\ UNCHANGED <<pc, labelVars, adj>>
    BY <1>2 DEF RankVertices, InterruptRanking, vars, indexVars, labelVars
  <2> QED BY <2>1, PreparationBuilds DEF PhaseInv, Unlabelled
<1>3. CASE BuildGraph
  <2>1. pc = "edges" /\ pc' \in {"order", "failed"} /\ UNCHANGED labelVars
    BY <1>3 DEF BuildGraph
  <2>2. adj' \in Graphs
    BY <1>3, <2>1, BuiltGraph, GraphsOfALife DEF InputInv
  <2> QED BY <2>1, <2>2, PreparationBuilds DEF Unlabelled
<1>4. CASE Relabel
  <2>1. pc = "relabel" /\ pc' = "tree" /\ UNCHANGED labelVars /\ adj' = Relabeled
    BY <1>4 DEF Relabel
  <2>2. adj' \in Graphs
    BY <2>1, GraphsOfALife DEF InputInv
  <2> QED BY <2>1, <2>2, PreparationBuilds DEF Unlabelled
<1>5. ASSUME LabelVertices \/ Return PROVE pc \notin Unlabelled
  <2>1. CASE LabelVertices
    BY <2>1 DEF LabelVertices, BitParallelNext, PrunedNext, SelectRoot, NoRootLeft, ScanVertex,
        FoldLevel, WriteTree, TreesDone, SkipRoot, StartRoot, PruneVertex, LabelVertex, NextDepth,
        FinishRoot, CopyLabels, CopyFails, Unlabelled
  <2>2. CASE Return
    BY <2>2 DEF Return, PhaseInv
  <2> QED BY <1>5, <2>1, <2>2
<1>6. CASE LabelVertices
  <2>1. BuildInv /\ pc \notin Unlabelled
    BY <1>5, <1>6 DEF PhaseInv
  <2>2. BuildInv'
    BY <1>6, <2>1, BitParallelBuilds, PrunedBuilds DEF LabelVertices
  <2>3. UNCHANGED pc \/ pc' \notin Unlabelled
    BY <1>6, LabellingSteps
  <2>4. UNCHANGED adj
    BY <1>6, LabellingSteps
  <2> QED BY <2>1, <2>2, <2>3, <2>4 DEF PhaseInv, Unlabelled
<1>7. CASE (\E x, y \in 0..NumV : Ask(x, y)) \/ (Return /\ UNCHANGED prepVars)
  <2>1. /\ UNCHANGED <<indexVars, bpVars, prunedVars>>
        /\ answer' # None => pc = "done"
    BY <1>7 DEF Ask, Return
  <2>2. BuildInv /\ pc \notin Unlabelled
    BY <1>5, <1>7 DEF Ask, PhaseInv, Unlabelled
  <2>3. BuildInv'
    BY <2>1, <2>2, AskingBuilds
  <2> QED BY <2>1, <2>2, <2>3 DEF PhaseInv, Unlabelled, indexVars
<1>8. CASE (Stopped /\ UNCHANGED prepVars) \/ UNCHANGED lifeVars
  <2>1. UNCHANGED vars
    BY <1>8 DEF Stopped, lifeVars
  <2>2. UNCHANGED <<pc, adj, answer, labelVars, indexVars, bpVars, prunedVars>>
    BY <2>1 DEF vars, indexVars, labelVars
  <2>3. CASE pc \in Unlabelled
    BY <2>2, <2>3, PreparationBuilds DEF PhaseInv
  <2>4. CASE pc \notin Unlabelled
    <3>1. BuildInv
      BY <2>4 DEF PhaseInv
    <3>2. answer' # None => pc = "done"
      BY <2>2, <3>1 DEF BuildInv
    <3>3. BuildInv'
      BY <2>2, <3>1, <3>2, AskingBuilds
    <3> QED BY <2>2, <2>4, <3>3 DEF PhaseInv, Unlabelled
  <2> QED BY <2>3, <2>4
<1> QED BY <1>1, <1>2, <1>3, <1>4, <1>6, <1>7, <1>8 DEF LifeNext, Prepare

\* A new life satisfies the whole invariant.
LEMMA LifeStarts ==
    LifeInit => SamplingInv /\ OrderInv /\ FileInv /\ InputInv /\ PhaseInv
<1> SUFFICES ASSUME LifeInit PROVE InputInv /\ PhaseInv
  BY SamplingInit, OrderInit, FileInit
<1>1. pc = "read" /\ adj = [v \in Vertex |-> {}] /\ BitParallelInit /\ PrunedInit /\ answer = None
  BY DEF LifeInit
<1> QED BY <1>1, GraphsOfALife DEF InputInv, PhaseInv, Unlabelled

\* The invariant of a whole life.
LifeInv == SamplingInv /\ OrderInv /\ FileInv /\ InputInv /\ PhaseInv

\* Whatever the input is: what is labelled is its graph in other names, and what is
\* true of the construction is true of it.
THEOREM LifeInvariant == LifeSpec => []LifeInv
<1>1. LifeInit => LifeInv
  BY LifeStarts DEF LifeInv
<1>2. LifeInv /\ [LifeNext]_lifeVars => LifeInv'
  BY SamplingStep, GraphKept, ListedKept, RankKept, PermutationKept, FileKept, InputKept, PhaseKept
     DEF LifeInv, OrderInv
<1> QED BY <1>1, <1>2, PTL DEF LifeSpec

(***************************************************************************)
(* From the distances in the labelled graph to those in the input.         *)
(***************************************************************************)
\* What a user takes for distances are the distances of the graph module.
LEMMA SameGivenDistances ==
    ASSUME NEW g, NEW x, NEW y, NEW n
    PROVE  /\ GivenOracle!Within(g, x, y, n) <=> Within(g, x, y, n)
           /\ GivenOracle!AtDistance(g, x, y, n) <=> AtDistance(g, x, y, n)
<1>1. ASSUME NEW m PROVE GivenOracle!Within(g, x, y, m) <=> Within(g, x, y, m)
  BY DEF GivenOracle!Within, GivenOracle!Ball, GivenOracle!Expand, Within, Ball, Expand
<1> QED BY <1>1 DEF GivenOracle!AtDistance, AtDistance

\* New names do not change a distance.
LEMMA RenamedWithin ==
    ASSUME OrdersVertices, Renamed, adj \in Graphs, NEW i \in Vertex, NEW j \in Vertex,
           NEW n \in Nat
    PROVE  Within(adj, i, j, n) <=> Within(GivenGraph, inv[i], inv[j], n)
<1> DEFINE S == {k \in Nat : \A l \in Vertex :
                    Within(adj, i, l, k) <=> Within(GivenGraph, inv[i], inv[l], k)}
<1>1. /\ \A v \in Vertex : Rank(v) \in Vertex /\ inv[Rank(v)] = v
      /\ \A l \in Vertex : Rank(inv[l]) = l /\ inv[l] \in Vertex
  BY RankInverse DEF OrdersVertices
<1>2. 0 \in S
  BY <1>1, WithinZero
<1>3. ASSUME NEW k \in Nat, k \in S PROVE k + 1 \in S
  <2>1. ASSUME NEW l \in Vertex
        PROVE  Within(adj, i, l, k + 1) <=> Within(GivenGraph, inv[i], inv[l], k + 1)
    <3>1. ASSUME NEW v, Within(adj, i, v, k), l \in adj[v]
          PROVE  Within(GivenGraph, inv[i], inv[v], k) /\ inv[l] \in GivenGraph[inv[v]]
      <4>1. v \in Vertex
        BY <3>1, WithinVertex
      <4> QED BY <3>1, <4>1, <1>3 DEF Renamed
    <3>2. ASSUME NEW v, Within(GivenGraph, inv[i], v, k), inv[l] \in GivenGraph[v]
          PROVE  Within(adj, i, Rank(v), k) /\ l \in adj[Rank(v)]
      <4>1. v \in Vertex
        BY <3>2, <1>1, GraphsOfALife, WithinVertex
      <4> QED BY <3>2, <4>1, <1>1, <1>3 DEF Renamed
    <3>3. /\ Within(adj, i, l, k + 1) <=>
                Within(adj, i, l, k) \/ \E v : Within(adj, i, v, k) /\ l \in adj[v]
          /\ Within(GivenGraph, inv[i], inv[l], k + 1) <=>
                \/ Within(GivenGraph, inv[i], inv[l], k)
                \/ \E v : Within(GivenGraph, inv[i], v, k) /\ inv[l] \in GivenGraph[v]
      BY WithinStep
    <3>4. Within(adj, i, l, k) <=> Within(GivenGraph, inv[i], inv[l], k)
      BY <1>3
    <3> QED BY <3>1, <3>2, <3>3, <3>4
  <2> QED BY <2>1
<1>4. Nat \subseteq S
  <2> HIDE DEF S
  <2> QED BY <1>2, <1>3, SetInduction
<1> QED BY <1>4

\* What is promised of the labelled graph is promised of the input.
LEMMA SamePromise ==
    ASSUME OrdersVertices, Renamed, adj \in Graphs,
           NEW x \in 0..NumV, NEW y \in 0..NumV, NEW q \in Nat,
           Oracle!Promised(IF x \in Vertex THEN Rank(x) ELSE x,
                           IF y \in Vertex THEN Rank(y) ELSE y, q)
    PROVE  GivenOracle!Promised(x, y, q)
<1> DEFINE i == IF x \in Vertex THEN Rank(x) ELSE x
           j == IF y \in Vertex THEN Rank(y) ELSE y
           gap == IF K = 0 THEN 0 ELSE 2
<1>1. /\ \A v \in Vertex : Rank(v) \in Vertex /\ inv[Rank(v)] = v
      /\ \A l \in Vertex : Rank(inv[l]) = l /\ inv[l] \in Vertex
  BY RankInverse DEF OrdersVertices
<1>2. GivenOracle!Vertex = Vertex /\ Oracle!Vertex = Vertex
  BY DEF GivenOracle!Vertex, Oracle!Vertex, Vertex
<1>3. CASE x \notin Vertex \/ y \notin Vertex
  <2>1. (i \notin Vertex \/ j \notin Vertex) /\ (i = j <=> x = y)
    BY <1>1, <1>3
  <2> HIDE DEF i, j
  <2>2. q = IF i = j THEN 0 ELSE IntMax
    BY <2>1, <1>2 DEF Oracle!Promised, i, j
  <2> QED BY <1>2, <1>3, <2>1, <2>2 DEF GivenOracle!Promised
<1>4. CASE x \in Vertex /\ y \in Vertex
  <2>1. i \in Vertex /\ j \in Vertex /\ inv[i] = x /\ inv[j] = y
    BY <1>1, <1>4
  <2> HIDE DEF i, j
  <2>2. \/ q < INF8 - 2 /\ AtDistance(adj, i, j, q)
        \/ q = IntMax /\ ~Within(adj, i, j, (INF8 - 2) - 1)
        \/ \E n \in 0..(gap - 1) : n < q /\ AtDistance(adj, i, j, n)
    BY <1>2, <2>1, SameDistances DEF Oracle!Promised, i, j
  <2>3. \A n \in Nat : Within(adj, i, j, n) <=> Within(GivenGraph, x, y, n)
    BY <2>1, RenamedWithin
  <2>4. \A n \in Nat : AtDistance(adj, i, j, n) <=> AtDistance(GivenGraph, x, y, n)
    <3> TAKE n \in Nat
    <3>1. n > 0 => n - 1 \in Nat
      OBVIOUS
    <3> QED BY <2>3, <3>1 DEF AtDistance
  <2>5. (INF8 - 2) - 1 \in Nat
    BY Numbers
  <2>6. 0..(gap - 1) \subseteq Nat
    OBVIOUS
  <2>7. \/ q < INF8 - 2 /\ AtDistance(GivenGraph, x, y, q)
        \/ q = IntMax /\ ~Within(GivenGraph, x, y, (INF8 - 2) - 1)
        \/ \E n \in 0..(gap - 1) : n < q /\ AtDistance(GivenGraph, x, y, n)
    <3> HIDE DEF gap
    <3> QED BY <2>2, <2>3, <2>4, <2>5, <2>6
  <2> QED BY <1>2, <1>4, <2>7, SameGivenDistances DEF GivenOracle!Promised
<1> QED BY <1>3, <1>4

\* A query in the numbers of the input is answered as the oracle promises.
LEMMA GivenPromised ==
    ASSUME LifeInv, pc = "done", NEW x \in 0..NumV, NEW y \in 0..NumV
    PROVE  /\ QueryGiven(x, y) \in (0..((INF8 - 2) - 1)) \cup {IntMax}
           /\ GivenOracle!Promised(x, y, QueryGiven(x, y))
<1> DEFINE i == IF x \in Vertex THEN Rank(x) ELSE x
           j == IF y \in Vertex THEN Rank(y) ELSE y
<1>1. AnswerInv /\ WrappedExact /\ adj \in Graphs
  BY DEF LifeInv, PhaseInv, BuildInv, Unlabelled
<1>2. OrdersVertices /\ Renamed
  BY DEF LifeInv, InputInv, Unlabelled
<1>3. i \in 0..NumV /\ j \in 0..NumV
  <2>1. Vertex \subseteq 0..NumV
    BY Numbers DEF Vertex
  <2>2. \A v \in Vertex : Rank(v) \in Vertex
    BY <1>2, RankInverse
  <2> QED BY <2>1, <2>2
<1>4. QueryGiven(x, y) = QueryDistance(i, j)
  BY DEF QueryGiven
<1>5. /\ QueryDistance(i, j) \in (0..((INF8 - 2) - 1)) \cup {IntMax}
      /\ Oracle!Promised(i, j, QueryDistance(i, j))
  <2> HIDE DEF i, j
  <2> QED BY <1>1, <1>3, QueryPromised
<1>6. QueryGiven(x, y) \in Nat
  BY <1>4, <1>5 DEF IntMax
<1> DEFINE q == QueryGiven(x, y)
<1>7. Oracle!Promised(i, j, q)
  BY <1>4, <1>5
<1> HIDE DEF q
<1>8. GivenOracle!Promised(x, y, q)
  BY <1>1, <1>2, <1>6, <1>7, SamePromise DEF q
<1> QED BY <1>4, <1>5, <1>8 DEF q

\* The preparation and the labelling take the oracle from building to ready or failed,
\* in one step of it.
LEMMA PreparationRefines ==
    ASSUME LifeInv, Prepare \/ LabelVertices \/ InterruptRanking
    PROVE  GivenOracle!Next \/ UNCHANGED <<GivenGraph, stage, answer>>
<1>1. UNCHANGED input /\ answer' = answer /\ stage = "building" /\ stage' \in {"building", "ready", "failed"}
  <2>1. stage' \in {"building", "ready", "failed"}
    BY DEF stage
  <2>2. CASE \/ ReadFile \/ ReadFailed \/ MakeGraph \/ GiveEdge \/ GraphGiven \/ ListEdges
             \/ ReadStream \/ BuildGraph \/ OrderByDegree \/ RankingInterrupted \/ OrderByRanking
             \/ Relabel
    <3>1. UNCHANGED input
      BY <2>2 DEF ReadFile, ReaderNext, FirstPass, SkipLine, ReadEdge, ReadThrows, EndOfFile,
          ReadFailed, MakeGraph, GiveEdge, GraphGiven, ListEdges, ReadStream, BuildGraph,
          OrderByDegree, RankingInterrupted, OrderByRanking, Relabel, prepVars
    <3>2. answer' = answer /\ pc \in Unlabelled
      BY <2>2 DEF ReadFile, ReadFailed, MakeGraph, GiveEdge, GraphGiven, ListEdges, ReadStream,
          BuildGraph, OrderByDegree, RankingInterrupted, OrderByRanking, Relabel, vars, labelVars,
          Unlabelled
    <3> QED BY <2>1, <3>1, <3>2 DEF stage, Unlabelled
  <2>3. CASE RankVertices \/ InterruptRanking
    <3>1. UNCHANGED <<input, answer>> /\ pc = "order"
      BY <2>3, RankingSteps DEF RankVertices, InterruptRanking, vars
    <3> QED BY <2>1, <3>1 DEF stage
  <2>4. CASE LabelVertices
    <3>1. UNCHANGED <<input, answer>>
      BY <2>4, LabellingSteps DEF LabelVertices
    <3>2. pc \in {"tree", "scan", "write", "root", "bfs"}
      BY <2>4 DEF LabelVertices, BitParallelNext, PrunedNext, SelectRoot, NoRootLeft, ScanVertex,
         FoldLevel, WriteTree, TreesDone, SkipRoot, StartRoot, PruneVertex, LabelVertex, NextDepth,
         FinishRoot, CopyLabels, CopyFails
    <3> QED BY <2>1, <3>1, <3>2 DEF stage
  <2> QED BY <2>2, <2>3, <2>4 DEF Prepare
<1>2. UNCHANGED GivenGraph
  BY <1>1, GivenStays
<1>3. CASE stage' = "building"
  BY <1>1, <1>2, <1>3
<1>4. CASE stage' \in {"ready", "failed"}
  BY <1>1, <1>2, <1>4 DEF GivenOracle!Next, GivenOracle!Finish
<1> QED BY <1>1, <1>3, <1>4

\* Whoever gives the graph, whatever it is and in whatever order it is labelled: what a
\* life does is what the oracle of the input does.  This is the safety part of
\* InputAnswered, which run preparation checks with its liveness.
THEOREM InputOracleRefined ==
    LifeSpec => GivenOracle!Init /\ [][GivenOracle!Next]_<<GivenGraph, stage, answer>>
<1>1. LifeInit => GivenOracle!Init
  BY GraphsOfALife DEF LifeInit, GivenOracle!Init, stage
<1>2. LifeInv /\ [LifeNext]_lifeVars => [GivenOracle!Next]_<<GivenGraph, stage, answer>>
  <2> SUFFICES ASSUME LifeInv, [LifeNext]_lifeVars
               PROVE  GivenOracle!Next \/ UNCHANGED <<GivenGraph, stage, answer>>
    OBVIOUS
  <2>1. CASE Prepare \/ LabelVertices \/ InterruptRanking
    BY <2>1, PreparationRefines
  <2>2. ASSUME NEW x \in 0..NumV, NEW y \in 0..NumV, Ask(x, y)
        PROVE  GivenOracle!Next
    <3>1. /\ pc = "done" /\ answer = None /\ UNCHANGED input /\ stage' = stage
          /\ answer' = <<x, y, QueryGiven(x, y)>>
      BY <2>2 DEF Ask, stage, indexVars, prepVars
    <3>2. stage = "ready" /\ UNCHANGED GivenGraph
      BY <3>1, GivenStays DEF stage
    <3>3. GivenOracle!Ask(x, y)
      BY <3>1, <3>2, GivenPromised DEF GivenOracle!Ask
    <3> QED BY <3>3 DEF GivenOracle!Next
  <2>3. CASE Return /\ UNCHANGED prepVars
    <3>1. UNCHANGED GivenGraph
      BY <2>3, GivenStays DEF prepVars
    <3> QED BY <2>3, <3>1 DEF Return, indexVars, stage, GivenOracle!Next, GivenOracle!Take
  <2>4. CASE (Stopped /\ UNCHANGED prepVars) \/ UNCHANGED lifeVars
    <3>1. UNCHANGED <<vars, input>>
      BY <2>4 DEF Stopped, lifeVars, prepVars
    <3>2. UNCHANGED GivenGraph
      BY <3>1, GivenStays
    <3> QED BY <3>1, <3>2 DEF vars, indexVars, stage
  <2> QED BY <2>1, <2>2, <2>3, <2>4 DEF LifeNext
<1> QED BY <1>1, <1>2, LifeInvariant, PTL DEF LifeSpec

(***************************************************************************)
(* The paths that are sampled.                                             *)
(***************************************************************************)
Links(g) == [v \in NodesOf(g) |-> ToSet(g.out[v])]

\* The breadth-first search of the class reaches what is near in the graph.
LEMMA ReachedIsNear ==
    ASSUME NEW n \in Nat, NEW g, IsGraph(g, n), NEW u \in NodesOf(g)
    PROVE  /\ Cardinality(NodesOf(g)) = n /\ n > 0
           /\ \A l \in 0..n : \A v : v \in Reached(g, u)[l] <=> Within(Links(g), u, v, l)
           /\ \A l \in 0..n : \A v : Within(Links(g), u, v, l) => v \in NodesOf(g)
<1> DEFINE node == NodesOf(g)
           b == Ball(Links(g), u)
           Wider(S) == S \cup UNION {ToSet(g.out[v]) : v \in S}
           reached == Reached(g, u)
<1>1. node = 0..(n - 1)
  BY DEF IsGraph, NodesOf
<1>2. Cardinality(node) = n
  BY <1>1, FS_Interval
<1>3. \A v \in node : ToSet(g.out[v]) \subseteq node
  <2> TAKE v \in node
  <2>1. g.out[v] \in Seq(node)
    BY <1>1 DEF IsGraph
  <2>2. \A k \in DOMAIN g.out[v] : g.out[v][k] \in node
    BY <2>1
  <2> QED BY <2>2 DEF ToSet
<1>4. b[0] = {u} /\ \A m \in Nat : b[m + 1] = Expand(Links(g), b[m])
  BY BallEquation
<1> HIDE DEF b, node
<1>5. ASSUME NEW S \in SUBSET node PROVE Expand(Links(g), S) = Wider(S) /\ Wider(S) \subseteq node
  <2>1. \A v \in S : Links(g)[v] = ToSet(g.out[v])
    BY DEF Links, node
  <2> QED BY <2>1, <1>3 DEF Expand
<1> HIDE DEF Wider
<1>6. \A m \in Nat : b[m] \in SUBSET node
  <2> DEFINE S == {m \in Nat : b[m] \in SUBSET node}
  <2>1. 0 \in S
    BY <1>4 DEF node
  <2>2. ASSUME NEW m \in Nat, m \in S PROVE m + 1 \in S
    BY <2>2, <1>4, <1>5
  <2>3. Nat \subseteq S
    <3> HIDE DEF S
    <3> QED BY <2>1, <2>2, SetInduction
  <2> QED BY <2>3
<1>7. \A m \in Nat : b[m + 1] = Wider(b[m])
  BY <1>4, <1>5, <1>6
<1> DEFINE Obeys(f) == f = [l \in 0..n |-> IF l = 0 THEN {u} ELSE Wider(f[l - 1])]
<1>8. Obeys([l \in 0..n |-> b[l]])
  <2> DEFINE f == [l \in 0..n |-> b[l]]
  <2>1. ASSUME NEW l \in 0..n PROVE f[l] = IF l = 0 THEN {u} ELSE Wider(f[l - 1])
    <3>1. CASE l = 0
      BY <3>1, <1>4
    <3>2. CASE l # 0
      <4>1. l - 1 \in Nat /\ (l - 1) + 1 = l /\ l - 1 \in 0..n
        BY <3>2
      <4>2. b[l] = Wider(b[l - 1])
        BY <4>1, <1>7
      <4> QED BY <3>2, <4>1, <4>2
    <3> QED BY <3>1, <3>2
  <2> QED BY <2>1
<1>9. reached = CHOOSE f : Obeys(f)
  BY <1>2 DEF Reached, Wider, node
<1>10. Obeys(reached)
  <2> HIDE DEF Obeys, reached
  <2> QED BY <1>8, <1>9
<1> HIDE DEF reached
<1>11. ASSUME NEW l \in 0..n PROVE reached[l] = IF l = 0 THEN {u} ELSE Wider(reached[l - 1])
  <2> DEFINE rhs == [e \in 0..n |-> IF e = 0 THEN {u} ELSE Wider(reached[e - 1])]
  <2>1. reached = rhs
    BY <1>10
  <2>2. rhs[l] = IF l = 0 THEN {u} ELSE Wider(reached[l - 1])
    OBVIOUS
  <2> HIDE DEF rhs
  <2> QED BY <2>1, <2>2
<1>12. \A m \in Nat : m \in 0..n => reached[m] = b[m]
  <2> DEFINE S == {m \in Nat : m \in 0..n => reached[m] = b[m]}
  <2>1. 0 \in S
    BY <1>4, <1>11
  <2>2. ASSUME NEW m \in Nat, m \in S PROVE m + 1 \in S
    <3>1. SUFFICES ASSUME m + 1 \in 0..n PROVE reached[m + 1] = b[m + 1]
      OBVIOUS
    <3>2. reached[m] = b[m]
      BY <2>2, <3>1
    <3>3. reached[m + 1] = Wider(reached[m])
      <4>1. m + 1 # 0 /\ (m + 1) - 1 = m
        OBVIOUS
      <4> QED BY <3>1, <4>1, <1>11
    <3> QED BY <3>2, <3>3, <1>7
  <2>3. Nat \subseteq S
    <3> HIDE DEF S
    <3> QED BY <2>1, <2>2, SetInduction
  <2> QED BY <2>3
<1>13. \A l \in 0..n : \A v : v \in reached[l] <=> Within(Links(g), u, v, l)
  BY <1>12 DEF Within, b
<1>14. \A l \in 0..n : \A v : Within(Links(g), u, v, l) => v \in node
  BY <1>6 DEF Within, b
<1>15. n > 0
  BY <1>1 DEF node
<1> QED BY <1>2, <1>13, <1>14, <1>15 DEF reached, node

\* Levels and distances are those of the graph.
LEMMA LevelsAreDistances ==
    ASSUME NEW n \in Nat, NEW g, IsGraph(g, n), NEW u \in NodesOf(g), NEW v
    PROVE  /\ \A l \in 0..n : v \in LevelOf(g, u, l) <=> AtDistance(Links(g), u, v, l)
           /\ Connects(g, u, v) <=> Within(Links(g), u, v, n)
           /\ \A l \in 0..n : AtDistance(Links(g), u, v, l) =>
                                  DistanceOf(g, u, v) = l /\ Connects(g, u, v)
           /\ Connects(g, u, v) => /\ DistanceOf(g, u, v) \in 0..n
                                   /\ AtDistance(Links(g), u, v, DistanceOf(g, u, v))
<1> DEFINE far(l) == v \in LevelOf(g, u, l)
           near(l) == AtDistance(Links(g), u, v, l)
<1>1. /\ Cardinality(NodesOf(g)) = n
      /\ \A l \in 0..n : \A w : w \in Reached(g, u)[l] <=> Within(Links(g), u, w, l)
  BY ReachedIsNear
<1>2. ASSUME NEW l \in 0..n PROVE far(l) <=> near(l)
  <2>1. CASE l = 0
    BY <1>1, <2>1 DEF LevelOf, AtDistance
  <2>2. CASE l # 0
    <3>1. l - 1 \in 0..n /\ l > 0
      BY <2>2
    <3> QED BY <1>1, <2>2, <3>1 DEF LevelOf, AtDistance
  <2> QED BY <2>1, <2>2
<1>3. Connects(g, u, v) <=> Within(Links(g), u, v, n)
  <2>1. n \in 0..n
    OBVIOUS
  <2> QED BY <1>1, <2>1 DEF Connects
<1>4. DistanceOf(g, u, v) = CHOOSE l \in 0..n : far(l)
  BY <1>1 DEF DistanceOf
<1>5. ASSUME NEW l \in 0..n, NEW e \in 0..n, near(l), near(e) PROVE l = e
  <2>1. l <= e /\ e <= l
    BY <1>5, DistanceUnique DEF AtDistance
  <2> QED BY <2>1
<1> HIDE DEF far, near
<1>6. ASSUME NEW l \in 0..n, near(l) PROVE DistanceOf(g, u, v) = l
  BY <1>2, <1>4, <1>5, <1>6
<1>7. ASSUME NEW l \in 0..n, near(l) PROVE Connects(g, u, v)
  <2>1. Within(Links(g), u, v, l)
    BY <1>7 DEF near, AtDistance
  <2>2. Within(Links(g), u, v, n)
    BY <2>1, WithinMonotone
  <2> QED BY <2>2, <1>3
<1>8. ASSUME Connects(g, u, v) PROVE \E l \in 0..n : near(l)
  BY <1>3, <1>8, DistanceExists DEF near
<1>9. Connects(g, u, v) => DistanceOf(g, u, v) \in 0..n /\ near(DistanceOf(g, u, v))
  BY <1>6, <1>8
<1> QED BY <1>2, <1>3, <1>6, <1>7, <1>9 DEF far, near

\* A node lies strictly inside a shortest path.
Inside(z) ==
    \E x, y \in NodesOf(G) \ {z} :
        /\ Connects(G, x, z) /\ Connects(G, z, y)
        /\ DistanceOf(G, x, y) = DistanceOf(G, x, z) + DistanceOf(G, z, y)

\* The node before the end of a shortest path lies inside it, unless it is the first.
LEMMA PredecessorInside ==
    ASSUME NEW n \in Nat, IsGraph(G, n), NEW u \in NodesOf(G), NEW t \in NodesOf(G), u # t,
           Connects(G, u, t), NEW z \in Predecessors(u, t)
    PROVE  z \in NodesOf(G) /\ Connects(G, u, z) /\ (z # u => Inside(z))
<1> DEFINE D == DistanceOf(G, u, t)
           h == Links(G)
<1>1. D \in 0..n /\ AtDistance(h, u, t, D)
  BY LevelsAreDistances
<1> HIDE DEF D
<1>2. D # 0
  BY <1>1, WithinZero DEF AtDistance
<1>3. D - 1 \in 0..n /\ D - 1 \in Nat /\ (D - 1) + 1 = D
  BY <1>1, <1>2
<1>4. z \in LevelOf(G, u, D - 1) /\ t \in ToSet(G.out[z])
  BY DEF Predecessors, D
<1>5. AtDistance(h, u, z, D - 1)
  BY <1>3, <1>4, LevelsAreDistances
<1>6. Connects(G, u, z) /\ DistanceOf(G, u, z) = D - 1
  BY <1>3, <1>5, LevelsAreDistances
<1>7. z \in NodesOf(G) /\ n > 0
  BY <1>3, <1>5, ReachedIsNear DEF AtDistance
<1>8. t \in h[z]
  BY <1>4, <1>7 DEF Links
<1>9. z # t
  <2>1. SUFFICES ASSUME z = t PROVE FALSE
    OBVIOUS
  <2>2. D <= D - 1
    BY <1>1, <1>3, <1>5, <2>1, DistanceUnique DEF AtDistance
  <2> QED BY <2>2, <1>1
<1>10. AtDistance(h, z, t, 1)
  <2>1. Within(h, z, z, 0) /\ ~Within(h, z, t, 0)
    BY <1>9, WithinZero
  <2>2. Within(h, z, t, 0 + 1)
    BY <1>8, <2>1, WithinStep
  <2>3. 0 + 1 = 1 /\ 1 - 1 = 0
    OBVIOUS
  <2> QED BY <2>1, <2>2, <2>3 DEF AtDistance
<1>11. Connects(G, z, t) /\ DistanceOf(G, z, t) = 1
  <2>1. 1 \in 0..n
    BY <1>7
  <2> QED BY <1>7, <1>10, <2>1, LevelsAreDistances
<1>12. z # u => Inside(z)
  <2>1. DistanceOf(G, u, t) = DistanceOf(G, u, z) + DistanceOf(G, z, t)
    BY <1>3, <1>6, <1>11 DEF D
  <2> QED BY <1>6, <1>9, <1>11, <2>1 DEF Inside
<1> QED BY <1>6, <1>7, <1>12

\* A sample is of two nodes, and its path is searched back from the second only if there
\* is one; what the threads have scored lies inside such paths.
Sampled(s) ==
    s # NoSample => /\ s \in [u : NodesOf(G), t : NodesOf(G), found : BOOLEAN]
                    /\ s.u # s.t
                    /\ s.found => Connects(G, s.u, s.t)

PathInv ==
    /\ DOMAIN sample = Threads /\ sample = [thread \in Threads |-> sample[thread]]
    /\ \A thread \in Threads : Sampled(sample[thread])
    /\ running = "start" => \A thread \in Threads : scorePerThread[thread] = <<>>
    /\ \A thread \in Threads : \A z \in DOMAIN scorePerThread[thread] :
          scorePerThread[thread][z] > 0 => Inside(z)

\* Where nothing has been drawn or scored, the graph may be any.
LEMMA NothingScored ==
    ASSUME PathInv, UNCHANGED <<sample, scorePerThread>>,
           \A thread \in Threads : sample[thread] = NoSample /\ scorePerThread[thread] = <<>>
    PROVE  PathInv'
<1>1. \A thread \in Threads : Sampled(sample[thread])'
  BY DEF Sampled
<1>2. \A thread \in Threads : DOMAIN scorePerThread'[thread] = {}
  OBVIOUS
<1> QED BY <1>1, <1>2 DEF PathInv

\* While the graph stays, so does what lies inside its paths.
LEMMA PathStays ==
    ASSUME UNCHANGED G
    PROVE  /\ \A z : Inside(z)' <=> Inside(z)
           /\ \A s : Sampled(s)' <=> Sampled(s)
  BY DEF Inside, Sampled, NodesOf

\* The steps of the ranking keep what the threads have scored inside of paths.
LEMMA PathRun ==
    ASSUME SamplingInv, GraphInv, ListedInv, RankInv, PathInv, RankVertices \/ InterruptRanking
    PROVE  PathInv'
<1>1. pc = "order" /\ input.caller # "stream" /\ UNCHANGED G
  BY RankingSteps DEF RankVertices, InterruptRanking
<1>2. PICK n \in Nat : IsGraph(G, n)
  <2>1. reading = "read"
    BY <1>1 DEF ListedInv
  <2> QED BY <2>1 DEF GraphInv
<1>3. \A thread \in Threads : \A z \in DOMAIN scorePerThread[thread] :
          scorePerThread[thread][z] > 0 => Inside(z)
  BY DEF PathInv
<1>4. /\ \A z : Inside(z)' <=> Inside(z)
      /\ \A s : Sampled(s)' <=> Sampled(s)
  BY <1>1, PathStays
<1>5. ASSUME UNCHANGED <<sample, scorePerThread>>, running' = running \/ running' # "start"
      PROVE  PathInv'
  BY <1>4, <1>5 DEF PathInv
<1>6. CASE RunTrivial \/ Interrupt
  BY <1>5, <1>6 DEF RunTrivial, Interrupt, samplingVars
<1>7. CASE scorePerThread' = NoScore /\ UNCHANGED sample /\ running' # "start"
  <2>1. \A thread \in Threads : \A z \in DOMAIN NoScore[thread] : NoScore[thread][z] = 0
    BY DEF NoScore
  <2>2. \A thread \in Threads : \A z \in DOMAIN scorePerThread'[thread] :
            ~(scorePerThread'[thread][z] > 0)
    BY <1>7, <2>1
  <2> QED BY <1>4, <1>7, <2>2 DEF PathInv
<1>8. CASE RunBegin \/ Join
  <2>1. running' \in {"interrupted", "sampling", "ranked"}
    BY <1>8 DEF RunBegin, Join
  <2> QED BY <1>7, <1>8, <2>1 DEF RunBegin, Join
<1>9. ASSUME NEW thread \in Threads, NEW s, Sampled(s), running = "sampling", UNCHANGED running,
             sample' = [sample EXCEPT ![thread] = s],
             \/ UNCHANGED scorePerThread
             \/ \E z \in NodesOf(G) :
                   /\ Inside(z)
                   /\ scorePerThread' = [scorePerThread EXCEPT ![thread][z] = @ + 1]
      PROVE  PathInv'
  <2>1. /\ DOMAIN sample' = Threads /\ sample' = [other \in Threads |-> sample'[other]]
        /\ \A other \in Threads : sample'[other] = IF other = thread THEN s ELSE sample[other]
    BY <1>9 DEF PathInv
  <2>2. \A other \in Threads : Sampled(sample[other])'
    BY <1>4, <1>9, <2>1 DEF PathInv
  <2>3. ASSUME NEW other \in Threads, NEW x \in DOMAIN scorePerThread'[other],
               scorePerThread'[other][x] > 0
        PROVE  Inside(x)
    <3>1. CASE UNCHANGED scorePerThread
      BY <1>3, <2>3, <3>1
    <3>2. CASE ~UNCHANGED scorePerThread
      <4>1. PICK z \in NodesOf(G) :
                /\ Inside(z)
                /\ scorePerThread' = [scorePerThread EXCEPT ![thread][z] = @ + 1]
        BY <1>9, <3>2
      <4>2. scorePerThread \in [Threads -> [NodesOf(G) -> Nat]]
        BY <1>9 DEF RankInv
      <4> DEFINE own == scorePerThread[thread]
                 grown == [own EXCEPT ![z] = @ + 1]
      <4>3. scorePerThread' = [scorePerThread EXCEPT ![thread] = grown]
        BY <4>1
      <4>4. own \in [NodesOf(G) -> Nat]
        BY <4>2
      <4> HIDE DEF own
      <4>5. DOMAIN grown = DOMAIN own /\ \A y \in DOMAIN own : y # z => grown[y] = own[y]
        BY <4>4
      <4> HIDE DEF grown
      <4>6. scorePerThread'[other] = IF other = thread THEN grown ELSE scorePerThread[other]
        BY <4>2, <4>3
      <4>7. CASE other = thread
        BY <4>1, <4>5, <4>6, <4>7, <1>3, <2>3 DEF own
      <4>8. CASE other # thread
        BY <4>6, <4>8, <1>3, <2>3
      <4> QED BY <4>7, <4>8
    <3> QED BY <3>1, <3>2
  <2> QED BY <1>4, <1>9, <2>1, <2>2, <2>3 DEF PathInv
<1>10. ASSUME NEW thread \in Threads,
              DrawSample(thread) \/ SkipSample(thread) \/ SearchPaths(thread) \/ WalkBack(thread)
       PROVE  PathInv'
  <2> DEFINE s == sample[thread]
  <2>1. running = "sampling" /\ running' = running
    BY <1>10 DEF DrawSample, SkipSample, SearchPaths, WalkBack, SamplingInv
  <2>2. Sampled(NoSample) /\ Sampled(s)
    BY DEF Sampled, PathInv
  <2>3. s # NoSample => s \in [u : NodesOf(G), t : NodesOf(G), found : BOOLEAN]
    BY <2>2 DEF Sampled
  <2>4. CASE DrawSample(thread)
    <3>1. PICK x \in NodesOf(G), y \in NodesOf(G) :
              /\ x # y
              /\ sample' = [sample EXCEPT ![thread] = [u |-> x, t |-> y, found |-> FALSE]]
      BY <2>4 DEF DrawSample
    <3>2. Sampled([u |-> x, t |-> y, found |-> FALSE])
      BY <3>1 DEF Sampled
    <3> QED BY <1>9, <2>1, <2>4, <3>1, <3>2 DEF DrawSample
  <2>5. CASE SkipSample(thread)
    BY <1>9, <2>1, <2>2, <2>5 DEF SkipSample
  <2>6. CASE SearchPaths(thread)
    <3> DEFINE e == IF Connects(G, s.u, s.t) THEN [s EXCEPT !.found = TRUE] ELSE NoSample
    <3>1. sample' = [sample EXCEPT ![thread] = e] /\ UNCHANGED scorePerThread /\ s # NoSample
      BY <2>6 DEF SearchPaths, PathInv
    <3>2. Sampled(e)
      <4> HIDE DEF s
      <4>1. CASE Connects(G, s.u, s.t)
        <5> DEFINE found == [s EXCEPT !.found = TRUE]
        <5>1. /\ found \in [u : NodesOf(G), t : NodesOf(G), found : BOOLEAN]
              /\ found.u = s.u /\ found.t = s.t
          BY <2>3, <3>1
        <5>2. s.u # s.t
          BY <2>2, <3>1 DEF Sampled
        <5> HIDE DEF found
        <5>3. Sampled(found)
          BY <4>1, <5>1, <5>2 DEF Sampled
        <5> QED BY <4>1, <5>3 DEF found
      <4>2. CASE ~Connects(G, s.u, s.t)
        BY <2>2, <4>2
      <4> QED BY <4>1, <4>2
    <3> HIDE DEF e
    <3> QED BY <1>9, <2>1, <3>1, <3>2
  <2>7. CASE WalkBack(thread)
    <3>1. s # NoSample /\ s.found
      BY <2>7 DEF WalkBack
    <3>2. PICK z \in Predecessors(s.u, s.t) :
              IF z = s.u
              THEN sample' = [sample EXCEPT ![thread] = NoSample] /\ UNCHANGED scorePerThread
              ELSE /\ sample' = [sample EXCEPT ![thread].t = z]
                   /\ scorePerThread' = [scorePerThread EXCEPT ![thread][z] = @ + 1]
      BY <2>7 DEF WalkBack
    <3>3. /\ s.u \in NodesOf(G) /\ s.t \in NodesOf(G) /\ s.u # s.t /\ Connects(G, s.u, s.t)
      BY <2>2, <2>3, <3>1 DEF Sampled
    <3>4. z \in NodesOf(G) /\ Connects(G, s.u, z) /\ (z # s.u => Inside(z))
      <4> HIDE DEF s
      <4> QED BY <1>2, <3>3, PredecessorInside
    <3>5. CASE z = s.u
      BY <1>9, <2>1, <2>2, <3>2, <3>5
    <3>6. CASE z # s.u
      <4> DEFINE e == [s EXCEPT !.t = z]
      <4>1. sample' = [sample EXCEPT ![thread] = e]
        BY <3>2, <3>6
      <4>2. Sampled(e)
        <5> HIDE DEF s
        <5>1. e \in [u : NodesOf(G), t : NodesOf(G), found : BOOLEAN] /\ e.u = s.u /\ e.t = z
          BY <2>3, <3>1, <3>4
        <5> HIDE DEF e
        <5> QED BY <3>4, <3>6, <5>1 DEF Sampled
      <4>3. Inside(z) /\ scorePerThread' = [scorePerThread EXCEPT ![thread][z] = @ + 1]
        BY <3>2, <3>4, <3>6
      <4> HIDE DEF e
      <4> QED BY <1>9, <2>1, <3>4, <4>1, <4>2, <4>3
    <3> QED BY <3>5, <3>6
  <2> QED BY <1>10, <2>4, <2>5, <2>6, <2>7
<1> QED BY <1>6, <1>8, <1>10 DEF RankVertices, InterruptRanking, Run

\* No other step touches the scores of a graph.
LEMMA PathKept ==
    SamplingInv /\ GraphInv /\ ListedInv /\ RankInv /\ PathInv /\ [LifeNext]_lifeVars => PathInv'
<1> SUFFICES ASSUME SamplingInv, GraphInv, ListedInv, RankInv, PathInv, [LifeNext]_lifeVars
             PROVE  PathInv'
  OBVIOUS
<1>1. CASE RankVertices \/ InterruptRanking
  BY <1>1, PathRun
<1>2. CASE UNCHANGED <<G, sample, scorePerThread, running>>
  BY <1>2, PathStays DEF PathInv
<1>3. CASE \/ ReadFile \/ MakeGraph \/ GiveEdge \/ GraphGiven
  <2>1. pc = "read" /\ UNCHANGED <<sample, scorePerThread>>
    BY <1>3 DEF ReadFile, MakeGraph, GiveEdge, GraphGiven, rankVars, samplingVars
  <2>2. running = "start"
    BY <2>1 DEF RankInv
  <2>3. \A thread \in Threads : sample[thread] = NoSample /\ scorePerThread[thread] = <<>>
    BY <2>2 DEF SamplingInv, PathInv
  <2> QED BY <2>1, <2>3, NothingScored
<1>4. CASE \/ ReadFailed \/ ListEdges \/ ReadStream \/ BuildGraph \/ OrderByDegree
           \/ RankingInterrupted \/ OrderByRanking \/ Relabel
  BY <1>2, <1>4 DEF ReadFailed, ListEdges, ReadStream, BuildGraph, OrderByDegree,
      RankingInterrupted, OrderByRanking, Relabel, prepVars, readerVars, rankVars, samplingVars
<1>5. CASE \/ LabelVertices
           \/ \E x, y \in 0..NumV : Ask(x, y)
           \/ Return /\ UNCHANGED prepVars
           \/ Stopped /\ UNCHANGED prepVars
           \/ UNCHANGED lifeVars
  <2>1. UNCHANGED prepVars
    BY <1>5, LaterSteps
  <2> QED BY <1>2, <2>1 DEF prepVars, readerVars, rankVars, samplingVars
<1> QED BY <1>1, <1>3, <1>4, <1>5 DEF LifeNext, Prepare

\* A node scores only if it lies strictly inside a shortest path, whatever the graph is
\* and however the threads share the samples.
THEOREM ScoresAreInside == LifeSpec => []ScoredInside
<1>1. LifeInit => LifeInv /\ PathInv
  <2> SUFFICES ASSUME LifeInit PROVE PathInv
    BY LifeStarts DEF LifeInv
  <2>1. /\ sample = [thread \in Threads |-> NoSample]
        /\ scorePerThread = [thread \in Threads |-> <<>>]
    BY DEF LifeInit, BetweennessInit
  <2>2. \A thread \in Threads : sample[thread] = NoSample /\ scorePerThread[thread] = <<>>
    BY <2>1
  <2>3. DOMAIN sample = Threads /\ sample = [thread \in Threads |-> sample[thread]]
    BY <2>1
  <2>4. \A thread \in Threads : DOMAIN scorePerThread[thread] = {}
    BY <2>2
  <2> QED BY <2>2, <2>3, <2>4 DEF PathInv, Sampled
<1>2. SamplingInv /\ OrderInv /\ PathInv /\ [LifeNext]_lifeVars => PathInv'
  BY PathKept DEF OrderInv
<1>3. PathInv => ScoredInside
  BY DEF PathInv, ScoredInside, Inside
<1>4. LifeInv => SamplingInv /\ OrderInv
  BY DEF LifeInv
<1> QED BY <1>1, <1>2, <1>3, <1>4, LifeInvariant, PTL DEF LifeSpec
=============================================================================

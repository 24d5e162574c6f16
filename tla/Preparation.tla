---------------------------- MODULE Preparation ----------------------------
(***************************************************************************)
(* A whole life of an index, from the input to the answers: the edges are  *)
(* read, the vertices ordered and relabelled, the two labelling phases     *)
(* run, and queries come in the vertex numbers of the input.               *)
(*                                                                         *)
(* Three callers differ in what they give: a "reader" reads a file with    *)
(* EdgeListReader and passes the graph on, a "library" user passes a graph *)
(* made by other means, and both are labelled in the order of betweenness; *)
(* a "stream" of numbers is labelled in the order of degrees.              *)
(***************************************************************************)
EXTENDS ConstructIndex, Betweenness

CONSTANT Jitter     \* the steps in which the random part of a degree grows to 1

ASSUME JitterAssumption == Jitter \in Nat \ {0}

\* What the input comes to is not restricted: the labelling may be given any graph.
ASSUME AllGraphsAssumption ==
    {g \in [Vertex -> SUBSET Vertex] : \A v, w \in Vertex : w \in g[v] => v \in g[w]}
        \subseteq Graphs

VARIABLES
    es,        \* the edges, by the place where they are listed
    inv        \* new label -> old label

prepVars == <<input, readerVars, rankVars, es, inv>>
lifeVars == <<vars, prepVars>>

LifeInit ==
    /\ pc = "read"
    /\ input \in Inputs
    /\ adj = [v \in Vertex |-> {}]
    /\ es = <<>> /\ inv = <<>>
    /\ ReaderInit
    /\ BetweennessInit
    /\ BitParallelInit
    /\ PrunedInit
    /\ answer = None

\* What the phases after the preparation work on.
labelVars == <<usd, bpspt_d, bpspt_s, spt, bpVars, prunedVars, answer>>

(***************************************************************************)
(* The edges.                                                              *)
(***************************************************************************)
ReadFile ==
    /\ pc = "read" /\ input.caller = "reader"
    /\ ReaderNext
    /\ UNCHANGED <<vars, rankVars, es, inv>>

ReadFailed ==
    /\ pc = "read" /\ reading = "thrown"
    /\ pc' = "failed"
    /\ UNCHANGED <<adj, labelVars, prepVars>>

\* The caller makes a graph of his own, edge by edge; its nodes may go on behind the
\* last edge.
MakeGraph ==
    /\ pc = "read" /\ input.caller = "library" /\ reading = "first pass"
    /\ G' = EmptyGraph(input.nodes, input.directed)
    /\ reading' = "given"
    /\ UNCHANGED <<vars, input, line, rankVars, es, inv>>

GiveEdge ==
    /\ pc = "read" /\ reading = "given" /\ line <= Len(input.lines)
    /\ LET fields == input.lines[line].fields IN G' = AddEdge(G, fields[1], fields[2])
    /\ line' = line + 1
    /\ UNCHANGED <<vars, input, reading, rankVars, es, inv>>

GraphGiven ==
    /\ pc = "read" /\ reading = "given" /\ line > Len(input.lines)
    /\ reading' = "read"
    /\ UNCHANGED <<vars, input, line, G, rankVars, es, inv>>

ListEdges ==
    /\ pc = "read" /\ reading = "read"
    /\ es' = EdgesOf(G)
    /\ pc' = "edges"
    /\ UNCHANGED <<adj, labelVars, input, readerVars, rankVars, inv>>

\* The numbers of the stream are taken in pairs, wherever its lines end, up to the
\* first that is no number.
StreamNumbers(lines) ==
    LET comments == {i \in DOMAIN lines : lines[i].kind = "comment"}
        upTo == IF comments = {} THEN Len(lines)
                ELSE (CHOOSE i \in comments : \A j \in comments : i <= j) - 1
    IN  FlattenSeq([i \in 1..upTo |-> lines[i].fields])

StreamEdges(lines) ==
    LET numbers == StreamNumbers(lines)
    IN  [i \in 1..(Len(numbers) \div 2) |-> <<numbers[2 * i - 1], numbers[2 * i]>>]

ReadStream ==
    /\ pc = "read" /\ input.caller = "stream"
    /\ \/ es' = StreamEdges(input.lines) /\ pc' = "edges"
       \/ UNCHANGED es /\ pc' = "failed"
    /\ UNCHANGED <<adj, labelVars, input, readerVars, rankVars, inv>>

\* V counts the vertices up to the last one of an edge; NumV is what it comes to.
\* The adjacency lists are filled and the index is allocated, unless memalign fails.
Adjacent(v) == {es[i][2] : i \in {j \in DOMAIN es : es[j][1] = v}} \cup
               {es[i][1] : i \in {j \in DOMAIN es : es[j][2] = v}}

BuildGraph ==
    LET ends == UNION {{es[i][1], es[i][2]} : i \in DOMAIN es}
    IN  /\ pc = "edges"
        /\ NumV - 1 \in ends /\ \A v \in ends : v < NumV
        /\ adj' = [v \in Vertex |-> Adjacent(v)]
        /\ pc' \in {"order", "failed"}
        /\ UNCHANGED <<labelVars, prepVars>>

(***************************************************************************)
(* The order.  A degree counts what has been pushed on the adjacency list, *)
(* an edge as often as it is given and a self-loop twice.  Its random part *)
(* may be as large as 1.  Of equals, the larger vertex comes first.        *)
(***************************************************************************)
Degree(v) == Cardinality({i \in DOMAIN es : es[i][1] = v}) +
             Cardinality({i \in DOMAIN es : es[i][2] = v})

OrderedWith(random) ==
    LET key(v) == Jitter * Degree(v) + random[v]
        before(v, w) == key(v) > key(w) \/ (key(v) = key(w) /\ v > w)
    IN  [i \in Vertex |->
            CHOOSE v \in Vertex : Cardinality({w \in Vertex : before(w, v)}) = i]

DegreeOrders == {OrderedWith(random) : random \in [Vertex -> 0..Jitter]}

OrderByDegree ==
    /\ pc = "order" /\ input.caller = "stream"
    /\ inv' \in DegreeOrders
    /\ pc' = "relabel"
    /\ UNCHANGED <<adj, labelVars, input, readerVars, rankVars, es>>

RankVertices ==
    /\ pc = "order" /\ input.caller # "stream"
    /\ Run
    /\ UNCHANGED <<vars, es, inv>>

InterruptRanking ==
    /\ pc = "order" /\ input.caller # "stream"
    /\ Interrupt
    /\ UNCHANGED <<vars, es, inv>>

RankingInterrupted ==
    /\ pc = "order" /\ running = "interrupted"
    /\ pc' = "failed"
    /\ UNCHANGED <<adj, labelVars, prepVars>>

\* The ranking has every node of the graph; as many as there are vertices are taken.
OrderByRanking ==
    /\ pc = "order" /\ running = "ranked"
    /\ inv' = [i \in Vertex |-> ranking[i + 1]]
    /\ pc' = "relabel"
    /\ UNCHANGED <<adj, labelVars, input, readerVars, rankVars, es>>

\* rank[inv[i]] = i, and 0 where nothing is written.
Rank(v) ==
    LET written == {i \in Vertex : inv[i] = v}
    IN  IF written = {} THEN 0 ELSE CHOOSE i \in written : \A j \in written : j <= i

MutRelabeled == [i \in Vertex |-> {inv[w] : w \in adj[inv[i]]}]

Relabeled == [i \in Vertex |-> UNION {{Rank(w) : w \in adj[v]} : v \in {x \in Vertex : Rank(x) = i}}]

\* The lists are replaced by those in new labels; the edges and the ranking go.
Relabel ==
    /\ pc = "relabel"
    /\ adj' = Relabeled
    /\ es' = <<>> /\ ranking' = <<>>
    /\ pc' = "tree"
    /\ UNCHANGED <<labelVars, input, readerVars, running, samplingVars, receivedSIGINT,
                   skipped, inv>>

(***************************************************************************)
(* The labels are copied to index_[inv[v]], so that queries find them by   *)
(* the vertex numbers of the input.                                        *)
(***************************************************************************)
QueryGiven(x, y) ==
    QueryDistance(IF x \in Vertex THEN Rank(x) ELSE x, IF y \in Vertex THEN Rank(y) ELSE y)

Ask(x, y) ==
    /\ pc = "done" /\ answer = None
    /\ answer' = <<x, y, QueryGiven(x, y)>>
    /\ UNCHANGED <<indexVars, bpVars, prunedVars, prepVars>>

Prepare ==
    \/ ReadFile
    \/ ReadFailed
    \/ MakeGraph
    \/ GiveEdge
    \/ GraphGiven
    \/ ListEdges
    \/ ReadStream
    \/ BuildGraph
    \/ OrderByDegree
    \/ RankVertices
    \/ RankingInterrupted
    \/ OrderByRanking
    \/ Relabel

LabelVertices ==
    \/ BitParallelNext /\ UNCHANGED <<prunedVars, answer, prepVars>>
    \/ PrunedNext /\ UNCHANGED <<bpVars, answer, prepVars>>

LifeNext ==
    \/ Prepare
    \/ LabelVertices
    \/ InterruptRanking
    \/ \E x, y \in 0..NumV : Ask(x, y)
    \/ Return /\ UNCHANGED prepVars
    \/ Stopped /\ UNCHANGED prepVars

\* Construction goes on by itself; an interrupt need not come.
LifeSpec == LifeInit /\ [][LifeNext]_lifeVars /\ WF_lifeVars(Prepare \/ LabelVertices)

-----------------------------------------------------------------------------
\* The graph a user takes the input for.
GivenEdges ==
    IF input.caller = "stream" THEN ToSet(StreamEdges(input.lines))
    ELSE {Shifted(l.fields) : l \in {m \in ToSet(input.lines) : Len(m.fields) >= 2}}

GivenGraph == [v \in Vertex |-> {w \in Vertex : {<<v, w>>, <<w, v>>} \cap GivenEdges # {}}]

GivenOracle ==
    INSTANCE DistanceOracle
        WITH graph <- GivenGraph, Limit <- INF8 - 2, Gap <- IF K = 0 THEN 0 ELSE 2

\* Whoever gives the graph and whatever order it is labelled in, construction ends, and
\* queries in the numbers of the input are answered with the distances in the input.
InputAnswered == GivenOracle!Spec

\* The order has every vertex once, also if a graph has nodes behind its last edge or
\* two vertices tie.
OrderIsPermutation == inv # <<>> => {inv[i] : i \in Vertex} = Vertex
=============================================================================

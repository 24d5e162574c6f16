--------------------------- MODULE MCPreparation ---------------------------
(***************************************************************************)
(* An instance of Preparation: inputs of four vertices for each of the     *)
(* callers, among them files that list an edge twice, that cannot be read, *)
(* and graphs with a node behind their last edge.                          *)
(***************************************************************************)
EXTENDS Preparation

File(lines) ==
    [caller |-> "reader", lines |-> lines, firstNode |-> 1, directed |-> FALSE, nodes |-> 0]

\* A comment, an empty line, and the edges of a cycle, one of them twice.
CycleFile ==
    File(<< Comment, Text(<<1, 2>>), Text(<<2, 3>>), EmptyLine, Text(<<2, 1>>),
            Text(<<3, 4>>), Text(<<4, 1>>) >>)

\* No path has an inner node.
PairsFile == File(<< Text(<<1, 2>>), Text(<<3, 4>>) >>)

\* Edges with a direction, one of them in both and one twice.
DirectedFile ==
    [File(<< Text(<<1, 2>>), Text(<<2, 1>>), Text(<<3, 4>>), Text(<<1, 2>>) >>)
        EXCEPT !.directed = TRUE]

\* A line without a field; a third field in a file without weights; a number below the
\* first node.
MalformedFile == File(<< Text(<<1, 4>>), Text(<<>>) >>)
WeightFile == File(<< Text(<<1, 4>>), Text(<<2, 3, 1>>) >>)
LowFile == File(<< Text(<<0, 4>>) >>)

\* No edge at all, and a first node the number of nodes falls below 0 with.
CommentFile == [File(<< Comment >>) EXCEPT !.firstNode = 2]

Made(lines, nodes, directed) ==
    [caller |-> "library", lines |-> lines, firstNode |-> 0, directed |-> directed,
     nodes |-> nodes]

\* A path with an edge given twice and two nodes that have no edge behind it, and a
\* directed graph with an edge in both directions.
PathMade == Made(<< Text(<<0, 1>>), Text(<<1, 3>>), Text(<<3, 2>>), Text(<<1, 0>>) >>, 6, FALSE)
DirectedMade == Made(<< Text(<<0, 2>>), Text(<<2, 0>>), Text(<<2, 3>>), Text(<<3, 1>>) >>, 4, TRUE)

Streamed(lines) ==
    [caller |-> "stream", lines |-> lines, firstNode |-> 0, directed |-> FALSE, nodes |-> 0]

\* Two edges over three lines, a self-loop, an edge twice; a comment ends the numbers.
Stream ==
    Streamed(<< Text(<<0, 1, 1>>), Text(<<3>>), Text(<<2, 2>>), Text(<<1, 0>>), Comment,
                Text(<<2, 3>>) >>)

\* Every graph of four vertices in which the last one has an edge.
EveryStream ==
    {Streamed([i \in 1..Cardinality(E) |-> Text(SetToSeq(E)[i])]) :
        E \in {D \in SUBSET {p \in (0..3) \X (0..3) : p[1] < p[2]} : \E p \in D : p[2] = 3}}

SomeInputs ==
    {CycleFile, PairsFile, DirectedFile, MalformedFile, WeightFile, LowFile, CommentFile,
     PathMade, DirectedMade, Stream} \cup EveryStream

\* Every graph of four vertices, with and without self-loops.
AnyGraph ==
    {[v \in 0..3 |-> {w \in 0..3 : {v, w} \in E}] : E \in SUBSET {{v, w} : v, w \in 0..3}}
=============================================================================

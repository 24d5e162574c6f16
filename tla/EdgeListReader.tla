--------------------------- MODULE EdgeListReader ---------------------------
(***************************************************************************)
(* EdgeListReader::readContinuous: a text file with an edge in every line  *)
(* becomes a NetworKit graph.  The file is read twice, for the largest     *)
(* node number and then for the edges, and the two passes do not demand    *)
(* the same of a line.                                                     *)
(*                                                                         *)
(* A line is empty, a comment, or text; the fields of a text are the       *)
(* numbers in it.  A line that has only the '\r' of a DOS file is a text   *)
(* without a field.  Files whose first text has three fields are weighted  *)
(* and left out.                                                           *)
(***************************************************************************)
EXTENDS NetworKitGraph

CONSTANT Inputs     \* what the program may be given: the lines, options and caller

VARIABLES
    input,     \* the one it is given
    reading,   \* the place in the reader
    line,      \* the line in turn of the second pass
    G          \* the graph

readerVars == <<reading, line, G>>

Text(fields) == [kind |-> "text", fields |-> fields]
Comment == [kind |-> "comment", fields |-> <<>>]
EmptyLine == [kind |-> "empty", fields |-> <<>>]

Line == [kind : {"text"}, fields : Seq(Nat)] \cup {Comment, EmptyLine}

Texts(lines) == {l \in ToSet(lines) : l.kind = "text"}

\* A file's first text does not have three fields, a library user gives edges between
\* the nodes of his graph, and only the reader is told a first node.
ASSUME InputsAssumption ==
    \A i \in Inputs :
        /\ i.caller \in {"reader", "library", "stream"}
        /\ i.lines \in Seq(Line)
        /\ i.directed \in BOOLEAN
        /\ i.firstNode \in Nat /\ (i.caller # "reader" => i.firstNode = 0)
        /\ i.nodes \in Nat
        /\ i.caller = "reader" =>
              \A k \in DOMAIN i.lines :
                  i.lines[k].kind = "text" /\ Len(i.lines[k].fields) = 3
                  => \E j \in 1..(k - 1) : i.lines[j].kind = "text"
        /\ i.caller = "library" =>
              \A l \in ToSet(i.lines) : l.fields \in (0..(i.nodes - 1)) \X (0..(i.nodes - 1))

\* Both passes take a number as node number minus firstNode.
Shifted(fields) == <<fields[1] - input.firstNode, fields[2] - input.firstNode>>

ReaderInit == reading = "first pass" /\ line = 1 /\ G = EmptyGraph(0, FALSE)

\* The first pass: a text with two or three fields is taken for an edge.  A number of
\* nodes below 0 has wrapped around, and there is no memory for the graph.
FirstPass ==
    LET texts == Texts(input.lines)
        numbers == UNION {{t.fields[1], t.fields[2]} : t \in texts}
        maxNode == CHOOSE m \in numbers \cup {0} : \A n \in numbers : n <= m
    IN  /\ reading = "first pass"
        /\ IF \/ \E t \in texts : Len(t.fields) \notin {2, 3}
              \/ maxNode + 1 < input.firstNode
           THEN reading' = "thrown" /\ UNCHANGED G
           ELSE /\ reading' = "second pass"
                /\ G' = EmptyGraph(maxNode - input.firstNode + 1, input.directed)
        /\ UNCHANGED <<input, line>>

SkipLine ==
    /\ reading = "second pass" /\ line <= Len(input.lines)
    /\ input.lines[line].kind # "text"
    /\ line' = line + 1
    /\ UNCHANGED <<input, reading, G>>

\* The second pass adds an edge that the graph does not have yet.  A number below
\* firstNode has wrapped around, and the arrays have no such element: what follows is
\* undefined, and taken for the end of the process.
MutReadEdge ==
    /\ reading = "second pass" /\ line <= Len(input.lines)
    /\ input.lines[line].kind = "text"
    /\ LET fields == input.lines[line].fields
           u == Shifted(fields)[1]
           v == Shifted(fields)[2]
       IN  /\ Len(fields) = 2 /\ {u, v} \subseteq NodesOf(G)
           /\ G' = AddEdge(G, u, v)
    /\ line' = line + 1
    /\ UNCHANGED <<input, reading>>

ReadEdge ==
    /\ reading = "second pass" /\ line <= Len(input.lines)
    /\ input.lines[line].kind = "text"
    /\ LET fields == input.lines[line].fields
           u == Shifted(fields)[1]
           v == Shifted(fields)[2]
       IN  /\ Len(fields) = 2 /\ {u, v} \subseteq NodesOf(G)
           /\ G' = IF HasEdge(G, u, v) THEN G ELSE AddEdge(G, u, v)
    /\ line' = line + 1
    /\ UNCHANGED <<input, reading>>

ReadThrows ==
    /\ reading = "second pass" /\ line <= Len(input.lines)
    /\ input.lines[line].kind = "text"
    /\ LET fields == input.lines[line].fields
       IN  Len(fields) # 2 \/ ~(ToSet(Shifted(fields)) \subseteq NodesOf(G))
    /\ reading' = "thrown"
    /\ UNCHANGED <<input, line, G>>

EndOfFile ==
    /\ reading = "second pass" /\ line > Len(input.lines)
    /\ reading' = "read"
    /\ UNCHANGED <<input, line, G>>

ReaderNext == FirstPass \/ SkipLine \/ ReadEdge \/ ReadThrows \/ EndOfFile

-----------------------------------------------------------------------------
\* A graph that was read has the edges of the file and no others, each of them once
\* however often and in whichever direction the file lists it, and both ends of an edge
\* know it.
GraphIsFile ==
    LET pairs == {Shifted(t.fields) : t \in Texts(input.lines)}
        same(p, q) == p = q \/ (~input.directed /\ p = <<q[2], q[1]>>)
        edges == EdgesOf(G)
    IN  input.caller = "reader" /\ reading = "read" =>
        /\ \A i \in DOMAIN edges : \E p \in pairs : same(p, edges[i])
        /\ \A p \in pairs : \E i \in DOMAIN edges : same(p, edges[i])
        /\ \A i, j \in DOMAIN edges : same(edges[i], edges[j]) => i = j
        /\ \A u, v \in NodesOf(G) :
              Contains(G.out[u], v) <=> Contains(IF G.directed THEN G.in[v] ELSE G.out[v], u)
=============================================================================

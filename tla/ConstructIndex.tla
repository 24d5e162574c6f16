--------------------------- MODULE ConstructIndex ---------------------------
(***************************************************************************)
(* The life of one index: ConstructIndex runs the bit-parallel phase and   *)
(* then pruned labelling, in one thread, and the finished index is asked   *)
(* for distances.  The locals of one phase do not change in the other.     *)
(***************************************************************************)
EXTENDS BitParallel, PrunedLabeling

VARIABLE answer    \* a query and its answer, until the caller has taken it

vars == <<indexVars, bpVars, prunedVars, answer>>

None == <<>>

Init ==
    /\ pc = "start"
    /\ adj \in Graphs
    /\ BitParallelInit
    /\ PrunedInit
    /\ answer = None

\* The index is allocated, unless memalign fails.
Allocate ==
    /\ pc = "start"
    /\ pc' \in {"tree", "failed"}
    /\ UNCHANGED <<givenVars, usd, spt, bpVars, prunedVars, answer>>

Construct ==
    \/ Allocate
    \/ BitParallelNext /\ UNCHANGED <<prunedVars, answer>>
    \/ PrunedNext /\ UNCHANGED <<bpVars, answer>>

\* A query about two numbers; NumV stands for all that are no vertex.
Query(x, y) ==
    /\ pc = "done" /\ answer = None
    /\ answer' = <<x, y, QueryDistance(x, y)>>
    /\ UNCHANGED <<indexVars, bpVars, prunedVars>>

\* The caller has taken the answer.
Return ==
    /\ answer # None
    /\ answer' = None
    /\ UNCHANGED <<indexVars, bpVars, prunedVars>>

Stopped == pc \in {"failed", "exited"} /\ UNCHANGED vars

Next ==
    \/ Construct
    \/ \E x, y \in 0..NumV : Query(x, y)
    \/ Return
    \/ Stopped

\* One thread runs the construction, and nothing blocks it.
Spec == Init /\ [][Next]_vars /\ WF_vars(Construct)

-----------------------------------------------------------------------------
\* The user sees an oracle that is building, ready, or gone.
stage ==
    CASE pc = "done" -> "ready"
      [] pc \in {"failed", "exited"} -> "failed"
      [] OTHER -> "building"

Oracle ==
    INSTANCE DistanceOracle
        WITH graph <- adj, Limit <- INF8 - 2, Gap <- IF K = 0 THEN 0 ELSE 2

\* Construction ends, and each query is then answered as the class promises, except
\* that with bit-parallel roots two vertices at distance 0 or 1 may be told more.
ImplementsOracle == Oracle!Spec

\* The README calls the method exact: "it always answers exactly correct distance".
\* Every answer is the distance, whatever the number of trees.
AnswersExact ==
    answer # None /\ answer[1] \in Vertex /\ answer[2] \in Vertex =>
        /\ answer[3] # IntMax => AtDistance(adj, answer[1], answer[2], answer[3])
        /\ answer[3] = IntMax => ~Within(adj, answer[1], answer[2], INF8 - 3)

\* The class documents QueryDistance: it "Returns distance vetween vertices |v| and
\* |w| if they are connected".  INT_MAX is told of unconnected vertices only.
ConnectedAnswered ==
    answer # None /\ answer[1] \in Vertex /\ answer[2] \in Vertex /\ answer[3] = IntMax
        => ~Within(adj, answer[1], answer[2], NumV)

-----------------------------------------------------------------------------
(***************************************************************************)
(* The invariant of the whole construction: each phase has its own, and    *)
(* what the first phase promises is what the second starts from.           *)
(***************************************************************************)
BuildInv ==
    /\ pc \in {"start", "tree", "scan", "write", "root", "bfs", "done", "failed", "exited"}
    /\ adj \in Graphs
    /\ pc = "start" => BitParallelInit
    /\ pc \in {"start", "tree", "scan", "write", "exited"} => PrunedInit
    /\ pc \in {"tree", "scan", "write", "exited"} => TreeInv
    /\ pc \in {"root", "bfs", "done"} => AnswerInv /\ WrappedExact
    /\ pc = "failed" => LabelsExact
    /\ answer # None => pc = "done"
=============================================================================

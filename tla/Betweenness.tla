---------------------------- MODULE Betweenness ----------------------------
(***************************************************************************)
(* ApproxBetweenness::run and Centrality::ranking: the order of the        *)
(* vertices in which ConstructIndex(Graph) labels them.                    *)
(*                                                                         *)
(* Threads share the samples.  For each they draw a pair of nodes, search  *)
(* from one of them, and walk back from the other along a random shortest  *)
(* path; every node strictly inside the path scores.  An interrupt makes   *)
(* the threads skip what is left, because no exception may leave a         *)
(* parallel loop; it is thrown after the loop.                             *)
(***************************************************************************)
EXTENDS EdgeListReader

CONSTANTS
    Threads,   \* the threads of the parallel loop
    Samples    \* r, the number of samples

ASSUME BetweennessAssumption ==
    /\ IsFiniteSet(Threads) /\ Threads # {}
    /\ Samples \in Nat \ {0}

VARIABLES
    running,         \* the place in run
    left,            \* the samples no thread has taken yet
    sample,          \* the sample each thread works on
    scorePerThread,  \* how often each node has scored, by thread
    receivedSIGINT,  \* an interrupt has been received
    skipped,         \* a thread has skipped a sample
    ranking          \* the nodes in the order of their scores

samplingVars == <<left, sample, scorePerThread>>
rankVars == <<running, samplingVars, receivedSIGINT, skipped, ranking>>

NoSample == <<>>
NoScore == [thread \in Threads |-> [x \in NodesOf(G) |-> 0]]

BetweennessInit ==
    /\ running = "start"
    /\ left = Samples
    /\ sample = [thread \in Threads |-> NoSample]
    /\ scorePerThread = [thread \in Threads |-> <<>>]
    /\ receivedSIGINT = FALSE /\ skipped = FALSE
    /\ ranking = <<>>

(***************************************************************************)
(* estimatedVertexDiameterPedantic: the two largest distances from the     *)
(* first node of every component, added, plus one.  A component with two   *)
(* nodes at its largest distance has that distance twice.                  *)
(***************************************************************************)
TwoFarthest(x) ==
    LET depth == CHOOSE d \in DOMAIN Reached(G, x) :
                    LevelOf(G, x, d) # {} /\ \A e \in DOMAIN Reached(G, x) :
                                                LevelOf(G, x, e) # {} => e <= d
    IN  IF depth = 0 \/ Cardinality(LevelOf(G, x, depth)) > 1 THEN 2 * depth
        ELSE 2 * depth - 1

EstimatedDiameter ==
    LET n == Cardinality(NodesOf(G))
        scan[k \in 0..n] ==
            IF k = 0 THEN [vd |-> 0, visited |-> {}]
            ELSE LET before == scan[k - 1]
                     far == TwoFarthest(k - 1)
                 IN  IF k - 1 \in before.visited THEN before
                     ELSE [vd |-> IF far > before.vd THEN far ELSE before.vd,
                           visited |-> before.visited \cup Reached(G, k - 1)[n]]
    IN  scan[n].vd + 1

(***************************************************************************)
(* ranking: by score, and by number where the scores are equal.  A score   *)
(* is a sum of floating-point numbers: nodes that scored equally often may *)
(* still differ in it, unless they did not score at all.                   *)
(***************************************************************************)
MutRankedBefore(score, x, y) == score[x] >= score[y]

RankedBefore(score, x, y) ==
    \/ score[x] > score[y]
    \/ score[x] = score[y] /\ (score[x] > 0 \/ x < y)

Rankings(score) ==
    {s \in SetToSeqs(NodesOf(G)) :
        \A i, j \in DOMAIN s : i < j => RankedBefore(score, s[i], s[j])}

TotalScore ==
    [x \in NodesOf(G) |->
        Cardinality(UNION {{thread} \X (1..scorePerThread[thread][x]) : thread \in Threads})]

\* In a graph of small diameter no node scores; the interrupt is not looked at.
RunTrivial ==
    /\ running = "start" /\ EstimatedDiameter <= 2
    /\ ranking' \in Rankings([x \in NodesOf(G) |-> 0])
    /\ running' = "ranked"
    /\ receivedSIGINT' = FALSE
    /\ UNCHANGED <<input, readerVars, samplingVars, skipped>>

\* An interrupt that came before ends the run; its handler goes, and forgets it.
RunBegin ==
    /\ running = "start" /\ EstimatedDiameter > 2
    /\ running' = IF receivedSIGINT THEN "interrupted" ELSE "sampling"
    /\ receivedSIGINT' = FALSE
    /\ scorePerThread' = NoScore
    /\ UNCHANGED <<input, readerVars, left, sample, skipped, ranking>>

\* The user presses Ctrl-C.
Interrupt ==
    /\ running \in {"start", "sampling"} /\ ~receivedSIGINT
    /\ receivedSIGINT' = TRUE
    /\ UNCHANGED <<input, readerVars, running, samplingVars, skipped, ranking>>

\* A thread goes on to the next sample and draws two nodes.
DrawSample(thread) ==
    /\ running = "sampling" /\ left > 0
    /\ sample[thread] = NoSample
    /\ \E x, y \in NodesOf(G) :
        /\ x # y
        /\ sample' = [sample EXCEPT ![thread] = [u |-> x, t |-> y, found |-> FALSE]]
    /\ left' = left - 1
    /\ UNCHANGED <<input, readerVars, running, scorePerThread, receivedSIGINT, skipped, ranking>>

\* The search writes nothing that is shared, so the tests for an interrupt before
\* and after it count as one.
SkipSample(thread) ==
    /\ sample[thread] # NoSample /\ ~sample[thread].found
    /\ receivedSIGINT
    /\ sample' = [sample EXCEPT ![thread] = NoSample]
    /\ skipped' = TRUE
    /\ UNCHANGED <<input, readerVars, running, left, scorePerThread, receivedSIGINT, ranking>>

SearchPaths(thread) ==
    /\ sample[thread] # NoSample /\ ~sample[thread].found
    /\ ~receivedSIGINT
    /\ sample' = [sample EXCEPT ![thread] =
          IF Connects(G, @.u, @.t) THEN [@ EXCEPT !.found = TRUE] ELSE NoSample]
    /\ UNCHANGED <<input, readerVars, running, left, scorePerThread, receivedSIGINT,
                   skipped, ranking>>

\* The nodes before y on the shortest paths from x to y.
Predecessors(x, y) ==
    {z \in LevelOf(G, x, DistanceOf(G, x, y) - 1) : y \in ToSet(G.out[z])}

MutWalkBack(thread) ==
    /\ sample[thread] # NoSample /\ sample[thread].found
    /\ \E z \in Predecessors(sample[thread].u, sample[thread].t) :
        /\ sample' = [sample EXCEPT ![thread] =
              IF z = @.u THEN NoSample ELSE [@ EXCEPT !.t = z]]
        /\ scorePerThread' = [scorePerThread EXCEPT ![thread][z] = @ + 1]
    /\ UNCHANGED <<input, readerVars, running, left, receivedSIGINT, skipped, ranking>>

WalkBack(thread) ==
    /\ sample[thread] # NoSample /\ sample[thread].found
    /\ \E z \in Predecessors(sample[thread].u, sample[thread].t) :
        IF z = sample[thread].u
        THEN /\ sample' = [sample EXCEPT ![thread] = NoSample]
             /\ UNCHANGED scorePerThread
        ELSE /\ sample' = [sample EXCEPT ![thread].t = z]
             /\ scorePerThread' = [scorePerThread EXCEPT ![thread][z] = @ + 1]
    /\ UNCHANGED <<input, readerVars, running, left, receivedSIGINT, skipped, ranking>>

\* All threads have left the loop.  The locals of run go, and its signal handler,
\* which forgets the interrupt.
MutJoin ==
    /\ running = "sampling" /\ left = 0
    /\ \A thread \in Threads : sample[thread] = NoSample
    /\ ranking' \in Rankings(TotalScore)
    /\ running' = "ranked"
    /\ receivedSIGINT' = FALSE
    /\ scorePerThread' = NoScore
    /\ UNCHANGED <<input, readerVars, left, sample, skipped>>

Join ==
    /\ running = "sampling" /\ left = 0
    /\ \A thread \in Threads : sample[thread] = NoSample
    /\ IF receivedSIGINT
       THEN running' = "interrupted" /\ UNCHANGED ranking
       ELSE running' = "ranked" /\ ranking' \in Rankings(TotalScore)
    /\ receivedSIGINT' = FALSE
    /\ scorePerThread' = NoScore
    /\ UNCHANGED <<input, readerVars, left, sample, skipped>>

Run ==
    \/ RunTrivial
    \/ RunBegin
    \/ \E thread \in Threads :
          DrawSample(thread) \/ SkipSample(thread) \/ SearchPaths(thread) \/ WalkBack(thread)
    \/ Join

-----------------------------------------------------------------------------
\* A node scores only if it lies strictly inside a shortest path.
ScoredInside ==
    \A thread \in Threads : \A z \in DOMAIN scorePerThread[thread] :
        scorePerThread[thread][z] > 0 =>
            \E x, y \in NodesOf(G) \ {z} :
                /\ Connects(G, x, z) /\ Connects(G, z, y)
                /\ DistanceOf(G, x, y) = DistanceOf(G, x, z) + DistanceOf(G, z, y)

\* No ranking is made from the samples that were left when an interrupt came.
RankingComplete == skipped => running \in {"sampling", "interrupted"}
=============================================================================

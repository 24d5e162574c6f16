--------------------------- MODULE DistanceOracle ---------------------------
(***************************************************************************)
(* What class PrunedLandmarkLabeling promises its user: once construction  *)
(* has succeeded, every query is answered with the distance, or with       *)
(* IntMax when the distance is Limit or more or there is no path.          *)
(*                                                                         *)
(* The promise has a gap: two vertices nearer than Gap may be told any     *)
(* larger distance.  A user of the documentation expects Gap = 0.          *)
(***************************************************************************)
EXTENDS PLLGraph

CONSTANTS Limit, Gap, IntMax, None

VARIABLES graph, stage, answer

Promised(x, y, q) ==
    IF x \notin Vertex \/ y \notin Vertex
    THEN q = IF x = y THEN 0 ELSE IntMax
    ELSE \/ q < Limit /\ AtDistance(graph, x, y, q)
         \/ q = IntMax /\ ~Within(graph, x, y, Limit - 1)
         \/ \E n \in 0..(Gap - 1) : n < q /\ AtDistance(graph, x, y, n)

Init == graph \in Graphs /\ stage = "building" /\ answer = None

Finish ==
    /\ stage = "building"
    /\ stage' \in {"ready", "failed"}
    /\ UNCHANGED <<graph, answer>>

Ask(x, y) ==
    /\ stage = "ready" /\ answer = None
    /\ \E q \in (0..(Limit - 1)) \cup {IntMax} :
          Promised(x, y, q) /\ answer' = <<x, y, q>>
    /\ UNCHANGED <<graph, stage>>

Take == answer # None /\ answer' = None /\ UNCHANGED <<graph, stage>>

Next ==
    \/ Finish
    \/ \E x, y \in 0..NumV : Ask(x, y)
    \/ Take

Spec == Init /\ [][Next]_<<graph, stage, answer>> /\ WF_stage(Finish)
=============================================================================

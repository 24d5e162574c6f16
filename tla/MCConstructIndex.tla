-------------------------- MODULE MCConstructIndex --------------------------
(***************************************************************************)
(* Instances of ConstructIndex: both phases and the queries that follow,   *)
(* on every graph of a few vertices.                                       *)
(***************************************************************************)
EXTENDS ConstructIndex, MCGraphs
=============================================================================

--------------------------- MODULE MCBitParallel ---------------------------
(***************************************************************************)
(* Instances of BitParallel: every graph of a few vertices, self-loops     *)
(* included, with masks of two bits so that some neighbours do not fit.    *)
(***************************************************************************)
EXTENDS BitParallel, MCGraphs
=============================================================================

--------------------------- MODULE MCPercpuRwSem ---------------------------
(* Instances of PercpuRwSem for TLC.                                       *)
EXTENDS PercpuRwSem
=============================================================================

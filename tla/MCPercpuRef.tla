---------------------------- MODULE MCPercpuRef ----------------------------
(* Instances of PercpuRef for TLC. *)
EXTENDS PercpuRef
=============================================================================

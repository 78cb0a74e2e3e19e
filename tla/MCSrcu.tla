------------------------------- MODULE MCSrcu -------------------------------
(* Instances of Srcu for TLC. *)
EXTENDS Srcu, TLC

SrcuSymmetry == Permutations(Readers) \cup Permutations(Updaters)
=============================================================================

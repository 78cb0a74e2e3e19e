----------------------------- MODULE MCCpuStop -----------------------------
(* Instances of CpuStop for TLC.                                           *)
EXTENDS CpuStop

CONSTANTS c1, c2, c3, one, mach, mach2, plug

\* c3 is taken down and up while one stops it; two callers stop the machine from two CPUs.
MCOp == [p \in Callers |-> CASE p = one -> "one" [] p = plug -> "hotplug" [] OTHER -> "machine"]
MCHome == [p \in Callers |-> IF p \in {plug, mach2} THEN c2 ELSE c1]
MCTarget == [p \in Callers |-> IF p \in {mach, mach2} THEN Home[p] ELSE c3]
=============================================================================

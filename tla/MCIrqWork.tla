----------------------------- MODULE MCIrqWork -----------------------------
(* Instance of IrqWork for TLC.  The CPUs differ: one raises interrupts,   *)
(* the other waits for its tick.                                           *)
EXTENDS IrqWork

CONSTANTS w1, w2, c1, c2, t1, n1, f1
=============================================================================

----------------------------- MODULE MCTaskWork -----------------------------
(* Instances of TaskWork for TLC.                                          *)
EXTENDS TaskWork

CONSTANTS w1, w2, w3, f1, f2

\* Two works share a callback.
MCFunc == [w \in Works |-> IF w = w2 THEN f2 ELSE f1]
=============================================================================

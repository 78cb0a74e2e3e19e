----------------------------- MODULE MCWwMutex -----------------------------
(* Instances of WwMutex for TLC.                                           *)
EXTENDS WwMutex

CONSTANTS t1, t2, t3, t4, l1, l2

\* Every context takes both locks.
WantAll == [t \in Tasks |-> Locks]

\* t1 and t2 take the first lock only.
WantSome == [t \in Tasks |-> IF t \in {t1, t2} THEN {l1} ELSE {l1, l2}]

PairSymmetry == {p @@ q : p \in Permutations({t1, t2}), q \in Permutations({t3, t4})}
LockSymmetry == Permutations(Tasks) \cup Permutations(Locks)
=============================================================================

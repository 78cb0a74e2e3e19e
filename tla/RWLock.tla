------------------------------- MODULE RWLock -------------------------------
(***************************************************************************)
(* What a reader/writer lock promises: any number of readers or a single   *)
(* writer.  Readers may be admitted in groups (the grants of               *)
(* __rwsem_do_wake()), and a writer may turn into a reader without letting *)
(* another writer in between.                                              *)
(***************************************************************************)
CONSTANT Tasks

VARIABLES readers,    \* tasks that own the lock for reading
          writers     \* tasks that own the lock for writing

vars == <<readers, writers>>

Init == readers = {} /\ writers = {}

AcquireRead(S) ==
    /\ S # {}
    /\ S \cap readers = {}
    /\ writers = {}
    /\ readers' = readers \cup S
    /\ UNCHANGED writers

AcquireWrite(t) ==
    /\ readers = {}
    /\ writers = {}
    /\ writers' = {t}
    /\ UNCHANGED readers

ReleaseRead(t) ==
    /\ t \in readers
    /\ readers' = readers \ {t}
    /\ UNCHANGED writers

ReleaseWrite(t) ==
    /\ writers = {t}
    /\ writers' = {}
    /\ UNCHANGED readers

Downgrade(t) ==
    /\ writers = {t}
    /\ writers' = {}
    /\ readers' = {t}

Next ==
    \/ \E S \in SUBSET Tasks : AcquireRead(S)
    \/ \E t \in Tasks : AcquireWrite(t) \/ ReleaseRead(t) \/ ReleaseWrite(t) \/ Downgrade(t)

Spec == Init /\ [][Next]_vars
=============================================================================

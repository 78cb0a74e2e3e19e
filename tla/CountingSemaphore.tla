------------------------- MODULE CountingSemaphore -------------------------
(***************************************************************************)
(* What a counting semaphore promises its callers: a pool of permits, each *)
(* either free or owned by a task.  A release returns a permit to the pool *)
(* or hands it to another task in the same step; nobody creates or loses a *)
(* permit except an up() by a caller that never called down().             *)
(* kernel/semaphore.c is shown to implement this module (Semaphore.tla).   *)
(***************************************************************************)
EXTENDS Naturals, FiniteSets

CONSTANTS Tasks,      \* the tasks that use the semaphore
          InitCount   \* permits at sema_init()

VARIABLES permits,    \* free permits
          owners,     \* tasks that own one
          produced    \* permits added by callers that owned none

vars == <<permits, owners, produced>>

Init ==
    /\ permits = InitCount
    /\ owners = {}
    /\ produced = 0

Acquire(t) ==
    /\ t \notin owners
    /\ permits > 0
    /\ permits' = permits - 1
    /\ owners' = owners \cup {t}
    /\ UNCHANGED produced

Release(t) ==
    /\ t \in owners
    /\ permits' = permits + 1
    /\ owners' = owners \ {t}
    /\ UNCHANGED produced

\* The permit of t goes straight to u: nobody can take it in between.
Handover(t, u) ==
    /\ t \in owners
    /\ u \notin owners
    /\ permits = 0
    /\ owners' = (owners \ {t}) \cup {u}
    /\ UNCHANGED <<permits, produced>>

Produce ==
    /\ permits' = permits + 1
    /\ produced' = produced + 1
    /\ UNCHANGED owners

ProduceFor(u) ==
    /\ u \notin owners
    /\ permits = 0
    /\ owners' = owners \cup {u}
    /\ produced' = produced + 1
    /\ UNCHANGED permits

Next ==
    \/ Produce
    \/ \E t \in Tasks : Acquire(t) \/ Release(t) \/ ProduceFor(t)
    \/ \E t, u \in Tasks : Handover(t, u)

Spec == Init /\ [][Next]_vars
=============================================================================

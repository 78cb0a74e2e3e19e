------------------------------ MODULE WwMutex ------------------------------
(***************************************************************************)
(* Wait/wound mutexes: the acquire contexts of include/linux/ww_mutex.h    *)
(* and the ww parts of kernel/mutex.c.                                     *)
(*                                                                         *)
(* A context takes the locks it wants in any order.  A lock call that      *)
(* would wait for an older context returns -EDEADLK if the caller already  *)
(* holds locks; the caller then drops them all and starts with the         *)
(* contended one.  The owner of a lock is known through ->ctx, which the   *)
(* fast path sets after it has the lock, so that waiters must be woken to  *)
(* look again.                                                             *)
(*                                                                         *)
(* ->count is kept by its sign, "free", "locked" or "contended"; Mutex has *)
(* the arithmetic.                                                         *)
(***************************************************************************)
EXTENDS Integers, FiniteSets, SequencesExt

CONSTANTS Tasks, Locks, NULL,
          Want,          \* locks each task's contexts acquire
          Modulus,       \* number of values of unsigned long, even
          FirstStamp,    \* class->stamp at the start
          MaxContexts    \* bound: contexts that are ever started

ASSUME WwMutexAssumption ==
    /\ IsFiniteSet(Tasks) /\ IsFiniteSet(Locks) /\ NULL \notin Tasks \cup Locks
    /\ Want \in [Tasks -> SUBSET Locks]
    /\ Modulus \in Nat /\ Modulus % 2 = 0
    /\ MaxContexts \in Nat /\ MaxContexts < Modulus \div 2
    /\ FirstStamp \in 0 .. Modulus - 1

VARIABLES
    word, ctx,              \* sign of ->base.count, owner in ->ctx
    wait_lock, wait_list,   \* of each lock
    started,                \* contexts started so far
    stamp, acquired,        \* of each task's context
    pc, mode,               \* where each task is; "grow", "backoff" or "finish"
    held,                   \* locks the caller has to release
    lock, hold_ctx,         \* locals of the lock and unlock functions
    contended,              \* lock of the last -EDEADLK
    running

lockVars == <<word, ctx, wait_lock, wait_list>>
ctxVars == <<started, stamp, acquired>>
callVars == <<mode, held, lock, hold_ctx, contended>>
vars == <<lockVars, ctxVars, pc, callVars, running>>

Init ==
    /\ word = [l \in Locks |-> "free"] /\ ctx = [l \in Locks |-> NULL]
    /\ wait_lock = [l \in Locks |-> NULL] /\ wait_list = [l \in Locks |-> <<>>]
    /\ started = 0 /\ stamp = [t \in Tasks |-> 0] /\ acquired = [t \in Tasks |-> 0]
    /\ pc = [t \in Tasks |-> "none"] /\ mode = [t \in Tasks |-> "grow"]
    /\ held = [t \in Tasks |-> {}]
    /\ lock = [t \in Tasks |-> NULL] /\ hold_ctx = [t \in Tasks |-> NULL]
    /\ contended = [t \in Tasks |-> NULL]
    /\ running = [t \in Tasks |-> TRUE]

Goto(t, from, to) == pc[t] = from /\ pc' = [pc EXCEPT ![t] = to]

WakeAll(l) == running' = [t \in Tasks |-> running[t] \/ Contains(wait_list[l], t)]

-----------------------------------------------------------------------------
(* The caller, as the documentation's examples have it.                    *)

ww_acquire_init(t) ==
    /\ Goto(t, "none", "ready") /\ started < MaxContexts
    /\ started' = started + 1
    /\ stamp' = [stamp EXCEPT ![t] = (FirstStamp + started + 1) % Modulus]
    /\ mode' = [mode EXCEPT ![t] = "grow"]
    /\ UNCHANGED <<lockVars, acquired, held, lock, hold_ctx, contended, running>>

ww_acquire_fini(t) ==
    /\ Goto(t, "ready", "none") /\ mode[t] = "finish" /\ held[t] = {}
    /\ UNCHANGED <<lockVars, ctxVars, callVars, running>>

\* All locks are taken and the caller is done with them.
Finish(t) ==
    /\ pc[t] = "ready" /\ mode[t] = "grow" /\ held[t] = Want[t]
    /\ mode' = [mode EXCEPT ![t] = "finish"]
    /\ UNCHANGED <<lockVars, ctxVars, pc, held, lock, hold_ctx, contended, running>>

\* The next lock; after backing off ww_mutex_lock_slow() on the contended one.
Wanted(t) == IF contended[t] # NULL THEN {contended[t]} ELSE Want[t] \ held[t]

-----------------------------------------------------------------------------
(* __ww_mutex_lock(): fast path and ww_mutex_set_context_fastpath().       *)

\* Mutant: a mutex without waiters passes for a free one.
NotContended(l) == word[l] # "contended"

LockFree(l) == word[l] = "free"

FastLock(t, l) ==
    /\ mode[t] = "grow" \/ (mode[t] = "backoff" /\ held[t] = {})
    /\ l \in Wanted(t)
    /\ Goto(t, "ready", IF LockFree(l) THEN "set_ctx" ELSE "slow")
    /\ word' = [word EXCEPT ![l] = IF LockFree(l) THEN "locked" ELSE "contended"]
    /\ lock' = [lock EXCEPT ![t] = l]
    /\ mode' = [mode EXCEPT ![t] = "grow"]
    /\ UNCHANGED <<ctx, wait_lock, wait_list, ctxVars, held, hold_ctx, contended, running>>

\* The optimistic spinner's cmpxchg(&lock->count, 1, 0).
SpinAcquire(t) ==
    /\ Goto(t, "slow", "set_ctx") /\ LockFree(lock[t])
    /\ word' = [word EXCEPT ![lock[t]] = "locked"]
    /\ UNCHANGED <<ctx, wait_lock, wait_list, ctxVars, callVars, running>>

\* The lock belongs to the caller.
Got(t) ==
    /\ held' = [held EXCEPT ![t] = @ \cup {lock[t]}]
    /\ contended' = [contended EXCEPT ![t] = NULL]
    /\ lock' = [lock EXCEPT ![t] = NULL]

SetContext(t) ==
    /\ Goto(t, "set_ctx", "read_count")
    /\ acquired' = [acquired EXCEPT ![t] = @ + 1]
    /\ ctx' = [ctx EXCEPT ![lock[t]] = t]
    /\ UNCHANGED <<word, wait_lock, wait_list, started, stamp, callVars, running>>

\* atomic_read(&lock->base.count) == 0
Uncontended(l) == word[l] = "locked"

ReadCount(t) ==
    /\ Goto(t, "read_count", IF Uncontended(lock[t]) THEN "ready" ELSE "wake")
    /\ IF Uncontended(lock[t]) THEN Got(t) ELSE UNCHANGED <<held, lock, contended>>
    /\ UNCHANGED <<lockVars, ctxVars, mode, hold_ctx, running>>

WakeWaiters(t) ==
    /\ Goto(t, "wake", "ready") /\ wait_lock[lock[t]] = NULL
    /\ WakeAll(lock[t]) /\ Got(t)
    /\ UNCHANGED <<lockVars, ctxVars, mode, hold_ctx>>

-----------------------------------------------------------------------------
(* __mutex_lock_common() with a context.                                   *)

Enqueue(t) ==
    LET l == lock[t] IN
    /\ Goto(t, "slow", "try") /\ wait_lock[l] = NULL
    /\ wait_lock' = [wait_lock EXCEPT ![l] = t]
    /\ wait_list' = [wait_list EXCEPT ![l] = Append(@, t)]
    /\ UNCHANGED <<word, ctx, ctxVars, callVars, running>>

\* atomic_xchg(&lock->count, -1) == 1
Try(t) ==
    LET l == lock[t] IN
    /\ Goto(t, "try", IF LockFree(l) THEN "done" ELSE "check")
    /\ word' = [word EXCEPT ![l] = "contended"]
    /\ UNCHANGED <<ctx, wait_lock, wait_list, ctxVars, callVars, running>>

\* __mutex_lock_check_stamp(), for a context that holds locks: ->ctx is read ...
CheckRead(t) ==
    LET h == IF acquired[t] > 0 THEN ctx[lock[t]] ELSE NULL IN
    /\ Goto(t, "check", IF h = NULL THEN "sleep" ELSE "stamp")
    /\ hold_ctx' = [hold_ctx EXCEPT ![t] = h]
    /\ UNCHANGED <<lockVars, ctxVars, mode, held, lock, contended, running>>

\* Mutant: stamps are compared as if they did not wrap.
LaterAsNumber(a, b) == a > b

\* a - b <= LONG_MAX, unsigned, and a # b
Later(a, b) == a # b /\ (a - b) % Modulus < Modulus \div 2

LeaveQueue(t) ==
    /\ wait_list' = [wait_list EXCEPT ![lock[t]] = RemoveFirst(@, t)]
    /\ wait_lock' = [wait_lock EXCEPT ![lock[t]] = NULL]

\* ... and its stamp compared: -EDEADLK for the younger.
CheckStamp(t) ==
    LET die == Later(stamp[t], stamp[hold_ctx[t]]) IN
    /\ Goto(t, "stamp", IF die THEN "ready" ELSE "sleep")
    /\ hold_ctx' = [hold_ctx EXCEPT ![t] = NULL]
    /\ IF die
       THEN /\ LeaveQueue(t)
            /\ mode' = [mode EXCEPT ![t] = "backoff"]
            /\ contended' = [contended EXCEPT ![t] = lock[t]]
            /\ lock' = [lock EXCEPT ![t] = NULL]
       ELSE UNCHANGED <<wait_list, wait_lock, mode, contended, lock>>
    /\ UNCHANGED <<word, ctx, ctxVars, held, running>>

\* -EINTR of ww_mutex_lock_interruptible(): the caller gives up.
Interrupted(t) ==
    /\ Goto(t, "check", "ready")
    /\ LeaveQueue(t)
    /\ mode' = [mode EXCEPT ![t] = "finish"]
    /\ contended' = [contended EXCEPT ![t] = NULL] /\ lock' = [lock EXCEPT ![t] = NULL]
    /\ UNCHANGED <<word, ctx, ctxVars, held, hold_ctx, running>>

\* A signal, or a stray wake-up.
Signal(t) ==
    /\ pc[t] = "sched" /\ running' = [running EXCEPT ![t] = TRUE]
    /\ UNCHANGED <<lockVars, ctxVars, pc, callVars>>

Sleep(t) ==
    /\ Goto(t, "sleep", "sched")
    /\ running' = [running EXCEPT ![t] = FALSE]
    /\ wait_lock' = [wait_lock EXCEPT ![lock[t]] = NULL]
    /\ UNCHANGED <<word, ctx, wait_list, ctxVars, callVars>>

Schedule(t) ==
    /\ Goto(t, "sched", "try") /\ running[t] /\ wait_lock[lock[t]] = NULL
    /\ wait_lock' = [wait_lock EXCEPT ![lock[t]] = t]
    /\ UNCHANGED <<word, ctx, wait_list, ctxVars, callVars, running>>

\* done: the waiters left behind look at the new ->ctx.
Done(t) ==
    LET l == lock[t] IN
    /\ Goto(t, "done", "ready")
    /\ LeaveQueue(t)
    /\ acquired' = [acquired EXCEPT ![t] = @ + 1]
    /\ ctx' = [ctx EXCEPT ![l] = t]
    /\ WakeAll(l)
    /\ word' = [word EXCEPT ![l] = IF wait_list'[l] = <<>> THEN "locked" ELSE @]
    /\ Got(t)
    /\ UNCHANGED <<started, stamp, mode, hold_ctx>>

-----------------------------------------------------------------------------
(* ww_mutex_unlock()                                                       *)

OneLess(n) == IF n > 0 THEN n - 1 ELSE n

\* The context lets go of the lock.
UnlockContext(t, l) ==
    /\ Goto(t, "ready", "unlock") /\ mode[t] \in {"backoff", "finish"} /\ l \in held[t]
    /\ lock' = [lock EXCEPT ![t] = l]
    /\ held' = [held EXCEPT ![t] = @ \ {l}]
    /\ acquired' = [acquired EXCEPT ![t] = OneLess(@)]
    /\ ctx' = [ctx EXCEPT ![l] = NULL]
    /\ UNCHANGED <<word, wait_lock, wait_list, started, stamp, mode, hold_ctx, contended, running>>

\* Mutant: the unlocker does not look at the waiters' mark.
QuietUnlock(l) == TRUE

UnlockedFast(l) == word[l] = "locked"

UnlockCount(t) ==
    /\ Goto(t, "unlock", IF UnlockedFast(lock[t]) THEN "ready" ELSE "unlock_slow")
    /\ IF UnlockedFast(lock[t])
       THEN word' = [word EXCEPT ![lock[t]] = "free"] /\ lock' = [lock EXCEPT ![t] = NULL]
       ELSE UNCHANGED <<word, lock>>
    /\ UNCHANGED <<ctx, wait_lock, wait_list, ctxVars, mode, held, hold_ctx, contended, running>>

UnlockSet(t) ==
    LET l == lock[t] IN
    /\ Goto(t, "unlock_slow", "unlock_wake") /\ wait_lock[l] = NULL
    /\ wait_lock' = [wait_lock EXCEPT ![l] = t]
    /\ word' = [word EXCEPT ![l] = "free"]
    /\ UNCHANGED <<ctx, wait_list, ctxVars, callVars, running>>

UnlockWake(t) ==
    LET l == lock[t] IN
    /\ Goto(t, "unlock_wake", "ready")
    /\ running' = [u \in Tasks |-> running[u] \/ (wait_list[l] # <<>> /\ u = Head(wait_list[l]))]
    /\ wait_lock' = [wait_lock EXCEPT ![l] = NULL]
    /\ lock' = [lock EXCEPT ![t] = NULL]
    /\ UNCHANGED <<word, ctx, wait_list, ctxVars, mode, held, hold_ctx, contended>>

-----------------------------------------------------------------------------
Step(t) ==
    \/ ww_acquire_fini(t) \/ Finish(t)
    \/ (\E l \in Locks : FastLock(t, l) \/ UnlockContext(t, l))
    \/ SpinAcquire(t) \/ SetContext(t) \/ ReadCount(t) \/ WakeWaiters(t)
    \/ Enqueue(t) \/ Try(t) \/ CheckRead(t) \/ CheckStamp(t) \/ Sleep(t) \/ Schedule(t) \/ Done(t)
    \/ UnlockCount(t) \/ UnlockSet(t) \/ UnlockWake(t)

Next == \E t \in Tasks : ww_acquire_init(t) \/ Signal(t) \/ Interrupted(t) \/ Step(t)

Spec == Init /\ [][Next]_vars

-----------------------------------------------------------------------------
(* Properties.                                                             *)

\* Types of the variables; ->acquired stays between 0 and the number of locks.
TypeOK ==
    /\ word \in [Locks -> {"free", "locked", "contended"}]
    /\ ctx \in [Locks -> Tasks \cup {NULL}] /\ wait_lock \in [Locks -> Tasks \cup {NULL}]
    /\ wait_list \in [Locks -> Seq(Tasks)]
    /\ started \in 0 .. MaxContexts /\ stamp \in [Tasks -> 0 .. Modulus - 1]
    /\ acquired \in [Tasks -> 0 .. Cardinality(Locks)]
    /\ pc \in [Tasks -> {"none", "ready", "set_ctx", "read_count", "wake", "slow", "try", "check",
                         "stamp", "sleep", "sched", "done", "unlock", "unlock_slow", "unlock_wake"}]
    /\ mode \in [Tasks -> {"grow", "backoff", "finish"}]
    /\ held \in [Tasks -> SUBSET Locks]
    /\ lock \in [Tasks -> Locks \cup {NULL}] /\ contended \in [Tasks -> Locks \cup {NULL}]
    /\ hold_ctx \in [Tasks -> Tasks \cup {NULL}] /\ running \in [Tasks -> BOOLEAN]

\* t owns l: from the step that took it to the step that frees it.
Owns(t, l) ==
    \/ l \in held[t]
    \/ lock[t] = l /\ pc[t] \in {"set_ctx", "read_count", "wake", "done", "unlock", "unlock_slow"}

\* A lock has one owner, is free exactly without one, and ->ctx names nobody else.
OneOwner ==
    \A l \in Locks :
        LET O == {t \in Tasks : Owns(t, l)} IN
        /\ Cardinality(O) <= 1
        /\ word[l] = "free" <=> O = {}
        /\ ctx[l] # NULL => O = {ctx[l]}

\* At every instant: types, and count and ->ctx in step with who owns each lock.
OwnerInv == TypeOK /\ OneOwner

\* A waiter that has read ->ctx and not yet its stamp finds the context alive: its
\* owner cannot get through ww_mutex_unlock() and end it before the waiter has let
\* go of ->wait_lock.
NoStaleContext ==
    \A t \in Tasks : pc[t] = "stamp" => Owns(hold_ctx[t], lock[t])

\* Asleep, waiting for a lock, and no unlock is about to wake it.
Blocked(t) ==
    /\ pc[t] = "sched" /\ ~running[t]
    /\ \A u \in Tasks : pc[u] = "unlock_wake" /\ lock[u] = lock[t] => t # Head(wait_list[lock[t]])

\* "Deadlocks within a given w/w class of locks are detected": contexts never
\* wait for each other in a circle.
NoWaitCycle ==
    \A S \in SUBSET Tasks \ {{}} :
        ~ \A t \in S : Blocked(t) /\ \E u \in S : Owns(u, lock[t])
=============================================================================

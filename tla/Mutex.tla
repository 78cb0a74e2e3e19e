------------------------------- MODULE Mutex -------------------------------
(***************************************************************************)
(* The mutex of kernel/mutex.c with the fast paths of                      *)
(* include/asm-generic/mutex-dec.h and optimistic spinning.                *)
(*                                                                         *)
(* ->count is 1 when free, 0 when locked, negative when there may be       *)
(* waiters; fast paths and spinners change it at any time, also while      *)
(* another task is inside ->wait_lock, so an action accesses it at most    *)
(* once.  ->owner is a hint for spinners, set after the lock is taken and  *)
(* cleared before it is given up.  The queue lock of the spinners          *)
(* (mspin_lock()) is modelled as a lock.                                   *)
(***************************************************************************)
EXTENDS Integers, FiniteSets, SequencesExt

CONSTANTS Tasks, NULL,
          IntMax,    \* largest value of int
          MaxDebt    \* bound: nobody starts a lock call with ->count below -MaxDebt

ASSUME MutexAssumption ==
    IsFiniteSet(Tasks) /\ NULL \notin Tasks /\ IntMax \in Nat \ {0} /\ MaxDebt \in Nat

VARIABLES
    count, owner,
    wait_lock, wait_list,
    mlock,       \* the spinner that owns ->spin_mlock, or NULL
    pc,
    lowner,      \* the owner a spinner waits for
    intr,        \* the task called mutex_lock_interruptible() or _killable()
    signal,      \* signal_pending_state() of such a task
    running,     \* task state is TASK_RUNNING
    open         \* callers still start new operations

vars == <<count, owner, wait_lock, wait_list, mlock, pc, lowner, intr, signal, running, open>>

Init ==
    /\ count = 1 /\ owner = NULL
    /\ wait_lock = NULL /\ wait_list = <<>> /\ mlock = NULL
    /\ pc = [t \in Tasks |-> "idle"] /\ lowner = [t \in Tasks |-> NULL]
    /\ intr = [t \in Tasks |-> FALSE] /\ signal = [t \in Tasks |-> FALSE]
    /\ running = [t \in Tasks |-> TRUE]
    /\ open = TRUE

At(t, l) == pc[t] = l
Goto(t, l) == pc' = [pc EXCEPT ![t] = l]

-----------------------------------------------------------------------------
(* Fast paths.                                                             *)

\* Two's complement.
Decrement(c) == IF c = -IntMax - 1 THEN IntMax ELSE c - 1

\* mutex_lock(), mutex_lock_interruptible(): atomic_dec_return() < 0.
FastLock(t, i) ==
    /\ open /\ At(t, "idle") /\ count >= -MaxDebt
    /\ count' = Decrement(count)
    /\ intr' = [intr EXCEPT ![t] = i]
    /\ Goto(t, IF count' < 0 THEN "slow" ELSE "set_owner")
    /\ UNCHANGED <<owner, wait_lock, wait_list, mlock, lowner, signal, running, open>>

\* Mutant: "not contended" passes for "free".
NotContended == count >= 0

LockFree == count = 1

\* mutex_trylock(): cmpxchg(count, 1, 0), also past the queue.
Trylock(t) ==
    /\ open /\ At(t, "idle") /\ LockFree
    /\ count' = 0
    /\ Goto(t, "set_owner")
    /\ UNCHANGED <<owner, wait_lock, wait_list, mlock, lowner, intr, signal, running, open>>

\* mutex_set_owner(), which a spinner calls before mspin_unlock().
SetOwner(t) ==
    /\ pc[t] \in {"set_owner", "spin_set_owner"}
    /\ owner' = t /\ Goto(t, "locked")
    /\ mlock' = IF At(t, "spin_set_owner") THEN NULL ELSE mlock
    /\ UNCHANGED <<count, wait_lock, wait_list, lowner, intr, signal, running, open>>

\* Mutant: mutex_unlock() forgets mutex_clear_owner().
OwnerKept == owner

OwnerCleared == NULL

ClearOwner(t) ==
    /\ At(t, "locked")
    /\ owner' = OwnerCleared /\ Goto(t, "unlock")
    /\ UNCHANGED <<count, wait_lock, wait_list, mlock, lowner, intr, signal, running, open>>

\* atomic_inc_return(count) <= 0 fails.
FastUnlocked(c) == c + 1 > 0

Return(t) ==
    /\ Goto(t, "idle")
    /\ intr' = [intr EXCEPT ![t] = FALSE] /\ signal' = [signal EXCEPT ![t] = FALSE]

FastUnlock(t) ==
    /\ At(t, "unlock")
    /\ count' = count + 1
    /\ IF FastUnlocked(count)
       THEN Return(t)
       ELSE Goto(t, "unlock_slow") /\ UNCHANGED <<intr, signal>>
    /\ UNCHANGED <<owner, wait_lock, wait_list, mlock, lowner, running, open>>

-----------------------------------------------------------------------------
(* __mutex_unlock_slowpath()                                               *)

\* atomic_set(&lock->count, 1): from here on anybody may take the lock.
UnlockSet(t) ==
    /\ At(t, "unlock_slow") /\ wait_lock = NULL
    /\ wait_lock' = t /\ count' = 1
    /\ Goto(t, "unlock_wake")
    /\ UNCHANGED <<owner, wait_list, mlock, lowner, intr, signal, running, open>>

UnlockWake(t) ==
    /\ At(t, "unlock_wake")
    /\ running' = [u \in Tasks |-> running[u] \/ (wait_list # <<>> /\ u = Head(wait_list))]
    /\ wait_lock' = NULL
    /\ Return(t)
    /\ UNCHANGED <<count, owner, wait_list, mlock, lowner, open>>

-----------------------------------------------------------------------------
(* __mutex_lock_common(): optimistic spinning.                             *)

\* mutex_can_spin_on_owner(), or not: the owner may be off its CPU.  mspin_lock().
SpinLock(t) ==
    /\ pc[t] \in {"slow", "again"} /\ mlock = NULL
    /\ mlock' = t /\ Goto(t, "spin")
    /\ UNCHANGED <<count, owner, wait_lock, wait_list, lowner, intr, signal, running, open>>

SpinReadOwner(t) ==
    /\ At(t, "spin")
    /\ lowner' = [lowner EXCEPT ![t] = owner]
    /\ Goto(t, IF owner = NULL THEN "spin_try" ELSE "spin_owner")
    /\ UNCHANGED <<count, owner, wait_lock, wait_list, mlock, intr, signal, running, open>>

\* mutex_spin_on_owner(): TRUE once ->owner is NULL, FALSE if it has changed, sleeps,
\* or need_resched().
SpinOnOwner(t) ==
    /\ At(t, "spin_owner")
    /\ \/ owner = NULL /\ Goto(t, "spin_try") /\ UNCHANGED <<mlock, lowner>>
       \/ /\ owner # NULL
          /\ Goto(t, "queue") /\ mlock' = NULL /\ lowner' = [lowner EXCEPT ![t] = NULL]
    /\ UNCHANGED <<count, owner, wait_lock, wait_list, intr, signal, running, open>>

\* cmpxchg(&lock->count, 1, 0)
SpinAcquire(t) ==
    /\ At(t, "spin_try") /\ LockFree
    /\ count' = 0 /\ lowner' = [lowner EXCEPT ![t] = NULL]
    /\ Goto(t, "spin_set_owner")
    /\ UNCHANGED <<owner, wait_lock, wait_list, mlock, intr, signal, running, open>>

\* Another turn, or the end of it if there was no owner and need_resched().
SpinFail(t) ==
    /\ At(t, "spin_try") /\ ~LockFree
    /\ mlock' = NULL /\ lowner' = [lowner EXCEPT ![t] = NULL]
    /\ Goto(t, "again") \/ (lowner[t] = NULL /\ Goto(t, "queue"))
    /\ UNCHANGED <<count, owner, wait_lock, wait_list, intr, signal, running, open>>

-----------------------------------------------------------------------------
(* __mutex_lock_common(): queueing and sleeping.                           *)

\* list_add_tail() under ->wait_lock; spinning may not have been tried.
Enqueue(t) ==
    /\ pc[t] \in {"slow", "queue"} /\ wait_lock = NULL
    /\ wait_lock' = t /\ wait_list' = Append(wait_list, t)
    /\ Goto(t, "first")
    /\ UNCHANGED <<count, owner, mlock, lowner, intr, signal, running, open>>

\* MUTEX_SHOW_NO_WAITER(), before the loop ("first") and in it ("try").
ShowNoWaiter(t) ==
    /\ pc[t] \in {"first", "try"}
    /\ Goto(t, IF At(t, "first")
               THEN IF count >= 0 THEN "first_xchg" ELSE "try"
               ELSE IF count >= 0 THEN "xchg" ELSE "check")
    /\ UNCHANGED <<count, owner, wait_lock, wait_list, mlock, lowner, intr, signal, running, open>>

\* Mutant: the waiter leaves the count alone when it does not get the lock.
ExchangeIfFree(c) == IF c = 1 THEN -1 ELSE c

Exchanged(c) == -1

\* atomic_xchg(&lock->count, -1) == 1; the first failure leads into the loop.
Xchg(t) ==
    /\ pc[t] \in {"first_xchg", "xchg"}
    /\ count' = Exchanged(count)
    /\ Goto(t, CASE count = 1 -> "done"
                 [] count # 1 /\ At(t, "first_xchg") -> "try"
                 [] count # 1 /\ At(t, "xchg") -> "check")
    /\ UNCHANGED <<owner, wait_lock, wait_list, mlock, lowner, intr, signal, running, open>>

\* A signal ends the wait with -EINTR; ->count keeps the mark of a waiter.
Interrupted(t) ==
    /\ At(t, "check") /\ signal[t]
    /\ wait_list' = RemoveFirst(wait_list, t) /\ wait_lock' = NULL
    /\ Return(t)
    /\ UNCHANGED <<count, owner, mlock, lowner, running, open>>

\* __set_task_state() and spin_unlock_mutex(); schedule().
Sleep(t) ==
    /\ At(t, "check") /\ ~signal[t]
    /\ running' = [running EXCEPT ![t] = FALSE] /\ wait_lock' = NULL
    /\ Goto(t, "sched")
    /\ UNCHANGED <<count, owner, wait_list, mlock, lowner, intr, signal, open>>

Schedule(t) ==
    /\ At(t, "sched") /\ running[t] /\ wait_lock = NULL
    /\ wait_lock' = t /\ Goto(t, "try")
    /\ UNCHANGED <<count, owner, wait_list, mlock, lowner, intr, signal, running, open>>

\* Mutant: the count is reset whoever is left on the list.
ResetAlways(q) == 0

\* "set it to 0 if there are no waiters left"
CountAfterDequeue(q) == IF q = <<>> THEN 0 ELSE count

\* done: mutex_remove_waiter(), mutex_set_owner().
Done(t) ==
    /\ At(t, "done")
    /\ wait_list' = RemoveFirst(wait_list, t)
    /\ owner' = t /\ count' = CountAfterDequeue(wait_list')
    /\ wait_lock' = NULL /\ Goto(t, "locked")
    /\ UNCHANGED <<mlock, lowner, intr, signal, running, open>>

-----------------------------------------------------------------------------
\* A signal reaches a task in an interruptible lock call and wakes it.
Signal(t) ==
    /\ intr[t] /\ ~signal[t]
    /\ pc[t] \in {"slow", "again", "spin_owner", "queue", "first", "try", "check", "sched"}
    /\ signal' = [signal EXCEPT ![t] = TRUE]
    /\ running' = [running EXCEPT ![t] = TRUE]
    /\ UNCHANGED <<count, owner, wait_lock, wait_list, mlock, pc, lowner, intr, open>>

\* Callers stop arriving; calls under way must still finish.
Close == open /\ open' = FALSE
    /\ UNCHANGED <<count, owner, wait_lock, wait_list, mlock, pc, lowner, intr, signal, running>>

Step(t) ==
    \/ SetOwner(t) \/ ClearOwner(t) \/ FastUnlock(t) \/ UnlockSet(t) \/ UnlockWake(t)
    \/ SpinLock(t) \/ SpinReadOwner(t) \/ SpinOnOwner(t) \/ SpinAcquire(t) \/ SpinFail(t)
    \/ Enqueue(t) \/ ShowNoWaiter(t) \/ Xchg(t) \/ Interrupted(t) \/ Sleep(t)
    \/ Schedule(t) \/ Done(t)

Next ==
    \/ Close
    \/ \E t \in Tasks : (\E i \in BOOLEAN : FastLock(t, i)) \/ Trylock(t) \/ Signal(t) \/ Step(t)

Spec == Init /\ [][Next]_vars

\* Tasks run, owners unlock, and ->wait_lock is fair to a bounded number of tasks.
FairSpec == Spec /\ \A t \in Tasks : WF_vars(Step(t))

-----------------------------------------------------------------------------
(* Properties.                                                             *)

\* Types of the variables; ->count never exceeds 1.
TypeOK ==
    /\ count \in (-IntMax - 1) .. 1
    /\ owner \in Tasks \cup {NULL} /\ wait_lock \in Tasks \cup {NULL}
    /\ mlock \in Tasks \cup {NULL} /\ wait_list \in Seq(Tasks)
    /\ pc \in [Tasks -> {"idle", "set_owner", "locked", "unlock", "unlock_slow", "unlock_wake",
                         "slow", "again", "spin", "spin_owner", "spin_try", "spin_set_owner",
                         "queue", "first", "first_xchg", "try", "xchg", "check", "sched", "done"}]
    /\ lowner \in [Tasks -> Tasks \cup {NULL}]
    /\ intr \in [Tasks -> BOOLEAN] /\ signal \in [Tasks -> BOOLEAN]
    /\ running \in [Tasks -> BOOLEAN] /\ open \in BOOLEAN

Owners ==
    {t \in Tasks : pc[t] \in {"set_owner", "spin_set_owner", "locked", "unlock", "unlock_slow", "done"}}

\* ->count says whether the mutex is free; an unlock under way may have raised it,
\* but never to the value that lets somebody in before atomic_set().
FreeIffNoOwner == count = 1 <=> Owners = {}

\* The hint never names a task that does not own the mutex, so a spinner that sees
\* its owner leave is not misled by a late mutex_set_owner() of an earlier owner.
OwnerIsOwner == owner # NULL => Owners = {owner}

\* At every instant: types, ->count and ->owner in step with who owns the mutex.
OwnerInv == TypeOK /\ FreeIffNoOwner /\ OwnerIsOwner

\* Sleeping waiters are never forgotten: if ->count does not show them, so that
\* the next unlock would be quiet, one of them is awake and will leave its mark,
\* or an unlock on its way to ->wait_lock or inside will wake the first.
NoStrandedWaiter ==
    count >= 0 /\ wait_list # <<>> =>
        \/ \E t \in Tasks : pc[t] \in {"unlock_slow", "unlock_wake"}
        \/ \E t \in ToSet(wait_list) : running[t]

\* Once callers stop arriving, every call under way returns.
EveryCallReturns == ~open ~> \A t \in Tasks : At(t, "idle")

Abstract == INSTANCE RWLock WITH readers <- {}, writers <- Owners

\* The mutex is a mutual exclusion lock, the writers' half of RWLock, whichever of the
\* fast path, the spinner and the waiter takes it.
ImplementsLock == Abstract!Spec
=============================================================================

----------------------------- MODULE Semaphore -----------------------------
(***************************************************************************)
(* The counting semaphore of kernel/semaphore.c.                           *)
(*                                                                         *)
(* Every access to ->count, ->wait_list and waiter->up happens between     *)
(* raw_spin_lock_irqsave() and the matching unlock, so each such section   *)
(* is one action.  What interleaves is everything around those sections:   *)
(* a waiter is asleep in schedule_timeout(), or has been woken and has not *)
(* yet retaken the lock, while other tasks release and acquire, its timer  *)
(* expires and signals arrive.                                             *)
(***************************************************************************)
EXTENDS Naturals, FiniteSets, SequencesExt

CONSTANTS Tasks,      \* tasks calling the semaphore, each with one call at a time
          InitCount,  \* sema_init(sem, InitCount)
          MaxUps      \* bound on up() calls by callers that own no permit

ASSUME SemaphoreAssumption ==
    /\ IsFiniteSet(Tasks)
    /\ InitCount \in Nat
    /\ MaxUps \in Nat

VARIABLES
    count,       \* sem->count
    wait_list,   \* sem->wait_list, the tasks of its waiters in list order
    pc,          \* where each task is, see Locations
    op,          \* the function a task sleeps in
    up,          \* waiter->up of the task's waiter
    running,     \* task state is TASK_RUNNING
    sig,         \* signals pending for the task
    expired,     \* schedule_timeout() has used up the timeout of the task
    ups          \* up() calls by callers that owned no permit (bounded by MaxUps)

vars == <<count, wait_list, pc, op, up, running, sig, expired, ups>>

\* "sleep" reaches from __set_task_state() to the return of schedule_timeout(),
\* "relock" from there to the end of raw_spin_lock_irq(), "held" from a
\* successful return to the caller's up().
Locations == {"idle", "sleep", "relock", "held"}

\* The sleeping functions; each fixes the state and timeout of __down_common().
DownOps == {"down", "down_interruptible", "down_killable", "down_timeout"}

Signals == {"none", "signal", "fatal"}

TypeOK ==
    /\ count \in Nat
    /\ wait_list \in Seq(Tasks)
    /\ pc \in [Tasks -> Locations]
    /\ op \in [Tasks -> DownOps]
    /\ up \in [Tasks -> BOOLEAN]
    /\ running \in [Tasks -> BOOLEAN]
    /\ sig \in [Tasks -> Signals]
    /\ expired \in [Tasks -> BOOLEAN]
    /\ ups \in 0..MaxUps

Init ==
    /\ count = InitCount
    /\ wait_list = <<>>
    /\ pc = [t \in Tasks |-> "idle"]
    /\ op = [t \in Tasks |-> "down"]
    /\ up = [t \in Tasks |-> FALSE]
    /\ running = [t \in Tasks |-> TRUE]
    /\ sig = [t \in Tasks |-> "none"]
    /\ expired = [t \in Tasks |-> FALSE]
    /\ ups = 0

\* signal_pending_state() (include/linux/sched.h) in the task state that function o
\* passes to __down_common(): does signal s end the sleep?
Interrupts(o, s) ==
    \/ o = "down_interruptible" /\ s # "none"
    \/ o = "down_killable" /\ s = "fatal"

-----------------------------------------------------------------------------
(* Acquiring.                                                              *)

\* The branch shared by down*() when a permit is free.
DownFast(t) ==
    /\ pc[t] = "idle"
    /\ count > 0
    /\ count' = count - 1
    /\ pc' = [pc EXCEPT ![t] = "held"]
    /\ UNCHANGED <<wait_list, op, up, running, sig, expired, ups>>

\* One turn of the for (;;) loop of __down_common() up to raw_spin_unlock_irq(),
\* for a waiter of function o queued on list with its timeout used up iff late:
\* leave with -EINTR or -ETIME, dequeued, or go to sleep for what is left.
WaitLoop(t, o, late, list) ==
    /\ IF Interrupts(o, sig[t]) \/ late
       THEN /\ wait_list' = RemoveFirst(list, t)
            /\ pc' = [pc EXCEPT ![t] = "idle"]
            /\ op' = [op EXCEPT ![t] = "down"]
            /\ UNCHANGED running
       ELSE /\ wait_list' = list
            /\ pc' = [pc EXCEPT ![t] = "sleep"]
            /\ op' = [op EXCEPT ![t] = o]
            /\ running' = [running EXCEPT ![t] = FALSE]
    /\ expired' = [expired EXCEPT ![t] = FALSE]

\* Mutant: list_add() instead of list_add_tail().
DownSlowAtHead(t, o, late) ==
    /\ pc[t] = "idle"
    /\ count = 0
    /\ late => o = "down_timeout"
    /\ up' = [up EXCEPT ![t] = FALSE]
    /\ WaitLoop(t, o, late, <<t>> \o wait_list)
    /\ UNCHANGED <<count, sig, ups>>

\* The contended branch: __down_common() queues a waiter at the tail, ->up
\* cleared.  Only down_timeout() can be given a timeout that is not positive.
DownSlow(t, o, late) ==
    /\ pc[t] = "idle"
    /\ count = 0
    /\ late => o = "down_timeout"
    /\ up' = [up EXCEPT ![t] = FALSE]
    /\ WaitLoop(t, o, late, Append(wait_list, t))
    /\ UNCHANGED <<count, sig, ups>>

\* schedule_timeout() returns: its timer is deleted, so whether time is left is
\* settled before the lock is retaken.
ScheduleReturns(t) ==
    /\ pc[t] = "sleep"
    /\ running[t]
    /\ pc' = [pc EXCEPT ![t] = "relock"]
    /\ UNCHANGED <<count, wait_list, op, up, running, sig, expired, ups>>

\* The lock is retaken and ->up decides: return 0, or another turn of the loop.
RelockGranted(t) ==
    /\ pc[t] = "relock"
    /\ up[t]
    /\ pc' = [pc EXCEPT ![t] = "held"]
    /\ up' = [up EXCEPT ![t] = FALSE]
    /\ op' = [op EXCEPT ![t] = "down"]
    /\ expired' = [expired EXCEPT ![t] = FALSE]
    /\ UNCHANGED <<count, wait_list, running, sig, ups>>

\* Mutant: a used-up timeout wins over a grant that came first.
RelockTimeoutFirst(t) ==
    /\ pc[t] = "relock"
    /\ expired[t] \/ ~up[t]
    /\ WaitLoop(t, op[t], expired[t], wait_list)
    /\ up' = [up EXCEPT ![t] = FALSE]
    /\ UNCHANGED <<count, sig, ups>>

RelockAgain(t) ==
    /\ pc[t] = "relock"
    /\ ~up[t]
    /\ WaitLoop(t, op[t], expired[t], wait_list)
    /\ UNCHANGED <<count, up, sig, ups>>

\* down_trylock(); the failing call changes nothing.
DownTrylock(t) ==
    /\ pc[t] = "idle"
    /\ count - 1 >= 0
    /\ count' = count - 1
    /\ pc' = [pc EXCEPT ![t] = "held"]
    /\ UNCHANGED <<wait_list, op, up, running, sig, expired, ups>>

-----------------------------------------------------------------------------
(* Releasing.                                                              *)

\* Mutant: the waiter is granted the permit and not woken.
GrantWithoutWake ==
    LET w == Head(wait_list) IN
    /\ wait_list' = Tail(wait_list)
    /\ up' = [up EXCEPT ![w] = TRUE]
    /\ UNCHANGED <<count, running>>

\* __up(): the first waiter leaves the list, owns the permit and is woken.
GrantFirst ==
    LET w == Head(wait_list) IN
    /\ wait_list' = Tail(wait_list)
    /\ up' = [up EXCEPT ![w] = TRUE]
    /\ running' = [running EXCEPT ![w] = TRUE]
    /\ UNCHANGED count

\* Mutant: the permit is handed over and counted as free as well.
UpCountsTwice ==
    /\ count' = count + 1
    /\ IF wait_list = <<>> THEN UNCHANGED <<wait_list, up, running>>
       ELSE /\ wait_list' = Tail(wait_list)
            /\ up' = [up EXCEPT ![Head(wait_list)] = TRUE]
            /\ running' = [running EXCEPT ![Head(wait_list)] = TRUE]

UpBody ==
    IF wait_list = <<>>
    THEN count' = count + 1 /\ UNCHANGED <<wait_list, up, running>>
    ELSE GrantFirst

\* up() by a task that owns a permit.
Up(t) ==
    /\ pc[t] = "held"
    /\ pc' = [pc EXCEPT ![t] = "idle"]
    /\ UpBody
    /\ UNCHANGED <<op, sig, expired, ups>>

\* up() by an interrupt or a task that never called down().
UpByOther ==
    /\ ups < MaxUps
    /\ ups' = ups + 1
    /\ UpBody
    /\ UNCHANGED <<pc, op, sig, expired>>

-----------------------------------------------------------------------------
(* The rest of the kernel, as the wait loop of __down_common() meets it.   *)

\* A signal is queued and wakes a sleep it may end: signal_wake_up_state() of
\* kernel/signal.c.
SendSignal(t, s) ==
    /\ sig[t] = "none"
    /\ sig' = [sig EXCEPT ![t] = s]
    /\ running' = [running EXCEPT ![t] = @ \/ Interrupts(op[t], s)]
    /\ UNCHANGED <<count, wait_list, pc, op, up, expired, ups>>

\* The signal is delivered on the way back to user space: dequeue_signal() of
\* kernel/signal.c.
HandleSignal(t) ==
    /\ pc[t] = "idle"
    /\ sig[t] # "none"
    /\ sig' = [sig EXCEPT ![t] = "none"]
    /\ UNCHANGED <<count, wait_list, pc, op, up, running, expired, ups>>

\* The timer armed by schedule_timeout() fires and wakes the task:
\* process_timeout() of kernel/timer.c.
TimerFires(t) ==
    /\ pc[t] = "sleep"
    /\ op[t] = "down_timeout"
    /\ ~expired[t]
    /\ expired' = [expired EXCEPT ![t] = TRUE]
    /\ running' = [running EXCEPT ![t] = TRUE]
    /\ UNCHANGED <<count, wait_list, pc, op, up, sig, ups>>

\* Any other wake_up_process() on a sleeping waiter.
SpuriousWakeup(t) ==
    /\ pc[t] = "sleep"
    /\ ~running[t]
    /\ running' = [running EXCEPT ![t] = TRUE]
    /\ UNCHANGED <<count, wait_list, pc, op, up, sig, expired, ups>>

-----------------------------------------------------------------------------
TaskStep(t) ==
    \/ DownFast(t)
    \/ \E o \in DownOps, late \in BOOLEAN : DownSlow(t, o, late)
    \/ ScheduleReturns(t)
    \/ RelockGranted(t)
    \/ RelockAgain(t)
    \/ DownTrylock(t)
    \/ Up(t)

Environment(t) ==
    \/ \E s \in Signals \ {"none"} : SendSignal(t, s)
    \/ HandleSignal(t)
    \/ TimerFires(t)
    \/ SpuriousWakeup(t)

Next == UpByOther \/ \E t \in Tasks : TaskStep(t) \/ Environment(t)

Spec == Init /\ [][Next]_vars

\* A task that may run is run, and a caller that got the semaphore releases it.
\* At most one of the four is enabled for a task, and only its own step disables it.
Progress(t) == ScheduleReturns(t) \/ RelockGranted(t) \/ RelockAgain(t) \/ Up(t)

Fairness == \A t \in Tasks : WF_vars(Progress(t))

FairSpec == Spec /\ Fairness

-----------------------------------------------------------------------------
(* Properties.                                                             *)

\* Tasks that own a permit: they hold the semaphore, or __up() has granted it
\* to them and they have not returned from __down_common() yet.
Owners == {t \in Tasks : pc[t] = "held" \/ up[t]}

Waiting(t) == pc[t] \in {"sleep", "relock"}

\* No permit is lost or duplicated, whatever the order of grant, timeout and
\* signal: ->count and the owners always add up to the permits ever supplied.
PermitConservation == count + Cardinality(Owners) = InitCount + ups

\* A permit is never free while a waiter is queued: up() hands it over instead
\* of incrementing ->count, so an acquirer can only barge past an empty list.
NoIdlePermit == wait_list # <<>> => count = 0

\* ->wait_list holds each waiter that __down_common() still needs exactly once
\* and nothing else, and a grant is only ever given to a task still waiting for
\* it: no entry and no ->up outlives the stack frame it lies in.
NoDanglingWaiter ==
    /\ \A i, j \in DOMAIN wait_list : wait_list[i] = wait_list[j] => i = j
    /\ \A t \in Tasks :
         (\E i \in DOMAIN wait_list : wait_list[i] = t) <=> (Waiting(t) /\ ~up[t])
    /\ \A t \in Tasks : up[t] => Waiting(t)

\* What holds whenever sem->lock is free: types, the list of waiters exact, no permit
\* idle while somebody waits, and none lost.
SemaphoreInv == TypeOK /\ NoDanglingWaiter /\ NoIdlePermit /\ PermitConservation

\* A waiter with a reason to return (granted, interrupted, timer fired) is
\* never left in a sleeping task state: no wakeup is lost.
NoLostWakeup ==
    \A t \in Tasks :
        pc[t] = "sleep" /\ (up[t] \/ Interrupts(op[t], sig[t]) \/ expired[t]) => running[t]

\* t is queued ahead of u in list.
Ahead(list, t, u) ==
    \E i, j \in DOMAIN list : i < j /\ list[i] = t /\ list[j] = u

\* First come, first served: a task comes to own a permit only as the head of
\* the list or when nobody is queued, and no waiter is ever overtaken in the
\* list, whoever joins or leaves it.
FifoService ==
    [][/\ \A t \in Owners' \ Owners : wait_list = <<>> \/ t = Head(wait_list)
       /\ \A t, u \in Tasks :
            /\ Ahead(wait_list', t, u)
            /\ \E i \in DOMAIN wait_list : wait_list[i] = u
            => Ahead(wait_list, t, u)]_vars

\* Every sleeping down*() call returns.
EveryWaiterReturns == \A t \in Tasks : Waiting(t) ~> ~Waiting(t)

\* The detailed semaphore implements the abstract one.
Abstract == INSTANCE CountingSemaphore
                WITH permits <- count, owners <- Owners, produced <- ups

ImplementsCountingSemaphore == Abstract!Spec
=============================================================================

------------------------------- MODULE RwSem -------------------------------
(***************************************************************************)
(* The reader/writer semaphore: the lock-free fast paths of                *)
(* include/asm-generic/rwsem.h and the contended paths of lib/rwsem.c.     *)
(*                                                                         *)
(* ->count is changed by single atomic instructions, inside and outside    *)
(* ->wait_lock; an action makes at most one access to it.  ->wait_list is  *)
(* only touched under ->wait_lock.  Writers may steal the lock from the    *)
(* head of the queue; readers queued at the head are granted the lock by   *)
(* whoever wakes them.                                                     *)
(***************************************************************************)
EXTENDS Integers, FiniteSets, SequencesExt

CONSTANTS Tasks,        \* tasks using the semaphore
          NoTask,       \* ->wait_lock is free, no wake-up under way
          ActiveRange   \* RWSEM_ACTIVE_MASK + 1

ASSUME RwSemAssumption ==
    /\ IsFiniteSet(Tasks)
    /\ NoTask \notin Tasks
    /\ ActiveRange \in Nat
    /\ ActiveRange > Cardinality(Tasks) + 1

VARIABLES
    count,        \* sem->count
    wait_lock,    \* the task inside sem->wait_lock
    wait_list,    \* sem->wait_list, the tasks of its waiters in list order
    pc,           \* where each task is
    op,           \* the operation each task is in
    waiting,      \* waiter.task of a queued reader is not NULL
    running,      \* task state is TASK_RUNNING
    lcount,       \* local count of rwsem_down_write_failed()
    adjustment,   \* local adjustment of __rwsem_do_wake()
    loop,         \* readers at the head of the list still to be woken
    tsk,          \* local tsk of __rwsem_do_wake(): task to wake next
    open          \* callers still start new operations

wakerVars == <<adjustment, loop, tsk>>
vars == <<count, wait_lock, wait_list, pc, op, waiting, running, lcount,
          adjustment, loop, tsk, open>>

WAITING_BIAS == -ActiveRange
READ_BIAS == 1
WRITE_BIAS == WAITING_BIAS + 1

\* count & RWSEM_ACTIVE_MASK, on two's complement numbers.
ActivePart(c) == c % ActiveRange

Operations == {"none", "down_read", "down_write", "up", "downgrade"}

Locations ==
    {"idle", "reading", "writing",             \* outside the semaphore's code
     "enqueue",                                \* down_*_failed() before wait_lock
     "wake_lock",                              \* rwsem_wake(), rwsem_downgrade_wake() before wait_lock
     "wake", "undo", "grant", "null", "proc",  \* __rwsem_do_wake()
     "r_set", "r_check", "r_sched",            \* reader waiting for its grant
     "w_set", "w_try", "w_sched", "w_read", "w_relock"}  \* writer waiting

Init ==
    /\ count = 0
    /\ wait_lock = NoTask
    /\ wait_list = <<>>
    /\ pc = [t \in Tasks |-> "idle"]
    /\ op = [t \in Tasks |-> "none"]
    /\ waiting = [t \in Tasks |-> FALSE]
    /\ running = [t \in Tasks |-> TRUE]
    /\ lcount = [t \in Tasks |-> 0]
    /\ adjustment = 0
    /\ loop = 0
    /\ tsk = NoTask
    /\ open = TRUE

Goto(t, l, o) ==
    /\ pc' = [pc EXCEPT ![t] = l]
    /\ op' = [op EXCEPT ![t] = o]

-----------------------------------------------------------------------------
(* Fast paths.                                                             *)

slowVars == <<wait_lock, wait_list, waiting, running, lcount, wakerVars, open>>

\* Mutant: the fast path looks at active writers only, not at the queue.
DownReadPastQueue(t) ==
    /\ open /\ pc[t] = "idle"
    /\ count' = count + READ_BIAS
    /\ IF count' <= WAITING_BIAS THEN Goto(t, "enqueue", "down_read") ELSE Goto(t, "reading", "none")
    /\ UNCHANGED slowVars

DownRead(t) ==
    /\ open /\ pc[t] = "idle"
    /\ count' = count + READ_BIAS
    /\ IF count' <= 0 THEN Goto(t, "enqueue", "down_read") ELSE Goto(t, "reading", "none")
    /\ UNCHANGED slowVars

\* The cmpxchg() loop takes effect when the exchange succeeds.
DownReadTrylock(t) ==
    /\ open /\ pc[t] = "idle"
    /\ count >= 0
    /\ count' = count + READ_BIAS
    /\ Goto(t, "reading", "none")
    /\ UNCHANGED slowVars

\* Mutant: the fast path tests the sign of the change, not the exact count.
DownWriteOverReaders(t) ==
    /\ open /\ pc[t] = "idle"
    /\ count' = count + WRITE_BIAS
    /\ IF count' < WRITE_BIAS THEN Goto(t, "enqueue", "down_write") ELSE Goto(t, "writing", "none")
    /\ UNCHANGED slowVars

DownWrite(t) ==
    /\ open /\ pc[t] = "idle"
    /\ count' = count + WRITE_BIAS
    /\ IF count' # WRITE_BIAS THEN Goto(t, "enqueue", "down_write") ELSE Goto(t, "writing", "none")
    /\ UNCHANGED slowVars

DownWriteTrylock(t) ==
    /\ open /\ pc[t] = "idle"
    /\ count = 0
    /\ count' = WRITE_BIAS
    /\ Goto(t, "writing", "none")
    /\ UNCHANGED slowVars

UpRead(t) ==
    /\ pc[t] = "reading"
    /\ count' = count - READ_BIAS
    /\ IF count' < -1 /\ ActivePart(count') = 0
       THEN Goto(t, "wake_lock", "up")
       ELSE Goto(t, "idle", "none")
    /\ UNCHANGED slowVars

\* Mutant: the wake-up test forgets that one queue counts one bias only.
UpWriteNoWake(t) ==
    /\ pc[t] = "writing"
    /\ count' = count - WRITE_BIAS
    /\ IF count' < WAITING_BIAS THEN Goto(t, "wake_lock", "up") ELSE Goto(t, "idle", "none")
    /\ UNCHANGED slowVars

UpWrite(t) ==
    /\ pc[t] = "writing"
    /\ count' = count - WRITE_BIAS
    /\ IF count' < 0 THEN Goto(t, "wake_lock", "up") ELSE Goto(t, "idle", "none")
    /\ UNCHANGED slowVars

DowngradeWrite(t) ==
    /\ pc[t] = "writing"
    /\ count' = count - WAITING_BIAS
    /\ IF count' < 0 THEN Goto(t, "wake_lock", "downgrade") ELSE Goto(t, "reading", "none")
    /\ UNCHANGED slowVars

-----------------------------------------------------------------------------
(* Queueing: rwsem_down_read_failed() and rwsem_down_write_failed() up to  *)
(* the first wait.  The list is private to the lock holder, so taking the  *)
(* lock, queueing and the one update of ->count are one action.            *)

Bias(o) == IF o = "down_read" THEN READ_BIAS ELSE WRITE_BIAS

EnqueueAdjustment(o) == -Bias(o) + (IF wait_list = <<>> THEN WAITING_BIAS ELSE 0)

\* Mutant: the reader that queues never wakes the front of the queue.
EnqueueReadNoWake(t) ==
    /\ pc[t] = "enqueue" /\ op[t] = "down_read"
    /\ wait_lock = NoTask
    /\ wait_list' = Append(wait_list, t)
    /\ waiting' = [waiting EXCEPT ![t] = TRUE]
    /\ count' = count + EnqueueAdjustment("down_read")
    /\ pc' = [pc EXCEPT ![t] = "r_set"]
    /\ UNCHANGED <<wait_lock, op, running, lcount, wakerVars, open>>

EnqueueRead(t) ==
    /\ pc[t] = "enqueue" /\ op[t] = "down_read"
    /\ wait_lock = NoTask
    /\ wait_list' = Append(wait_list, t)
    /\ waiting' = [waiting EXCEPT ![t] = TRUE]
    /\ count' = count + EnqueueAdjustment("down_read")
    /\ IF \/ count' = WAITING_BIAS
          \/ count' > WAITING_BIAS /\ wait_list = <<>>
       THEN wait_lock' = t /\ pc' = [pc EXCEPT ![t] = "wake"]
       ELSE wait_lock' = NoTask /\ pc' = [pc EXCEPT ![t] = "r_set"]
    /\ UNCHANGED <<op, running, lcount, wakerVars, open>>

EnqueueWrite(t) ==
    /\ pc[t] = "enqueue" /\ op[t] = "down_write"
    /\ wait_lock = NoTask
    /\ wait_lock' = t
    /\ wait_list' = Append(wait_list, t)
    /\ count' = count + EnqueueAdjustment("down_write")
    /\ lcount' = [lcount EXCEPT ![t] = count']
    /\ IF count' > WAITING_BIAS /\ wait_list # <<>>
       THEN pc' = [pc EXCEPT ![t] = "wake"]
       ELSE pc' = [pc EXCEPT ![t] = "w_set"]
    /\ UNCHANGED <<op, waiting, running, wakerVars, open>>

-----------------------------------------------------------------------------
(* Waking: __rwsem_do_wake(), entered with ->wait_lock held.               *)

WakeAny(t) == op[t] \in {"down_read", "up"}       \* RWSEM_WAKE_ANY
ReadOwned(t) == op[t] = "downgrade"               \* RWSEM_WAKE_READ_OWNED

IsWriter(w) == op[w] = "down_write"

\* The caller goes on after __rwsem_do_wake(); a writer keeps the lock.
ReturnFromWake(t) ==
    /\ CASE op[t] = "down_read"  -> Goto(t, "r_set", op[t])
         [] op[t] = "down_write" -> Goto(t, "w_set", op[t])
         [] op[t] = "up"         -> Goto(t, "idle", "none")
         [] op[t] = "downgrade"  -> Goto(t, "reading", "none")
    /\ wait_lock' = IF op[t] = "down_write" THEN t ELSE NoTask

\* rwsem_wake(), rwsem_downgrade_wake(): nothing to do if nobody is queued.
WakeLock(t) ==
    /\ pc[t] = "wake_lock"
    /\ wait_lock = NoTask
    /\ IF wait_list = <<>>
       THEN ReturnFromWake(t)
       ELSE wait_lock' = t /\ Goto(t, "wake", op[t])
    /\ UNCHANGED <<count, wait_list, waiting, running, lcount, wakerVars, open>>

\* A writer at the head is woken, if at all, without being granted the lock.
WakeWriter(t) ==
    /\ pc[t] = "wake"
    /\ IsWriter(Head(wait_list))
    /\ running' = IF WakeAny(t) THEN [running EXCEPT ![Head(wait_list)] = TRUE] ELSE running
    /\ ReturnFromWake(t)
    /\ UNCHANGED <<count, wait_list, waiting, lcount, wakerVars, open>>

\* try_reader_grant: one read lock taken ahead for the reader at the head.
TryReaderGrant(t) ==
    /\ pc[t] = "wake"
    /\ ~IsWriter(Head(wait_list))
    /\ ~ReadOwned(t)
    /\ adjustment' = READ_BIAS
    /\ count' = count + READ_BIAS
    /\ Goto(t, IF count < WAITING_BIAS THEN "undo" ELSE "grant", op[t])
    /\ UNCHANGED <<wait_lock, wait_list, waiting, running, lcount, loop, tsk, open>>

\* The caller owns the lock for reading, no grant ahead is needed.
WakeReadOwned(t) ==
    /\ pc[t] = "wake"
    /\ ~IsWriter(Head(wait_list))
    /\ ReadOwned(t)
    /\ adjustment' = 0
    /\ Goto(t, "grant", op[t])
    /\ UNCHANGED <<count, wait_lock, wait_list, waiting, running, lcount, loop, tsk, open>>

\* A writer stole the lock: undo the grant, retry if it has left meanwhile.
UndoReaderGrant(t) ==
    /\ pc[t] = "undo"
    /\ count' = count - adjustment
    /\ adjustment' = 0
    /\ IF ActivePart(count') # 0
       THEN ReturnFromWake(t)
       ELSE Goto(t, "wake", op[t]) /\ UNCHANGED wait_lock
    /\ UNCHANGED <<wait_list, waiting, running, lcount, loop, tsk, open>>

\* Readers at the head of the list, up to the first writer.
LeadingReaders ==
    CHOOSE n \in 0..Len(wait_list) :
        /\ \A i \in 1..n : ~IsWriter(wait_list[i])
        /\ n < Len(wait_list) => IsWriter(wait_list[n + 1])

\* All of them are counted before the first is woken.
GrantReaders(t) ==
    /\ pc[t] = "grant"
    /\ loop' = LeadingReaders
    /\ count' = count + LeadingReaders * READ_BIAS - adjustment
                      - (IF LeadingReaders = Len(wait_list) THEN WAITING_BIAS ELSE 0)
    /\ adjustment' = 0
    /\ Goto(t, "null", op[t])
    /\ UNCHANGED <<wait_lock, wait_list, waiting, running, lcount, tsk, open>>

\* waiter->task = NULL; from here on the reader may return and its waiter be
\* gone, so the list has moved on before.
ClearWaiterTask(t) ==
    /\ pc[t] = "null"
    /\ tsk' = Head(wait_list)
    /\ waiting' = [waiting EXCEPT ![Head(wait_list)] = FALSE]
    /\ wait_list' = Tail(wait_list)
    /\ loop' = loop - 1
    /\ Goto(t, "proc", op[t])
    /\ UNCHANGED <<count, wait_lock, running, lcount, adjustment, open>>

\* wake_up_process(tsk): the task may be past its wait, or in another one.
WakeUpProcess(t) ==
    /\ pc[t] = "proc"
    /\ running' = [running EXCEPT ![tsk] = TRUE]
    /\ tsk' = NoTask
    /\ IF loop = 0
       THEN ReturnFromWake(t)
       ELSE Goto(t, "null", op[t]) /\ UNCHANGED wait_lock
    /\ UNCHANGED <<count, wait_list, waiting, lcount, adjustment, loop, open>>

-----------------------------------------------------------------------------
(* Waiting reader.                                                         *)

ReaderSetState(t) ==
    /\ pc[t] = "r_set"
    /\ running' = [running EXCEPT ![t] = FALSE]
    /\ Goto(t, "r_check", op[t])
    /\ UNCHANGED <<count, wait_lock, wait_list, waiting, lcount, wakerVars, open>>

ReaderCheck(t) ==
    /\ pc[t] = "r_check"
    /\ IF waiting[t]
       THEN Goto(t, "r_sched", op[t]) /\ UNCHANGED running
       ELSE Goto(t, "reading", "none") /\ running' = [running EXCEPT ![t] = TRUE]
    /\ UNCHANGED <<count, wait_lock, wait_list, waiting, lcount, wakerVars, open>>

ReaderSchedule(t) ==
    /\ pc[t] = "r_sched"
    /\ running[t]
    /\ Goto(t, "r_set", op[t])
    /\ UNCHANGED <<count, wait_lock, wait_list, waiting, running, lcount, wakerVars, open>>

-----------------------------------------------------------------------------
(* Waiting writer.                                                         *)

WriterSetState(t) ==
    /\ pc[t] = "w_set"
    /\ running' = [running EXCEPT ![t] = FALSE]
    /\ Goto(t, "w_try", op[t])
    /\ UNCHANGED <<count, wait_lock, wait_list, waiting, lcount, wakerVars, open>>

\* Mutant: the writer that steals the lock drops the bias of the other waiters.
StolenCountAlone == WRITE_BIAS

\* The count a writer leaves behind keeps the bias of the waiters behind it.
StolenCount == WRITE_BIAS + (IF Len(wait_list) = 1 THEN 0 ELSE WAITING_BIAS)

\* cmpxchg(&sem->count, RWSEM_WAITING_BIAS, ...) under wait_lock succeeds ...
WriterAcquire(t) ==
    /\ pc[t] = "w_try"
    /\ ActivePart(lcount[t]) = 0
    /\ count = WAITING_BIAS
    /\ count' = StolenCount
    /\ wait_list' = RemoveFirst(wait_list, t)
    /\ wait_lock' = NoTask
    /\ running' = [running EXCEPT ![t] = TRUE]
    /\ lcount' = [lcount EXCEPT ![t] = 0]
    /\ Goto(t, "writing", "none")
    /\ UNCHANGED <<waiting, wakerVars, open>>

\* ... or is not tried, or fails: back to sleep.
WriterTryFails(t) ==
    /\ pc[t] = "w_try"
    /\ ActivePart(lcount[t]) # 0 \/ count # WAITING_BIAS
    /\ wait_lock' = NoTask
    /\ lcount' = [lcount EXCEPT ![t] = 0]
    /\ Goto(t, "w_sched", op[t])
    /\ UNCHANGED <<count, wait_list, waiting, running, wakerVars, open>>

\* schedule(); set_task_state(tsk, TASK_UNINTERRUPTIBLE)
WriterSchedule(t) ==
    /\ pc[t] = "w_sched"
    /\ running[t]
    /\ running' = [running EXCEPT ![t] = FALSE]
    /\ Goto(t, "w_read", op[t])
    /\ UNCHANGED <<count, wait_lock, wait_list, waiting, lcount, wakerVars, open>>

\* while ((count = sem->count) & RWSEM_ACTIVE_MASK)
WriterReadCount(t) ==
    /\ pc[t] = "w_read"
    /\ IF ActivePart(count) = 0
       THEN Goto(t, "w_relock", op[t]) /\ lcount' = [lcount EXCEPT ![t] = count]
       ELSE Goto(t, "w_sched", op[t]) /\ UNCHANGED lcount
    /\ UNCHANGED <<count, wait_lock, wait_list, waiting, running, wakerVars, open>>

WriterRelock(t) ==
    /\ pc[t] = "w_relock"
    /\ wait_lock = NoTask
    /\ wait_lock' = t
    /\ Goto(t, "w_try", op[t])
    /\ UNCHANGED <<count, wait_list, waiting, running, lcount, wakerVars, open>>

-----------------------------------------------------------------------------
\* Callers stop arriving; calls under way must still finish.
Close ==
    /\ open
    /\ open' = FALSE
    /\ UNCHANGED <<count, wait_lock, wait_list, pc, op, waiting, running, lcount, wakerVars>>

StartCall(t) ==
    \/ DownRead(t) \/ DownReadTrylock(t) \/ DownWrite(t) \/ DownWriteTrylock(t)

Release(t) == UpRead(t) \/ UpWrite(t)

Wake(t) ==
    \/ WakeLock(t) \/ WakeWriter(t) \/ TryReaderGrant(t) \/ WakeReadOwned(t)
    \/ UndoReaderGrant(t) \/ GrantReaders(t) \/ ClearWaiterTask(t) \/ WakeUpProcess(t)

WaitForLock(t) ==
    \/ EnqueueRead(t) \/ EnqueueWrite(t)
    \/ ReaderSetState(t) \/ ReaderCheck(t) \/ ReaderSchedule(t)
    \/ WriterSetState(t) \/ WriterAcquire(t) \/ WriterTryFails(t)
    \/ WriterSchedule(t) \/ WriterReadCount(t) \/ WriterRelock(t)

Next ==
    \/ Close
    \/ \E t \in Tasks :
        StartCall(t) \/ DowngradeWrite(t) \/ Release(t) \/ Wake(t) \/ WaitForLock(t)

Spec == Init /\ [][Next]_vars

\* Running tasks are scheduled, spinlocks are fair to a bounded number of
\* contenders, and callers release what they hold.
Fairness == \A t \in Tasks : WF_vars(Release(t) \/ Wake(t) \/ WaitForLock(t))

FairSpec == Spec /\ Fairness

-----------------------------------------------------------------------------
(* Properties.                                                             *)

TypeOK ==
    /\ count \in Int
    /\ wait_lock \in Tasks \cup {NoTask}
    /\ wait_list \in Seq(Tasks)
    /\ pc \in [Tasks -> Locations]
    /\ op \in [Tasks -> Operations]
    /\ waiting \in [Tasks -> BOOLEAN]
    /\ running \in [Tasks -> BOOLEAN]
    /\ lcount \in [Tasks -> Int]
    /\ adjustment \in {0, READ_BIAS}
    /\ loop \in Nat
    /\ tsk \in Tasks \cup {NoTask}
    /\ open \in BOOLEAN

\* Readers that GrantReaders has counted and that have not noticed yet.
GrantedReaders ==
    {t \in Tasks :
        /\ op[t] = "down_read" /\ pc[t] # "enqueue"
        /\ ~waiting[t] \/ \E i \in 1..loop : wait_list[i] = t}

ReadOwners == {t \in Tasks : pc[t] = "reading" \/ op[t] = "downgrade"} \cup GrantedReaders

WriteOwners == {t \in Tasks : pc[t] = "writing"}

\* Tasks whose fast path failed and whose bias is still in ->count.
Arriving(o) == {t \in Tasks : pc[t] = "enqueue" /\ op[t] = o}

\* Some waiter has not been granted the lock.
Queued == Len(wait_list) > loop

\* A writer owns the lock alone, however stealing, grants ahead and their undo
\* interleave.
WriterExclusion ==
    \A w \in WriteOwners : WriteOwners = {w} /\ ReadOwners = {}

\* ->count is at every instant the sum of what owners, arriving tasks, the
\* grant ahead and the queue contribute: no bias is lost or added twice.
CountExact ==
    count = READ_BIAS * (Cardinality(ReadOwners) + Cardinality(Arriving("down_read")))
            + adjustment
            + WRITE_BIAS * (Cardinality(WriteOwners) + Cardinality(Arriving("down_write")))
            + (IF Queued THEN WAITING_BIAS ELSE 0)

\* At every instant: types, ->count exact, and a writer alone.
CountInv == TypeOK /\ CountExact /\ WriterExclusion

\* Waiters never sleep with nobody left to wake them: if every task is idle or
\* asleep then every task is idle.
NoStrandedWaiter ==
    LET Asleep(t) == pc[t] \in {"r_sched", "w_sched"} /\ ~running[t]
    IN  (\A t \in Tasks : pc[t] = "idle" \/ Asleep(t)) => \A t \in Tasks : pc[t] = "idle"

\* A new reader never overtakes a queued waiter on the fast path.
NoReaderBarging ==
    [][\A t \in Tasks : pc[t] = "idle" /\ pc'[t] = "reading" => ~Queued]_vars

\* Once callers stop arriving, every call under way gets the lock and returns.
EveryCallReturns == ~open ~> \A t \in Tasks : pc[t] = "idle"

\* The semaphore implements the abstract reader/writer lock.
Abstract == INSTANCE RWLock WITH readers <- ReadOwners, writers <- WriteOwners

ImplementsRWLock == Abstract!Spec
=============================================================================

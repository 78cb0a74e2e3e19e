---------------------------- MODULE PercpuRwSem ----------------------------
(***************************************************************************)
(* The per-CPU reader/writer semaphore of lib/percpu-rwsem.c.              *)
(*                                                                         *)
(* While no writer is pending a reader only touches a counter of its CPU,  *)
(* in a preempt-disabled section; a writer turns that off, waits for the   *)
(* sections under way, moves the counters into ->slow_read_ctr and waits   *)
(* for it to reach zero.  Its ->rw_sem is the lock specified in RWLock,    *)
(* which lib/rwsem.c is shown to implement (RwSem).                        *)
(***************************************************************************)
EXTENDS Integers, FiniteSets, FiniteSetsExt

CONSTANTS Tasks, CPUs,
          NoCPU,     \* outside of any preempt-disabled section
          Modulus    \* number of values of unsigned int and of atomic_t

ASSUME PercpuRwSemAssumption ==
    /\ IsFiniteSet(Tasks) /\ IsFiniteSet(CPUs) /\ NoCPU \notin CPUs
    /\ Modulus \in Nat /\ Cardinality(Tasks) < Modulus

VARIABLES
    fast_read_ctr,  \* per-CPU counters
    write_ctr, slow_read_ctr,
    rw_readers, rw_writers,   \* owners of ->rw_sem
    pc,             \* where each task is
    cpu,            \* CPU of its section in update_fast_ctr(), or NoCPU
    gpwait,         \* sections a synchronize_sched_expedited() still waits for
    asleep,         \* tasks asleep on ->write_waitq
    tosum, sum      \* CPUs clear_fast_ctr() has not visited, its local sum

counters == <<fast_read_ctr, write_ctr, slow_read_ctr>>
rwsem == <<rw_readers, rw_writers>>
vars == <<counters, rwsem, pc, cpu, gpwait, asleep, tosum, sum>>

Sem == INSTANCE RWLock WITH readers <- rw_readers, writers <- rw_writers

Init ==
    /\ fast_read_ctr = [c \in CPUs |-> 0]
    /\ write_ctr = 0 /\ slow_read_ctr = 0
    /\ Sem!Init
    /\ pc = [t \in Tasks |-> "idle"]
    /\ cpu = [t \in Tasks |-> NoCPU]
    /\ gpwait = [t \in Tasks |-> {}]
    /\ asleep = {}
    /\ tosum = {} /\ sum = 0

\* Counters wrap; a negative number of readers is a large one.
Wrap(x) == x % Modulus

Goto(t, from, to) == pc[t] = from /\ pc' = [pc EXCEPT ![t] = to]

-----------------------------------------------------------------------------
(* update_fast_ctr(), from percpu_down_read() and percpu_up_read().        *)

\* preempt_disable() and the test of ->write_ctr.
EnterFast(t, c, from, fast, slow) ==
    /\ \A u \in Tasks : cpu[u] # c
    /\ IF write_ctr = 0
       THEN Goto(t, from, fast) /\ cpu' = [cpu EXCEPT ![t] = c]
       ELSE Goto(t, from, slow) /\ UNCHANGED cpu
    /\ UNCHANGED <<counters, rwsem, gpwait, asleep, tosum, sum>>

\* __this_cpu_add() and preempt_enable(): no grace period waits for t any more.
LeaveFast(t, val, from, to) ==
    /\ Goto(t, from, to)
    /\ fast_read_ctr' = [fast_read_ctr EXCEPT ![cpu[t]] = Wrap(@ + val)]
    /\ cpu' = [cpu EXCEPT ![t] = NoCPU]
    /\ gpwait' = [w \in Tasks |-> gpwait[w] \ {t}]
    /\ UNCHANGED <<write_ctr, slow_read_ctr, rwsem, asleep, tosum, sum>>

DownReadBegin(t, c) == EnterFast(t, c, "idle", "down_fast", "down_slow")
DownReadFast(t) == LeaveFast(t, 1, "down_fast", "reading")

\* down_read(&brw->rw_sem) does not pass a queued writer (RwSem!NoReaderBarging).
DownReadLock(t) ==
    /\ Goto(t, "down_slow", "down_count")
    /\ \A u \in Tasks : pc[u] # "w_lock"
    /\ Sem!AcquireRead({t})
    /\ UNCHANGED <<counters, cpu, gpwait, asleep, tosum, sum>>

DownReadCount(t) ==
    /\ Goto(t, "down_count", "down_unlock")
    /\ slow_read_ctr' = Wrap(slow_read_ctr + 1)
    /\ UNCHANGED <<fast_read_ctr, write_ctr, rwsem, cpu, gpwait, asleep, tosum, sum>>

DownReadUnlock(t) ==
    /\ Goto(t, "down_unlock", "reading")
    /\ Sem!ReleaseRead(t)
    /\ UNCHANGED <<counters, cpu, gpwait, asleep, tosum, sum>>

UpReadBegin(t, c) == EnterFast(t, c, "reading", "up_fast", "up_slow")
UpReadFast(t) == LeaveFast(t, -1, "up_fast", "idle")

\* Mutant: the count is tested before the decrement.
LateTest == slow_read_ctr = 0

LastSlowReader == slow_read_ctr = 1

\* atomic_dec_and_test(), "false-positive is possible but harmless".
UpReadSlow(t) ==
    /\ Goto(t, "up_slow", IF LastSlowReader THEN "up_wake" ELSE "idle")
    /\ slow_read_ctr' = Wrap(slow_read_ctr - 1)
    /\ UNCHANGED <<fast_read_ctr, write_ctr, rwsem, cpu, gpwait, asleep, tosum, sum>>

UpReadWake(t) ==
    /\ Goto(t, "up_wake", "idle")
    /\ asleep' = {}
    /\ UNCHANGED <<counters, rwsem, cpu, gpwait, tosum, sum>>

-----------------------------------------------------------------------------
(* percpu_down_write() and percpu_up_write().                              *)

\* Mutant: the writer does not wait for readers that saw no writer.
NobodyInFastSection == {}

\* What synchronize_sched_expedited() waits for.
InFastSection == {t \in Tasks : cpu[t] # NoCPU}

DownWriteAnnounce(t) ==
    /\ Goto(t, "idle", "w_gp")
    /\ write_ctr' = write_ctr + 1
    /\ gpwait' = [gpwait EXCEPT ![t] = InFastSection]
    /\ UNCHANGED <<fast_read_ctr, slow_read_ctr, rwsem, cpu, asleep, tosum, sum>>

\* synchronize_sched_expedited() has returned; down_write(&brw->rw_sem) queues.
DownWriteQueue(t) ==
    /\ Goto(t, "w_gp", "w_lock")
    /\ gpwait[t] = {}
    /\ UNCHANGED <<counters, rwsem, cpu, gpwait, asleep, tosum, sum>>

DownWriteLock(t) ==
    /\ Goto(t, "w_lock", "w_clear")
    /\ Sem!AcquireWrite(t)
    /\ tosum' = CPUs /\ sum' = 0
    /\ UNCHANGED <<counters, cpu, gpwait, asleep>>

\* Mutant: clear_fast_ctr() sums and does not clear.
NotCleared(c) == fast_read_ctr[c]

Cleared(c) == 0

\* clear_fast_ctr(), one CPU.
ClearFastCtr(t, c) ==
    /\ pc[t] = "w_clear" /\ c \in tosum
    /\ sum' = Wrap(sum + fast_read_ctr[c])
    /\ fast_read_ctr' = [fast_read_ctr EXCEPT ![c] = Cleared(c)]
    /\ tosum' = tosum \ {c}
    /\ UNCHANGED <<write_ctr, slow_read_ctr, rwsem, pc, cpu, gpwait, asleep>>

MergeCtr(t) ==
    /\ Goto(t, "w_clear", "w_check")
    /\ tosum = {}
    /\ slow_read_ctr' = Wrap(slow_read_ctr + sum)
    /\ sum' = 0
    /\ UNCHANGED <<fast_read_ctr, write_ctr, rwsem, cpu, gpwait, asleep, tosum>>

\* wait_event(): fast test, then prepare_to_wait() before every further test.
WaitCheck(t) ==
    /\ Goto(t, "w_check", IF slow_read_ctr = 0 THEN "writing" ELSE "w_prepare")
    /\ UNCHANGED <<counters, rwsem, cpu, gpwait, asleep, tosum, sum>>

PrepareToWait(t) ==
    /\ Goto(t, "w_prepare", "w_retest")
    /\ asleep' = asleep \cup {t}
    /\ UNCHANGED <<counters, rwsem, cpu, gpwait, tosum, sum>>

WaitRetest(t) ==
    /\ Goto(t, "w_retest", IF slow_read_ctr = 0 THEN "writing" ELSE "w_sleep")
    /\ asleep' = IF slow_read_ctr = 0 THEN asleep \ {t} ELSE asleep
    /\ UNCHANGED <<counters, rwsem, cpu, gpwait, tosum, sum>>

WaitSchedule(t) ==
    /\ Goto(t, "w_sleep", "w_prepare")
    /\ t \notin asleep
    /\ UNCHANGED <<counters, rwsem, cpu, gpwait, asleep, tosum, sum>>

\* up_write(&brw->rw_sem), then synchronize_sched_expedited() is entered.
UpWriteUnlock(t) ==
    /\ Goto(t, "writing", "w_gp2")
    /\ Sem!ReleaseWrite(t)
    /\ gpwait' = [gpwait EXCEPT ![t] = InFastSection]
    /\ UNCHANGED <<counters, cpu, asleep, tosum, sum>>

UpWriteEnd(t) ==
    /\ Goto(t, "w_gp2", "idle")
    /\ gpwait[t] = {}
    /\ write_ctr' = write_ctr - 1
    /\ UNCHANGED <<fast_read_ctr, slow_read_ctr, rwsem, cpu, gpwait, asleep, tosum, sum>>

-----------------------------------------------------------------------------
StartCall(t) == DownWriteAnnounce(t) \/ \E c \in CPUs : DownReadBegin(t, c)

ReadStep(t) ==
    \/ DownReadFast(t) \/ DownReadCount(t) \/ DownReadUnlock(t)
    \/ (\E c \in CPUs : UpReadBegin(t, c))
    \/ UpReadFast(t) \/ UpReadSlow(t) \/ UpReadWake(t)

WriteStep(t) ==
    \/ DownWriteQueue(t) \/ (\E c \in CPUs : ClearFastCtr(t, c)) \/ MergeCtr(t)
    \/ WaitCheck(t) \/ PrepareToWait(t) \/ WaitRetest(t) \/ WaitSchedule(t)
    \/ UpWriteUnlock(t) \/ UpWriteEnd(t)

Next ==
    \E t \in Tasks : StartCall(t) \/ ReadStep(t) \/ WriteStep(t)
                     \/ DownReadLock(t) \/ DownWriteLock(t)

Spec == Init /\ [][Next]_vars

\* Calls go on and readers leave.  A free ->rw_sem goes to some queued writer;
\* which one is left open, writers may steal.
Fairness ==
    /\ \A t \in Tasks : WF_vars(ReadStep(t)) /\ WF_vars(WriteStep(t))
    /\ WF_vars(\E t \in Tasks : DownWriteLock(t))

FairSpec == Spec /\ Fairness

-----------------------------------------------------------------------------
(* Properties.                                                             *)

Counter == 0 .. Modulus - 1

Locations == {"idle", "down_fast", "down_slow", "down_count", "down_unlock", "reading",
              "up_fast", "up_slow", "up_wake", "w_gp", "w_lock", "w_clear", "w_check", "w_prepare",
              "w_retest", "w_sleep", "writing", "w_gp2"}

\* Types of the variables; the counters of percpu_rw_semaphore keep their width.
TypeOK ==
    /\ fast_read_ctr \in [CPUs -> Counter] /\ slow_read_ctr \in Counter /\ sum \in Counter
    /\ write_ctr \in Nat
    /\ rw_readers \subseteq Tasks /\ rw_writers \subseteq Tasks
    /\ pc \in [Tasks -> Locations]
    /\ cpu \in [Tasks -> CPUs \cup {NoCPU}]
    /\ gpwait \in [Tasks -> SUBSET Tasks]
    /\ asleep \subseteq Tasks /\ tosum \subseteq CPUs

\* Readers that have been counted and whose decrement is still to come.
ReadOwners == {t \in Tasks : pc[t] \in {"down_unlock", "reading", "up_fast", "up_slow"}}
WriteOwners == {t \in Tasks : pc[t] = "writing"}

\* No reader is lost or counted twice when the per-CPU counters are moved to the
\* slow one, although readers lock on one CPU, unlock on another, and switch
\* between the fast and the slow counter in either direction in between.
ReadersCounted ==
    Wrap(MapThenSumSet(LAMBDA c : fast_read_ctr[c], CPUs) + sum + slow_read_ctr)
        = Cardinality(ReadOwners)

\* A writer asleep on ->write_waitq after the last reader left has somebody about
\* to wake it: the wake-up of percpu_up_read() cannot fall before the sleep.
WriterWillWake ==
    \A t \in Tasks :
        pc[t] = "w_sleep" /\ t \in asleep /\ slow_read_ctr = 0
            => \E u \in Tasks : pc[u] = "up_wake"

\* At every instant: types, the counters exact, no writer asleep for nothing.
CounterInv == TypeOK /\ ReadersCounted /\ WriterWillWake

\* A waiting percpu_down_write() gets the lock once readers leave; new readers
\* cannot hold it up for ever.
SomeWriterGetsLock ==
    (\E t \in Tasks : pc[t] = "w_gp") ~> (\E t \in Tasks : pc[t] = "writing")

Abstract == INSTANCE RWLock WITH readers <- ReadOwners, writers <- WriteOwners

\* percpu_down_read(), percpu_down_write() and their ends make a reader/writer lock
\* again, on top of the one in ->rw_sem.
ImplementsRWLock == Abstract!Spec
=============================================================================

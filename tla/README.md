# Synchronisation and deferred execution in the Linux kernel (3.11)

This directory holds TLA+ models of the kernel's sleeping locks, reference
counts, grace-period machinery and deferred work, the TLC configurations that
check them, and TLAPS proofs of the safety properties of all of them. The
kernel is far larger than any model of it; these primitives were chosen because
every other subsystem relies on them, because they are small enough to be
modelled statement by statement, and because what can go wrong in them (a
wake-up that falls between two instructions, a counter summed while it moves, a
list taken while it is walked) is what tests reach last.

## 1. Inventory

### Modelled

| Component | State | Operations | Interacts with |
|---|---|---|---|
| Counting semaphore, `kernel/semaphore.c` | `count`, `wait_list` of on-stack waiters, `waiter->up`, task states | `down`, `down_interruptible`, `down_killable`, `down_timeout`, `down_trylock`, `up` | scheduler (`schedule_timeout`, `wake_up_process`), timers, signals |
| Reader/writer semaphore, `include/asm-generic/rwsem.h`, `lib/rwsem.c` | `count` (active part and waiting bias in one word), `wait_list`, `wait_lock`, `waiter->task` | `down_read`, `down_write`, their trylocks, `up_read`, `up_write`, `downgrade_write`; `__rwsem_do_wake` | scheduler; fast paths race with the contended paths on `count` |
| Per-CPU reader/writer semaphore, `lib/percpu-rwsem.c` | per-CPU `fast_read_ctr`, `slow_read_ctr`, `write_ctr`, an inner rwsem, `write_waitq` | `percpu_down_read`, `percpu_up_read`, `percpu_down_write`, `percpu_up_write` | the rwsem, RCU-sched, wait queues |
| Mutex, `kernel/mutex.c`, `include/asm-generic/mutex-dec.h` | `count`, `owner`, `wait_list`, `wait_lock`, the spinners' lock | `mutex_lock`, `_interruptible`, `_killable`, `mutex_trylock`, `mutex_unlock` | scheduler, signals |
| Wound/wait mutex, `include/linux/ww_mutex.h`, `kernel/mutex.c` (partly) | for each lock the above and `ctx`; for each context `stamp`, `acquired` | `ww_acquire_init/done/fini`, `ww_mutex_lock`, `_interruptible`, `_slow`, `ww_mutex_unlock` | mutex; the caller's back-off loop |
| Per-CPU reference count, `include/linux/percpu-refcount.h`, `lib/percpu-refcount.c` | atomic `count`, per-CPU counters, dead bit in the pointer | `init`, `cancel_init`, `get`, `tryget`, `put`, `kill_and_confirm`, the RCU callback | RCU-sched (`call_rcu_sched`), the owner's `release` and `confirm_kill` callbacks |
| Sleepable RCU, `kernel/srcu.c` | per-CPU `c[2]` and `seq[2]`, `completed`, `running`, four callback batches | `srcu_read_lock/unlock`, `call_srcu`, `synchronize_srcu` (and `_expedited`, `srcu_barrier`), `process_srcu`, `cleanup_srcu_struct` | workqueues (`sp->work`), completions |
| Task work, `kernel/task_work.c` | `task->task_works` and the links, `TIF_NOTIFY_RESUME`, `PF_EXITING`, `pi_lock` | `task_work_add`, `task_work_cancel`, `task_work_run` from the return to user mode and from `do_exit` | the target task, any other CPU |
| Interrupt work, `kernel/irq_work.c` | `work->flags`, per-CPU lists, `irq_work_raised`, pending interrupt, tick state | `irq_work_queue`, `irq_work_run`, `irq_work_sync`, `irq_work_needs_cpu`, the CPU notifier | NMIs, callbacks that queue again, the tick and its stop (`tick-sched.c`), CPU hotplug |
| Stop machine, `kernel/stop_machine.c` (partly) | per-CPU list of works, `enabled`; `cpu_stop_done`; `stop_machine_data`; park state | `stop_one_cpu`, `stop_cpus`, `stop_machine`, the stopper thread, park and unpark | `kernel/smpboot.c`, `_cpu_down`, `_cpu_up` |

What is hard about each, and what makes it correct:

* **Semaphore.** A waiter is woken before it owns the lock again; a grant, a
  timer and a signal may all arrive while it is asleep or on its way back.
  Correct means: permits are conserved, no wake-up is lost, service is first
  come first served, and no list entry outlives the stack frame it lies in.
* **Rwsem.** One word carries owners, arriving tasks and "somebody waits", and
  is changed without the lock by fast paths, by writers that steal, and by a
  waker that grants ahead and may have to take it back. Correct means:
  exclusion, the word is exact at every instant, readers do not pass a queue,
  and nobody sleeps with nobody left to wake them.
* **Percpu rwsem.** Readers may lock on one CPU and unlock on another, and lock
  on the fast path and unlock on the slow one, so no single counter means
  anything; the writer moves a sum between them. Correct means: it is a
  reader/writer lock again, and the last reader's wake-up finds the writer.
* **Mutex.** `count` says free, locked or contended and is changed by fast
  paths, spinners, sleepers and interrupted attempts; only a negative value
  makes an unlock look at the queue. Correct means: exclusion, no sleeper
  forgotten behind a count that does not show it, and an owner hint that is
  never somebody else's.
* **Wound/wait mutex.** Contexts take locks in any order and rely on each
  sleeper's comparing stamps with the current owner. Correct means: no circle
  of waiters, no read of a context that has ended.
* **Percpu refcount.** The switch from per-CPU counters to one atomic counter
  happens under the feet of sections that have read the pointer but not yet
  counted. Correct means: no reference lost or double counted, released once
  and never early, freed counters never touched, no `tryget` after confirmation.
* **SRCU.** The counters are summed one CPU at a time while readers come, go
  and migrate, and the job of processing the callbacks moves between the work
  item and `synchronize_srcu()` callers. Correct means: the grace-period
  guarantee, callback order, one owner of the batches, and every grace period
  ends however many readers arrive.
* **Task work.** Adders change the head with `cmpxchg`, a canceller walks the
  list, and the task takes it whole and reverses it, and closes it for good on
  exit. Correct means: every accepted work runs exactly once, in order, or is
  cancelled, and nobody walks links that are no longer the list's.
* **Interrupt work.** The same item may be queued again, on another CPU, while
  its function runs; lazy items wait for a tick that may be about to stop; NMIs
  and callbacks queue where nothing else could run, also on a dying CPU. Correct
  means: no request is lost, an item is on one list, and every list has something
  that will run it, but for the calls named in section 5.
* **Stop machine.** Threads on all CPUs must move together, the callers' data
  are on their stacks, and a CPU may go down under a work. Correct means: the
  function runs with every CPU stopped, no deadlock between callers, exact
  completions.

### Not modelled

`PROJECT.json` lists the remaining parts with the reason. In short:
`lib/rwsem-spinlock.c`, the queue lock of the mutex spinners, the CPU hotplug
lock, kthread workers and `kernel/rtmutex.c` are self-contained and could be
added in the same style; tree RCU, workqueues and the scheduler appear only
through the guarantee the modelled code relies on; memory management,
filesystems, networking, drivers and architecture code are out of scope. The
wrappers of `kernel/rwsem.c` add lock-dependency annotations and no state.

## 2. Modules

| Module | Role |
|---|---|
| `CountingSemaphore` | abstract: a pool of permits, free or owned, handed over atomically |
| `Semaphore` | `kernel/semaphore.c`; implements `CountingSemaphore` |
| `SemaphoreProofs` | its theorems |
| `CollectionLemmas` | what the proofs share: lists without duplicates, sums over finite sets, arithmetic modulo a word |
| `RWLock` | abstract: any number of readers or one writer; group admission; downgrade |
| `RwSem` | fast paths and contended paths of the rwsem; implements `RWLock` |
| `RwSemProofs` | its theorems |
| `PercpuRwSem` | composes an `RWLock` (`->rw_sem`) with counters and grace periods; implements `RWLock` |
| `Mutex` | the count protocol; implements the writer half of `RWLock` |
| `WwMutex` | contexts and stamps on top of the mutex |
| `MutexProofs` | theorems of `Mutex` and `WwMutex` |
| `PercpuRef` | the reference count and its RCU callback |
| `PercpuProofs` | theorems of `PercpuRef` and `PercpuRwSem` |
| `Srcu` | readers, updaters, work item, cleanup |
| `SrcuProofs` | its theorems |
| `TaskWork` | adders and cancellers, the task that runs its works and exits |
| `IrqWork` | tasks, callbacks and NMIs that queue, CPUs that run, stop the tick, go down |
| `DeferredWorkProofs` | theorems of `IrqWork` and `TaskWork` |
| `CpuStop` | callers, stopper threads, the rendezvous, park and unpark |
| `CpuStopProofs` | its theorems |
| `MC*` | model values, parameters and symmetry sets for TLC, no behaviour of their own |

Operators introduced by a comment `Mutant: ...` are deliberately wrong variants
of the definition that follows them. They are not used by any specification;
they document which mistake each property would notice.

### Granularity

An action is one access to state another actor can see, or one critical section
when everything in it is protected by the lock it holds.

* `Semaphore`: every access is under `sem->lock`, so a step is one section of
  the lock. `WaitLoop` is one turn of the `for (;;)` loop of `__down_common()`
  up to `raw_spin_unlock_irq()`: the checks for signals and time, then the sleep
  or the exit. Time is abstracted to whether the timeout is used up (`expired`,
  or `late` when the caller passes a timeout that is not positive); signals to
  none, ordinary, fatal. `SendSignal`, `HandleSignal`, `TimerFires` and
  `SpuriousWakeup` are the rest of the kernel (`kernel/signal.c`,
  `kernel/timer.c`, `kernel/sched/core.c`) as far as the wait loop meets it.
  `UpByOther` is an `up()` by an interrupt or task that never called `down()`.
* `RwSem`: an action makes at most one access to `sem->count`. The wait list is
  only touched with `wait_lock` held, so the steps between two accesses are
  merged. `lcount` is the stale local copy `rwsem_down_write_failed()` decides
  from; `adjustment`, `loop` and `tsk` are the locals of `__rwsem_do_wake()`.
  `count` is an unbounded integer; the code's active mask is `% ActiveRange`,
  which must exceed the number of tasks, as on the real machine. Failing
  trylocks change nothing and are not actions. `Close` only exists so that
  "once callers stop arriving" can be said.
* `PercpuRwSem`: the read of `write_ctr` and the counter update of
  `update_fast_ctr()` are two steps of a preempt-disabled section that occupies
  a CPU. `synchronize_sched_expedited()` is its guarantee: it returns after the
  sections under way at the call have ended. The inner `rw_sem` takes the steps
  of `RWLock`; that queued writers keep new readers out is what `RwSem` is
  checked to do (`NoReaderBarging`). `wait_event()` is modelled with its test
  before and after `prepare_to_wait()`.
* `Mutex`: an action accesses `count` once, also under `wait_lock`, because fast
  paths and spinners do not take it. The decrement wraps like the `int` it is.
  `mutex_can_spin_on_owner()` and `need_resched()` are nondeterministic: a task
  in the slow path may spin or not, and stop spinning at any time. The spinners'
  queue lock (`mspin_lock()`) is a lock.
* `WwMutex`: `count` keeps its sign only; `Mutex` has the arithmetic. The
  caller behaves as the examples in `ww_mutex.h` do: after `-EDEADLK` it drops
  all its locks and takes the contended one with `ww_mutex_lock_slow()`, and it
  may be interrupted. Stamps are values of a small `unsigned long` that wraps
  during the run.
* `PercpuRef`: a get or put is two steps, the read of the pointer inside the
  RCU-sched section and the counter update. Counters wrap at `2 * HalfRange`.
  `call_rcu_sched()` is its guarantee: the callback runs after all sections
  under way at the call have ended (`gpwait`). The summing loop visits CPUs in
  any order, one per step. Callers are used as documented: a `get` needs a
  reference to stand on, `kill` is called once by the owner.
* `Srcu`: each increment, each per-CPU read of a summing pass, each flip and
  each `queue_lock` section is a step. Readers may migrate between reading
  `completed` and disabling preemption, and unlock on another CPU. Only the low
  bit of `completed` is kept, the only one the code uses. `waitfor` and
  `earlier` are history variables that record what a grace period has to wait
  for; no action reads them. `schedule_delayed_work()` is the flag `pending`.
* `TaskWork`: the read of the head and the `cmpxchg` are separate steps for
  adders and the canceller. The task's own pair in `task_work_run()` is one
  step, its successful `cmpxchg`: it keeps nothing of a read whose `cmpxchg`
  fails. Links are memory that the next user overwrites. `queued` is a history
  variable: what was added and neither run nor cancelled. The canceller holds
  `pi_lock`; `raw_spin_unlock_wait()` is a step that needs it free.
* `IrqWork`: a task caller may migrate between the claim and the queueing,
  because `irq_work_claim()` comes before `preempt_disable()`. A callback queues
  from inside `__irq_work_run()`, also when a dying CPU runs it. An NMI
  interrupts its CPU anywhere, also between two steps of `__irq_work_run()`, of
  the stopping tick and of a dying CPU until it is gone, and ends before the CPU
  goes on. All of them queue any item. `Raising` are the CPUs on which
  `arch_irq_work_raise()` does something: the generic one
  (`kernel/irq_work.c:51`) and that of x86 without a local APIC
  (`arch/x86/kernel/irq_work.c:44`) do not. The tick is `periodic` on a new CPU,
  `ticking`, `stopping` (`irq_work_needs_cpu()` has found nothing), `stopped`, or
  `due` (stopped, and set for the next jiffy because an `irq_exit()` found the
  list not empty). Only the idle loop stops it here. Two history variables:
  `owed`, items for which somebody's request has not been followed by a start of
  the function, and `late`, items added when nothing that follows is bound to
  look at the list (`Unheard`), until the list is taken or an interrupt ends.
* `CpuStop`: a caller makes one call. It runs on a CPU where a runnable stopper
  preempts it, unless it has disabled preemption (`queue_stop_cpus_work()`).
  `atomic_set()` and the store of the new state in `set_state()` are two steps.
  Taking a CPU down is the function of a `stop_machine()`, as in the code; it
  may fail, and `_cpu_down()` and `_cpu_up()` may return early. The hotplug lock
  is the exclusion it gives: `_cpu_down()` and `_cpu_up()` take it one after the
  other, and calls are made while the CPU is offline. A `stop_machine()` names
  one CPU for its function (`Target`); `active_cpus` may hold several, on which
  no property depends. The loop that queues the works visits CPUs in any order.

## 3. Runs

| Run | Instance | Shows |
|---|---|---|
| `semaphore` | 3 tasks, 1 permit, 1 outside `up()` | `SemaphoreInv`, `NoLostWakeup`, `FifoService`; implements `CountingSemaphore`; `EveryWaiterReturns` |
| `rwsem` | 4 tasks | `CountInv`, `NoStrandedWaiter`, `NoReaderBarging`; implements `RWLock`; `EveryCallReturns` |
| `percpu_ref` | 3 users, 2 CPUs, up to 2 references each, 16-valued counters | `CounterSafety`, `ExactCount`, `NoEarlyRelease`, `NoTrygetAfterConfirm`, `EventuallyReleased` |
| `srcu` | 2 readers, 2 updaters, 2 CPUs, 4-valued counters, callback limit 1, 3 sections | `GracePeriod`, `BarrierOrder`, `ReaderInv`, `BatchInv`, `NoReadAfterCleanup` |
| `srcu_liveness` | 2 readers without bound on sections, 1 updater, 1 CPU | `EveryGracePeriodEnds` |
| `percpu_rwsem` | 4 tasks, 2 CPUs, 5-valued counters | `CounterInv`; implements `RWLock`; `SomeWriterGetsLock` |
| `mutex` | 3 tasks, 5-bit count | `OwnerInv`, `NoStrandedWaiter`; implements `RWLock`; `EveryCallReturns` |
| `ww_mutex` | 3 contexts at a time, 4 in all, 2 locks, wrapping stamps | `OwnerInv`, `NoStaleContext`, `NoWaitCycle` |
| `ww_mutex_deadlock` | 4 contexts, two of which want one lock only | `NoWaitCycle` is violated: section 5 |
| `task_work` | 3 works of 2 functions, 2 adding and cancelling contexts | `ListInv`, `CancelOnStableList`, `EveryWorkHandled` |
| `irq_work` | an ordinary and a lazy item; 2 CPUs, one without the interrupt; a task, an NMI and a callback | `PendingInv`, `WorkWillRun`, `SyncWaitsForPending` |
| `cpu_stop` | 3 CPUs, a `stop_one_cpu()`, two `stop_machine()`, a CPU going down and up | `Rendezvous`, `CompletionInv`, `EveryCallReturns` |

The invariants whose name ends in `Inv`, `CounterSafety` and `Rendezvous` are
conjunctions of parts that are defined and explained just before them: in each
module the type invariant together with the statement that ties the code's
variables to who really owns, waits or is queued.

### Bounds

* `MaxUps` caps permits created by outsiders. One is enough to have an `up()`
  that no owner performs race with an owner's; the proofs need no bound.
* Three tasks on a binary semaphore give an owner, a waiter that leaves and one
  behind it that must not be lost. Four on the rwsem give an owner, a stealing
  writer, a queued reader and a further waiter, which is what it takes for a
  grant ahead to fail with somebody still behind it.
* Four tasks on the percpu rwsem give two writers, one leaving while the other
  arrives, and two readers that cross CPUs. `Modulus` exceeds the number of
  tasks by one, as little as the code's argument allows, and counters wrap.
* Three tasks on the mutex give an owner, a waiter and an interloper on the
  fast path. `MaxDebt` caps how far interrupted attempts lower `count` before
  new ones are started: -2 already has a waiter's mark and an attempt that left
  nothing but its decrement.
* `MaxContexts` caps contexts ever started; the fourth meets waiters that the
  first three left behind, and `FirstStamp` is chosen so that the stamps wrap
  among them.
* `MaxRefs` caps references per user. With two, counters on two CPUs wrap in
  both directions; `HalfRange` is chosen just large enough for the total, as
  2^31 is for real users, which `PercpuRefAssumption` states.
* `MaxSections` caps read-side sections of the safety run. Three sections of
  two readers suffice for the known hard case: one reader's increment is missed
  on a CPU already summed and another's decrement on a CPU still to come is
  seen. The liveness run has no cap. `CallbackBatch` is one so that the limit is
  reached. `TryCounts` holds the retries of `try_check_zero()`; two gives one
  retry, and retries only repeat a check that has failed.
* Three works let one be cancelled from the middle of a list; works are added
  again once they have run. Two irq-work items on two CPUs let an item be
  claimed again on one CPU while it runs on the other. One CPU raises the
  interrupt and one does not, and there is one caller of each kind, since two
  NMIs or two callbacks of one CPU exclude each other. Neither run has a cap.
* In `cpu_stop` each caller makes one call; `stop_one_cpu()` and the hotplug
  operation have the same target, so that the work is queued before, while and
  after the stopper parks. Two `stop_machine()` calls from different CPUs share
  the hotplug lock as readers and contend for `stop_cpus_mutex`; without the
  mutex TLC finds the two rendezvous waiting for each other.
* Deadlock is checked for the semaphore and the percpu rwsem, where some step
  is always possible. Elsewhere the callers may legitimately stop (calls or
  sections used up, new calls closed, a count released, a task gone);
  `NoStrandedWaiter` and the liveness properties say what must not stop.

### Fairness

* Semaphore: weak fairness of `Progress(t)`, that is, a runnable task is
  scheduled, and a caller that owns the semaphore calls `up()` some day. Nothing
  obliges timers, signals or spurious wake-ups to happen.
* Rwsem: weak fairness of each task's release, waking and waiting steps. Ticket
  spinlocks make a bounded number of contenders for `wait_lock` fair, and the
  property is about calls under way after new callers stop: a steady stream of
  stealing writers may starve a queued one, and the code does not claim
  otherwise.
* Percpu rwsem: weak fairness of calls under way and of readers' leaving, and
  that a free `rw_sem` is taken by some queued writer. Which one is open, since
  writers steal, and so is the property: some writer gets the lock.
* Mutex: weak fairness of each task's steps, for calls under way after new
  callers stop. Signals are never owed.
* Percpu refcount: weak fairness of sections (preemption is off, they are a few
  instructions) and of the RCU callback. Users need not put anything; the
  property says what follows if they do.
* SRCU: weak fairness of the work item and of calls under way. Readers need
  strong fairness for leaving: their steps are disabled again and again while
  another reader is in its preempt-disabled stretch on the same CPU. No new
  section is ever owed and none is held back.
* Task work: weak fairness of callers and of the task. Strong fairness of the
  wait for `pi_lock`, which cancellers take and release: the critical sections
  are short and the lock is seen free in between. Only works added with `notify`
  are owed a run.
* Stop machine: weak fairness of stoppers and of callers that are not
  preempted, and functions return. Nothing else is assumed: that stoppers do
  not wait for each other is the property.
* `IrqWork` and `WwMutex` state safety only. For the first, `WorkWillRun` says
  at every moment which event will run a list, and which items have none.

## 4. Proofs

Every invariant, action property and refinement of a passing run is a theorem
here, with the one exception named at the end of this section. Three modules
hold the proofs of two related components: `PercpuRef`, `Mutex` and `IrqWork` are
extended; `PercpuRwSem`, `WwMutex` and `TaskWork` are the instances `Rw`, `Ww`
and `Tw` beside them. The names they have in common are common notation only;
no formula mentions both. The assumption on the constants of an instance is a
hypothesis of each of its theorems, and its proofs do not use the assumption of
the other component. The operators of the standard modules reach an instance
under its own prefix; `RwSets`, `WwSets`, `WwRemove` and `TwRemove`
say that they are the same operators.

`SemaphoreProofs` holds for every finite set of tasks, every initial count and
every number of outside `up()` calls (`SemaphoreAssumption`).

* The inductive invariant is `IInv`: types, the exact correspondence of list,
  `pc` and `up` (`NoDanglingWaiter` written as `ListInv`), and `NoIdlePermit`.
  `NoIdlePermit` alone is not inductive: that a waiter leaving by timeout or
  signal is dequeued exactly once, and only if it has not been granted, needs
  the list correspondence.
* `AppendList`, `TailList`, `RemoveFirstEntry` and `RemoveList` say what the
  three list operations of the code do to a list without duplicates;
  `WaitLoopStep` and `GrantStep` lift them to a turn of the wait loop and to
  `__up()`; `NextIInv` combines them, one case per action.
* `Refinement` maps owners to the tasks that hold the semaphore or whose `up`
  flag is set, and shows that every step is a step of `CountingSemaphore` or
  leaves its state alone.
* `PermitsConserved` adds the cardinality of the owners to the invariant;
  `WakeupNeverLost` and `FirstComeFirstServed` follow from `IInv` and, for the
  order of the list, from the `Ahead` lemmas on append, tail and removal.
  `SemaphoreInvariant` collects the invariants that the run checks as one.

The part of `PercpuProofs` on the reference count holds for all users and CPUs
(`PercpuRefAssumption`). The invariant `RInv` adds to the types that a section
counts what its caller may take or give, and `GraceInv`: until the callback
runs, the grace period waits for every section that read the pointer alive, and
from then on there is none. `CountersNotUsedAfterFree`, `CountersSafe` and
`ConfirmIsFinal` follow. `CountIsExact` and `ReleasedOnce` rest on `MInv`,
which says for each phase of the callback what the atomic counter plus the
per-CPU counters not yet added amount to; `HalfRange` exceeds every total (an
assumption the code makes of its users), so a sum known modulo the width is
known.

`RwSemProofs` holds for all tasks, as long as the active part of the count can
count them (`RwSemAssumption`). The invariant has four parts. `Structure`: who
is queued, who has `wait_lock`, and what the waker's locals mean for the list.
`ShareInv`: the count is the cardinality of those who own the lock or are
arriving, plus the grant ahead, minus `ActiveRange` for each writer and for the
queue. `WakeInv`: if tasks are queued while nobody has the lock or arrives for
it, somebody is about to wake them or to try for the lock. `SleepInv`: a reader
that has been granted the lock is awake or about to be woken. `CountIsExact`,
`WaitersAreWoken`, `NoBarging` and the refinement `RwSemIsLock` follow; the
last shows every step to be a step of `RWLock`, group admission and downgrade
included.

The part of `PercpuProofs` on the semaphore holds for all tasks and CPUs
(`PercpuRwSemAssumption`).
`CounterInv` is not inductive without `RwSemInv` (who holds the inner lock),
`WriteCtrInv`, `RwGraceInv` (what the grace period still waits for) and
`ClearedInv` (which CPUs the writer has emptied). `CountersExact` and the
refinement `PercpuRwSemIsLock` follow.

The part of `MutexProofs` on the mutex holds for all tasks. `OwnershipInv` ties
`count` and `owner` to the task that is in, `QueueInv` the list and `wait_lock`
to the places in `__mutex_lock_common()`, `MarkInv` says what a negative count
remembers. `OneOwner`, `WaitersRemembered` and the refinement `MutexIsLock`
have the hypothesis `MaxDebt <= IntMax`: interrupted attempts do not lower the
count by 2^31. Without it they are false (section 5), and nothing in the code
ensures it but the number of signals one owner's tenure has room for.

The part of `MutexProofs` on the wait/wound mutex holds for all tasks, locks and
wish lists, and for any number of contexts up to half the range of stamps
(`WwMutexAssumption`). `WwQueueInv` says who is inside each `wait_lock` and on
each list; `WwOwnershipInv` that a lock has one owner, shown by its count, and
that `ctx` is set after the lock is taken and cleared before it is let go;
`CallerInv` what the caller has in hand and that `acquired` counts it.
`WwMarkInv` is what `NoStaleContext` needs: between the `xchg` of a waiter and
its release of `wait_lock` the count is negative, so an owner that unlocks takes
the slow path and has to wait for that `wait_lock` before it gives the lock
away. `NoStaleContext` is stated of a waiter that is about to read the stamp,
and alone says nothing of the count or of who else is in the section.
`WwOneOwner` and `ContextIsAlive` follow.

`SrcuProofs` holds for all readers, updaters, CPUs and bounds, as long as there
are fewer readers than values of `unsigned long` (`SrcuAssumption`). The heart
is `CheckInv`, what `srcu_readers_active_idx_check()` knows in the middle of its
three passes. `Gap(x)` is the number of increments of `seq` that will make the
last pass fail if nothing else happens; it is at most the number of readers that
have read the index and not yet counted (those below the width, so no wrap goes
unnoticed). As long as `Gap(x)` is zero, `Total(x)`, what the sum of `c` will
come to, is at least the number of readers inside with that rank; hence a zero
sum with no gap leaves none that a head in the batches waits for (`Cleared`). The
rest is bookkeeping of the batches: `All`, the four of them in the order of
invocation, has no duplicates and holds exactly the heads in flight (`ListInv`),
earlier heads in front (`OrderInv`); a head in `batch_check1` waits only for
readers of the rank still to be checked (`WaitInv`); one executor processes the
batches or the work is pending (`OwnerInv`). `ReadersAreCounted`,
`OneOwnerNothingLost`, `GracePeriodHolds`, `BarrierHolds` and `CleanupIsSafe`
are all five invariants of the run `srcu`.

`CpuStopProofs` holds for all CPUs and callers, in any mix of the three calls,
none made from a CPU that is taken down (`CpuStopAssumption`). `CallInv` and
`ReadyInv` say what a call holds where it is and that the CPUs counted are the
online ones until the works are queued. `WorkInv` and `OnInv`: a CPU has a work
at most once, and works of `stop_machine()` only while the call waits and on
enabled stoppers. `ParkInv`: a stopper parks only for the hotplug operation
whose function has run on that CPU (`Acted`), or the CPU is dead (`Dead`:
offline, its stopper parked, and no `stop_machine()` counts on it), which
outlasts the operation, because the lock is given up between down and up and
the CPU need not come back. `MachineInv` is the rendezvous: unless a CPU is
about to advance the state (`Turning`), `thread_ack` is the number of
participants that have not acknowledged it (`Late`); the participants (`Parts`)
are `num_threads` many and include every online CPU; once the state has left
`PREPARE` all of them execute their work, at the state or one behind.
`DoneInv`: `nr_todo` counts the works still to queue and the live ones; works
that `cpu_stop_park()` left behind belong to completed calls.
`CompletionsExact` and `MachineIsStopped` follow, the two invariants of its
run.

The part of `DeferredWorkProofs` on task work holds for all works, functions and
callers (`TaskWorkAssumption`). Links are memory, so the invariant has to say
where every work of the history variable `queued` lies: `TwInv` says that for
some `k` the first `k` are the task's and the others are linked from
`task_works` (`SplitInv`). Of the task's works the `j` oldest are still linked
newest first and the rest are already reversed, while `task_work_run()` turns
the list round (`TakenInv`). A canceller that holds `pi_lock` looks at a place of
the part that is linked, or at the end of it (`CancelInv`); a task that has taken
a list under it waits in `raw_spin_unlock_wait()` and has not touched the links,
so that place moves into the task's part. `AddInv` says that a work being added
is not queued and belongs to one adder, `ExitInv` that `work_exited` ends a list.
`LinkedUnlink` and its like say what a removal from the middle, a push, a pop and
one turn of the reversal do to a piece of a list. `TaskWorkList` and
`TaskWorkCancel` follow.

The part on interrupt work holds for all items, CPUs, tasks and NMIs
(`IrqWorkAssumption`). `Chain(p)`, the items on a list, is the smallest set that
holds what `p` points to and is closed under the links; `FromStep`, `FromSub` and
`FromRest` give its head, its tail and what a new link adds. `At(w, k, i)` says
that caller, list or runner `i` has the item; `PlaceInv` that an item is
somewhere exactly when it is `PENDING`, and in one place only, which needs
`AcyclicInv` (no item follows itself, so that a runner that moves to the next
item leaves the one it has). `BusyInv` ties `BUSY` to `PENDING` and to requests
not yet served. `IrqPending` and `IrqSync` follow. `IrqWorkWillRun` adds
`WakeInv`, what holds of the list, the interrupt, the tick, the hotplug state and
`late` of one CPU between any two steps: if no event is bound to run the list,
each item on it is `Covered`, that is, `late` or its caller's to raise for. The
theorem has no hypothesis beyond `IrqWorkAssumption`: NMIs and callbacks queue
what they like, and `Raising` is any set of CPUs.

`CollectionLemmas` proves what these need of sums: `MapThenSumSet` is a
recursive function over subsets, and that its value does not depend on the order
of summation (`SumComputed`, `SumRemove`, `SumUpdate`) is proved by taking a
least counterexample, not by an induction scheme, which the provers cannot
instantiate.

Model-checked only: the liveness properties, which hold under fairness and are
out of the prover's reach, and `NoWaitCycle`, which is false in general (section
5) and true of the three contexts of its run.

## 5. Findings

**Deadlock of wound/wait contexts** (`ww_mutex_deadlock`).
`include/linux/ww_mutex.h:201` says "Deadlocks within a given w/w class of locks
are detected and handled with the wait/wound algorithm." A slow unlock sets
`count` to 1 and wakes the first waiter only. A context that now takes the lock
by the fast path brings `count` to 0, and if
`ww_mutex_set_context_fastpath()` reads it (`kernel/mutex.c:390`) before the
woken waiter's `xchg` makes it negative, it concludes that nobody waits and
wakes nobody. Waiters further back in the queue compared their stamps with an
earlier owner and do not compare again. If one of them is younger than the new
owner and holds the lock the new owner wants next, both sleep. It takes four
contexts, the first of which only have to fill the queue; the run `ww_mutex`
shows that three contexts cannot produce it.

### Observed while modelling

The following differ from a comment, or are limits of the code, and are not
runs of their own. Those with parameters in parentheses can be reproduced with
the modules here.

* `lib/percpu-refcount.c:39` documents that `percpu_ref_init()` "Initializes
  the refcount in single atomic counter mode". The code leaves the status bits
  clear, so counting is per CPU until `percpu_ref_kill()`.
* `kernel/srcu.c:236` argues that "there can be at most NR_CPUS worth of
  readers using the old index". `__srcu_read_lock()` reads the index before
  `preempt_disable()`, so one CPU may have any number of preempted tasks in
  that window. That `seq` cannot wrap unnoticed holds as long as there are fewer
  tasks than values of `unsigned long`, which is what `SrcuAssumption` requires.
* The error path of `__mutex_lock_common()` (`kernel/mutex.c:606`) does not
  raise `count` again, so every interrupted attempt on a contended mutex leaves
  it one lower until the next unlock. 2^31 attempts under one owner would wrap
  it (`IntMax = 3`, `MaxDebt = 4`, property `ImplementsLock`).
* The comment of `irq_work_sync()` (`kernel/irq_work.c:161`) says it "ensures
  the entry is not currently in use". If the item was queued again on a second
  CPU while its function ran on the first, the first CPU's `cmpxchg`
  (line 145) clears `BUSY` while the second still runs the function, and
  `irq_work_sync()` returns. What it does guarantee is `SyncWaitsForPending`.
* `kernel/irq_work.c:75` says of lazy items "If the work is not 'lazy' or the
  tick is stopped, raise the irq work interrupt (if supported by the arch),
  otherwise, just wait for the next tick." One queued by an NMI after
  `irq_work_needs_cpu()` (`kernel/time/tick-sched.c:552`) and before
  `tick_stopped` is set (line 647) raises no interrupt, and there is no next
  tick: it waits until some other interrupt ends and the tick is decided upon
  again. NMI handlers do queue lazy items: they call `printk()`
  (`arch/x86/kernel/nmi.c:207`, `:281`), which queues one
  (`kernel/printk/printk.c:2462`).
* `kernel/irq_work.c:54` says "Lame architectures will get the timer tick
  callback". Not while the tick is stopped: then an item queued where
  `arch_irq_work_raise()` does nothing waits in the same way.
* `kernel/irq_work.c:97` says "All work should have been flushed before going
  offline". An item that an NMI or a callback adds on a dying CPU after
  `llist_del_all()` (line 124) is flushed by nobody and waits for the first tick
  of the CPU when it is up again.

  These three are the exceptions of `WorkWillRun`, recorded in `late`; the run
  and the theorem `IrqWorkWillRun` show that there are no others. TLC
  reaches each of the three on the instance of the run.
* `cpu_stop_park()` (`kernel/stop_machine.c:316`) signals the works on the list
  as not executed and leaves them on it. `stop_one_cpu()` has then returned
  `-ENOENT`, and the work on its stack is found when the CPU is up again: it is
  executed, and signalling it decrements `nr_todo` in a stack frame that has been
  left (line 59). The model has the execution and treats that decrement as having
  no effect (`Signalled`). `CompletionInv` therefore speaks of calls that
  succeeded.

## 6. What the models leave out

* Memory is sequentially consistent. The barriers the source places (`smp_mb()`
  A to D in SRCU, those around `waiter->task`, in
  `ww_mutex_set_context_fastpath()` and in `__irq_work_run()`) exist to justify
  that view; the models do not check that they are sufficient.
* `percpu_ref_get()` and `put()` from an interrupt on the same CPU, between the
  load and the store of `__this_cpu_inc()` on architectures where it is not one
  instruction.
* Forbidden calls: killing a reference count twice, using an SRCU structure
  after cleanup, `up()` on a rwsem that is not held, unlocking another's mutex.
* Architecture-specific fast paths of mutex and rwsem; the generic headers are
  modelled.
* `ww_mutex_trylock()`, `ww_mutex_lock()` without a context and `-EALREADY`;
  `stop_one_cpu_nowait()`, `try_stop_cpus()`, `stop_machine_from_inactive_cpu()`.
* A tick stopped for a task that runs alone (`CONFIG_NO_HZ_FULL`), whose rules
  for `irq_work` differ.
* A task with task work that blocks in the kernel and does not return to user
  mode: `set_notify_resume()` (`include/linux/tracehook.h:164`) does not wake it,
  and its works wait as long as it does.
* Lockdep, tracing and debugging code.

## 7. Plan

Done: the ten components of section 1 with their runs; the proofs of section 4.

Components that would fit next: `lib/rwsem-spinlock.c` as a second
implementation of `RWLock`, the queue lock of the spinners, the CPU hotplug
lock, kthread workers, and the owner word of `kernel/rtmutex.c`.

-------------------------------- MODULE Srcu --------------------------------
(***************************************************************************)
(* Sleepable RCU of kernel/srcu.c.                                         *)
(*                                                                         *)
(* Readers count themselves on per-CPU counters of one of two ranks; the   *)
(* processing owner (the work item, or a synchronize_srcu() caller that    *)
(* found nobody processing) sums those counters one CPU at a time, without *)
(* any lock, flips the rank, and moves callbacks through four batches.     *)
(* One action is one access to state that another actor uses, or one       *)
(* queue_lock section.  Memory is sequentially consistent: the smp_mb()    *)
(* pairs A-B and C-D of the source are there to justify that.              *)
(***************************************************************************)
EXTENDS Integers, FiniteSets, FiniteSetsExt, SequencesExt

CONSTANTS Readers,        \* tasks that enter read-side sections
          Updaters,       \* tasks that own one rcu_head each
          Work,           \* the execution of sp->work
          NCPU,           \* for_each_possible_cpu() visits 0 .. NCPU-1
          Modulus,        \* number of values of unsigned long
          TryCounts,      \* SYNCHRONIZE_SRCU_TRYCOUNT, .._EXP_TRYCOUNT
          CallbackBatch,  \* SRCU_CALLBACK_BATCH
          MaxSections     \* bound on read-side sections, 0 for no bound

ASSUME SrcuAssumption ==
    /\ IsFiniteSet(Readers) /\ IsFiniteSet(Updaters)
    /\ Work \notin Updaters
    /\ NCPU \in Nat \ {0}
    /\ Modulus \in Nat /\ Cardinality(Readers) < Modulus
    /\ TryCounts \subseteq Nat \ {0}
    /\ CallbackBatch \in Nat \ {0}
    /\ MaxSections \in Nat

VARIABLES
    c, seq,         \* per-CPU counters: [CPUs -> [0..1 -> Counter]]
    completed,      \* low bit of sp->completed, the only one the code uses
    running,        \* sp->running
    batch_queue, batch_check0, batch_check1, batch_done,
    pending,        \* sp->work is queued and has not started
    freed,          \* cleanup_srcu_struct() has freed sp->per_cpu_ref
    reader,         \* state of each reader
    exec,           \* what each updater and the work item execute
    use,            \* what the rcu_head of an updater is in flight for
    completion,     \* rcu.completion of a synchronize_srcu() is done
    sections,       \* read-side sections begun (bounded by MaxSections)
    waitfor,        \* history: readers that were inside when a head was queued
    earlier         \* history: call_srcu() heads in flight at that moment

counters == <<c, seq, completed>>
batches == <<batch_queue, batch_check0, batch_check1, batch_done>>
history == <<waitfor, earlier>>
vars == <<counters, running, batches, pending, freed, reader, exec, use,
          completion, sections, history>>

CPUs == 0 .. NCPU - 1
Executors == Updaters \cup {Work}
Counter == 0 .. Modulus - 1
Wrap(x) == x % Modulus

\* A reader is outside, has read ->completed, has incremented ->c (preemption
\* off) or is in its section.
Outside == [pc |-> "out", idx |-> 0, cpu |-> 0]

\* Local variables of the code an executor runs: trycount of
\* srcu_advance_batches(), its check of rank idx (first or second, the pass over
\* the CPUs, position, sum so far, first seq sum, tries left), the callbacks
\* invoked and, for a stealing synchronize_srcu(), done.
Off == [pc |-> "off", trycount |-> 0, idx |-> 0, check |-> 0, pass |-> "seq",
        at |-> 0, sum |-> 0, seq |-> 0, left |-> 0, n |-> 0, done |-> FALSE]

Init ==
    /\ c = [p \in CPUs |-> [i \in 0..1 |-> 0]]
    /\ seq = [p \in CPUs |-> [i \in 0..1 |-> 0]]
    /\ completed = 0
    /\ running = FALSE
    /\ batch_queue = <<>> /\ batch_check0 = <<>>
    /\ batch_check1 = <<>> /\ batch_done = <<>>
    /\ pending = FALSE
    /\ freed = FALSE
    /\ reader = [r \in Readers |-> Outside]
    /\ exec = [e \in Executors |-> Off]
    /\ use = [u \in Updaters |-> "none"]
    /\ completion = [u \in Updaters |-> FALSE]
    /\ sections = 0
    /\ waitfor = [u \in Updaters |-> {}]
    /\ earlier = [u \in Updaters |-> {}]

-----------------------------------------------------------------------------
(* Readers.  A task may be preempted and migrate between reading the index *)
(* and preempt_disable(), and unlock on another CPU than it locked on.     *)

updateSide == <<completed, running, batches, pending, freed, exec, use, completion, earlier>>

ReadIndex(r) ==
    /\ reader[r].pc = "out"
    /\ ~freed
    /\ MaxSections = 0 \/ sections < MaxSections
    /\ sections' = IF MaxSections = 0 THEN 0 ELSE sections + 1
    /\ reader' = [reader EXCEPT ![r].pc = "index", ![r].idx = completed]
    /\ UNCHANGED <<c, seq, updateSide, waitfor>>

PreemptionOn(p) == \A r \in Readers : reader[r].pc = "locking" => reader[r].cpu # p

IncrementC(r, p) ==
    /\ reader[r].pc = "index"
    /\ PreemptionOn(p)
    /\ c' = [c EXCEPT ![p][reader[r].idx] = Wrap(@ + 1)]
    /\ reader' = [reader EXCEPT ![r].pc = "locking", ![r].cpu = p]
    /\ UNCHANGED <<seq, updateSide, sections, waitfor>>

IncrementSeq(r) ==
    /\ reader[r].pc = "locking"
    /\ seq' = [seq EXCEPT ![reader[r].cpu][reader[r].idx] = Wrap(@ + 1)]
    /\ reader' = [reader EXCEPT ![r].pc = "in", ![r].cpu = 0]
    /\ UNCHANGED <<c, updateSide, sections, waitfor>>

\* Mutant: unlock uses the current rank instead of the one lock returned.
ReadUnlockCurrentRank(r, p) ==
    /\ reader[r].pc = "in"
    /\ PreemptionOn(p)
    /\ c' = [c EXCEPT ![p][completed] = Wrap(@ - 1)]
    /\ reader' = [reader EXCEPT ![r] = Outside]
    /\ waitfor' = [u \in Updaters |-> waitfor[u] \ {r}]
    /\ UNCHANGED <<seq, updateSide, sections>>

\* __srcu_read_unlock()
ReadUnlock(r, p) ==
    /\ reader[r].pc = "in"
    /\ PreemptionOn(p)
    /\ c' = [c EXCEPT ![p][reader[r].idx] = Wrap(@ - 1)]
    /\ reader' = [reader EXCEPT ![r] = Outside]
    /\ waitfor' = [u \in Updaters |-> waitfor[u] \ {r}]
    /\ UNCHANGED <<seq, updateSide, sections>>

-----------------------------------------------------------------------------
(* Queueing callbacks.                                                     *)

RecordHistory(u) ==
    /\ waitfor' = [waitfor EXCEPT ![u] = {r \in Readers : reader[r].pc = "in"}]
    /\ earlier' = [earlier EXCEPT ![u] = {v \in Updaters : use[v] = "call"}]

\* The head of u is free to be queued.
Idle(u) == use[u] = "none" /\ exec[u] = Off /\ ~freed

\* Mutant: the work is scheduled without a look at ->running.
CallSrcuAlwaysSchedules(u) ==
    /\ Idle(u)
    /\ use' = [use EXCEPT ![u] = "call"]
    /\ batch_queue' = Append(batch_queue, u)
    /\ running' = TRUE
    /\ pending' = TRUE
    /\ RecordHistory(u)
    /\ UNCHANGED <<counters, batch_check0, batch_check1, batch_done, freed,
                   reader, exec, completion, sections>>

CallSrcu(u) ==
    /\ Idle(u)
    /\ use' = [use EXCEPT ![u] = "call"]
    /\ batch_queue' = Append(batch_queue, u)
    /\ running' = TRUE
    /\ pending' = (pending \/ ~running)
    /\ RecordHistory(u)
    /\ UNCHANGED <<counters, batch_check0, batch_check1, batch_done, freed,
                   reader, exec, completion, sections>>

\* Mutant: a synchronous caller that has to wait skips batch_queue.
SynchronizeSkipsQueue(u, trycount) ==
    /\ Idle(u)
    /\ use' = [use EXCEPT ![u] = "sync"]
    /\ batch_check0' = Append(batch_check0, u)
    /\ exec' = [exec EXCEPT ![u] = IF running THEN [Off EXCEPT !.pc = "wait"]
                                   ELSE [Off EXCEPT !.pc = "advance", !.trycount = trycount]]
    /\ running' = TRUE
    /\ RecordHistory(u)
    /\ UNCHANGED <<counters, batch_queue, batch_check1, batch_done, pending, freed, reader,
                   completion, sections>>

\* __synchronize_srcu() up to spin_unlock_irq(): steal the processing owner, or
\* queue the head and wait.  synchronize_srcu() and srcu_barrier() pass the
\* plain trycount, synchronize_srcu_expedited() the larger one.
SynchronizeSrcu(u, trycount) ==
    /\ Idle(u)
    /\ use' = [use EXCEPT ![u] = "sync"]
    /\ IF running
       THEN /\ batch_queue' = Append(batch_queue, u)
            /\ exec' = [exec EXCEPT ![u].pc = "wait"]
            /\ UNCHANGED <<running, batch_check0>>
       ELSE /\ running' = TRUE
            /\ batch_check0' = Append(batch_check0, u)
            /\ exec' = [exec EXCEPT ![u].pc = "advance", ![u].trycount = trycount]
            /\ UNCHANGED batch_queue
    /\ RecordHistory(u)
    /\ UNCHANGED <<counters, batch_check1, batch_done, pending, freed, reader,
                   completion, sections>>

\* wait_for_completion() returns.
SynchronizeReturns(u) ==
    /\ exec[u].pc = "wait"
    /\ completion[u]
    /\ completion' = [completion EXCEPT ![u] = FALSE]
    /\ use' = [use EXCEPT ![u] = "none"]
    /\ exec' = [exec EXCEPT ![u] = Off]
    /\ UNCHANGED <<counters, running, batches, pending, freed, reader, sections, history>>

-----------------------------------------------------------------------------
(* srcu_advance_batches(), run by the processing owner.                    *)

readSide == <<c, seq, reader, sections, waitfor>>
queueSide == <<running, batch_queue, pending, freed, use, completion, earlier>>

\* Where srcu_advance_batches() returns to.
AfterAdvance(e) ==
    exec' = [exec EXCEPT ![e] = [Off EXCEPT !.pc = IF e = Work THEN "invoke" ELSE "harvest"]]

\* Enter srcu_readers_active_idx_check() from its start.
FromTheStart(x) == [x EXCEPT !.pass = "seq", !.at = 0, !.sum = 0, !.seq = 0]

StartCheck(e, idx, check, tries) ==
    exec' = [exec EXCEPT ![e] =
                FromTheStart([@ EXCEPT !.pc = "check", !.idx = idx, !.check = check,
                                       !.left = tries])]

AdvanceBatches(e) ==
    /\ exec[e].pc = "advance"
    /\ IF batch_check0 = <<>> /\ batch_check1 = <<>>
       THEN AfterAdvance(e)
       ELSE StartCheck(e, 1 - completed, 1, exec[e].trycount)
    /\ UNCHANGED <<readSide, completed, queueSide, batch_check0, batch_check1, batch_done>>

\* srcu_readers_active_idx_check() failed in try_check_zero(): try again unless
\* trycount is used up.
CheckFails(e) ==
    IF exec[e].left - 1 <= 0
    THEN AfterAdvance(e)
    ELSE exec' = [exec EXCEPT ![e] = FromTheStart([@ EXCEPT !.left = exec[e].left - 1])]

NextPass(e, pass, first) ==
    exec' = [exec EXCEPT ![e].pass = pass, ![e].at = 0, ![e].sum = 0, ![e].seq = first]

\* Mutant: a zero sum of ->c is believed without the validation pass.
CheckUnvalidated(e) ==
    LET x == exec[e]
        sum == Wrap(x.sum + (IF x.pass = "active" THEN c ELSE seq)[x.at][x.idx]) IN
    /\ x.pc = "check"
    /\ IF x.at < NCPU - 1
       THEN exec' = [exec EXCEPT ![e].at = @ + 1, ![e].sum = sum]
       ELSE CASE x.pass = "seq" -> NextPass(e, "active", sum)
              [] x.pass = "active" ->
                   IF sum # 0 THEN CheckFails(e)
                   ELSE exec' = [exec EXCEPT ![e].pc = "drained", ![e].at = 0]
    /\ UNCHANGED <<readSide, completed, queueSide, batch_check0, batch_check1, batch_done>>

\* One per-CPU read of srcu_readers_seq_idx() or srcu_readers_active_idx(); the
\* read of the last CPU also ends the pass.
CheckCPU(e) ==
    LET x == exec[e]
        sum == Wrap(x.sum + (IF x.pass = "active" THEN c ELSE seq)[x.at][x.idx]) IN
    /\ x.pc = "check"
    /\ IF x.at < NCPU - 1
       THEN exec' = [exec EXCEPT ![e].at = @ + 1, ![e].sum = sum]
       ELSE CASE x.pass = "seq" -> NextPass(e, "active", sum)
              [] x.pass = "active" ->
                   IF sum # 0 THEN CheckFails(e) ELSE NextPass(e, "validate", x.seq)
              [] x.pass = "validate" ->
                   IF sum # x.seq THEN CheckFails(e)
                   ELSE exec' = [exec EXCEPT ![e].pc = "drained", ![e].at = 0]
    /\ UNCHANGED <<readSide, completed, queueSide, batch_check0, batch_check1, batch_done>>

\* Mutant: rcu_batch_move() forgets to empty the batch it moves from.
FlipRankCopies(e) ==
    /\ exec[e].pc = "drained" /\ exec[e].check = 1
    /\ batch_done' = batch_done \o batch_check1
    /\ batch_check1' = batch_check0
    /\ IF batch_check0 = <<>>
       THEN AfterAdvance(e) /\ UNCHANGED completed
       ELSE /\ completed' = 1 - completed
            /\ StartCheck(e, 1 - exec[e].idx, 2,
                          IF exec[e].trycount < 2 THEN 2 ELSE exec[e].trycount)
    /\ UNCHANGED <<readSide, queueSide, batch_check0>>

\* The first try_check_zero() succeeded.  batch_check1 has waited for both ranks;
\* batch_check0 for one, and needs the flip and a check of the other.
FlipRank(e) ==
    /\ exec[e].pc = "drained" /\ exec[e].check = 1
    /\ batch_done' = batch_done \o batch_check1
    /\ batch_check1' = batch_check0
    /\ batch_check0' = <<>>
    /\ IF batch_check0 = <<>>
       THEN AfterAdvance(e) /\ UNCHANGED completed
       ELSE /\ completed' = 1 - completed
            /\ StartCheck(e, 1 - exec[e].idx, 2,
                          IF exec[e].trycount < 2 THEN 2 ELSE exec[e].trycount)
    /\ UNCHANGED <<readSide, queueSide>>

\* The second one succeeded.
FinishCheck1(e) ==
    /\ exec[e].pc = "drained" /\ exec[e].check = 2
    /\ batch_done' = batch_done \o batch_check1
    /\ batch_check1' = <<>>
    /\ AfterAdvance(e)
    /\ UNCHANGED <<readSide, completed, queueSide, batch_check0>>

-----------------------------------------------------------------------------
(* process_srcu() and the end of a stealing synchronize_srcu().            *)

\* The work item starts and srcu_collect_new() moves what is queued.  Its test
\* outside the lock adds nothing: meanwhile the queue can only grow.
ProcessSrcu ==
    /\ pending /\ exec[Work] = Off
    /\ pending' = FALSE
    /\ batch_check0' = batch_check0 \o batch_queue
    /\ batch_queue' = <<>>
    /\ exec' = [exec EXCEPT ![Work].pc = "advance", ![Work].trycount = 1]
    /\ UNCHANGED <<readSide, completed, running, batch_check1, batch_done, freed, use,
                   completion, earlier>>

\* One turn of srcu_invoke_callbacks(): wakeme_after_rcu() for synchronize_srcu(),
\* else the function given to call_srcu(), after which the head is free.
InvokeCallback ==
    LET h == Head(batch_done) IN
    /\ exec[Work].pc = "invoke"
    /\ exec[Work].n < CallbackBatch /\ batch_done # <<>>
    /\ batch_done' = Tail(batch_done)
    /\ exec' = [exec EXCEPT ![Work].n = @ + 1]
    /\ IF use[h] = "sync"
       THEN completion' = [completion EXCEPT ![h] = TRUE] /\ UNCHANGED <<use, earlier>>
       ELSE /\ use' = [use EXCEPT ![h] = "none"]
            /\ earlier' = [u \in Updaters |-> earlier[u] \ {h}]
            /\ UNCHANGED completion
    /\ UNCHANGED <<readSide, completed, running, batch_queue, batch_check0, batch_check1,
                   pending, freed>>

InvokeEnds ==
    /\ exec[Work].pc = "invoke"
    /\ exec[Work].n = CallbackBatch \/ batch_done = <<>>
    /\ exec' = [exec EXCEPT ![Work] = [Off EXCEPT !.pc = "reschedule"]]
    /\ UNCHANGED <<readSide, completed, queueSide, batch_check0, batch_check1, batch_done>>

\* The stealing caller takes its own head back if its grace period is over.
Harvest(u) ==
    /\ exec[u].pc = "harvest"
    /\ batch_done' = IF batch_done = <<>> THEN <<>> ELSE Tail(batch_done)
    /\ exec' = [exec EXCEPT ![u].pc = "reschedule", ![u].done = (batch_done # <<>>)]
    /\ UNCHANGED <<readSide, completed, queueSide, batch_check0, batch_check1>>

AllEmpty == batch_done = <<>> /\ batch_check1 = <<>> /\ batch_check0 = <<>> /\ batch_queue = <<>>

\* What follows srcu_reschedule(): the work function ends, a stealing caller
\* returns or waits for its completion.
AfterReschedule(e) ==
    /\ exec' = [exec EXCEPT ![e] =
                  IF e = Work \/ @.done THEN Off ELSE [Off EXCEPT !.pc = "wait"]]
    /\ use' = [u \in Updaters |-> IF u = e /\ exec[e].done THEN "none" ELSE use[u]]

\* srcu_reschedule(): the test without the lock, and the one under it.
Reschedule(e) ==
    /\ exec[e].pc = "reschedule"
    /\ IF AllEmpty
       THEN exec' = [exec EXCEPT ![e].pc = "recheck"] /\ UNCHANGED <<pending, use>>
       ELSE pending' = TRUE /\ AfterReschedule(e)
    /\ UNCHANGED <<readSide, completed, running, batches, freed, completion, earlier>>

\* Mutant: the batches are not looked at again under the lock.
RescheduleUnchecked(e) ==
    /\ exec[e].pc = "recheck"
    /\ running' = FALSE
    /\ AfterReschedule(e)
    /\ UNCHANGED <<readSide, completed, batches, pending, freed, completion, earlier>>

RescheduleLocked(e) ==
    /\ exec[e].pc = "recheck"
    /\ IF AllEmpty
       THEN running' = FALSE /\ UNCHANGED pending
       ELSE pending' = TRUE /\ UNCHANGED running
    /\ AfterReschedule(e)
    /\ UNCHANGED <<readSide, completed, batches, freed, completion, earlier>>

-----------------------------------------------------------------------------
\* The counters of one rank, and what srcu_readers_active() adds up for it.
Rank(f, i) == [p \in CPUs |-> f[p][i]]

RankSum(f, i) == LET r == Rank(f, i) IN Wrap(MapThenSumSet(LAMBDA p : r[p], CPUs))

\* cleanup_srcu_struct(), once the users are finished; a nonzero count leaks.
Cleanup ==
    /\ \A r \in Readers : reader[r].pc = "out"
    /\ \A u \in Updaters : Idle(u)
    /\ Wrap(RankSum(c, 0) + RankSum(c, 1)) = 0
    /\ freed' = TRUE
    /\ UNCHANGED <<counters, running, batches, pending, reader, exec, use, completion,
                   sections, history>>

ReaderStep(r) ==
    \/ ReadIndex(r)
    \/ IncrementSeq(r)
    \/ \E p \in CPUs : IncrementC(r, p) \/ ReadUnlock(r, p)

OwnerStep(e) ==
    \/ AdvanceBatches(e) \/ CheckCPU(e) \/ FlipRank(e) \/ FinishCheck1(e)
    \/ Reschedule(e) \/ RescheduleLocked(e)

WorkStep == ProcessSrcu \/ InvokeCallback \/ InvokeEnds \/ OwnerStep(Work)

UpdaterStep(u) == Harvest(u) \/ SynchronizeReturns(u) \/ OwnerStep(u)

StartUpdate(u) == CallSrcu(u) \/ \E n \in TryCounts : SynchronizeSrcu(u, n)

Next ==
    \/ WorkStep
    \/ Cleanup
    \/ \E r \in Readers : ReaderStep(r)
    \/ \E u \in Updaters : StartUpdate(u) \/ UpdaterStep(u)

Spec == Init /\ [][Next]_vars

\* The workqueue runs queued work, started calls go on, and read-side sections
\* end: a reader that finds its CPU in the preempt-disabled stretch of another
\* one again and again is still scheduled in the end (strong fairness).  New
\* sections and updates are never owed, nor ever held back.
Fairness ==
    /\ WF_vars(WorkStep)
    /\ \A u \in Updaters : WF_vars(UpdaterStep(u))
    /\ \A r \in Readers : SF_vars(reader[r].pc # "out" /\ ReaderStep(r))

FairSpec == Spec /\ Fairness

-----------------------------------------------------------------------------
(* Properties.                                                             *)

TypeOK ==
    /\ c \in [CPUs -> [0..1 -> Counter]] /\ seq \in [CPUs -> [0..1 -> Counter]]
    /\ completed \in 0..1
    /\ {running, pending, freed} \subseteq BOOLEAN
    /\ {batch_queue, batch_check0, batch_check1, batch_done} \subseteq Seq(Updaters)
    /\ reader \in [Readers -> [pc : {"out", "index", "locking", "in"}, idx : 0..1, cpu : CPUs]]
    /\ DOMAIN exec = Executors
    /\ use \in [Updaters -> {"none", "call", "sync"}]
    /\ completion \in [Updaters -> BOOLEAN]
    /\ sections \in 0..MaxSections
    /\ waitfor \in [Updaters -> SUBSET Readers]
    /\ earlier \in [Updaters -> SUBSET Updaters]

\* The grace-period guarantee: when synchronize_srcu() returns or a call_srcu()
\* callback has been invoked, every reader that was in its section when the head
\* was queued has left it, whatever the migrations and the order in which the
\* per-CPU counters were summed.
GracePeriod ==
    \A u \in Updaters : use[u] = "none" \/ completion[u] => waitfor[u] = {}

\* srcu_barrier(): a synchronize_srcu() ends only after every callback that was
\* in flight when it was called has been invoked.
BarrierOrder == \A u \in Updaters : use[u] = "none" \/ completion[u] => earlier[u] = {}

\* sp->running is set exactly while somebody is responsible for the batches: the
\* work is queued or running, or one stealing caller is in srcu_advance_batches().
\* There are never two owners, and none is ever missing while callbacks wait.
Processing == {e \in Executors : exec[e].pc \notin {"off", "wait"}}

SingleOwner ==
    /\ Cardinality(Processing) + (IF pending THEN 1 ELSE 0) = (IF running THEN 1 ELSE 0)
    /\ ~running => AllEmpty

\* BUG_ON(sp->batch_done.head != head) never fires: a stealing caller finds its
\* own head, alone, in batch_done.
HarvestOwnHead ==
    \A u \in Updaters : exec[u].pc = "harvest" /\ batch_done # <<>> => batch_done = <<u>>

\* A head in flight is on exactly one batch until its callback is invoked.
NoLostCallback ==
    \A u \in Updaters :
        LET places == {i \in 1..Len(batch_done \o batch_check1 \o batch_check0 \o batch_queue) :
                          (batch_done \o batch_check1 \o batch_check0 \o batch_queue)[i] = u}
        IN Cardinality(places) = (IF use[u] = "none" \/ completion[u] \/ exec[u].done
                                  THEN 0 ELSE 1)

\* The counters of a rank add up to its readers, modulo Modulus, although a
\* reader may have locked on one CPU and unlocked on another: the WARN_ON() of
\* cleanup_srcu_struct() never fires after the last reader left.
ReadersCounted ==
    \A i \in 0..1 :
        RankSum(c, i) = Cardinality({r \in Readers : reader[r].pc \in {"locking", "in"}
                                                  /\ reader[r].idx = i})

\* Types, and per-CPU counters that stand for the readers of each rank.
ReaderInv == TypeOK /\ ReadersCounted

\* The hand-over of the batches between the work item and stealing callers: one
\* owner, every head on one batch, and a stealer harvests its own.
BatchInv == SingleOwner /\ NoLostCallback /\ HarvestOwnHead

\* The work item may outlive the last callback, but never reads the per-CPU
\* counters again once cleanup_srcu_struct() has freed them.
NoReadAfterCleanup == freed => \A e \in Executors : exec[e].pc # "check"

\* Every grace period ends, however many new readers arrive.
EveryGracePeriodEnds == \A u \in Updaters : use[u] # "none" ~> use[u] = "none"
=============================================================================

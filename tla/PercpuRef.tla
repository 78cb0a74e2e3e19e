----------------------------- MODULE PercpuRef -----------------------------
(***************************************************************************)
(* The per-CPU reference count of lib/percpu-refcount.c and                *)
(* include/linux/percpu-refcount.h.                                        *)
(*                                                                         *)
(* Gets and puts run on the local counter of a CPU, in a preempt-disabled  *)
(* RCU-sched section, until percpu_ref_kill() marks the pointer dead; a    *)
(* grace period later the counters are summed into one atomic counter,     *)
(* which is held away from zero by a bias until then.  A section is two    *)
(* actions, the read of the pointer and the counter update, so that the    *)
(* kill can fall between them.                                             *)
(***************************************************************************)
EXTENDS Integers, FiniteSets, FiniteSetsExt, Functions

CONSTANTS Tasks,     \* users of the reference count
          Owner,     \* the user that owns the initial reference and kills it
          CPUs,      \* possible CPUs
          NoCPU,     \* outside of any section
          HalfRange, \* 2^31: half the range of unsigned and of atomic_t
          MaxRefs    \* bound on the references a user holds

ASSUME PercpuRefAssumption ==
    /\ IsFiniteSet(Tasks) /\ IsFiniteSet(CPUs)
    /\ Owner \in Tasks
    /\ NoCPU \notin CPUs
    /\ HalfRange \in Nat \ {0} /\ MaxRefs \in Nat
    /\ Cardinality(Tasks) * MaxRefs + 1 < HalfRange

VARIABLES
    phase,       \* life cycle of the structure, see Phases
    count,       \* ref->count
    pcpu_count,  \* the counter of each CPU
    dead,        \* PCPU_REF_DEAD is set in ref->pcpu_count
    freed,       \* the per-CPU counters have been freed
    released,    \* calls of ref->release
    confirmed,   \* ref->confirm_kill has been called
    rcu,         \* progress of percpu_ref_kill_rcu()
    gpwait,      \* sections the grace period still waits for
    tosum,       \* CPUs not yet summed
    sum,         \* local count of percpu_ref_kill_rcu()
    call,        \* what each user is doing in a section, "none" outside
    cpu,         \* the CPU of the section, or NoCPU
    ptr_dead,    \* status bits of the pointer it read
    refs         \* references each user holds

vars == <<phase, count, pcpu_count, dead, freed, released, confirmed, rcu,
          gpwait, tosum, sum, call, cpu, ptr_dead, refs>>

refVars == <<count, pcpu_count, dead, freed, released, confirmed>>
rcuVars == <<rcu, gpwait, tosum, sum>>
taskVars == <<call, cpu, ptr_dead, refs>>

Wrap(x) == x % (2 * HalfRange)
\* Mutant: no bias holds the atomic count away from zero.
NoBias == 0

PCPU_COUNT_BIAS == HalfRange

\* "raw" before percpu_ref_init(), "nomem" when it failed, "ready" before the
\* first use, "used" from then on, "cancelled" after percpu_ref_cancel_init().
Phases == {"raw", "nomem", "ready", "used", "cancelled"}
Calls == {"none", "get", "tryget", "put"}

Init ==
    /\ phase = "raw"
    /\ count = 0
    /\ pcpu_count = [c \in CPUs |-> 0]
    /\ dead = FALSE
    /\ freed = FALSE
    /\ released = 0
    /\ confirmed = FALSE
    /\ rcu = "idle"
    /\ gpwait = {}
    /\ tosum = {}
    /\ sum = 0
    /\ call = [t \in Tasks |-> "none"]
    /\ cpu = [t \in Tasks |-> NoCPU]
    /\ ptr_dead = [t \in Tasks |-> FALSE]
    /\ refs = [t \in Tasks |-> 0]

-----------------------------------------------------------------------------
(* Life cycle.                                                             *)

\* percpu_ref_init(): the allocation succeeds or not.
PercpuRefInit ==
    /\ phase = "raw"
    /\ phase' \in {"ready", "nomem"}
    /\ count' = Wrap(1 + PCPU_COUNT_BIAS)
    /\ freed' = (phase' = "nomem")
    /\ UNCHANGED <<pcpu_count, dead, released, confirmed, rcuVars, taskVars>>

\* percpu_ref_cancel_init(), allowed while the reference count was never used.
PercpuRefCancelInit ==
    /\ phase \in {"ready", "nomem"}
    /\ phase' = "cancelled"
    /\ freed' = TRUE
    /\ UNCHANGED <<count, pcpu_count, dead, released, confirmed, rcuVars, taskVars>>

-----------------------------------------------------------------------------
(* percpu_ref_get(), percpu_ref_tryget(), percpu_ref_put().                *)

\* rcu_read_lock_sched() and the read of ref->pcpu_count.  Preemption is off:
\* at most one section per CPU.
Enter(t, c, what) ==
    /\ phase \in {"ready", "used"}
    /\ phase' = "used"
    /\ call[t] = "none"
    /\ \A u \in Tasks : cpu[u] # c
    /\ call' = [call EXCEPT ![t] = what]
    /\ cpu' = [cpu EXCEPT ![t] = c]
    /\ ptr_dead' = [ptr_dead EXCEPT ![t] = dead]
    /\ UNCHANGED <<refVars, rcuVars, refs>>

\* A get needs a reference to stand on: one of the caller's or, for the owner,
\* the initial one; a tryget needs none as long as the object is not released.
MayCall(t, what) ==
    CASE what = "get"    -> refs[t] < MaxRefs /\ (refs[t] > 0 \/ (t = Owner /\ ~dead))
      [] what = "tryget" -> refs[t] < MaxRefs /\ released = 0
      [] what = "put"    -> refs[t] > 0

EnterCall(t) ==
    \E c \in CPUs, what \in Calls \ {"none"} : MayCall(t, what) /\ Enter(t, c, what)

\* rcu_read_unlock_sched(): a grace period stops waiting for this section.
Leave(t, n) ==
    /\ call' = [call EXCEPT ![t] = "none"]
    /\ cpu' = [cpu EXCEPT ![t] = NoCPU]
    /\ ptr_dead' = [ptr_dead EXCEPT ![t] = FALSE]
    /\ refs' = [refs EXCEPT ![t] = n]
    /\ gpwait' = gpwait \ {t}
    /\ UNCHANGED <<phase, dead, freed, confirmed, rcu, tosum, sum>>

\* __this_cpu_inc(), __this_cpu_dec() on the counter of the section's CPU.
AddLocal(t, d) == pcpu_count' = [pcpu_count EXCEPT ![cpu[t]] = Wrap(@ + d)]

GetPercpu(t) ==
    /\ call[t] \in {"get", "tryget"} /\ ~ptr_dead[t]
    /\ AddLocal(t, 1)
    /\ Leave(t, refs[t] + 1)
    /\ UNCHANGED <<count, released>>

GetAtomic(t) ==
    /\ call[t] = "get" /\ ptr_dead[t]
    /\ count' = Wrap(count + 1)
    /\ Leave(t, refs[t] + 1)
    /\ UNCHANGED <<pcpu_count, released>>

TrygetFails(t) ==
    /\ call[t] = "tryget" /\ ptr_dead[t]
    /\ Leave(t, refs[t])
    /\ UNCHANGED <<count, pcpu_count, released>>

PutPercpu(t) ==
    /\ call[t] = "put" /\ ~ptr_dead[t]
    /\ AddLocal(t, -1)
    /\ Leave(t, refs[t] - 1)
    /\ UNCHANGED <<count, released>>

\* atomic_dec_and_test(&ref->count), and ref->release() at zero.
DecAndTest ==
    /\ count' = Wrap(count - 1)
    /\ released' = IF count' = 0 THEN released + 1 ELSE released

PutAtomic(t) ==
    /\ call[t] = "put" /\ ptr_dead[t]
    /\ DecAndTest
    /\ Leave(t, refs[t] - 1)
    /\ UNCHANGED pcpu_count

-----------------------------------------------------------------------------
(* percpu_ref_kill_and_confirm() and its RCU callback.                     *)

\* Mutant: sections under way are not waited for.
KillWithoutGracePeriod ==
    /\ phase \in {"ready", "used"}
    /\ call[Owner] = "none"
    /\ ~dead
    /\ phase' = "used"
    /\ dead' = TRUE
    /\ rcu' = "pending"
    /\ gpwait' = {}
    /\ UNCHANGED <<count, pcpu_count, freed, released, confirmed, tosum, sum, taskVars>>

\* Mutant: the confirmation is sent by percpu_ref_kill_and_confirm() itself.
KillConfirmsAtOnce ==
    /\ phase \in {"ready", "used"}
    /\ call[Owner] = "none"
    /\ ~dead
    /\ phase' = "used"
    /\ dead' = TRUE
    /\ confirmed' = TRUE
    /\ rcu' = "pending"
    /\ gpwait' = {t \in Tasks : call[t] # "none"}
    /\ UNCHANGED <<count, pcpu_count, freed, released, tosum, sum, taskVars>>

\* The pointer is marked and a grace period of RCU-sched is requested: it waits
\* for the sections that are under way.  "Must be called precisely once" is the
\* owner's obligation, a second call is only warned about.
Kill ==
    /\ phase \in {"ready", "used"}
    /\ call[Owner] = "none"
    /\ ~dead
    /\ phase' = "used"
    /\ dead' = TRUE
    /\ rcu' = "pending"
    /\ gpwait' = {t \in Tasks : call[t] # "none"}
    /\ UNCHANGED <<count, pcpu_count, freed, released, confirmed, tosum, sum, taskVars>>

\* The grace period is over and percpu_ref_kill_rcu() runs.
KillRcu ==
    /\ rcu = "pending"
    /\ gpwait = {}
    /\ rcu' = "sum"
    /\ tosum' = CPUs
    /\ sum' = 0
    /\ UNCHANGED <<phase, refVars, gpwait, taskVars>>

KillRcuSum(c) ==
    /\ rcu = "sum"
    /\ c \in tosum
    /\ sum' = Wrap(sum + pcpu_count[c])
    /\ tosum' = tosum \ {c}
    /\ UNCHANGED <<phase, refVars, rcu, gpwait, taskVars>>

\* Mutant: the bias stays in the count.
KillRcuKeepsBias ==
    /\ rcu = "sum"
    /\ tosum = {}
    /\ freed' = TRUE
    /\ count' = Wrap(count + sum)
    /\ confirmed' = TRUE
    /\ rcu' = "put"
    /\ UNCHANGED <<phase, pcpu_count, dead, released, gpwait, tosum, sum, taskVars>>

\* free_percpu(), then the sum in and the bias out in one atomic_add(), then
\* the confirmation.
KillRcuMerge ==
    /\ rcu = "sum"
    /\ tosum = {}
    /\ freed' = TRUE
    /\ count' = Wrap(count + sum - PCPU_COUNT_BIAS)
    /\ confirmed' = TRUE
    /\ rcu' = "put"
    /\ UNCHANGED <<phase, pcpu_count, dead, released, gpwait, tosum, sum, taskVars>>

\* The initial reference is dropped.
KillRcuPut ==
    /\ rcu = "put"
    /\ DecAndTest
    /\ rcu' = "done"
    /\ UNCHANGED <<phase, pcpu_count, dead, freed, confirmed, gpwait, tosum, sum, taskVars>>

-----------------------------------------------------------------------------
Section(t) ==
    GetPercpu(t) \/ GetAtomic(t) \/ TrygetFails(t) \/ PutPercpu(t) \/ PutAtomic(t)

RcuCallback == KillRcu \/ (\E c \in CPUs : KillRcuSum(c)) \/ KillRcuMerge \/ KillRcuPut

Next ==
    \/ PercpuRefInit \/ PercpuRefCancelInit \/ Kill \/ RcuCallback
    \/ \E t \in Tasks : EnterCall(t) \/ Section(t)

Spec == Init /\ [][Next]_vars

\* Preempt-disabled sections end, and the RCU callback runs once its grace
\* period is over.  Nothing obliges a user to put its references.
Fairness == WF_vars(RcuCallback) /\ \A t \in Tasks : WF_vars(Section(t))

FairSpec == Spec /\ Fairness

-----------------------------------------------------------------------------
(* Properties.                                                             *)

Counter == 0 .. 2 * HalfRange - 1

TypeOK ==
    /\ phase \in Phases
    /\ count \in Counter
    /\ pcpu_count \in [CPUs -> Counter]
    /\ dead \in BOOLEAN /\ freed \in BOOLEAN /\ confirmed \in BOOLEAN
    /\ released \in Nat
    /\ rcu \in {"idle", "pending", "sum", "put", "done"}
    /\ gpwait \subseteq Tasks
    /\ tosum \subseteq CPUs
    /\ sum \in Counter
    /\ call \in [Tasks -> Calls]
    /\ cpu \in [Tasks -> CPUs \cup {NoCPU}]
    /\ ptr_dead \in [Tasks -> BOOLEAN]
    /\ refs \in [Tasks -> 0..MaxRefs]

TotalRefs == MapThenSumSet(LAMBDA t : refs[t], Tasks)
PercpuSum == MapThenSumSet(LAMBDA c : pcpu_count[c], CPUs)

\* No reference is lost or counted twice by the switch from per-CPU counters to
\* the atomic one: until percpu_ref_kill_rcu() merges them the two together
\* (biased, modulo the range of unsigned) stand for the references held, even
\* though a single CPU's counter may have wrapped below zero; afterwards the
\* atomic counter alone does.
ExactCount ==
    phase = "used" =>
        IF rcu \in {"put", "done"}
        THEN count = TotalRefs + (IF rcu = "put" THEN 1 ELSE 0)
        ELSE Wrap(count + PercpuSum) = Wrap(TotalRefs + 1 + PCPU_COUNT_BIAS)

\* ref->release() runs at most once, only after the initial reference was
\* dropped, and only when no reference is held or about to be taken or put.
NoEarlyRelease ==
    released > 0 =>
        /\ released = 1
        /\ rcu = "done"
        /\ \A t \in Tasks : refs[t] = 0 /\ call[t] \in {"none", "tryget"}

\* No section that read the pointer as alive is still under way once
\* free_percpu() has run: nobody writes to a freed per-CPU counter.
NoUseAfterFree ==
    freed => \A t \in Tasks : call[t] = "none" \/ ptr_dead[t]

\* Types, and no write to the counters after percpu_ref_kill_rcu() freed them.
CounterSafety == TypeOK /\ NoUseAfterFree

\* "After the confirm_kill callback is invoked, it's guaranteed that no new
\* reference will be given out by percpu_ref_tryget()".
NoTrygetAfterConfirm ==
    [][confirmed => \A t \in Tasks : call[t] = "tryget" => refs'[t] = refs[t]]_vars

\* A killed reference count whose users put everything they hold is released.
EventuallyReleased ==
    <>[](dead /\ \A t \in Tasks : refs[t] = 0) => <>(released = 1)
=============================================================================

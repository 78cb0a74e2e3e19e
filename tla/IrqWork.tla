------------------------------ MODULE IrqWork ------------------------------
(***************************************************************************)
(* Callbacks in hard interrupt context: kernel/irq_work.c.                 *)
(*                                                                         *)
(* A work item is claimed by setting PENDING and BUSY, put on the lock-    *)
(* less list of the claimer's CPU and run there by the irq-work interrupt, *)
(* the tick, or the CPU's last act before it goes down.  The same item may *)
(* be claimed again as soon as its callback has started.                   *)
(*                                                                         *)
(* Callers are tasks, which can be interrupted and migrate between claim   *)
(* and queueing; callbacks, inside __irq_work_run(); and NMIs, which       *)
(* interrupt anything on a CPU that is not yet gone and finish before the  *)
(* CPU does anything else.                                                 *)
(***************************************************************************)
EXTENDS Naturals, FiniteSets

CONSTANTS Works, Lazy,       \* work items, those with IRQ_WORK_LAZY
          CPUs, NULL,
          Callers,           \* contexts calling irq_work_queue(), ...
          Nmi, Callbacks,    \* ... the NMIs and the callbacks among them
          Raising            \* CPUs where arch_irq_work_raise() raises an interrupt

ASSUME IrqWorkAssumption ==
    /\ IsFiniteSet(Works) /\ Lazy \subseteq Works /\ Raising \subseteq CPUs
    /\ Nmi \subseteq Callers /\ Callbacks \subseteq Callers \ Nmi
    /\ NULL \notin Works \cup CPUs

VARIABLES
    flags, next,     \* work->flags without LAZY, work->llnode.next
    first,           \* head of each CPU's irq_work_list
    raised, ipi,     \* irq_work_raised; the interrupt is pending
    tick,            \* "periodic" (a new CPU's, cannot be stopped), "ticking", "stopping"
                     \* (list found empty), "stopped", "due" (stopped, set for next jiffy)
    hotplug,         \* "online", "dying", "offline"
    pc, arg, cpu,    \* where each caller is, its work, its CPU
    run,             \* where __irq_work_run() is on each CPU
    work, llnode, lflags,   \* its locals
    owed,            \* history: items some caller wants run after its call
    late             \* history: items added to each list with nobody looking (Unheard)

workVars == <<flags, next, first>>
cpuVars == <<raised, ipi, tick, hotplug>>
callVars == <<pc, arg, cpu>>
runVars == <<run, work, llnode, lflags>>
vars == <<workVars, cpuVars, callVars, runVars, owed, late>>

Init ==
    /\ flags = [w \in Works |-> {}]
    /\ next = [w \in Works |-> NULL] /\ first = [c \in CPUs |-> NULL]
    /\ raised = [c \in CPUs |-> FALSE] /\ ipi = [c \in CPUs |-> FALSE]
    /\ tick = [c \in CPUs |-> "periodic"] /\ hotplug = [c \in CPUs |-> "online"]
    /\ pc = [t \in Callers |-> "idle"] /\ arg = [t \in Callers |-> NULL]
    /\ cpu = [t \in Callers |-> NULL]
    /\ run = [c \in CPUs |-> "idle"] /\ work = [c \in CPUs |-> NULL]
    /\ llnode = [c \in CPUs |-> NULL] /\ lflags = [c \in CPUs |-> {}]
    /\ owed = {} /\ late = [c \in CPUs |-> {}]

IRQ_WORK_FLAGS == {"PENDING", "BUSY"}

\* Contexts of S that are in the middle of a call on c.
OnCpu(S, c) == {t \in S : pc[t] # "idle" /\ cpu[t] = c}

NmiOn(c) == OnCpu(Nmi, c) # {}

\* Code of caller t can execute on c: an NMI always, a callback where one is running,
\* a task where interrupts are on.  Only a task can move to another CPU.
Executes(t, c) ==
    /\ OnCpu(Nmi, c) \subseteq {t}
    /\ t \in Nmi \cup Callbacks => cpu[t] \in {NULL, c}
    /\ \/ t \in Nmi /\ hotplug[c] # "offline"
       \/ t \in Callbacks /\ run[c] = "func" /\ OnCpu(Callbacks, c) \subseteq {t}
       \/ /\ t \notin Nmi \cup Callbacks
          /\ hotplug[c] = "online" /\ run[c] = "idle" /\ tick[c] # "stopping"

-----------------------------------------------------------------------------
(* irq_work_queue() and irq_work_sync().                                   *)

\* Mutant: an item whose callback is running cannot be claimed.
ClaimableIfFree(w) == flags[w] = {}

Claimable(w) == "PENDING" \notin flags[w]

\* irq_work_claim(): decided by the value its last cmpxchg() found.
Claim(t, w, c) ==
    /\ pc[t] = "idle" /\ Executes(t, c)
    /\ owed' = owed \cup {w}
    /\ IF Claimable(w)
       THEN /\ flags' = [flags EXCEPT ![w] = IRQ_WORK_FLAGS]
            /\ pc' = [pc EXCEPT ![t] = "add"]
            /\ arg' = [arg EXCEPT ![t] = w]
            /\ cpu' = [cpu EXCEPT ![t] = IF t \in Nmi \cup Callbacks THEN c ELSE NULL]
       ELSE UNCHANGED <<flags, callVars>>
    /\ UNCHANGED <<next, first, cpuVars, runVars, late>>

\* Nothing that follows the addition of w to the list of c is bound to look at it: the
\* CPU goes down, or the tick is about to stop and no interrupt will be raised.
Unheard(w, c) ==
    \/ hotplug[c] = "dying"
    \/ tick[c] = "stopping" /\ (w \in Lazy \/ c \notin Raising)
    \/ tick[c] = "stopped" /\ c \notin Raising

\* preempt_disable(); llist_add(), on the CPU a task has meanwhile moved to.
Add(t, c) ==
    /\ pc[t] = "add" /\ Executes(t, c)
    /\ next' = [next EXCEPT ![arg[t]] = first[c]]
    /\ first' = [first EXCEPT ![c] = arg[t]]
    /\ pc' = [pc EXCEPT ![t] = "raise"] /\ cpu' = [cpu EXCEPT ![t] = c]
    /\ late' = [late EXCEPT ![c] = IF Unheard(arg[t], c) THEN @ \cup {arg[t]} ELSE @]
    /\ UNCHANGED <<flags, cpuVars, arg, runVars, owed>>

\* The work is not lazy, or tick_nohz_tick_stopped().
NeedsRaise(w, c) == w \notin Lazy \/ tick[c] \in {"stopped", "due"}

Raise(t) ==
    LET c == cpu[t] IN
    /\ pc[t] = "raise" /\ Executes(t, c)
    /\ IF NeedsRaise(arg[t], c) /\ ~raised[c]
       THEN /\ raised' = [raised EXCEPT ![c] = TRUE]
            /\ ipi' = [ipi EXCEPT ![c] = @ \/ c \in Raising]
       ELSE UNCHANGED <<raised, ipi>>
    /\ pc' = [pc EXCEPT ![t] = "idle"]
    /\ arg' = [arg EXCEPT ![t] = NULL] /\ cpu' = [cpu EXCEPT ![t] = NULL]
    /\ UNCHANGED <<workVars, tick, hotplug, runVars, owed, late>>

Sync(t, w) ==
    /\ pc[t] = "idle" /\ t \notin Nmi \cup Callbacks
    /\ pc' = [pc EXCEPT ![t] = "sync"] /\ arg' = [arg EXCEPT ![t] = w]
    /\ UNCHANGED <<workVars, cpuVars, cpu, runVars, owed, late>>

\* while (work->flags & IRQ_WORK_BUSY) cpu_relax();
SyncReturn(t) ==
    /\ pc[t] = "sync" /\ "BUSY" \notin flags[arg[t]]
    /\ pc' = [pc EXCEPT ![t] = "idle"] /\ arg' = [arg EXCEPT ![t] = NULL]
    /\ UNCHANGED <<workVars, cpuVars, cpu, runVars, owed, late>>

-----------------------------------------------------------------------------
(* __irq_work_run(): entered from the interrupt, the tick and CPU_DYING.   *)

\* Interrupts are on, and an interrupt can be served.
IrqsOn(c) == run[c] = "idle" /\ hotplug[c] = "online" /\ ~NmiOn(c) /\ tick[c] # "stopping"

\* The entry: __this_cpu_write(irq_work_raised, 0).
EnterRun(c) ==
    /\ IrqsOn(c)
    /\ run' = [run EXCEPT ![c] = "take"]
    /\ raised' = [raised EXCEPT ![c] = FALSE]
    /\ UNCHANGED <<workVars, callVars, work, llnode, lflags, owed, late>>

Interrupt(c) ==
    /\ ipi[c] /\ ipi' = [ipi EXCEPT ![c] = FALSE]
    /\ EnterRun(c) /\ UNCHANGED <<tick, hotplug>>

\* update_process_times(); the first tick of a CPU lets it switch to NOHZ mode.
Tick(c) ==
    /\ EnterRun(c)
    /\ tick' = [tick EXCEPT ![c] = IF @ = "periodic" THEN "ticking" ELSE @]
    /\ UNCHANGED <<ipi, hotplug>>

\* irq_work_cpu_notify(): tasks have left the CPU, interrupts are off for good.
CpuDying(c) ==
    /\ \E d \in CPUs \ {c} : hotplug[d] = "online"
    /\ OnCpu({t \in Callers : pc[t] = "raise"}, c) = {}
    /\ EnterRun(c)
    /\ hotplug' = [hotplug EXCEPT ![c] = "dying"]
    /\ UNCHANGED <<ipi, tick>>

\* Mutant: the tick is stopped without asking irq_work_needs_cpu().
NeverNeedsCpu(c) == FALSE

irq_work_needs_cpu(c) == first[c] # NULL

\* The end of an interrupt: tick_nohz_irq_exit() looks at the list again, unless the
\* interrupt has woken a task and the CPU leaves the idle loop.
irq_exit(c) ==
    /\ \/ /\ tick[c] \in {"stopped", "due"}
          /\ tick' = [tick EXCEPT ![c] = IF irq_work_needs_cpu(c) THEN "due" ELSE "stopped"]
       \/ /\ tick[c] \in {"stopped", "due"}
          /\ tick' = [tick EXCEPT ![c] = "ticking"]
       \/ /\ tick[c] \notin {"stopped", "due"}
          /\ UNCHANGED tick
    /\ late' = [late EXCEPT ![c] = {}]

\* The function returns, from an interrupt or in the notifier chain of a dying CPU.
Return(c) ==
    /\ run' = [run EXCEPT ![c] = "idle"]
    /\ IF hotplug[c] = "dying" THEN UNCHANGED <<tick, late>> ELSE irq_exit(c)

Continue(c) == run' = [run EXCEPT ![c] = "fetch"] /\ UNCHANGED tick

\* llist_empty(), llist_del_all()
Take(c) ==
    /\ run[c] = "take" /\ ~NmiOn(c)
    /\ llnode' = [llnode EXCEPT ![c] = first[c]]
    /\ first' = [first EXCEPT ![c] = NULL]
    /\ IF first[c] = NULL THEN Return(c) ELSE Continue(c) /\ late' = [late EXCEPT ![c] = {}]
    /\ UNCHANGED <<flags, next, raised, ipi, hotplug, callVars, work, lflags, owed>>

NotPending(w) == flags[w] \ {"PENDING"}

\* llist_next() before the item can be claimed again; the read of ->flags.
Fetch(c) ==
    /\ run[c] = "fetch" /\ ~NmiOn(c)
    /\ work' = [work EXCEPT ![c] = llnode[c]]
    /\ llnode' = [llnode EXCEPT ![c] = next[llnode[c]]]
    /\ lflags' = [lflags EXCEPT ![c] = NotPending(llnode[c])]
    /\ run' = [run EXCEPT ![c] = "xchg"]
    /\ UNCHANGED <<workVars, cpuVars, callVars, owed, late>>

\* xchg(&work->flags, flags), then the callback starts.
StartFunc(c) ==
    /\ run[c] = "xchg" /\ ~NmiOn(c)
    /\ flags' = [flags EXCEPT ![work[c]] = lflags[c]]
    /\ owed' = owed \ {work[c]}
    /\ run' = [run EXCEPT ![c] = "func"]
    /\ UNCHANGED <<next, first, cpuVars, callVars, work, llnode, lflags, late>>

\* Mutant: BUSY is cleared whoever has claimed the item.
NotBusyAnyway(c) == flags[work[c]] \ {"BUSY"}

\* cmpxchg(&work->flags, flags, flags & ~IRQ_WORK_BUSY)
NotBusy(c) == IF flags[work[c]] = lflags[c] THEN lflags[c] \ {"BUSY"} ELSE flags[work[c]]

\* The callback has returned.
EndFunc(c) ==
    /\ run[c] = "func" /\ OnCpu(Nmi \cup Callbacks, c) = {}
    /\ flags' = [flags EXCEPT ![work[c]] = NotBusy(c)]
    /\ work' = [work EXCEPT ![c] = NULL] /\ lflags' = [lflags EXCEPT ![c] = {}]
    /\ IF llnode[c] = NULL THEN Return(c) ELSE Continue(c) /\ UNCHANGED late
    /\ UNCHANGED <<next, first, raised, ipi, hotplug, callVars, llnode, owed>>

-----------------------------------------------------------------------------
(* The tick of an idle CPU, and a CPU that goes and comes back.            *)

tickVars == <<workVars, raised, ipi, hotplug, callVars, owed>>

\* tick_nohz_stop_sched_tick() of a ticking CPU; an NMI can come in between.
StopTickCheck(c) ==
    /\ tick[c] = "ticking" /\ IrqsOn(c) /\ ~irq_work_needs_cpu(c)
    /\ tick' = [tick EXCEPT ![c] = "stopping"]
    /\ UNCHANGED <<tickVars, runVars, late>>

StopTick(c) ==
    /\ tick[c] = "stopping" /\ ~NmiOn(c)
    /\ tick' = [tick EXCEPT ![c] = "stopped"]
    /\ UNCHANGED <<tickVars, runVars, late>>

\* tick_nohz_idle_exit()
RestartTick(c) ==
    /\ tick[c] \in {"stopped", "due"} /\ IrqsOn(c)
    /\ tick' = [tick EXCEPT ![c] = "ticking"]
    /\ UNCHANGED <<tickVars, runVars, late>>

\* Any other interrupt.
OtherInterrupt(c) == IrqsOn(c) /\ irq_exit(c) /\ UNCHANGED <<tickVars, runVars>>

\* play_dead(), where what is pending is lost, and tick_cancel_sched_timer()
CpuDead(c) ==
    /\ hotplug[c] = "dying" /\ run[c] = "idle" /\ ~NmiOn(c)
    /\ hotplug' = [hotplug EXCEPT ![c] = "offline"] /\ ipi' = [ipi EXCEPT ![c] = FALSE]
    /\ tick' = [tick EXCEPT ![c] = "periodic"]
    /\ UNCHANGED <<workVars, raised, callVars, runVars, owed, late>>

CpuOnline(c) ==
    /\ hotplug[c] = "offline"
    /\ hotplug' = [hotplug EXCEPT ![c] = "online"]
    /\ UNCHANGED <<workVars, raised, ipi, tick, callVars, runVars, owed, late>>

-----------------------------------------------------------------------------
CallStep(t) == (\E c \in CPUs : Add(t, c)) \/ Raise(t)

RunStep(c) == Interrupt(c) \/ Tick(c) \/ Take(c) \/ Fetch(c) \/ StartFunc(c) \/ EndFunc(c)

Next ==
    \/ \E t \in Callers, w \in Works, c \in CPUs : Claim(t, w, c)
    \/ \E t \in Callers, w \in Works : Sync(t, w)
    \/ \E t \in Callers : CallStep(t) \/ SyncReturn(t)
    \/ \E c \in CPUs : RunStep(c) \/ OtherInterrupt(c)
                       \/ CpuDying(c) \/ CpuDead(c) \/ CpuOnline(c)
                       \/ StopTickCheck(c) \/ StopTick(c) \/ RestartTick(c)

Spec == Init /\ [][Next]_vars

-----------------------------------------------------------------------------
(* Properties.                                                             *)

Nodes == Works \cup {NULL}

\* Types of the variables; the flags __irq_work_run() works with lack PENDING.
TypeOK ==
    /\ flags \in [Works -> SUBSET IRQ_WORK_FLAGS]
    /\ next \in [Works -> Nodes] /\ first \in [CPUs -> Nodes]
    /\ raised \in [CPUs -> BOOLEAN] /\ ipi \in [CPUs -> BOOLEAN]
    /\ tick \in [CPUs -> {"periodic", "ticking", "stopping", "stopped", "due"}]
    /\ hotplug \in [CPUs -> {"online", "dying", "offline"}]
    /\ pc \in [Callers -> {"idle", "add", "raise", "sync"}] /\ arg \in [Callers -> Nodes]
    /\ cpu \in [Callers -> CPUs \cup {NULL}]
    /\ run \in [CPUs -> {"idle", "take", "fetch", "xchg", "func"}]
    /\ work \in [CPUs -> Nodes] /\ llnode \in [CPUs -> Nodes]
    /\ lflags \in [CPUs -> SUBSET {"BUSY"}] /\ owed \subseteq Works
    /\ late \in [CPUs -> SUBSET Works]

\* Items on the chain that starts at node p: those that no set avoids that has p in it
\* and is closed under ->llnode.next.
Chain(p) ==
    {w \in Works : ~\E S \in SUBSET (Nodes \ {w}) :
        p \in S /\ \A v \in S \ {NULL} : next[v] \in S}

\* Places that hold item w until its callback starts: a claimer on its way to the
\* list, a list, the rest of a runner's chain, a runner before the callback.
Holders(w) ==
    {<<"caller", t>> : t \in {u \in Callers : pc[u] = "add" /\ arg[u] = w}}
    \cup {<<"list", c>> : c \in {d \in CPUs : w \in Chain(first[d])}}
    \cup {<<"chain", c>> : c \in {d \in CPUs : w \in Chain(llnode[d])}}
    \cup {<<"runner", c>> : c \in {d \in CPUs : run[d] = "xchg" /\ work[d] = w}}

\* PENDING and the lists agree: a pending item is in exactly one place, one that
\* is not pending is in none, although ->llnode is reused while an earlier run of
\* the callback is still going on.
PendingInOnePlace ==
    \A w \in Works : Cardinality(Holders(w)) = IF "PENDING" \in flags[w] THEN 1 ELSE 0

\* Nobody's request is dropped: after irq_work_queue(), also one that found the
\* item pending, the item stays pending until a run of the callback starts.
NoLostRequest == \A w \in owed : "PENDING" \in flags[w]

\* Types, PENDING in step with the lists, and no request dropped.
PendingInv == TypeOK /\ PendingInOnePlace /\ NoLostRequest

\* Some event is bound to run the list of c: the interrupt, or a tick.
WillRun(c) == ipi[c] \/ run[c] = "take" \/ tick[c] \in {"periodic", "ticking", "due"}

\* Work on the list of a running CPU has something that will run it, or its caller is
\* still about to decide.  The exceptions are the items added unheard: no interrupt has
\* ended on the CPU since then.
WorkHasWaker ==
    \A c \in CPUs : hotplug[c] = "online" /\ ~WillRun(c) =>
        \A w \in Chain(first[c]) :
            w \in late[c] \/ \E t \in Callers : pc[t] = "raise" /\ cpu[t] = c /\ arg[t] = w

\* A CPU takes no work down with it except what an NMI or a callback added after the
\* list was flushed for the last time.
FlushedBeforeOffline ==
    \A c \in CPUs : hotplug[c] = "offline" => Chain(first[c]) \subseteq late[c]

\* Queued work is stuck neither on a running CPU nor on a dead one, but for the calls the
\* code has no answer to.
WorkWillRun == WorkHasWaker /\ FlushedBeforeOffline

\* irq_work_sync() does not return while the item waits for its callback.
SyncWaitsForPending ==
    [][\A t \in Callers, w \in Works :
          pc[t] = "sync" /\ arg[t] = w /\ pc'[t] = "idle" => Holders(w) = {}]_vars

=============================================================================

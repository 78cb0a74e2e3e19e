------------------------------ MODULE CpuStop ------------------------------
(***************************************************************************)
(* CPU stoppers and stop_machine(): kernel/stop_machine.c, with the part   *)
(* of kernel/smpboot.c and kernel/cpu.c that parks and unparks a stopper.  *)
(*                                                                         *)
(* Each CPU has a stopper thread with a list of works.  stop_one_cpu()     *)
(* queues one work and waits; stop_machine() queues one work on every      *)
(* online CPU, and the stoppers go through the stopmachine states in       *)
(* lock-step so that the function runs while every CPU spins with          *)
(* interrupts off.  Taking a CPU down is such a function, which also tells *)
(* the stopper it runs in to park.                                         *)
(*                                                                         *)
(* A caller makes one call; its name stands for the works it queues and    *)
(* for its cpu_stop_done and stop_machine_data, which are on its stack.    *)
(* It runs on a fixed CPU, where a runnable stopper preempts it.           *)
(***************************************************************************)
EXTENDS Integers, FiniteSets, SequencesExt

CONSTANTS Cpus, Callers, NULL,
          Op,        \* "one", "machine" or "hotplug" (down, then up again)
          Home,      \* CPU each caller runs on
          Target     \* CPU the function runs on, or that is taken down

ASSUME CpuStopAssumption ==
    /\ IsFiniteSet(Cpus) /\ Cpus # {} /\ NULL \notin Cpus \cup Callers
    /\ Op \in [Callers -> {"one", "machine", "hotplug"}]
    /\ Home \in [Callers -> Cpus] /\ Target \in [Callers -> Cpus]
    /\ \A h \in Callers : Op[h] = "hotplug" => \A c \in Callers : Home[c] # Target[h]

VARIABLES
    works, enabled,          \* of each stopper
    online,                  \* cpu_online_mask
    should_park,             \* KTHREAD_SHOULD_PARK of the stopper thread
    thread, work, curstate,  \* where each stopper is, and its locals
    nr_todo, executed, completion,   \* struct cpu_stop_done
    num_threads, state, thread_ack,  \* struct stop_machine_data
    failed,                  \* the function returned an error
    pc, todo,                \* where each caller is, CPUs still to queue on
    hotplug,                 \* holders of cpu_hotplug, readers or one writer
    stop_cpus_mutex

stopperVars == <<works, enabled, should_park, thread, work, curstate>>
doneVars == <<nr_todo, executed, completion>>
dataVars == <<num_threads, state, thread_ack, failed>>
callerVars == <<pc, todo, hotplug, stop_cpus_mutex>>
vars == <<stopperVars, online, doneVars, dataVars, callerVars>>

\* enum stopmachine_state
NONE == 0
PREPARE == 1
DISABLE_IRQ == 2
RUN == 3
EXIT == 4

Init ==
    /\ works = [c \in Cpus |-> <<>>] /\ enabled = [c \in Cpus |-> TRUE]
    /\ online = Cpus /\ should_park = [c \in Cpus |-> FALSE]
    /\ thread = [c \in Cpus |-> "loop"] /\ work = [c \in Cpus |-> NULL]
    /\ curstate = [c \in Cpus |-> NONE]
    /\ nr_todo = [p \in Callers |-> 0] /\ executed = [p \in Callers |-> FALSE]
    /\ completion = [p \in Callers |-> FALSE]
    /\ num_threads = [p \in Callers |-> 0] /\ state = [p \in Callers |-> NONE]
    /\ thread_ack = [p \in Callers |-> 0] /\ failed = [p \in Callers |-> FALSE]
    /\ pc = [p \in Callers |-> "start"] /\ todo = [p \in Callers |-> {}]
    /\ hotplug = {} /\ stop_cpus_mutex = NULL

-----------------------------------------------------------------------------
(* Scheduling.  The stopper is the highest priority task of its CPU.       *)

PreemptDisabled(p) == pc[p] = "queue" /\ Op[p] # "one"

StopperRunnable(c) ==
    \/ thread[c] \notin {"loop", "parked"}
    \/ thread[c] = "loop" /\ (should_park[c] \/ works[c] # <<>>)
    \/ thread[c] = "parked" /\ ~should_park[c]

CallerRuns(p) ==
    /\ PreemptDisabled(p) \/ ~StopperRunnable(Home[p])
    /\ \A q \in Callers \ {p} : Home[q] = Home[p] => ~PreemptDisabled(q)

StopperRuns(c) == \A p \in Callers : Home[p] = c => ~PreemptDisabled(p)

At(p, from, to) == pc[p] = from /\ CallerRuns(p) /\ pc' = [pc EXCEPT ![p] = to]

Goto(c, from, to) == thread[c] = from /\ StopperRuns(c) /\ thread' = [thread EXCEPT ![c] = to]

-----------------------------------------------------------------------------
(* Completion.                                                             *)

\* The caller's stack frame is still there.
Waiting(p) == pc[p] \in {"queue", "wait"}

\* cpu_stop_signal_done() for one work of each caller in P
Signalled(P, ran) ==
    /\ nr_todo' = [p \in Callers |-> nr_todo[p] - IF p \in P /\ Waiting(p) THEN 1 ELSE 0]
    /\ executed' = [p \in Callers |-> executed[p] \/ (ran /\ p \in P /\ Waiting(p))]
    /\ completion' = [p \in Callers |-> completion[p] \/ (p \in P /\ Waiting(p) /\ nr_todo[p] = 1)]

\* Mutant: the completion counts one work whatever the mask.
InitDoneOnce(n) == 1

\* cpu_stop_init_done()
InitDone(n) == n

-----------------------------------------------------------------------------
(* The callers.                                                            *)

stop_one_cpu(p) ==
    /\ Op[p] = "one" /\ At(p, "start", "queue")
    /\ nr_todo' = [nr_todo EXCEPT ![p] = InitDone(1)] /\ todo' = [todo EXCEPT ![p] = {Target[p]}]
    /\ UNCHANGED <<stopperVars, online, executed, completion, dataVars, hotplug, stop_cpus_mutex>>

\* No CPU is going down or coming up.
NoHotplug == \A q \in hotplug : Op[q] # "hotplug"

\* _cpu_down() may take down CPU c.
CanGoDown(c) == c \in online /\ Cardinality(online) > 1

\* get_online_cpus() or cpu_hotplug_begin(), then __stop_machine(): the number of
\* threads and the first state.
StartMachine(p) ==
    /\ Op[p] # "one" /\ At(p, "start", "mutex") /\ NoHotplug
    /\ Op[p] = "hotplug" => CanGoDown(Target[p]) /\ hotplug = {}
    /\ hotplug' = hotplug \cup {p}
    /\ num_threads' = [num_threads EXCEPT ![p] = Cardinality(online)]
    /\ thread_ack' = [thread_ack EXCEPT ![p] = Cardinality(online)]
    /\ state' = [state EXCEPT ![p] = PREPARE]
    /\ UNCHANGED <<stopperVars, online, doneVars, failed, todo, stop_cpus_mutex>>

\* _cpu_down() returns before that: at once, or because a notifier objects.
CpuDownRefused(p) ==
    /\ Op[p] = "hotplug" /\ At(p, "start", "done") /\ NoHotplug
    /\ CanGoDown(Target[p]) => hotplug = {}
    /\ UNCHANGED <<stopperVars, online, doneVars, dataVars, todo, hotplug, stop_cpus_mutex>>

\* Mutant: two callers queue their works at the same time.
NotContended(p) == TRUE

\* mutex_lock(&stop_cpus_mutex) gets the mutex.
MutexFree(p) == stop_cpus_mutex = NULL

stop_cpus(p) ==
    /\ At(p, "mutex", "queue") /\ MutexFree(p)
    /\ stop_cpus_mutex' = p
    /\ nr_todo' = [nr_todo EXCEPT ![p] = InitDone(Cardinality(online))]
    /\ todo' = [todo EXCEPT ![p] = online]
    /\ UNCHANGED <<stopperVars, online, executed, completion, dataVars, hotplug>>

CompletedAtOnce(c) == {p \in Callers : ~enabled[c]}

\* queue_stop_cpus_work(), one CPU of its loop
cpu_stop_queue_work(p, c) ==
    /\ pc[p] = "queue" /\ CallerRuns(p) /\ c \in todo[p]
    /\ todo' = [todo EXCEPT ![p] = @ \ {c}]
    /\ works' = [works EXCEPT ![c] = IF enabled[c] THEN Append(@, p) ELSE @]
    /\ Signalled({p} \cap CompletedAtOnce(c), FALSE)
    /\ UNCHANGED <<enabled, should_park, thread, work, curstate, online, dataVars,
                   pc, hotplug, stop_cpus_mutex>>

Queued(p) ==
    /\ At(p, "queue", "wait") /\ todo[p] = {}
    /\ UNCHANGED <<stopperVars, online, doneVars, dataVars, todo, hotplug, stop_cpus_mutex>>

wait_for_completion(p) ==
    /\ At(p, "wait", IF Op[p] = "one" THEN "done" ELSE "stopped") /\ completion[p]
    /\ stop_cpus_mutex' = IF Op[p] = "one" THEN stop_cpus_mutex ELSE NULL
    /\ UNCHANGED <<stopperVars, online, doneVars, dataVars, todo, hotplug>>

put_online_cpus(p) ==
    /\ Op[p] = "machine" /\ At(p, "stopped", "done")
    /\ hotplug' = hotplug \ {p}
    /\ UNCHANGED <<stopperVars, online, doneVars, dataVars, todo, stop_cpus_mutex>>

\* The rest of _cpu_down(): the dead CPU runs its idle task, and cpu_hotplug_done(); or it
\* did not die.
CpuDead(p) ==
    /\ Op[p] = "hotplug" /\ At(p, "stopped", IF failed[p] THEN "unpark" ELSE "up")
    /\ failed[p] \/ thread[Target[p]] = "parked"
    /\ hotplug' = IF failed[p] THEN hotplug ELSE hotplug \ {p}
    /\ UNCHANGED <<stopperVars, online, doneVars, dataVars, todo, stop_cpus_mutex>>

\* _cpu_up(): cpu_hotplug_begin() and __cpu_up(), ...
CpuUp(p) ==
    /\ At(p, "up", "unpark") /\ hotplug = {} /\ Target[p] \notin online
    /\ hotplug' = {p} /\ online' = online \cup {Target[p]}
    /\ UNCHANGED <<stopperVars, doneVars, dataVars, todo, stop_cpus_mutex>>

\* ... or it fails, and cpu_hotplug_done().
CpuUpFailed(p) ==
    /\ At(p, "up", "done") /\ hotplug = {}
    /\ UNCHANGED <<stopperVars, online, doneVars, dataVars, todo, hotplug, stop_cpus_mutex>>

\* smpboot_unpark_thread(): ->pre_unpark, ...
cpu_stop_unpark(p) ==
    /\ At(p, "unpark", "kthread_unpark") /\ enabled' = [enabled EXCEPT ![Target[p]] = TRUE]
    /\ UNCHANGED <<works, should_park, thread, work, curstate, online, doneVars, dataVars,
                   todo, hotplug, stop_cpus_mutex>>

\* ... kthread_unpark(), and cpu_hotplug_done()
kthread_unpark(p) ==
    /\ At(p, "kthread_unpark", "done")
    /\ should_park' = [should_park EXCEPT ![Target[p]] = FALSE]
    /\ hotplug' = hotplug \ {p}
    /\ UNCHANGED <<works, enabled, thread, work, curstate, online, doneVars, dataVars,
                   todo, stop_cpus_mutex>>

-----------------------------------------------------------------------------
(* The stopper thread: smpboot_thread_fn().                                *)

ThreadPark(c) ==
    /\ Goto(c, "loop", "park") /\ should_park[c]
    /\ UNCHANGED <<works, enabled, should_park, work, curstate, online, doneVars, dataVars, callerVars>>

\* The works are signalled and stay on the list.
cpu_stop_park(c) ==
    /\ Goto(c, "park", "parked")
    /\ Signalled(ToSet(works[c]), FALSE)
    /\ enabled' = [enabled EXCEPT ![c] = FALSE]
    /\ UNCHANGED <<works, should_park, work, curstate, online, dataVars, callerVars>>

Unparked(c) ==
    /\ Goto(c, "parked", "loop") /\ ~should_park[c]
    /\ UNCHANGED <<works, enabled, should_park, work, curstate, online, doneVars, dataVars, callerVars>>

cpu_stop_should_run(c) ==
    /\ Goto(c, "loop", "repeat") /\ ~should_park[c] /\ works[c] # <<>>
    /\ UNCHANGED <<works, enabled, should_park, work, curstate, online, doneVars, dataVars, callerVars>>

\* cpu_stopper_thread(): the next work, or back to the loop.
TakeWork(c) ==
    LET some == works[c] # <<>> IN
    /\ Goto(c, "repeat", IF some THEN "fn" ELSE "loop")
    /\ work' = [work EXCEPT ![c] = IF some THEN Head(works[c]) ELSE NULL]
    /\ works' = [works EXCEPT ![c] = IF some THEN Tail(@) ELSE @]
    /\ curstate' = [curstate EXCEPT ![c] = NONE]
    /\ UNCHANGED <<enabled, should_park, online, doneVars, dataVars, callerVars>>

\* The function of stop_one_cpu().
RunOne(c) ==
    /\ Goto(c, "fn", "signal") /\ Op[work[c]] = "one"
    /\ UNCHANGED <<works, enabled, should_park, work, curstate, online, doneVars, dataVars, callerVars>>

cpu_stop_signal_done(c) ==
    /\ Goto(c, "signal", "repeat")
    /\ Signalled({work[c]}, TRUE) /\ work' = [work EXCEPT ![c] = NULL]
    /\ UNCHANGED <<works, enabled, should_park, curstate, online, dataVars, callerVars>>

-----------------------------------------------------------------------------
(* stop_machine_cpu_stop()                                                 *)

\* A new state is seen; interrupts are off from DISABLE_IRQ on.
ReadState(c) ==
    LET s == state[work[c]] IN
    /\ Goto(c, "fn", "act") /\ Op[work[c]] # "one" /\ s # curstate[c]
    /\ curstate' = [curstate EXCEPT ![c] = s]
    /\ UNCHANGED <<works, enabled, should_park, work, online, doneVars, dataVars, callerVars>>

\* The CPU runs the caller's function.
RunsFn(c) == thread[c] = "act" /\ curstate[c] = RUN /\ c = Target[work[c]]

\* What is done in a state: the function, and for take_cpu_down() that may fail,
\* the CPU leaves the mask and kthread_park(current) marks the stopper.
Act(c) ==
    LET p == work[c] IN
    /\ Goto(c, "act", "ack")
    /\ \/ /\ RunsFn(c) /\ Op[p] = "hotplug"
          /\ online' = online \ {c} /\ should_park' = [should_park EXCEPT ![c] = TRUE]
          /\ UNCHANGED failed
       \/ /\ RunsFn(c) /\ Op[p] = "hotplug"
          /\ failed' = [failed EXCEPT ![p] = TRUE]
          /\ UNCHANGED <<online, should_park>>
       \/ /\ ~(RunsFn(c) /\ Op[p] = "hotplug")
          /\ UNCHANGED <<online, should_park, failed>>
    /\ UNCHANGED <<works, enabled, work, curstate, doneVars, num_threads, state, thread_ack, callerVars>>

\* Mutant: one acknowledgement is not waited for.
NextToLastAck(n) == n <= 2

LastAck(n) == n = 1

\* atomic_dec_and_test()
ack_state(c) ==
    LET p == work[c] IN
    /\ Goto(c, "ack", IF LastAck(thread_ack[p]) THEN "reset"
                      ELSE IF curstate[c] = EXIT THEN "signal" ELSE "fn")
    /\ thread_ack' = [thread_ack EXCEPT ![p] = @ - 1]
    /\ UNCHANGED <<works, enabled, should_park, work, curstate, online, doneVars,
                   num_threads, state, failed, callerVars>>

AfterSetState(c) == IF curstate[c] = EXIT THEN "signal" ELSE "fn"

\* set_state(): the counter first, then the state.
SetAck(c) ==
    /\ Goto(c, "reset", "advance")
    /\ thread_ack' = [thread_ack EXCEPT ![work[c]] = num_threads[work[c]]]
    /\ UNCHANGED <<works, enabled, should_park, work, curstate, online, doneVars,
                   num_threads, state, failed, callerVars>>

SetState(c) ==
    /\ Goto(c, "advance", AfterSetState(c))
    /\ state' = [state EXCEPT ![work[c]] = @ + 1]
    /\ UNCHANGED <<works, enabled, should_park, work, curstate, online, doneVars,
                   num_threads, thread_ack, failed, callerVars>>

-----------------------------------------------------------------------------
Caller(p) ==
    \/ stop_one_cpu(p) \/ StartMachine(p) \/ stop_cpus(p) \/ Queued(p)
    \/ (\E c \in Cpus : cpu_stop_queue_work(p, c))
    \/ wait_for_completion(p) \/ put_online_cpus(p)
    \/ CpuDownRefused(p) \/ CpuDead(p) \/ CpuUp(p) \/ CpuUpFailed(p)
    \/ cpu_stop_unpark(p) \/ kthread_unpark(p)

Stopper(c) ==
    \/ ThreadPark(c) \/ cpu_stop_park(c) \/ Unparked(c)
    \/ cpu_stop_should_run(c) \/ TakeWork(c) \/ RunOne(c) \/ cpu_stop_signal_done(c)
    \/ ReadState(c) \/ Act(c) \/ ack_state(c) \/ SetAck(c) \/ SetState(c)

Next == (\E p \in Callers : Caller(p)) \/ (\E c \in Cpus : Stopper(c))

Spec == Init /\ [][Next]_vars

\* Runnable threads are scheduled, and functions return.
FairSpec == Spec /\ (\A p \in Callers : WF_vars(Caller(p))) /\ (\A c \in Cpus : WF_vars(Stopper(c)))

-----------------------------------------------------------------------------
(* Properties.                                                             *)

\* Types; an acknowledgement counter never goes below zero.
TypeOK ==
    /\ works \in [Cpus -> Seq(Callers)] /\ enabled \in [Cpus -> BOOLEAN]
    /\ online \subseteq Cpus /\ should_park \in [Cpus -> BOOLEAN]
    /\ thread \in [Cpus -> {"loop", "park", "parked", "repeat", "fn", "act", "ack", "reset",
                            "advance", "signal"}]
    /\ work \in [Cpus -> Callers \cup {NULL}] /\ curstate \in [Cpus -> NONE .. EXIT + 1]
    /\ nr_todo \in [Callers -> Int] /\ executed \in [Callers -> BOOLEAN]
    /\ completion \in [Callers -> BOOLEAN]
    /\ num_threads \in [Callers -> 0 .. Cardinality(Cpus)] /\ state \in [Callers -> NONE .. EXIT + 1]
    /\ thread_ack \in [Callers -> 0 .. Cardinality(Cpus)] /\ failed \in [Callers -> BOOLEAN]
    /\ pc \in [Callers -> {"start", "mutex", "queue", "wait", "stopped", "up", "unpark",
                           "kthread_unpark", "done"}]
    /\ todo \in [Callers -> SUBSET Cpus] /\ hotplug \subseteq Callers
    /\ stop_cpus_mutex \in Callers \cup {NULL}

\* In the stop_machine() of p, with interrupts off.
Stopped(p, c) == work[c] = p /\ curstate[c] \in {DISABLE_IRQ, RUN} /\ thread[c] # "signal"

\* The function of stop_machine() runs while every online CPU spins in the stopper,
\* interrupts off: nothing else runs anywhere.
MachineStopped ==
    \A c \in Cpus :
        RunsFn(c) /\ Op[work[c]] # "one" => \A d \in online : Stopped(work[c], d)

\* The stoppers of one stop_machine() are never more than a state apart, and none is
\* ahead of the shared state.
LockStep ==
    \A c, d \in Cpus :
        LET p == work[c] IN
        p # NULL /\ p = work[d] /\ Op[p] # "one" /\ curstate[c] # NONE =>
            /\ curstate[c] <= state[p]
            /\ curstate[c] <= curstate[d] + 1 \/ (curstate[d] = NONE /\ curstate[c] <= PREPARE)

\* The rendezvous of stop_machine(): in lock step, and the function alone.
Rendezvous == MachineStopped /\ LockStep

\* Times p is on the list of c, or being executed there.
Outstanding(p, c) ==
    Cardinality({i \in DOMAIN works[c] : works[c][i] = p}) + IF work[c] = p THEN 1 ELSE 0

\* A call waits for exactly the works that are still to be done for it, and is not
\* left behind by a CPU that goes down.
CompletionExact ==
    \A p \in Callers : Waiting(p) /\ ~completion[p] =>
        nr_todo[p] = Cardinality(todo[p]) + Cardinality(
            UNION {{<<c, i>> : i \in 1 .. IF enabled[c] THEN Outstanding(p, c) ELSE 0} : c \in Cpus})

\* A call that returned the value of its function is over: no stopper executes a work
\* for it any more.  (Works that cpu_stop_park() signalled stay on the list, and the
\* caller was told -ENOENT.)
NotRunAfterSuccess ==
    \A c \in Cpus : thread[c] = "fn" => Waiting(work[c]) \/ ~executed[work[c]]

\* Types, completions exact, and works no longer run for calls that succeeded.
CompletionInv == TypeOK /\ CompletionExact /\ NotRunAfterSuccess

\* Every call returns: stoppers do not wait for each other for ever, in any order of
\* the callers, also while a CPU goes down and comes up.
EveryCallReturns == <>(\A p \in Callers : pc[p] = "done")
=============================================================================

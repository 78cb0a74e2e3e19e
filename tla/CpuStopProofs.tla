--------------------------- MODULE CpuStopProofs ---------------------------
(***************************************************************************)
(* Proofs about stop_machine() and stop_one_cpu(), for any CPUs and        *)
(* callers.                                                                *)
(***************************************************************************)
EXTENDS CpuStop, CollectionLemmas

-----------------------------------------------------------------------------
(* The inductive invariant.                                                *)

Machine(p) == Op[p] # "one"

\* A work of p is on the list of c or being executed there.
On(p, c) == InList(works[c], p) \/ work[c] = p

\* Where each kind of call can be, and what it holds there.
CallOK(p) ==
    /\ Op[p] = "one" => pc[p] \in {"start", "queue", "wait", "done"}
    /\ Op[p] = "machine" => pc[p] \notin {"up", "unpark", "kthread_unpark"}
    /\ p \in hotplug <=> Machine(p) /\ pc[p] \notin {"start", "up", "done"}
    /\ stop_cpus_mutex = p <=> Machine(p) /\ Waiting(p)
    /\ p \in hotplug /\ Op[p] = "hotplug" => hotplug = {p}
    /\ pc[p] # "queue" => todo[p] = {}
    /\ pc[p] \in {"start", "mutex"} => ~completion[p] /\ ~executed[p] /\ ~failed[p]

\* A stop_machine() that waits for the mutex counted the CPUs that are online.
ReadyOK(p) ==
    pc[p] = "mutex" => /\ num_threads[p] = Cardinality(online)
                       /\ thread_ack[p] = num_threads[p] /\ state[p] = PREPARE

\* A stopper executes one work, and has no other of the same call.
WorkOK(c) ==
    /\ work[c] # NULL <=> thread[c] \in {"fn", "act", "ack", "reset", "advance", "signal"}
    /\ thread[c] \in {"act", "ack", "reset", "advance"} => Machine(work[c])
    /\ DupFree(works[c]) /\ ~InList(works[c], work[c])

\* The works of p: queued once, and those of stop_machine() are there only while it waits.
OnOK(p, c) ==
    /\ On(p, c) => pc[p] \notin {"start", "mutex"} /\ c \notin todo[p]
    /\ On(p, c) /\ Machine(p) => Waiting(p) /\ enabled[c]
    /\ On(p, c) \/ c \in todo[p] => Machine(p) \/ c = Target[p]

\* The function of the CPU hotplug operation h has been run on its target.
Acted(h) ==
    /\ Op[h] = "hotplug" /\ pc[h] \notin {"start", "mutex"}
    /\ Waiting(h) => state[h] >= RUN
    /\ work[Target[h]] = h => curstate[Target[h]] >= RUN /\ ~RunsFn(Target[h])

\* The CPUs that take part in the stop_machine() of p and have not left it.
Parts(p) == {c \in Cpus : c \in todo[p] \/ On(p, c)}

\* CPU c is down: its stopper is parked, and no stop_machine() counts on it.
Dead(c) ==
    /\ c \notin online /\ thread[c] = "parked"
    /\ \A p \in Callers : Machine(p) => c \notin Parts(p)

\* A stopper is to park for the CPU hotplug operation under way that has it as its target,
\* from when the CPU is no longer online until it has come up again, or because it is dead.
ParkOK(c) ==
    /\ should_park[c] => (\E h \in hotplug : Target[h] = c /\ Acted(h)) \/ Dead(c)
    /\ should_park[c] /\ c \in online =>
        \E h \in hotplug : Target[h] = c /\ pc[h] \in {"unpark", "kthread_unpark"}
    /\ ~enabled[c] => thread[c] = "parked" /\ should_park[c]
    /\ thread[c] = "park" => should_park[c]

PlugOK(h) ==
    /\ failed[h] => Acted(h)
    /\ h \in hotplug /\ failed[h] => ~should_park[Target[h]]
    /\ pc[h] \in {"unpark", "kthread_unpark"} =>
        thread[Target[h]] = "parked" \/ ~should_park[Target[h]]
    /\ pc[h] = "kthread_unpark" => enabled[Target[h]]
    /\ pc[h] = "up" => ~failed[h]

\* Those that have not acknowledged the current state.
Late(p) ==
    {c \in Parts(p) : ~(work[c] = p /\ curstate[c] = state[p]
                        /\ thread[c] \in {"fn", "reset", "advance", "signal"})}

\* Where the stopper of c is in the stop_machine() of p.
StepOK(p, c) ==
    /\ thread[c] \in {"act", "ack", "reset", "advance"} => curstate[c] = state[p] /\ state[p] <= EXIT
    /\ thread[c] = "fn" =>
        \/ curstate[c] = state[p] /\ state[p] < EXIT
        \/ curstate[c] = state[p] - 1 /\ state[p] <= EXIT
    /\ thread[c] = "signal" => curstate[c] = EXIT /\ state[p] >= EXIT
    /\ thread[c] = "reset" => Late(p) = {} /\ thread_ack[p] = 0
    /\ thread[c] = "advance" => Late(p) = {} /\ thread_ack[p] = num_threads[p]

\* The last acknowledgement has been counted and the next state not been set.
Turns(p, c) == work[c] = p /\ thread[c] \in {"reset", "advance"}

Turning(p) == \E c \in Cpus : Turns(p, c)

MachineOK(p) ==
    Machine(p) /\ Waiting(p) =>
        /\ state[p] >= PREPARE
        /\ state[p] < EXIT => Cardinality(Parts(p)) = num_threads[p] /\ online \subseteq Parts(p)
        /\ \A c \in Parts(p) : work[c] # p => state[p] = PREPARE
        /\ \A c \in Cpus : work[c] = p => StepOK(p, c)
        /\ \A c, d \in Cpus : Turns(p, c) /\ Turns(p, d) => c = d
        /\ ~Turning(p) /\ state[p] <= EXIT => thread_ack[p] = Cardinality(Late(p))

\* The works of p that will be signalled.
Live(p) == {c \in Cpus : On(p, c) /\ enabled[c]}

DoneOK(p) ==
    /\ Waiting(p) /\ ~completion[p] => nr_todo[p] = Cardinality(todo[p]) + Cardinality(Live(p))
    /\ completion[p] => todo[p] = {}
    /\ Machine(p) /\ completion[p] => Parts(p) = {}
    /\ Op[p] = "one" /\ executed[p] => Parts(p) = {}
    /\ \A c \in Cpus : On(p, c) /\ ~enabled[c] => completion[p] \/ ~Waiting(p)

CallInv == \A p \in Callers : CallOK(p)
ReadyInv == \A p \in Callers : ReadyOK(p)
WorkInv == \A c \in Cpus : WorkOK(c)
OnInv == \A p \in Callers, c \in Cpus : OnOK(p, c)
ParkInv == (\A c \in Cpus : ParkOK(c)) /\ (\A h \in Callers : PlugOK(h))
MachineInv == \A p \in Callers : MachineOK(p)
DoneInv == \A p \in Callers : DoneOK(p)

Inv == /\ TypeOK /\ CallInv /\ ReadyInv /\ WorkInv /\ OnInv /\ ParkInv /\ MachineInv
       /\ DoneInv

-----------------------------------------------------------------------------
(* Constants and types.                                                    *)

\* What the assumptions on the constants say in the form the proofs use.
LEMMA Constants ==
    /\ IsFiniteSet(Cpus) /\ Cardinality(Cpus) \in Nat /\ NULL \notin Callers
    /\ \A p \in Callers : Op[p] \in {"one", "machine", "hotplug"} /\ Target[p] \in Cpus
    /\ \A S \in SUBSET Cpus : /\ IsFiniteSet(S) /\ Cardinality(S) \in Nat
                              /\ Cardinality(S) <= Cardinality(Cpus)
                              /\ Cardinality(S) = 0 <=> S = {}
BY CpuStopAssumption, FS_CardinalityType, FS_Subset, FS_EmptySet

\* The states of stop_machine() are numbers.
LEMMA StateTypes ==
    TypeOK => /\ \A p \in Callers : state[p] \in 0..5 /\ state[p] \in Int
              /\ \A c \in Cpus : curstate[c] \in 0..5 /\ curstate[c] \in Int
<1> SUFFICES ASSUME TypeOK PROVE /\ \A p \in Callers : state[p] \in 0..5 /\ state[p] \in Int
                                 /\ \A c \in Cpus : curstate[c] \in 0..5 /\ curstate[c] \in Int
  OBVIOUS
<1>1. state \in [Callers -> NONE .. EXIT + 1] /\ curstate \in [Cpus -> NONE .. EXIT + 1]
  BY DEF TypeOK
<1> QED BY <1>1 DEF NONE, EXIT

\* One CPU less, or one more.
LEMMA OneCpu ==
    ASSUME NEW S \in SUBSET Cpus, NEW c \in Cpus
    PROVE  /\ c \in S => Cardinality(S \ {c}) = Cardinality(S) - 1 /\ Cardinality(S) >= 1
           /\ c \notin S => Cardinality(S \cup {c}) = Cardinality(S) + 1
<1>1. IsFiniteSet(S) /\ Cardinality(S) \in Nat /\ (Cardinality(S) = 0 <=> S = {})
  BY Constants
<1>2. c \in S => Cardinality(S \ {c}) = Cardinality(S) - 1 /\ Cardinality(S) >= 1
  <2>1. c \in S => Cardinality(S \ {c}) = Cardinality(S) - 1
    BY <1>1, FS_RemoveElement
  <2> QED BY <1>1, <2>1
<1>3. c \notin S => Cardinality(S \cup {c}) = Cardinality(S) + 1
  BY <1>1, FS_AddElement
<1> QED BY <1>2, <1>3

-----------------------------------------------------------------------------
(* The callers.                                                            *)

\* Every step keeps CallInv: where the calls are and what they hold.
LEMMA CallStep ==
    ASSUME TypeOK, CallInv, OnInv, WorkInv, Next
    PROVE  CallInv'
<1>1. ASSUME NEW p \in Callers, stop_one_cpu(p), NEW q \in Callers PROVE CallOK(q)'
  BY <1>1 DEF doneVars, dataVars, stop_one_cpu, At, TypeOK, CallInv, CallOK, Machine, Waiting
<1>2. ASSUME NEW p \in Callers, StartMachine(p), NEW q \in Callers PROVE CallOK(q)'
  BY <1>2 DEF doneVars, dataVars, StartMachine, NoHotplug, At, TypeOK, CallInv, CallOK, Machine, Waiting
<1>3. ASSUME NEW p \in Callers, stop_cpus(p), NEW q \in Callers PROVE CallOK(q)'
  BY <1>3, Constants DEF doneVars, dataVars, stop_cpus, MutexFree, At, TypeOK, CallInv, CallOK, Machine, Waiting
<1>4. ASSUME NEW p \in Callers, NEW c \in Cpus, cpu_stop_queue_work(p, c), NEW q \in Callers PROVE CallOK(q)'
  BY <1>4 DEF doneVars, dataVars, cpu_stop_queue_work, Signalled, TypeOK, CallInv, CallOK, Machine, Waiting
<1>5. ASSUME NEW p \in Callers, Queued(p), NEW q \in Callers PROVE CallOK(q)'
  BY <1>5 DEF doneVars, dataVars, Queued, At, TypeOK, CallInv, CallOK, Machine, Waiting
<1>6. ASSUME NEW p \in Callers, wait_for_completion(p), NEW q \in Callers PROVE CallOK(q)'
  <2>1. CASE Op[p] = "one"
    BY <1>6, <2>1 DEF doneVars, dataVars, wait_for_completion, At, TypeOK, CallInv, CallOK, Machine, Waiting
  <2>2. CASE Op[p] # "one"
    BY <1>6, <2>2, Constants DEF doneVars, dataVars, wait_for_completion, At, TypeOK, CallInv, CallOK,
       Machine, Waiting
  <2> QED BY <2>1, <2>2
<1>7. ASSUME NEW p \in Callers, put_online_cpus(p), NEW q \in Callers PROVE CallOK(q)'
  BY <1>7 DEF doneVars, dataVars, put_online_cpus, At, TypeOK, CallInv, CallOK, Machine, Waiting
<1>8. ASSUME NEW p \in Callers, cpu_stop_unpark(p) \/ CpuDownRefused(p) \/ CpuUpFailed(p), NEW q \in Callers
      PROVE  CallOK(q)'
  BY <1>8 DEF doneVars, dataVars, cpu_stop_unpark, CpuDownRefused, CpuUpFailed, At, TypeOK, CallInv, CallOK,
     Machine, Waiting
<1>9. ASSUME NEW p \in Callers, CpuDead(p), NEW q \in Callers PROVE CallOK(q)'
  BY <1>9 DEF doneVars, dataVars, CpuDead, At, TypeOK, CallInv, CallOK, Machine, Waiting
<1>10. ASSUME NEW p \in Callers, CpuUp(p), NEW q \in Callers PROVE CallOK(q)'
  BY <1>10, Constants DEF doneVars, dataVars, CpuUp, At, TypeOK, CallInv, CallOK, Machine, Waiting
<1>11. ASSUME NEW p \in Callers, kthread_unpark(p), NEW q \in Callers PROVE CallOK(q)'
  BY <1>11 DEF doneVars, dataVars, kthread_unpark, At, TypeOK, CallInv, CallOK, Machine, Waiting
<1>12. ASSUME NEW c \in Cpus, cpu_stop_park(c), NEW q \in Callers PROVE CallOK(q)'
  BY <1>12 DEF cpu_stop_park, Signalled, callerVars, dataVars, TypeOK, CallInv, CallOK, Machine, Waiting
<1>13. ASSUME NEW c \in Cpus, cpu_stop_signal_done(c), NEW q \in Callers PROVE CallOK(q)'
  BY <1>13 DEF cpu_stop_signal_done, Signalled, callerVars, dataVars, TypeOK, CallInv, CallOK, Machine, Waiting
<1>14. ASSUME NEW c \in Cpus, Act(c), NEW q \in Callers PROVE CallOK(q)'
  <2>1. work[c] \in Callers => pc[work[c]] \notin {"start", "mutex"}
    BY DEF OnInv, OnOK, On
  <2>2. failed'[q] => failed[q] \/ q = work[c]
    BY <1>14 DEF Act, TypeOK
  <2> QED BY <1>14, <2>1, <2>2 DEF Act, callerVars, doneVars, CallInv, CallOK, Machine, Waiting
<1>15. ASSUME NEW c \in Cpus, Stopper(c), ~cpu_stop_park(c), ~cpu_stop_signal_done(c), ~Act(c), NEW q \in Callers
       PROVE  CallOK(q)'
  BY <1>15 DEF Stopper, ThreadPark, Unparked, cpu_stop_should_run, TakeWork, RunOne, ReadState,
               ack_state, SetAck, SetState, callerVars, doneVars, dataVars, CallInv, CallOK, Machine, Waiting
<1>16. ASSUME NEW p \in Callers, Caller(p) PROVE CallInv'
  BY <1>16, <1>1, <1>2, <1>3, <1>4, <1>5, <1>6, <1>7, <1>8, <1>11, <1>9, <1>10 DEF Caller, CallInv
<1>17. ASSUME NEW c \in Cpus, Stopper(c) PROVE CallInv'
  BY <1>17, <1>12, <1>13, <1>14, <1>15 DEF CallInv
<1> QED BY <1>16, <1>17 DEF Next

-----------------------------------------------------------------------------
(* The stoppers.                                                           *)

\* A stopper in the stop_machine() of p: p is waiting for it.
LEMMA AtWork ==
    ASSUME Inv, NEW c \in Cpus, work[c] # NULL, Machine(work[c])
    PROVE  /\ work[c] \in Callers /\ Waiting(work[c]) /\ enabled[c]
           /\ MachineOK(work[c]) /\ StepOK(work[c], c)
           /\ c \in Parts(work[c]) /\ c \notin todo[work[c]]
<1>1. work[c] \in Callers /\ On(work[c], c)
  BY DEF Inv, TypeOK, On
<1>2. Waiting(work[c]) /\ enabled[c] /\ c \notin todo[work[c]]
  BY <1>1 DEF Inv, OnInv, OnOK
<1>3. MachineOK(work[c])
  BY <1>1 DEF Inv, MachineInv
<1>4. StepOK(work[c], c)
  BY <1>2, <1>3 DEF MachineOK
<1>5. c \in Parts(work[c])
  BY <1>1 DEF Parts
<1> QED BY <1>1, <1>2, <1>3, <1>4, <1>5

\* A stopper that acts on a state, or acknowledges or sets one, executes a stop_machine().
LEMMA Participates ==
    ASSUME Inv, NEW c \in Cpus, thread[c] \in {"act", "ack", "reset", "advance"}
    PROVE  work[c] # NULL /\ Machine(work[c])
BY DEF Inv, WorkInv, WorkOK

\* A stopper that acknowledges is one of those that are waited for, and no other is at the
\* end of the round.
LEMMA Acknowledges ==
    ASSUME Inv, NEW c \in Cpus, thread[c] = "ack"
    PROVE  LET p == work[c] IN
           /\ curstate[c] = state[p] /\ state[p] <= EXIT
           /\ c \in Late(p) /\ ~Turning(p)
           /\ thread_ack[p] = Cardinality(Late(p)) /\ thread_ack[p] >= 1
<1> DEFINE p == work[c]
<1>1. /\ p \in Callers /\ Waiting(p) /\ Machine(p) /\ MachineOK(p) /\ StepOK(p, c)
      /\ c \in Parts(p)
  BY AtWork, Participates
<1>2. curstate[c] = state[p] /\ state[p] <= EXIT
  BY <1>1 DEF StepOK
<1>3. c \in Late(p)
  BY <1>1 DEF Late
<1>4. ~Turning(p)
  <2>1. ASSUME NEW d \in Cpus, Turns(p, d) PROVE FALSE
    BY <1>1, <1>3, <2>1 DEF MachineOK, Turns, StepOK
  <2> QED BY <2>1 DEF Turning
<1>5. thread_ack[p] = Cardinality(Late(p))
  BY <1>1, <1>2, <1>4 DEF MachineOK
<1>6. Late(p) \in SUBSET Cpus
  BY DEF Late, Parts
<1>7. Cardinality(Late(p)) >= 1
  BY <1>3, <1>6, OneCpu
<1> QED BY <1>2, <1>3, <1>4, <1>5, <1>7

\* The last to acknowledge sets the next state.
LEMMA Advances ==
    ASSUME Inv, NEW c \in Cpus, thread[c] \in {"reset", "advance"}
    PROVE  LET p == work[c] IN
           /\ curstate[c] = state[p] /\ state[p] <= EXIT /\ state[p] >= PREPARE
           /\ Late(p) = {}
           /\ \A d \in Cpus : Turns(p, d) => d = c
<1> DEFINE p == work[c]
<1>1. /\ p \in Callers /\ Waiting(p) /\ Machine(p) /\ MachineOK(p) /\ StepOK(p, c)
  BY AtWork, Participates
<1> QED BY <1>1 DEF StepOK, MachineOK, Turns

\* Every step keeps the types; the counter of acknowledgements does not go below zero.
LEMMA TypeStep ==
    ASSUME Inv, Next
    PROVE  TypeOK'
<1>0. TypeOK
  BY DEF Inv
<1> USE <1>0 DEF TypeOK, doneVars, dataVars, stopperVars, callerVars
<1>1. ASSUME NEW p \in Callers, stop_one_cpu(p) PROVE TypeOK'
  BY <1>1, Constants DEF stop_one_cpu, At, InitDone
<1>2. ASSUME NEW p \in Callers, StartMachine(p) PROVE TypeOK'
  <2>1. Cardinality(online) \in 0 .. Cardinality(Cpus)
    BY Constants
  <2> QED BY <1>2, <2>1 DEF StartMachine, At, PREPARE, NONE, EXIT
<1>3. ASSUME NEW p \in Callers, stop_cpus(p) PROVE TypeOK'
  <2>1. InitDone(Cardinality(online)) \in Int
    BY Constants DEF InitDone
  <2> QED BY <1>3, <2>1 DEF stop_cpus, At
<1>4. ASSUME NEW p \in Callers, NEW c \in Cpus, cpu_stop_queue_work(p, c) PROVE TypeOK'
  <2>1. Append(works[c], p) \in Seq(Callers)
    BY AppendProperties
  <2> QED BY <1>4, <2>1 DEF cpu_stop_queue_work, Signalled
<1>5. ASSUME NEW p \in Callers, Queued(p) PROVE TypeOK'
  BY <1>5 DEF Queued, At
<1>6. ASSUME NEW p \in Callers, wait_for_completion(p) PROVE TypeOK'
  BY <1>6 DEF wait_for_completion, At
<1>7. ASSUME NEW p \in Callers, put_online_cpus(p) PROVE TypeOK'
  BY <1>7 DEF put_online_cpus, At
<1>8. ASSUME NEW p \in Callers, \/ CpuDead(p) \/ CpuUp(p) \/ cpu_stop_unpark(p)
                                \/ CpuDownRefused(p) \/ CpuUpFailed(p)
      PROVE  TypeOK'
  <2>1. Target[p] \in Cpus
    BY Constants
  <2>2. CASE CpuDead(p)
    BY <2>2 DEF CpuDead, At
  <2>3. CASE CpuUp(p)
    BY <2>1, <2>3 DEF CpuUp, At
  <2>4. CASE cpu_stop_unpark(p)
    BY <2>1, <2>4 DEF cpu_stop_unpark, At
  <2>5. CASE CpuDownRefused(p) \/ CpuUpFailed(p)
    BY <2>5 DEF CpuDownRefused, CpuUpFailed, At
  <2> QED BY <1>8, <2>2, <2>3, <2>4, <2>5
<1>9. ASSUME NEW p \in Callers, kthread_unpark(p) PROVE TypeOK'
  BY <1>9 DEF kthread_unpark, At
<1>10. ASSUME NEW c \in Cpus, cpu_stop_park(c) PROVE TypeOK'
  BY <1>10 DEF cpu_stop_park, Goto, Signalled
<1>11. ASSUME NEW c \in Cpus, cpu_stop_signal_done(c) PROVE TypeOK'
  BY <1>11 DEF cpu_stop_signal_done, Goto, Signalled
<1>12. ASSUME NEW c \in Cpus, Act(c) PROVE TypeOK'
  BY <1>12 DEF Act, Goto
<1>13. ASSUME NEW c \in Cpus, TakeWork(c) PROVE TypeOK'
  <2>1. works[c] # <<>> => Head(works[c]) \in Callers /\ Tail(works[c]) \in Seq(Callers)
    BY HeadTailProperties
  <2> QED BY <1>13, <2>1 DEF TakeWork, Goto, NONE, EXIT
<1>14. ASSUME NEW c \in Cpus, ThreadPark(c) \/ Unparked(c) \/ cpu_stop_should_run(c) \/ RunOne(c) PROVE TypeOK'
  BY <1>14, ZenonT(60) DEF ThreadPark, Unparked, cpu_stop_should_run, RunOne, Goto
<1>15. ASSUME NEW c \in Cpus, ReadState(c) PROVE TypeOK'
  <2>1. work[c] \in Callers
    BY <1>15 DEF ReadState, Goto, Inv, WorkInv, WorkOK
  <2> QED BY <1>15, <2>1 DEF ReadState, Goto
<1>16. ASSUME NEW c \in Cpus, ack_state(c) PROVE TypeOK'
  <2>1. thread[c] = "ack"
    BY <1>16 DEF ack_state, Goto
  <2>2. work[c] \in Callers /\ thread_ack[work[c]] >= 1
    BY <2>1, Acknowledges, AtWork, Participates
  <2>3. thread_ack[work[c]] - 1 \in 0 .. Cardinality(Cpus)
    BY <2>2, Constants
  <2> QED BY <1>16, <2>2, <2>3 DEF ack_state, Goto
<1>17. ASSUME NEW c \in Cpus, SetAck(c) PROVE TypeOK'
  <2>1. work[c] \in Callers
    BY <1>17, AtWork, Participates DEF SetAck, Goto
  <2> QED BY <1>17, <2>1 DEF SetAck, Goto
<1>18. ASSUME NEW c \in Cpus, SetState(c) PROVE TypeOK'
  <2>1. thread[c] = "advance"
    BY <1>18 DEF SetState, Goto
  <2>2. work[c] \in Callers /\ state[work[c]] <= EXIT
    BY <2>1, Advances, AtWork, Participates
  <2>3. state[work[c]] + 1 \in NONE .. EXIT + 1
    <3>1. state[work[c]] \in NONE .. EXIT + 1
      BY <2>2
    <3> QED BY <2>2, <3>1 DEF NONE, EXIT
  <2> QED BY <1>18, <2>2, <2>3 DEF SetState, Goto, AfterSetState
<1>19. ASSUME NEW p \in Callers, Caller(p) PROVE TypeOK'
  BY <1>19, <1>1, <1>2, <1>3, <1>4, <1>5, <1>6, <1>7, <1>8, <1>9, Zenon DEF Caller
<1>20. ASSUME NEW c \in Cpus, Stopper(c) PROVE TypeOK'
  BY <1>20, <1>10, <1>11, <1>12, <1>13, <1>14, <1>15, <1>16, <1>17, <1>18, Zenon DEF Stopper
<1> QED BY <1>19, <1>20, Zenon DEF Next

-----------------------------------------------------------------------------
(* The works.                                                              *)

\* A step that leaves lists and stoppers' works alone.
LEMMA SameOn ==
    ASSUME UNCHANGED <<works, work>>, NEW q, NEW d
    PROVE  On(q, d)' <=> On(q, d)
BY DEF On

\* A work is queued on a stopper that takes works.
LEMMA QueueOn ==
    ASSUME Inv, NEW p \in Callers, NEW c \in Cpus, cpu_stop_queue_work(p, c)
    PROVE  /\ DupFree(works'[c]) /\ ~InList(works'[c], work[c])
           /\ \A q \in Callers, d \in Cpus : On(q, d)' <=> On(q, d) \/ (q = p /\ d = c /\ enabled[c])
<1>1. ~On(p, c)
  BY DEF cpu_stop_queue_work, Inv, OnInv, OnOK
<1>2. /\ works \in [Cpus -> Seq(Callers)] /\ work' = work /\ NULL \notin Callers
      /\ works' = [works EXCEPT ![c] = IF enabled[c] THEN Append(works[c], p) ELSE works[c]]
      /\ work[c] \in Callers \cup {NULL}
  BY Constants DEF cpu_stop_queue_work, Inv, TypeOK
<1>3. DupFree(works[c]) /\ ~InList(works[c], work[c]) /\ ~InList(works[c], p) /\ p # work[c]
  BY <1>1 DEF Inv, WorkInv, WorkOK, On
<1>4. CASE enabled[c]
  <2> DEFINE l == Append(works[c], p)
  <2>1. DupFree(l) /\ \A u \in Callers : InList(l, u) <=> InList(works[c], u) \/ u = p
    BY <1>2, <1>3, AppendList
  <2>2. l \in Seq(Callers) /\ works' = [works EXCEPT ![c] = l]
    BY <1>2, <1>4, AppendProperties
  <2> HIDE DEF l
  <2>3. ~InList(l, work[c])
    <3>1. work[c] = NULL => ~InList(l, work[c])
      BY <1>2, <2>2, ElementOfSeq, LenProperties DEF InList
    <3> QED BY <1>2, <1>3, <2>1, <3>1
  <2> QED BY <1>2, <1>4, <2>1, <2>2, <2>3 DEF On
<1>5. CASE ~enabled[c]
  BY <1>2, <1>3, <1>5 DEF On
<1> QED BY <1>4, <1>5

\* The first work of the list is the one executed.
LEMMA TakeOn ==
    ASSUME Inv, NEW c \in Cpus, TakeWork(c)
    PROVE  /\ work[c] = NULL
           /\ DupFree(works'[c]) /\ ~InList(works'[c], work'[c])
           /\ \A q \in Callers, d \in Cpus : On(q, d)' <=> On(q, d)
<1>1. work[c] = NULL /\ thread[c] = "repeat"
  BY DEF TakeWork, Goto, Inv, WorkInv, WorkOK
<1>2. /\ works \in [Cpus -> Seq(Callers)] /\ work \in [Cpus -> Callers \cup {NULL}]
      /\ NULL \notin Callers /\ DupFree(works[c])
  BY Constants DEF Inv, TypeOK, WorkInv, WorkOK
<1>3. CASE works[c] = <<>>
  <2>1. works' = works /\ work' = work
    BY <1>1, <1>2, <1>3 DEF TakeWork
  <2>2. \A u : ~InList(works[c], u)
    BY <1>3 DEF InList
  <2> QED BY <1>1, <1>2, <2>1, <2>2, SameOn
<1>4. CASE works[c] # <<>>
  <2> DEFINE h == Head(works[c])
             l == Tail(works[c])
  <2>1. /\ h \in Callers /\ InList(works[c], h) /\ l \in Seq(Callers) /\ DupFree(l)
        /\ \A u \in Callers : InList(l, u) <=> InList(works[c], u) /\ u # h
    BY <1>2, <1>4, TailList
  <2>2. works' = [works EXCEPT ![c] = l] /\ work' = [work EXCEPT ![c] = h]
    BY <1>4 DEF TakeWork
  <2> HIDE DEF h, l
  <2> QED BY <1>1, <1>2, <2>1, <2>2 DEF On
<1> QED BY <1>1, <1>3, <1>4

\* A work is done.
LEMMA SignalOn ==
    ASSUME Inv, NEW c \in Cpus, cpu_stop_signal_done(c)
    PROVE  /\ work[c] \in Callers /\ work' = [work EXCEPT ![c] = NULL] /\ thread[c] = "signal"
           /\ \A q \in Callers, d \in Cpus : On(q, d)' <=> On(q, d) /\ ~(q = work[c] /\ d = c)
<1>1. work[c] # NULL /\ thread[c] = "signal"
  BY DEF cpu_stop_signal_done, Goto, Inv, WorkInv, WorkOK
<1>2. /\ works' = works /\ work' = [work EXCEPT ![c] = NULL]
      /\ work \in [Cpus -> Callers \cup {NULL}] /\ NULL \notin Callers
  BY Constants DEF cpu_stop_signal_done, Inv, TypeOK
<1>3. ~InList(works[c], work[c])
  BY DEF Inv, WorkInv, WorkOK
<1> QED BY <1>1, <1>2, <1>3 DEF On

\* The stoppers and their works.
LEMMA WorkStep ==
    ASSUME Inv, Next
    PROVE  WorkInv'
<1>0. TypeOK /\ WorkInv /\ NULL \notin Callers
  BY Constants DEF Inv
<1>1. ASSUME NEW p \in Callers, NEW c \in Cpus, cpu_stop_queue_work(p, c) PROVE WorkInv'
  <2>1. ~InList(works'[c], work[c]) /\ DupFree(works'[c])
    BY <1>1, QueueOn
  <2> QED BY <1>0, <1>1, <2>1 DEF cpu_stop_queue_work, TypeOK, WorkInv, WorkOK, Machine
<1>2. ASSUME NEW c \in Cpus, TakeWork(c) PROVE WorkInv'
  <2>1. work[c] = NULL /\ DupFree(works'[c]) /\ ~InList(works'[c], work'[c])
    BY <1>2, TakeOn
  <2>2. works[c] # <<>> => Head(works[c]) \in Callers
    BY <1>0, HeadTailProperties DEF TypeOK
  <2> QED BY <1>0, <1>2, <2>1, <2>2 DEF TakeWork, Goto, TypeOK, WorkInv, WorkOK, Machine
<1>3. ASSUME NEW c \in Cpus, cpu_stop_signal_done(c) PROVE WorkInv'
  <2>1. ~InList(works[c], NULL)
    BY <1>0, ElementOfSeq, LenProperties DEF InList, TypeOK
  <2> QED BY <1>0, <1>3, <2>1 DEF cpu_stop_signal_done, Goto, TypeOK, WorkInv, WorkOK, Machine
<1>4. ASSUME NEW p \in Callers, Caller(p), ~ \E c \in Cpus : cpu_stop_queue_work(p, c) PROVE WorkInv'
  BY <1>0, <1>4 DEF Caller, stop_one_cpu, StartMachine, stop_cpus, Queued, wait_for_completion,
       put_online_cpus, CpuDownRefused, CpuDead, CpuUp,
         CpuUpFailed, cpu_stop_unpark, kthread_unpark, stopperVars,
       WorkInv, WorkOK, Machine
<1>5. ASSUME NEW c \in Cpus, Stopper(c), ~TakeWork(c), ~cpu_stop_signal_done(c) PROVE WorkInv'
  <2>1. works' = works /\ work' = work /\ \A d \in Cpus \ {c} : thread'[d] = thread[d]
    BY <1>0, <1>5 DEF Stopper, ThreadPark, cpu_stop_park, Unparked, Goto,
       cpu_stop_should_run, RunOne, ReadState, Act, ack_state, SetAck, SetState, TypeOK
  <2>2. \/ thread[c] \in {"loop", "park", "parked", "repeat"}
           /\ thread'[c] \in {"loop", "park", "parked", "repeat"}
        \/ thread[c] = "fn" /\ thread'[c] = "signal"
        \/ thread[c] = "fn" /\ thread'[c] = "act" /\ Machine(work[c])
        \/ thread[c] \in {"act", "ack", "reset", "advance"}
           /\ thread'[c] \in {"fn", "act", "ack", "reset", "advance", "signal"}
    BY <1>0, <1>5 DEF Stopper, ThreadPark, cpu_stop_park, Unparked, Goto, AfterSetState,
       cpu_stop_should_run, RunOne, ReadState, Act, ack_state, SetAck, SetState, TypeOK, Machine
  <2> QED BY <1>0, <2>1, <2>2 DEF WorkInv, WorkOK, Machine
<1> QED BY <1>1, <1>2, <1>3, <1>4, <1>5 DEF Next, Caller

\* A stopper that is to park, between two works, takes part in no stop_machine().
LEMMA ParkedFree ==
    ASSUME Inv, NEW c \in Cpus, should_park[c], work[c] = NULL, NEW p \in Callers, Machine(p)
    PROVE  c \notin Parts(p)
<1>1. CASE Dead(c)
  BY <1>1 DEF Dead
<1>2. ASSUME NEW h \in hotplug, Target[h] = c, Acted(h), c \in Parts(p) PROVE FALSE
  <2>0. h \in Callers /\ hotplug = {h}
    BY <1>2 DEF Inv, TypeOK, CallInv, CallOK, Acted
  <2>1. Waiting(p)
    <3>1. On(p, c) => Waiting(p)
      BY DEF Inv, OnInv, OnOK
    <3>2. c \in todo[p] => Waiting(p)
      BY DEF Inv, CallInv, CallOK, Waiting
    <3> QED BY <1>2, <3>1, <3>2 DEF Parts
  <2>2. p = h
    BY <2>0, <2>1 DEF Inv, CallInv, CallOK, Waiting
  <2>3. p # NULL
    BY Constants
  <2>4. state[p] = PREPARE
    BY <1>2, <2>1, <2>3 DEF Inv, MachineInv, MachineOK
  <2> QED BY <1>2, <2>1, <2>2, <2>4 DEF Acted, PREPARE, RUN
<1> QED BY <1>1, <1>2 DEF Inv, ParkInv, ParkOK

\* So a stopper that is disabled, or being disabled, has only works of stop_one_cpu().
LEMMA DisabledFree ==
    ASSUME Inv, NEW c \in Cpus, ~enabled[c] \/ thread[c] = "park", NEW p \in Callers, Machine(p)
    PROVE  c \notin Parts(p)
<1>1. should_park[c] /\ thread[c] \in {"park", "parked"}
  BY DEF Inv, ParkInv, ParkOK
<1>2. work[c] = NULL
  BY <1>1 DEF Inv, WorkInv, WorkOK
<1> QED BY <1>1, <1>2, ParkedFree

\* What a work on a list or in a stopper says of its call.
LEMMA OnStep ==
    ASSUME Inv, Next
    PROVE  OnInv'
<1>0. TypeOK /\ CallInv /\ OnInv
  BY DEF Inv
<1>1. ASSUME NEW p \in Callers, NEW c \in Cpus, cpu_stop_queue_work(p, c), NEW q \in Callers, NEW d \in Cpus
      PROVE  OnOK(q, d)'
  <2>1. On(q, d)' <=> On(q, d) \/ (q = p /\ d = c /\ enabled[c])
    BY <1>1, QueueOn
  <2> QED BY <1>0, <1>1, <2>1 DEF cpu_stop_queue_work, TypeOK, CallInv, CallOK, OnInv, OnOK, Machine, Waiting
<1>2. ASSUME NEW c \in Cpus, TakeWork(c), NEW q \in Callers, NEW d \in Cpus PROVE OnOK(q, d)'
  <2>1. On(q, d)' <=> On(q, d)
    BY <1>2, TakeOn
  <2> QED BY <1>0, <1>2, <2>1 DEF TakeWork, callerVars, OnInv, OnOK, Machine, Waiting
<1>3. ASSUME NEW c \in Cpus, cpu_stop_signal_done(c), NEW q \in Callers, NEW d \in Cpus PROVE OnOK(q, d)'
  <2>1. On(q, d)' => On(q, d)
    BY <1>3, SignalOn
  <2> QED BY <1>0, <1>3, <2>1 DEF cpu_stop_signal_done, callerVars, OnInv, OnOK, Machine, Waiting
<1>4. ASSUME NEW c \in Cpus, cpu_stop_park(c), NEW q \in Callers, NEW d \in Cpus PROVE OnOK(q, d)'
  <2>1. On(q, d)' <=> On(q, d)
    BY <1>4, SameOn DEF cpu_stop_park
  <2>2. On(q, c) => ~Machine(q)
    BY <1>4, DisabledFree DEF cpu_stop_park, Goto, Parts
  <2> QED BY <1>0, <1>4, <2>1, <2>2 DEF cpu_stop_park, callerVars, TypeOK, OnInv, OnOK, Machine, Waiting
<1>5. ASSUME NEW p \in Callers, wait_for_completion(p), NEW q \in Callers, NEW d \in Cpus PROVE OnOK(q, d)'
  <2>1. On(q, d)' <=> On(q, d)
    BY <1>5, SameOn DEF wait_for_completion, stopperVars
  <2>2. Machine(p) => ~On(p, d)
    BY <1>5 DEF wait_for_completion, Inv, DoneInv, DoneOK, Parts
  <2> QED BY <1>0, <1>5, <2>1, <2>2 DEF wait_for_completion, At, stopperVars, TypeOK, OnInv, OnOK, Machine,
       Waiting
<1>6. ASSUME NEW p \in Callers, NEW q \in Callers, NEW d \in Cpus,
             \/ stop_one_cpu(p) \/ StartMachine(p) \/ stop_cpus(p) \/ Queued(p)
             \/ put_online_cpus(p) \/ CpuDownRefused(p) \/ CpuDead(p) \/ CpuUp(p) \/ CpuUpFailed(p)
             \/ cpu_stop_unpark(p) \/ kthread_unpark(p)
      PROVE  OnOK(q, d)'
  <2>1. On(q, d)' <=> On(q, d)
    <3>1. UNCHANGED <<works, work>>
      BY <1>6 DEF stop_one_cpu, StartMachine, stop_cpus, Queued, put_online_cpus, CpuDownRefused, CpuDead, CpuUp,
         CpuUpFailed,
           cpu_stop_unpark, kthread_unpark, stopperVars
    <3> QED BY <3>1, SameOn
  <2>2. CASE stop_one_cpu(p)
    BY <1>0, <2>1, <2>2 DEF stop_one_cpu, At, stopperVars, TypeOK, CallInv, CallOK, OnInv, OnOK, Machine,
         Waiting
  <2>3. CASE stop_cpus(p)
    BY <1>0, <2>1, <2>3 DEF stop_cpus, At, stopperVars, TypeOK, CallInv, CallOK, OnInv, OnOK, Machine, Waiting
  <2>4. CASE StartMachine(p) \/ Queued(p) \/ put_online_cpus(p)
    BY <1>0, <2>1, <2>4, SMTT(30) DEF StartMachine, Queued, put_online_cpus, At, stopperVars, TypeOK,
         CallInv, CallOK, OnInv, OnOK, Machine, Waiting
  <2>5. CASE CpuDead(p)
    BY <1>0, <2>1, <2>5 DEF CpuDead, At, stopperVars, TypeOK, CallInv, CallOK, OnInv, OnOK, Machine, Waiting
  <2>6. CASE CpuUp(p) \/ CpuDownRefused(p) \/ CpuUpFailed(p)
    BY <1>0, <2>1, <2>6 DEF CpuUp, CpuDownRefused, CpuUpFailed, At, stopperVars, TypeOK, CallInv, CallOK,
       OnInv, OnOK, Machine, Waiting
  <2>7. CASE cpu_stop_unpark(p)
    BY <1>0, <2>1, <2>7 DEF cpu_stop_unpark, At, stopperVars, TypeOK, CallInv, CallOK, OnInv, OnOK,
         Machine, Waiting
  <2>8. CASE kthread_unpark(p)
    BY <1>0, <2>1, <2>8 DEF kthread_unpark, At, stopperVars, TypeOK, CallInv, CallOK, OnInv, OnOK, Machine,
         Waiting
  <2> QED BY <1>6, <2>2, <2>3, <2>4, <2>5, <2>6, <2>7, <2>8
<1>7. ASSUME NEW c \in Cpus, Stopper(c), ~TakeWork(c), ~cpu_stop_signal_done(c), ~cpu_stop_park(c),
             NEW q \in Callers, NEW d \in Cpus
      PROVE  OnOK(q, d)'
  <2>1. UNCHANGED <<works, work, enabled, pc, todo>>
    BY <1>7 DEF Stopper, ThreadPark, Unparked, callerVars,
       cpu_stop_should_run, RunOne, ReadState, Act, ack_state, SetAck, SetState
  <2>2. On(q, d)' <=> On(q, d)
    BY <2>1, SameOn
  <2> QED BY <1>0, <2>1, <2>2 DEF OnInv, OnOK, Machine, Waiting
<1>8. ASSUME NEW p \in Callers, Caller(p) PROVE OnInv'
  BY <1>8, <1>1, <1>5, <1>6, Zenon DEF Caller, OnInv
<1>9. ASSUME NEW c \in Cpus, Stopper(c) PROVE OnInv'
  BY <1>9, <1>2, <1>3, <1>4, <1>7, Zenon DEF OnInv
<1> QED BY <1>8, <1>9 DEF Next

-----------------------------------------------------------------------------
(* CPU hotplug.                                                            *)

\* A stop_machine() that is executed somewhere for CPU hotplug is alone.
LEMMA PlugAlone ==
    ASSUME Inv, NEW h \in Callers, Op[h] = "hotplug", pc[h] \notin {"start", "up", "done"}
    PROVE  hotplug = {h} /\ \A q \in Callers : Machine(q) /\ pc[q] \notin {"start", "up", "done"} => q = h
<1>1. hotplug = {h}
  BY DEF Inv, CallInv, CallOK, Machine
<1> QED BY <1>1 DEF Inv, CallInv, CallOK

\* No CPU goes down or comes up between the count of the CPUs and the queueing of works.
LEMMA ReadyStep ==
    ASSUME Inv, Next
    PROVE  ReadyInv'
<1>0. TypeOK /\ ReadyInv /\ CallInv
  BY DEF Inv
<1> USE DEF ReadyInv, ReadyOK
<1>1. ASSUME NEW p \in Callers, CpuUp(p) PROVE ReadyInv'
  <2>1. hotplug = {}
    BY <1>1 DEF CpuUp
  <2>2. \A q \in Callers : pc[q] # "mutex"
    BY <1>0, <2>1, Constants DEF CallInv, CallOK, Machine
  <2> QED BY <1>0, <1>1, <2>2 DEF CpuUp, At, TypeOK
<1>2. ASSUME NEW c \in Cpus, Act(c) PROVE ReadyInv'
  <2>1. work[c] \in Callers /\ Machine(work[c]) /\ Waiting(work[c])
    BY <1>2, AtWork, Participates DEF Act, Goto
  <2>2. CASE Op[work[c]] = "hotplug"
    <3>1. \A q \in Callers : pc[q] # "mutex"
      <4>1. \A q \in Callers : pc[q] = "mutex" => Machine(q)
        BY <1>0, Constants DEF CallInv, CallOK, Machine
      <4> QED BY <2>1, <2>2, <4>1, PlugAlone DEF Waiting
    <3> QED BY <1>2, <3>1 DEF Act, callerVars
  <2>3. CASE Op[work[c]] # "hotplug"
    BY <1>0, <1>2, <2>3 DEF Act, callerVars
  <2> QED BY <2>2, <2>3
<1>3. ASSUME NEW c \in Cpus, ack_state(c) \/ SetAck(c) \/ SetState(c) PROVE ReadyInv'
  <2>1. work[c] \in Callers /\ pc[work[c]] # "mutex"
    BY <1>3, AtWork, Participates DEF ack_state, SetAck, SetState, Goto, Waiting
  <2> QED BY <1>0, <1>3, <2>1 DEF ack_state, SetAck, SetState, callerVars, TypeOK
<1>4. ASSUME NEW p \in Callers, Caller(p), ~CpuUp(p) PROVE ReadyInv'
  <2>1. CASE StartMachine(p)
    BY <1>0, <2>1 DEF StartMachine, At, TypeOK
  <2>2. CASE ~StartMachine(p)
    <3>1. UNCHANGED <<online, num_threads, thread_ack, state>>
          /\ \A q \in Callers : pc'[q] = "mutex" => pc[q] = "mutex"
      BY <1>0, <1>4, <2>2 DEF Caller, stop_one_cpu, stop_cpus, Queued, wait_for_completion, At,
           cpu_stop_queue_work, put_online_cpus, CpuDownRefused, CpuDead,
         CpuUpFailed, cpu_stop_unpark, kthread_unpark, dataVars, TypeOK
    <3> QED BY <1>0, <3>1
  <2> QED BY <2>1, <2>2
<1>5. ASSUME NEW c \in Cpus, Stopper(c), ~Act(c), ~ack_state(c), ~SetAck(c), ~SetState(c) PROVE ReadyInv'
  <2>1. UNCHANGED <<online, num_threads, thread_ack, state, pc>>
    BY <1>5 DEF Stopper, ThreadPark, cpu_stop_park, Unparked, cpu_stop_should_run, TakeWork, RunOne,
         cpu_stop_signal_done, ReadState, dataVars, callerVars
  <2> QED BY <1>0, <2>1
<1> QED BY <1>1, <1>2, <1>3, <1>4, <1>5 DEF Next

\* What take_cpu_down() did stays done.
LEMMA ActedStays ==
    ASSUME Inv, Next, NEW h \in Callers, Acted(h)
    PROVE  Acted(h)'
<1>0. TypeOK /\ WorkInv /\ Target[h] \in Cpus /\ Machine(h) /\ h # NULL
  BY Constants DEF Inv, Acted, Machine
<1> DEFINE t == Target[h]
<1>1. ASSUME NEW p \in Callers, Caller(p) PROVE Acted(h)'
  <2>1. UNCHANGED <<thread, work, curstate>> /\ \A q \in Callers : state'[q] # state[q] => pc[q] = "start"
    BY <1>0, <1>1 DEF Caller, stop_one_cpu, StartMachine, stop_cpus, Queued, wait_for_completion, At,
         cpu_stop_queue_work, put_online_cpus, CpuDownRefused, CpuDead, CpuUp,
         CpuUpFailed, cpu_stop_unpark, kthread_unpark,
         dataVars, stopperVars, TypeOK
  <2>2. \A q \in Callers : pc[q] \notin {"start", "mutex"} =>
            pc'[q] \notin {"start", "mutex"} /\ (Waiting(q)' => Waiting(q))
    BY <1>0, <1>1, ZenonT(60) DEF Caller, stop_one_cpu, StartMachine, stop_cpus, Queued, wait_for_completion, At,
         cpu_stop_queue_work, put_online_cpus, CpuDownRefused, CpuDead, CpuUp,
         CpuUpFailed, cpu_stop_unpark, kthread_unpark, TypeOK, Waiting
  <2>3. RunsFn(t)' <=> RunsFn(t)
    BY <2>1 DEF RunsFn
  <2> QED BY <1>0, <2>1, <2>2, <2>3 DEF Acted
<1>2. ASSUME NEW c \in Cpus, TakeWork(c) PROVE Acted(h)'
  <2>1. UNCHANGED <<pc, state>>
    BY <1>2 DEF TakeWork, callerVars, dataVars
  <2>2. ASSUME work'[t] = h PROVE work[t] = h /\ t # c
    <3>1. On(h, t)
      <4>1. On(h, t)'
        BY <2>2 DEF On
      <4> QED BY <1>0, <1>2, <4>1, TakeOn
    <3>2. Waiting(h)
      BY <1>0, <3>1 DEF Inv, OnInv, OnOK
    <3>3. work[t] = h
      <4>1. t \in Parts(h) /\ MachineOK(h)
        BY <1>0, <3>1 DEF Inv, MachineInv, Parts
      <4>2. state[h] # PREPARE
        BY <3>2 DEF Acted, RUN, PREPARE
      <4> QED BY <1>0, <3>2, <4>1, <4>2 DEF MachineOK
    <3> QED BY <1>0, <1>2, <3>3, TakeOn
  <2>3. t # c => thread'[t] = thread[t] /\ curstate'[t] = curstate[t]
    BY <1>0, <1>2 DEF TakeWork, Goto, TypeOK
  <2> QED BY <1>0, <2>1, <2>2, <2>3 DEF Acted, RunsFn, Waiting
<1>3. ASSUME NEW c \in Cpus, ReadState(c) PROVE Acted(h)'
  <2>1. UNCHANGED <<pc, state, work>>
    BY <1>3 DEF ReadState, callerVars, dataVars
  <2>2. t # c => thread'[t] = thread[t] /\ curstate'[t] = curstate[t]
    BY <1>0, <1>3 DEF ReadState, Goto, TypeOK
  <2>3. CASE t = c /\ work[t] = h
    <3>1. StepOK(h, c) /\ Waiting(h) /\ thread[c] = "fn"
      BY <1>0, <1>3, <2>3, AtWork DEF ReadState, Goto
    <3>2. curstate[c] = state[h] - 1 /\ curstate[c] >= RUN /\ curstate'[c] = state[h]
      BY <1>0, <1>3, <2>3, <3>1 DEF StepOK, ReadState, Acted, TypeOK
    <3>3. state[h] > RUN
      <4>1. state[h] \in Int
        BY <1>0, StateTypes
      <4> QED BY <3>2, <4>1 DEF RUN
    <3>4. state[h] # RUN /\ state[h] >= RUN
      BY <1>0, <3>3, StateTypes DEF RUN
    <3> QED BY <1>0, <2>1, <2>3, <3>2, <3>4 DEF Acted, RunsFn, Waiting
  <2>4. CASE ~(t = c /\ work[t] = h)
    BY <1>0, <2>1, <2>2, <2>4 DEF Acted, RunsFn, Waiting
  <2> QED BY <2>3, <2>4
<1>4. ASSUME NEW c \in Cpus, Stopper(c), ~TakeWork(c), ~ReadState(c) PROVE Acted(h)'
  <2>1. UNCHANGED <<pc, curstate>> /\ \A d \in Cpus : work'[d] \in {work[d], NULL}
    BY <1>0, <1>4 DEF Stopper, ThreadPark, cpu_stop_park, Unparked, cpu_stop_should_run, RunOne,
         cpu_stop_signal_done, Act, ack_state, SetAck, SetState, callerVars, TypeOK
  <2>2. \A d \in Cpus : thread'[d] = "act" => thread[d] = "act"
    BY <1>0, <1>4 DEF Stopper, ThreadPark, cpu_stop_park, Unparked, cpu_stop_should_run, RunOne,
         cpu_stop_signal_done, Act, ack_state, SetAck, SetState, AfterSetState, Goto, TypeOK
  <2>3. state' = state \/ (thread[c] = "advance" /\ state' = [state EXCEPT ![work[c]] = state[work[c]] + 1])
    BY <1>4 DEF Stopper, ThreadPark, cpu_stop_park, Unparked, cpu_stop_should_run, RunOne,
         cpu_stop_signal_done, Act, ack_state, SetAck, SetState, Goto, dataVars
  <2>4. state'[h] >= state[h] /\ state'[h] \in Int /\ state[h] \in Int
    <3>1. state[h] \in Int /\ state \in [Callers -> NONE .. EXIT + 1]
      BY <1>0, StateTypes DEF TypeOK
    <3> QED BY <2>3, <3>1
  <2>5. Waiting(h)' => state'[h] >= RUN
    BY <2>1, <2>4 DEF Acted, Waiting, RUN
  <2> QED BY <1>0, <2>1, <2>2, <2>5 DEF Acted, RunsFn, Waiting
<1> QED BY <1>1, <1>2, <1>3, <1>4 DEF Next

\* take_cpu_down() is run once: neither did it succeed nor fail before.
LEMMA ActsOnce ==
    ASSUME Inv, Next, NEW c \in Cpus, Act(c), RunsFn(c), Op[work[c]] = "hotplug"
    PROVE  /\ work[c] \in Callers /\ hotplug = {work[c]} /\ Target[work[c]] = c /\ Waiting(work[c])
           /\ ~should_park[c] /\ ~failed[work[c]]
           /\ \A h \in Callers : h = work[c] => Acted(h)'
<1> DEFINE p == work[c]
<1>1. p \in Callers /\ Waiting(p) /\ StepOK(p, c) /\ thread[c] = "act" /\ Machine(p)
  BY AtWork, Participates DEF Act, Goto
<1>2. Target[p] = c /\ hotplug = {p} /\ curstate[c] = RUN /\ state[p] = RUN
  BY <1>1, PlugAlone DEF RunsFn, Waiting, StepOK
<1>3. ~Acted(p)
  BY <1>2 DEF Acted
<1>4. ~should_park[c]
  BY <1>1, <1>2, <1>3 DEF Inv, ParkInv, ParkOK, Dead
<1>5. ~failed[p]
  BY <1>1, <1>3 DEF Inv, ParkInv, PlugOK
<1>6. UNCHANGED <<pc, state, work, curstate>> /\ thread'[c] = "ack"
  BY DEF Act, Goto, callerVars, Inv, TypeOK
<1>7. ASSUME NEW h \in Callers, h = p PROVE Acted(h)'
  BY <1>1, <1>2, <1>6, <1>7 DEF Acted, RunsFn, Waiting, RUN
<1> QED BY <1>1, <1>2, <1>4, <1>5, <1>7

\* How the state of the parking of a stopper changes.
LEMMA ParkMoves ==
    ASSUME Inv, Next, NEW d \in Cpus
    PROVE  /\ should_park'[d] /\ ~should_park[d] => Act(d) /\ RunsFn(d) /\ Op[work[d]] = "hotplug"
           /\ should_park[d] /\ ~should_park'[d] =>
                \E p \in Callers : kthread_unpark(p) /\ Target[p] = d
           /\ enabled[d] /\ ~enabled'[d] => thread[d] = "park" /\ thread'[d] = "parked"
           /\ ~enabled[d] /\ enabled'[d] => \E p \in Callers : cpu_stop_unpark(p) /\ Target[p] = d
           /\ thread'[d] = "park" => thread[d] = "park" \/ should_park'[d]
           /\ thread[d] = "parked" /\ thread'[d] # "parked" => ~should_park[d]
<1>0. TypeOK
  BY DEF Inv
<1>1. ASSUME NEW p \in Callers, Caller(p), ~kthread_unpark(p), ~cpu_stop_unpark(p)
      PROVE  UNCHANGED <<should_park, enabled, thread>>
  BY <1>1 DEF Caller, stop_one_cpu, StartMachine, stop_cpus, Queued, wait_for_completion, At,
         cpu_stop_queue_work, put_online_cpus, CpuDownRefused, CpuDead, CpuUp,
         CpuUpFailed, stopperVars
<1>2. ASSUME NEW p \in Callers, kthread_unpark(p)
      PROVE  should_park' = [should_park EXCEPT ![Target[p]] = FALSE] /\ UNCHANGED <<enabled, thread>>
  BY <1>2 DEF kthread_unpark
<1>3. ASSUME NEW p \in Callers, cpu_stop_unpark(p)
      PROVE  enabled' = [enabled EXCEPT ![Target[p]] = TRUE] /\ UNCHANGED <<should_park, thread>>
  BY <1>3 DEF cpu_stop_unpark
<1>4. ASSUME NEW c \in Cpus, Stopper(c)
      PROVE  /\ should_park' = should_park
                \/ (Act(c) /\ RunsFn(c) /\ Op[work[c]] = "hotplug" /\ should_park' = [should_park EXCEPT ![c] = TRUE])
             /\ enabled' = enabled
                \/ (enabled' = [enabled EXCEPT ![c] = FALSE] /\ thread[c] = "park" /\ thread'[c] = "parked")
             /\ \A e \in Cpus \ {c} : thread'[e] = thread[e]
             /\ thread'[c] = "park" => should_park[c] /\ should_park' = should_park
             /\ thread[c] = "parked" => ~should_park[c]
  <2>1. CASE Act(c)
    BY <1>0, <2>1 DEF Act, Goto, TypeOK
  <2>2. CASE cpu_stop_park(c) \/ ThreadPark(c)
    BY <1>0, <2>2 DEF cpu_stop_park, ThreadPark, Goto, TypeOK
  <2>3. CASE ~Act(c) /\ ~cpu_stop_park(c) /\ ~ThreadPark(c)
    BY <1>0, <1>4, <2>3, ZenonT(60) DEF Stopper, Unparked, cpu_stop_should_run, RunOne, TakeWork, ReadState,
         cpu_stop_signal_done, ack_state, SetAck, SetState, AfterSetState, Goto, TypeOK
  <2> QED BY <2>1, <2>2, <2>3
<1>5. ASSUME NEW c \in Cpus, Stopper(c) PROVE
           /\ should_park'[d] /\ ~should_park[d] => Act(d) /\ RunsFn(d) /\ Op[work[d]] = "hotplug"
           /\ should_park[d] => should_park'[d]
           /\ enabled[d] /\ ~enabled'[d] => thread[d] = "park" /\ thread'[d] = "parked"
           /\ ~enabled[d] => ~enabled'[d]
           /\ thread'[d] = "park" => thread[d] = "park" \/ should_park'[d]
           /\ thread[d] = "parked" /\ thread'[d] # "parked" => ~should_park[d]
  <2>1. should_park \in [Cpus -> BOOLEAN] /\ enabled \in [Cpus -> BOOLEAN]
    BY <1>0 DEF TypeOK
  <2>3. /\ should_park'[d] /\ ~should_park[d] => Act(d) /\ RunsFn(d) /\ Op[work[d]] = "hotplug"
        /\ should_park[d] => should_park'[d]
    BY <1>4, <1>5, <2>1, ZenonT(60)
  <2>4. /\ enabled[d] /\ ~enabled'[d] => thread[d] = "park" /\ thread'[d] = "parked"
        /\ ~enabled[d] => ~enabled'[d]
    BY <1>4, <1>5, <2>1, Zenon
  <2>5. /\ thread'[d] = "park" => thread[d] = "park" \/ should_park'[d]
        /\ thread[d] = "parked" /\ thread'[d] # "parked" => ~should_park[d]
    BY <1>4, <1>5, Zenon
  <2> QED BY <2>3, <2>4, <2>5, Zenon
<1>6. ASSUME NEW p \in Callers, Caller(p) PROVE
           /\ should_park'[d] => should_park[d]
           /\ should_park[d] /\ ~should_park'[d] => kthread_unpark(p) /\ Target[p] = d
           /\ enabled[d] => enabled'[d]
           /\ ~enabled[d] /\ enabled'[d] => cpu_stop_unpark(p) /\ Target[p] = d
           /\ thread' = thread
           /\ should_park'[d] = FALSE /\ should_park[d] => kthread_unpark(p)
  <2>1. should_park \in [Cpus -> BOOLEAN] /\ enabled \in [Cpus -> BOOLEAN]
    BY <1>0 DEF TypeOK
  <2> QED BY <1>1, <1>2, <1>3, <1>6, <2>1, Zenon
<1>7. CASE \E p \in Callers : Caller(p)
  BY <1>6, <1>7, Zenon
<1>8. CASE \E c \in Cpus : Stopper(c)
  BY <1>5, <1>8, Zenon
<1> QED BY <1>7, <1>8 DEF Next

\* How a CPU hotplug operation moves on.
LEMMA PlugMoves ==
    ASSUME Inv, Next, NEW h \in Callers
    PROVE  /\ h \in hotplug /\ h \notin hotplug' =>
                put_online_cpus(h) \/ kthread_unpark(h) \/ (CpuDead(h) /\ ~failed[h])
           /\ h \in hotplug' => h \in hotplug \/ pc[h] = "start" \/ CpuUp(h)
           /\ pc'[h] \in {"unpark", "kthread_unpark"} =>
                \/ pc[h] \in {"unpark", "kthread_unpark"}
                \/ (CpuDead(h) /\ failed[h]) \/ CpuUp(h)
           /\ pc'[h] = "kthread_unpark" => pc[h] = "kthread_unpark" \/ cpu_stop_unpark(h)
           /\ failed'[h] /\ ~failed[h] =>
                \E c \in Cpus : /\ Act(c) /\ RunsFn(c) /\ work[c] = h /\ Op[h] = "hotplug"
                                /\ should_park' = should_park
<1>0. TypeOK
  BY DEF Inv
<1>1. ASSUME NEW c \in Cpus, Stopper(c)
      PROVE  UNCHANGED <<pc, hotplug>> /\ (Act(c) \/ failed' = failed)
  BY <1>1 DEF Stopper, Unparked, cpu_stop_should_run, RunOne, TakeWork, ReadState, ThreadPark, cpu_stop_park,
         cpu_stop_signal_done, Act, ack_state, SetAck, SetState, callerVars, dataVars
<1>2. ASSUME NEW c \in Cpus, Act(c), failed'[h], ~failed[h]
      PROVE  /\ Act(c) /\ RunsFn(c) /\ work[c] = h /\ Op[h] = "hotplug"
             /\ should_park' = should_park
  BY <1>0, <1>2 DEF Act, TypeOK
<1>3. ASSUME NEW p \in Callers, Caller(p)
      PROVE  /\ failed' = failed
             /\ \A q \in Callers : pc'[q] # pc[q] => q = p
             /\ pc'[p] \in {"unpark", "kthread_unpark"} =>
                    CpuDead(p) \/ CpuUp(p) \/ cpu_stop_unpark(p) \/ pc'[p] = pc[p]
  BY <1>0, <1>3, ZenonT(60) DEF Caller, stop_one_cpu, StartMachine, stop_cpus, Queued, wait_for_completion, At,
         cpu_stop_queue_work, put_online_cpus, CpuDownRefused, CpuDead, CpuUp, CpuUpFailed, cpu_stop_unpark,
         kthread_unpark, dataVars, TypeOK
<1>4. ASSUME NEW p \in Callers, Caller(p)
      PROVE  \/ hotplug' = hotplug
             \/ hotplug' = hotplug \cup {p} /\ (pc[p] = "start" \/ CpuUp(p))
             \/ hotplug' = hotplug \ {p} /\ (put_online_cpus(p) \/ kthread_unpark(p) \/ (CpuDead(p) /\ ~failed[p]))
  BY <1>4 DEF Caller, stop_one_cpu, StartMachine, stop_cpus, Queued, wait_for_completion, At,
         cpu_stop_queue_work, put_online_cpus, CpuDownRefused, CpuDead, CpuUp, CpuUpFailed, cpu_stop_unpark,
         kthread_unpark
<1>5. ASSUME NEW p \in Callers, CpuUp(p) \/ cpu_stop_unpark(p) \/ CpuDead(p)
      PROVE  /\ CpuDead(p) => pc'[p] # "kthread_unpark" /\ (pc'[p] = "unpark" => failed[p])
             /\ CpuUp(p) => pc'[p] # "kthread_unpark"
             /\ cpu_stop_unpark(p) => pc[p] = "unpark"
  BY <1>0, <1>5 DEF CpuUp, cpu_stop_unpark, CpuDead, At, TypeOK
<1>6. CASE \E p \in Callers : Caller(p)
  <2>1. PICK p \in Callers : Caller(p)
    BY <1>6
  <2>2. /\ h \in hotplug /\ h \notin hotplug' =>
             put_online_cpus(h) \/ kthread_unpark(h) \/ (CpuDead(h) /\ ~failed[h])
        /\ h \in hotplug' => h \in hotplug \/ pc[h] = "start" \/ CpuUp(h)
    BY <1>4, <2>1
  <2>3. /\ pc'[h] \in {"unpark", "kthread_unpark"} =>
             \/ pc[h] \in {"unpark", "kthread_unpark"}
             \/ (CpuDead(h) /\ failed[h]) \/ CpuUp(h)
        /\ pc'[h] = "kthread_unpark" => pc[h] = "kthread_unpark" \/ cpu_stop_unpark(h)
    BY <1>3, <1>5, <2>1
  <2> QED BY <1>3, <2>1, <2>2, <2>3
<1>7. CASE \E c \in Cpus : Stopper(c)
  BY <1>1, <1>2, <1>7, Zenon
<1> QED BY <1>6, <1>7 DEF Next

\* A CPU comes online by _cpu_up() only.
LEMMA OnlineMoves ==
    ASSUME Inv, Next, NEW d \in Cpus, d \notin online, d \in online'
    PROVE  \E p \in Callers : CpuUp(p) /\ Target[p] = d
<1>1. ASSUME NEW p \in Callers, Caller(p), ~CpuUp(p) PROVE online' = online
  BY <1>1 DEF Caller, stop_one_cpu, StartMachine, stop_cpus, Queued, wait_for_completion,
         cpu_stop_queue_work, put_online_cpus, CpuDownRefused, CpuDead, CpuUpFailed, cpu_stop_unpark,
         kthread_unpark
<1>2. ASSUME NEW c \in Cpus, Stopper(c) PROVE online' \subseteq online
  BY <1>2 DEF Stopper, Unparked, cpu_stop_should_run, RunOne, TakeWork, ReadState, ThreadPark, cpu_stop_park,
         cpu_stop_signal_done, Act, ack_state, SetAck, SetState
<1>3. ASSUME NEW p \in Callers, CpuUp(p) PROVE Target[p] = d
  BY <1>3 DEF CpuUp
<1> QED BY <1>1, <1>2, <1>3 DEF Next

\* The call that unparks a stopper goes on until it has.
LEMMA UnparkMoves ==
    ASSUME Inv, Next, NEW h \in Callers, h \in hotplug, pc[h] \in {"unpark", "kthread_unpark"},
           ~kthread_unpark(h)
    PROVE  pc'[h] \in {"unpark", "kthread_unpark"} /\ h \in hotplug'
<1>0. TypeOK
  BY DEF Inv
<1>1. pc'[h] \in {"unpark", "kthread_unpark"}
  <2>1. ASSUME NEW p \in Callers, Caller(p) PROVE pc'[h] \in {"unpark", "kthread_unpark"}
    BY <1>0, <2>1 DEF Caller, stop_one_cpu, StartMachine, stop_cpus, Queued, wait_for_completion, At,
         cpu_stop_queue_work, put_online_cpus, CpuDownRefused, CpuDead, CpuUp, CpuUpFailed, cpu_stop_unpark,
         kthread_unpark, TypeOK
  <2>2. ASSUME NEW c \in Cpus, Stopper(c) PROVE pc' = pc
    BY <2>2 DEF Stopper, Unparked, cpu_stop_should_run, RunOne, TakeWork, ReadState, ThreadPark, cpu_stop_park,
         cpu_stop_signal_done, Act, ack_state, SetAck, SetState, callerVars
  <2> QED BY <2>1, <2>2 DEF Next
<1>2. ~put_online_cpus(h) /\ ~CpuDead(h)
  BY DEF put_online_cpus, CpuDead, At
<1> QED BY <1>1, <1>2, PlugMoves

\* The end of a successful _cpu_down().
LEMMA UpMoves ==
    ASSUME Inv, Next, NEW h \in Callers, pc'[h] = "up"
    PROVE  pc[h] = "up" \/ (CpuDead(h) /\ ~failed[h])
<1>0. TypeOK
  BY DEF Inv
<1>1. ASSUME NEW p \in Callers, Caller(p) PROVE pc[h] = "up" \/ (CpuDead(h) /\ ~failed[h])
  <2>1. CASE CpuDead(p)
    BY <1>0, <2>1 DEF CpuDead, At, TypeOK
  <2>2. CASE ~CpuDead(p)
    <3>1. pc' = pc \/ (pc' = [pc EXCEPT ![p] = pc'[p]] /\ pc'[p] # "up")
      BY <1>0, <1>1, <2>2, ZenonT(60) DEF Caller, stop_one_cpu, StartMachine, stop_cpus, Queued,
         wait_for_completion, At, cpu_stop_queue_work, put_online_cpus, CpuDownRefused, CpuUp, CpuUpFailed,
         cpu_stop_unpark, kthread_unpark, TypeOK
    <3> QED BY <1>0, <3>1 DEF TypeOK
  <2> QED BY <2>1, <2>2
<1>2. ASSUME NEW c \in Cpus, Stopper(c) PROVE pc' = pc
  BY <1>2 DEF Stopper, Unparked, cpu_stop_should_run, RunOne, TakeWork, ReadState, ThreadPark, cpu_stop_park,
       cpu_stop_signal_done, Act, ack_state, SetAck, SetState, callerVars
<1> QED BY <1>1, <1>2 DEF Next

\* A stop_machine() counts on no other CPUs than those that are online when it starts.
LEMMA PartsGrow ==
    ASSUME Inv, Next, NEW p \in Callers, Machine(p), NEW d \in Cpus, d \in Parts(p)', d \notin Parts(p)
    PROVE  d \in online
<1>0. TypeOK
  BY DEF Inv
<1>1. ASSUME NEW q \in Callers, NEW c \in Cpus, cpu_stop_queue_work(q, c) PROVE FALSE
  <2>1. On(p, d)' <=> On(p, d) \/ (p = q /\ d = c /\ enabled[c])
    BY <1>1, QueueOn
  <2>2. c \in todo[q] /\ todo'[p] \subseteq todo[p]
    BY <1>0, <1>1 DEF cpu_stop_queue_work, TypeOK
  <2> QED BY <2>1, <2>2 DEF Parts
<1>2. ASSUME NEW q \in Callers, Caller(q), ~\E c \in Cpus : cpu_stop_queue_work(q, c) PROVE d \in online
  <2>1. UNCHANGED <<works, work>>
    BY <1>2 DEF Caller, stop_one_cpu, StartMachine, stop_cpus, Queued, wait_for_completion,
         put_online_cpus, CpuDownRefused, CpuDead, CpuUp, CpuUpFailed, cpu_stop_unpark, kthread_unpark, stopperVars
  <2>2. On(p, d)' <=> On(p, d)
    BY <2>1, SameOn
  <2>3. todo'[p] = todo[p] \/ todo'[p] = online
    BY <1>0, <1>2 DEF Caller, stop_one_cpu, StartMachine, stop_cpus, Queued, wait_for_completion,
         put_online_cpus, CpuDownRefused, CpuDead, CpuUp, CpuUpFailed, cpu_stop_unpark, kthread_unpark, TypeOK,
         Machine
  <2> QED BY <2>2, <2>3 DEF Parts
<1>3. ASSUME NEW c \in Cpus, Stopper(c) PROVE FALSE
  <2>1. On(p, d)' => On(p, d)
    <3>1. CASE TakeWork(c)
      BY <3>1, TakeOn
    <3>2. CASE cpu_stop_signal_done(c)
      BY <3>2, SignalOn
    <3>3. CASE ~TakeWork(c) /\ ~cpu_stop_signal_done(c)
      <4>1. UNCHANGED <<works, work>>
        BY <1>3, <3>3 DEF Stopper, Unparked, cpu_stop_should_run, RunOne, ReadState, ThreadPark, cpu_stop_park,
           Act, ack_state, SetAck, SetState
      <4> QED BY <4>1, SameOn
    <3> QED BY <3>1, <3>2, <3>3
  <2>2. todo' = todo
    BY <1>3 DEF Stopper, Unparked, cpu_stop_should_run, RunOne, TakeWork, ReadState, ThreadPark, cpu_stop_park,
         cpu_stop_signal_done, Act, ack_state, SetAck, SetState, callerVars
  <2> QED BY <2>1, <2>2 DEF Parts
<1> QED BY <1>1, <1>2, <1>3 DEF Next

\* At the end of _cpu_down() the CPU is dead.
LEMMA DeadStart ==
    ASSUME Inv, Next, NEW h \in Callers, h \in hotplug, should_park[Target[h]], CpuDead(h), ~failed[h]
    PROVE  Dead(Target[h])'
<1> DEFINE t == Target[h]
<1>0. TypeOK /\ CallInv /\ ParkInv /\ t \in Cpus
  BY Constants DEF Inv
<1>1. /\ Op[h] = "hotplug" /\ pc[h] = "stopped" /\ thread[t] = "parked"
      /\ UNCHANGED <<works, work, thread, online, todo>>
  BY DEF CpuDead, At, stopperVars
<1>2. hotplug = {h}
  BY <1>0, <1>1 DEF CallInv, CallOK
<1>3. t \notin online
  BY <1>0, <1>1, <1>2 DEF ParkInv, ParkOK
<1>4. work[t] = NULL
  BY <1>0, <1>1 DEF Inv, WorkInv, WorkOK
<1>5. ASSUME NEW p \in Callers, Machine(p) PROVE t \notin Parts(p)'
  <2>1. t \notin Parts(p)
    BY <1>0, <1>4, <1>5, ParkedFree
  <2>2. On(p, t)' <=> On(p, t)
    BY <1>0, <1>1, SameOn
  <2> QED BY <1>1, <2>1, <2>2 DEF Parts
<1> QED BY <1>1, <1>3, <1>5 DEF Dead, Machine

\* It stays dead until _cpu_up() has brought it online, which then goes on to unpark it.
LEMMA DeadStays ==
    ASSUME Inv, Next, NEW d \in Cpus, should_park[d], Dead(d), ~Dead(d)'
    PROVE  \E h \in hotplug' : Target[h] = d /\ Acted(h)'
<1>0. TypeOK /\ CallInv /\ WorkInv
  BY DEF Inv
<1>1. thread'[d] = "parked"
  BY ParkMoves DEF Dead
<1>2. ASSUME NEW p \in Callers, Machine(p) PROVE d \notin Parts(p)'
  BY <1>2, PartsGrow DEF Dead
<1>3. d \in online'
  BY <1>1, <1>2 DEF Dead, Machine
<1>4. PICK p \in Callers : CpuUp(p) /\ Target[p] = d
  BY <1>3, OnlineMoves DEF Dead
<1>5. Op[p] = "hotplug" /\ pc'[p] = "unpark" /\ p \in hotplug' /\ work' = work
  BY <1>0, <1>4, Constants DEF CpuUp, At, CallInv, CallOK, TypeOK, stopperVars
<1>6. work[d] = NULL /\ p # NULL
  BY <1>0, Constants DEF WorkInv, WorkOK, Dead
<1>7. Acted(p)'
  BY <1>4, <1>5, <1>6 DEF Acted, Waiting
<1> QED BY <1>4, <1>5, <1>7

\* The parking of the stoppers follows the CPU hotplug operations.
LEMMA ParkStep ==
    ASSUME Inv, Next
    PROVE  ParkInv'
<1>0. /\ TypeOK /\ CallInv /\ (\A c \in Cpus : ParkOK(c)) /\ (\A h \in Callers : PlugOK(h))
      /\ \A h \in Callers : Target[h] \in Cpus
  BY Constants DEF Inv, ParkInv
<1>1. ASSUME NEW d \in Cpus PROVE ParkOK(d)'
  <2>1. ASSUME should_park'[d]
        PROVE  (\E h \in hotplug' : Target[h] = d /\ Acted(h)') \/ Dead(d)'
    <3>1. CASE ~should_park[d]
      <4>1. Act(d) /\ RunsFn(d) /\ Op[work[d]] = "hotplug"
        BY <2>1, <3>1, ParkMoves
      <4>2. PICK h \in Callers : h = work[d] /\ h \in hotplug /\ Target[h] = d /\ Acted(h)'
        BY <4>1, ActsOnce
      <4>3. hotplug' = hotplug
        BY <4>1 DEF Act, callerVars
      <4> QED BY <4>2, <4>3
    <3>2. ASSUME should_park[d], NEW h \in hotplug, Target[h] = d, Acted(h)
          PROVE  (\E g \in hotplug' : Target[g] = d /\ Acted(g)') \/ Dead(d)'
      <4>2. h \in Callers /\ Acted(h)'
        BY <1>0, <3>2, ActedStays DEF TypeOK
      <4>3. ~put_online_cpus(h)
        BY <3>2 DEF put_online_cpus, Acted
      <4>4. ~kthread_unpark(h)
        BY <1>0, <2>1, <3>2 DEF kthread_unpark, TypeOK
      <4>5. CASE h \in hotplug'
        BY <3>2, <4>2, <4>5
      <4>6. CASE h \notin hotplug'
        <5>1. CpuDead(h) /\ ~failed[h]
          BY <3>2, <4>2, <4>3, <4>4, <4>6, PlugMoves
        <5> QED BY <3>2, <4>2, <5>1, DeadStart
      <4> QED BY <4>5, <4>6
    <3>3. ASSUME should_park[d], Dead(d), ~Dead(d)'
          PROVE  \E h \in hotplug' : Target[h] = d /\ Acted(h)'
      BY <3>3, DeadStays
    <3> QED BY <1>0, <3>1, <3>2, <3>3 DEF ParkOK
  <2>4. ASSUME should_park'[d], d \in online'
        PROVE  \E h \in hotplug' : Target[h] = d /\ pc'[h] \in {"unpark", "kthread_unpark"}
    <3>1. CASE ~should_park[d]
      <4>1. Act(d) /\ RunsFn(d) /\ Op[work[d]] = "hotplug"
        BY <2>4, <3>1, ParkMoves
      <4> QED BY <1>0, <2>4, <3>1, <4>1 DEF Act, TypeOK
    <3>2. CASE should_park[d] /\ d \in online
      <4>1. PICK h \in hotplug : Target[h] = d /\ pc[h] \in {"unpark", "kthread_unpark"}
        BY <1>0, <3>2 DEF ParkOK
      <4>2. h \in Callers /\ ~kthread_unpark(h)
        BY <1>0, <2>4, <4>1 DEF kthread_unpark, TypeOK
      <4>3. pc'[h] \in {"unpark", "kthread_unpark"} /\ h \in hotplug'
        BY <4>1, <4>2, UnparkMoves
      <4> QED BY <4>1, <4>3
    <3>3. CASE should_park[d] /\ d \notin online
      <4>1. PICK p \in Callers : CpuUp(p) /\ Target[p] = d
        BY <2>4, <3>3, OnlineMoves
      <4> QED BY <1>0, <4>1 DEF CpuUp, At, TypeOK
    <3> QED BY <3>1, <3>2, <3>3
  <2>2. ASSUME ~enabled'[d] PROVE thread'[d] = "parked" /\ should_park'[d]
    <3>1. CASE enabled[d]
      <4>1. thread[d] = "park" /\ thread'[d] = "parked"
        BY <2>2, <3>1, ParkMoves
      <4>2. ~ \E p \in Callers : kthread_unpark(p)
        BY <4>1 DEF kthread_unpark
      <4> QED BY <1>0, <4>1, <4>2, ParkMoves DEF ParkOK
    <3>2. CASE ~enabled[d]
      <4>1. thread[d] = "parked" /\ should_park[d]
        BY <1>0, <3>2 DEF ParkOK
      <4>2. ~ \E p \in Callers : kthread_unpark(p) /\ Target[p] = d
        BY <1>0, <3>2 DEF kthread_unpark, At, PlugOK
      <4> QED BY <4>1, <4>2, ParkMoves
    <3> QED BY <3>1, <3>2
  <2>3. ASSUME thread'[d] = "park" PROVE should_park'[d]
    <3>1. CASE thread[d] = "park" /\ ~should_park'[d]
      <4>1. should_park[d]
        BY <1>0, <3>1 DEF ParkOK
      <4>2. PICK p \in Callers : kthread_unpark(p) /\ Target[p] = d
        BY <3>1, <4>1, ParkMoves
      <4> QED BY <1>0, <3>1, <4>1, <4>2 DEF kthread_unpark, At, PlugOK
    <3> QED BY <2>3, <3>1, ParkMoves
  <2> QED BY <2>1, <2>2, <2>3, <2>4 DEF ParkOK
<1>2. ASSUME NEW h \in Callers PROVE PlugOK(h)'
  <2> DEFINE t == Target[h]
  <2>1. ASSUME failed'[h] PROVE Acted(h)'
    <3>1. CASE failed[h]
      BY <1>0, <3>1, ActedStays DEF PlugOK
    <3>2. CASE ~failed[h]
      <4>1. PICK c \in Cpus : Act(c) /\ RunsFn(c) /\ work[c] = h /\ Op[h] = "hotplug"
        BY <2>1, <3>2, PlugMoves
      <4> QED BY <4>1, ActsOnce
    <3> QED BY <3>1, <3>2
  <2>2. ASSUME h \in hotplug', failed'[h] PROVE ~should_park'[t]
    <3>1. CASE ~failed[h]
      <4>1. PICK c \in Cpus : /\ Act(c) /\ RunsFn(c) /\ work[c] = h /\ Op[h] = "hotplug"
                              /\ should_park' = should_park
        BY <2>2, <3>1, PlugMoves
      <4> QED BY <4>1, ActsOnce
    <3>2. CASE failed[h]
      <4>1. h \in hotplug
        <5>1. ~CpuUp(h)
          BY <1>0, <3>2 DEF PlugOK, CpuUp, At
        <5> QED BY <1>0, <2>2, <3>2, <5>1, PlugMoves DEF CallInv, CallOK
      <4>2. ~should_park[t]
        BY <1>0, <3>2, <4>1 DEF PlugOK
      <4>3. ASSUME should_park'[t] PROVE FALSE
        <5>1. Act(t) /\ RunsFn(t) /\ Op[work[t]] = "hotplug"
          BY <1>0, <4>2, <4>3, ParkMoves
        <5>2. hotplug = {work[t]} /\ ~failed[work[t]]
          BY <1>0, <5>1, ActsOnce
        <5> QED BY <3>2, <4>1, <5>2
      <4> QED BY <4>3
    <3> QED BY <3>1, <3>2
  <2>3. ASSUME pc'[h] \in {"unpark", "kthread_unpark"}
        PROVE  thread'[t] = "parked" \/ ~should_park'[t]
    <3>1. thread[t] = "parked" \/ ~should_park[t]
      <4>1. CASE CpuDead(h) /\ failed[h]
        <5>1. h \in hotplug
          BY <1>0, <4>1 DEF CpuDead, At, CallInv, CallOK, Machine
        <5> QED BY <1>0, <4>1, <5>1 DEF PlugOK
      <4>2. CASE CpuUp(h)
        BY <1>0, <4>2 DEF CpuUp, ParkOK, Dead
      <4> QED BY <1>0, <2>3, <4>1, <4>2, PlugMoves DEF PlugOK
    <3>2. ASSUME should_park'[t], ~should_park[t] PROVE FALSE
      <4>1. Act(t) /\ RunsFn(t) /\ Op[work[t]] = "hotplug"
        BY <1>0, <3>2, ParkMoves
      <4>2. work[t] \in Callers /\ Waiting(work[t]) /\ hotplug = {work[t]} /\ pc' = pc
        BY <1>0, <4>1, ActsOnce DEF Act, callerVars
      <4>3. h \in hotplug
        BY <1>0, <2>3, <4>2, Constants DEF CallInv, CallOK, Machine
      <4> QED BY <2>3, <4>2, <4>3 DEF Waiting
    <3>3. thread[t] = "parked" /\ should_park[t] => thread'[t] = "parked"
      BY <1>0, ParkMoves
    <3> QED BY <3>1, <3>2, <3>3
  <2>4. ASSUME pc'[h] = "kthread_unpark" PROVE enabled'[t]
    <3>1. CASE cpu_stop_unpark(h)
      BY <1>0, <3>1 DEF cpu_stop_unpark, TypeOK
    <3>2. CASE pc[h] = "kthread_unpark"
      <4>1. enabled[t] /\ (thread[t] = "parked" \/ ~should_park[t])
        BY <1>0, <3>2 DEF PlugOK
      <4>2. thread[t] # "park"
        BY <1>0, <4>1 DEF ParkOK
      <4> QED BY <1>0, <4>1, <4>2, ParkMoves
    <3> QED BY <2>4, <3>1, <3>2, PlugMoves
  <2>5. ASSUME pc'[h] = "up" PROVE ~failed'[h]
    <3>1. (pc[h] = "up" /\ ~failed[h]) \/ (CpuDead(h) /\ ~failed[h])
      BY <1>0, <2>5, UpMoves DEF PlugOK
    <3>2. ASSUME failed'[h], ~failed[h] PROVE FALSE
      <4>1. PICK c \in Cpus : Act(c) /\ RunsFn(c) /\ work[c] = h /\ Op[h] = "hotplug"
        BY <3>2, PlugMoves
      <4>2. Waiting(h) /\ pc' = pc
        BY <4>1, ActsOnce DEF Act, callerVars
      <4> QED BY <2>5, <4>2 DEF Waiting
    <3> QED BY <3>1, <3>2
  <2> QED BY <2>1, <2>2, <2>3, <2>4, <2>5 DEF PlugOK
<1> QED BY <1>1, <1>2 DEF ParkInv

-----------------------------------------------------------------------------
(* The rendezvous.                                                         *)

\* A step that leaves the stop_machine() of p as it is.
SameMachine(p) ==
    /\ Waiting(p)
    /\ state'[p] = state[p] /\ num_threads'[p] = num_threads[p] /\ thread_ack'[p] = thread_ack[p]
    /\ online' \subseteq online
    /\ \A d \in Cpus :
        /\ On(p, d)' \/ d \in todo'[p] <=> On(p, d) \/ d \in todo[p]
        /\ work'[d] = p <=> work[d] = p
        /\ work[d] = p => thread'[d] = thread[d] /\ curstate'[d] = curstate[d]

\* Then what is known of the stop_machine() of p stays so.
LEMMA MachineFrame ==
    ASSUME NEW p \in Callers, Machine(p), MachineOK(p), SameMachine(p)
    PROVE  MachineOK(p)'
<1>1. Parts(p)' = Parts(p)
  BY DEF Parts, SameMachine
<1>2. Late(p)' = Late(p)
  BY <1>1 DEF Late, SameMachine, Parts
<1>3. ASSUME NEW d \in Cpus PROVE Turns(p, d)' <=> Turns(p, d)
  BY DEF Turns, SameMachine
<1>4. Turning(p)' <=> Turning(p)
  BY <1>3 DEF Turning
<1>5. ASSUME NEW d \in Cpus, work'[d] = p, StepOK(p, d) PROVE StepOK(p, d)'
  BY <1>2, <1>5 DEF StepOK, SameMachine
<1>6. \A d \in Cpus : work'[d] = p => StepOK(p, d)'
  BY <1>5 DEF MachineOK, SameMachine
<1> HIDE DEF Turning
<1> QED BY <1>1, <1>2, <1>3, <1>4, <1>6 DEF MachineOK, SameMachine, Parts

\* The steps of the callers.
LEMMA MachineCaller ==
    ASSUME Inv, NEW p \in Callers, Caller(p), NEW q \in Callers, Machine(q), Waiting(q)',
           ~(stop_cpus(p) /\ q = p)
    PROVE  SameMachine(q)
<1>0. TypeOK /\ CallInv /\ q # NULL
  BY Constants DEF Inv
<1>1. CASE \E c \in Cpus : cpu_stop_queue_work(p, c)
  <2>1. PICK c \in Cpus : cpu_stop_queue_work(p, c)
    BY <1>1
  <2>2. c \in todo[p]
    BY <2>1 DEF cpu_stop_queue_work
  <2>3. Machine(p) => enabled[c]
    BY <2>2, DisabledFree DEF Parts
  <2>4. \A d \in Cpus : On(q, d)' <=> On(q, d) \/ (q = p /\ d = c /\ enabled[c])
    BY <2>1, QueueOn
  <2>5. \A d \in Cpus : On(q, d)' \/ d \in todo'[q] <=> On(q, d) \/ d \in todo[q]
    <3>1. todo' = [todo EXCEPT ![p] = todo[p] \ {c}] /\ todo \in [Callers -> SUBSET Cpus]
      BY <1>0, <2>1 DEF cpu_stop_queue_work, TypeOK
    <3> QED BY <2>2, <2>3, <2>4, <3>1
  <2>6. UNCHANGED <<pc, state, num_threads, thread_ack, online, work, thread, curstate>>
    BY <2>1 DEF cpu_stop_queue_work, dataVars
  <2> QED BY <2>5, <2>6 DEF SameMachine, Waiting
<1>2. CASE CpuUp(p)
  <2>1. hotplug = {}
    BY <1>2 DEF CpuUp
  <2>2. Waiting(q)
    BY <1>0, <1>2 DEF CpuUp, At, Waiting, TypeOK
  <2> QED BY <1>0, <2>1, <2>2 DEF CallInv, CallOK, Waiting
<1>3. CASE ~(\E c \in Cpus : cpu_stop_queue_work(p, c)) /\ ~CpuUp(p)
  <2>1. UNCHANGED <<works, work, thread, curstate, online>>
    BY <1>3 DEF Caller, stop_one_cpu, StartMachine, stop_cpus, Queued, wait_for_completion,
         put_online_cpus, CpuDownRefused, CpuDead,
         CpuUpFailed, cpu_stop_unpark, kthread_unpark, stopperVars
  <2>2. Waiting(q) /\ todo'[q] = todo[q] /\ state'[q] = state[q] /\ num_threads'[q] = num_threads[q]
        /\ thread_ack'[q] = thread_ack[q]
    BY <1>0, <1>3 DEF Caller, stop_one_cpu, StartMachine, stop_cpus, Queued, wait_for_completion, At,
         put_online_cpus, CpuDownRefused, CpuDead,
         CpuUpFailed, cpu_stop_unpark, kthread_unpark, dataVars, TypeOK, Waiting, Machine
  <2>3. \A d \in Cpus : On(q, d)' <=> On(q, d)
    BY <2>1, SameOn
  <2> QED BY <2>1, <2>2, <2>3 DEF SameMachine
<1> QED BY <1>1, <1>2, <1>3

\* Works are about to be queued on every CPU online.
LEMMA MachineStart ==
    ASSUME Inv, NEW p \in Callers, stop_cpus(p)
    PROVE  MachineOK(p)'
<1>0. TypeOK /\ CallInv /\ ReadyOK(p) /\ pc[p] = "mutex" /\ online \in SUBSET Cpus
  BY DEF Inv, stop_cpus, At, ReadyInv, TypeOK
<1>1. UNCHANGED <<works, work, thread, curstate, online, state, num_threads, thread_ack>> /\ todo'[p] = online
  BY <1>0 DEF stop_cpus, stopperVars, dataVars, TypeOK
<1>2. \A d \in Cpus : ~On(p, d)'
  BY <1>0, <1>1, SameOn DEF Inv, OnInv, OnOK
<1>3. \A d \in Cpus : work'[d] # p
  BY <1>2 DEF On
<1>4. Parts(p)' = online
  BY <1>0, <1>1, <1>2 DEF Parts
<1>5. Late(p)' = online
  BY <1>0, <1>3, <1>4 DEF Late
<1>6. \A d \in Cpus : ~Turns(p, d)'
  BY <1>3 DEF Turns
<1>7. ~Turning(p)'
  BY <1>6 DEF Turning
<1>8. state'[p] = PREPARE /\ num_threads'[p] = Cardinality(online) /\ thread_ack'[p] = Cardinality(online)
  BY <1>0, <1>1 DEF ReadyOK
<1> HIDE DEF Turning
<1> QED BY <1>1, <1>3, <1>4, <1>5, <1>6, <1>8 DEF MachineOK, PREPARE, EXIT

\* A stopper's steps leave other calls alone.
LEMMA MachineOthers ==
    ASSUME Inv, NEW c \in Cpus, Stopper(c), NEW q \in Callers, Machine(q), Waiting(q)',
           work[c] # q, work'[c] # q
    PROVE  SameMachine(q)
<1>0. TypeOK
  BY DEF Inv
<1>1. pc' = pc /\ todo' = todo /\ num_threads' = num_threads
  BY DEF Stopper, Unparked, cpu_stop_should_run, RunOne, TakeWork, ReadState, ThreadPark, cpu_stop_park,
         cpu_stop_signal_done, Act, ack_state, SetAck, SetState, callerVars, dataVars
<1>2. online' \subseteq online
  BY DEF Stopper, Unparked, cpu_stop_should_run, RunOne, TakeWork, ReadState, ThreadPark, cpu_stop_park,
         cpu_stop_signal_done, Act, ack_state, SetAck, SetState
<1>3. state'[q] = state[q] /\ thread_ack'[q] = thread_ack[q]
  BY <1>0 DEF Stopper, Unparked, cpu_stop_should_run, RunOne, TakeWork, ReadState, ThreadPark, cpu_stop_park,
         cpu_stop_signal_done, Act, ack_state, SetAck, SetState, dataVars, TypeOK
<1>4. \A d \in Cpus \ {c} : work'[d] = work[d] /\ thread'[d] = thread[d] /\ curstate'[d] = curstate[d]
  BY <1>0, ZenonT(60) DEF Stopper, Unparked, cpu_stop_should_run, RunOne, TakeWork, ReadState, ThreadPark,
       cpu_stop_park,
         cpu_stop_signal_done, Act, ack_state, SetAck, SetState, Goto, TypeOK
<1>5. \A d \in Cpus : On(q, d)' <=> On(q, d)
  <2>1. CASE TakeWork(c)
    BY <2>1, TakeOn
  <2>2. CASE cpu_stop_signal_done(c)
    BY <2>2, SignalOn
  <2>3. CASE ~TakeWork(c) /\ ~cpu_stop_signal_done(c)
    <3>1. UNCHANGED <<works, work>>
      BY <2>3 DEF Stopper, Unparked, cpu_stop_should_run, RunOne, ReadState, ThreadPark, cpu_stop_park,
         Act, ack_state, SetAck, SetState
    <3> QED BY <3>1, SameOn
  <2> QED BY <2>1, <2>2, <2>3
<1> QED BY <1>1, <1>2, <1>3, <1>4, <1>5 DEF SameMachine, Waiting

\* A step of one stopper in the stop_machine() of p.
OneMoves(p, c, to, cs) ==
    /\ thread' = [thread EXCEPT ![c] = to] /\ curstate' = [curstate EXCEPT ![c] = cs]
    /\ \A d \in Cpus : (On(p, d)' <=> On(p, d)) /\ (work'[d] = p <=> work[d] = p)
    /\ UNCHANGED <<pc, todo, num_threads>> /\ online' \subseteq online

\* The CPUs that take part are the same, and only c may change its place among the late.
LEMMA OneParts ==
    ASSUME TypeOK, NEW p \in Callers, NEW c \in Cpus, NEW to, NEW cs, OneMoves(p, c, to, cs)
    PROVE  /\ Parts(p)' = Parts(p) /\ thread'[c] = to /\ curstate'[c] = cs
           /\ \A d \in Cpus \ {c} : thread'[d] = thread[d] /\ curstate'[d] = curstate[d]
           /\ state'[p] = state[p] => \A d \in Cpus \ {c} : d \in Late(p)' <=> d \in Late(p)
<1>1. Parts(p)' = Parts(p)
  BY DEF Parts, OneMoves
<1>2. /\ thread'[c] = to /\ curstate'[c] = cs
      /\ \A d \in Cpus \ {c} : thread'[d] = thread[d] /\ curstate'[d] = curstate[d]
  BY DEF OneMoves, TypeOK
<1>3. ASSUME state'[p] = state[p], NEW d \in Cpus \ {c} PROVE d \in Late(p)' <=> d \in Late(p)
  BY <1>1, <1>2, <1>3 DEF Late, OneMoves
<1> QED BY <1>1, <1>2, <1>3

\* A stopper of p that sees the state or acts on it: nobody's acknowledgement changes.
LEMMA MachineQuiet ==
    ASSUME Inv, NEW p \in Callers, Machine(p), Waiting(p), NEW c \in Cpus, work[c] = p,
           NEW to, NEW cs, OneMoves(p, c, to, cs),
           state' = state, thread_ack' = thread_ack,
           to \in {"act", "ack"}, thread[c] \in {"fn", "act"}, cs = state[p], cs <= EXIT,
           thread[c] = "act" \/ curstate[c] # state[p]
    PROVE  MachineOK(p)'
<1>0. TypeOK /\ MachineOK(p) /\ StepOK(p, c) /\ c \in Parts(p)
  BY AtWork, Constants DEF Inv
<1>1. /\ Parts(p)' = Parts(p) /\ thread'[c] = to /\ curstate'[c] = cs
      /\ \A d \in Cpus \ {c} : thread'[d] = thread[d] /\ curstate'[d] = curstate[d]
      /\ \A d \in Cpus \ {c} : d \in Late(p)' <=> d \in Late(p)
  BY <1>0, OneParts
<1>2. c \in Late(p) /\ c \in Late(p)'
  BY <1>0, <1>1 DEF Late, OneMoves
<1>3. Late(p) \in SUBSET Cpus /\ Late(p)' \in SUBSET Cpus
  BY DEF Late, Parts
<1>4. Late(p)' = Late(p)
  BY <1>1, <1>2, <1>3
<1>5. ASSUME NEW d \in Cpus PROVE Turns(p, d)' <=> Turns(p, d)
  BY <1>1 DEF Turns, OneMoves
<1>6. Turning(p)' <=> Turning(p)
  BY <1>5 DEF Turning
<1>7. ASSUME NEW d \in Cpus, work'[d] = p PROVE StepOK(p, d)'
  <2>1. CASE d = c
    BY <1>1, <2>1 DEF StepOK
  <2>2. CASE d # c
    <3>1. StepOK(p, d)
      BY <1>0, <1>7 DEF MachineOK, OneMoves
    <3> QED BY <1>1, <1>4, <2>2, <3>1 DEF StepOK, OneMoves
  <2> QED BY <2>1, <2>2
<1>8. UNCHANGED <<num_threads>> /\ online' \subseteq online /\ \A d \in Cpus : work'[d] = p <=> work[d] = p
  BY DEF OneMoves
<1>9. Parts(p) \subseteq Cpus
  BY DEF Parts
<1> QED BY <1>0, <1>1, <1>4, <1>5, <1>6, <1>7, <1>8, <1>9 DEF MachineOK

\* stop_machine_cpu_stop() sees a new state, or does what the state asks for.
LEMMA MachineReads ==
    ASSUME Inv, NEW c \in Cpus, ReadState(c) \/ Act(c), NEW p \in Callers, work[c] = p, Machine(p)
    PROVE  MachineOK(p)'
<1>0. TypeOK /\ Waiting(p) /\ StepOK(p, c) /\ p # NULL
  BY AtWork, Constants DEF Inv
<1>1. UNCHANGED <<works, work, pc, todo, num_threads, state, thread_ack>> /\ online' \subseteq online
  BY DEF ReadState, Act, dataVars, callerVars
<1>2. \A d \in Cpus : (On(p, d)' <=> On(p, d)) /\ (work'[d] = p <=> work[d] = p)
  BY <1>1, SameOn
<1>3. CASE ReadState(c)
  <2>1. OneMoves(p, c, "act", state[p]) /\ thread[c] = "fn" /\ state[p] # curstate[c]
    BY <1>1, <1>2, <1>3 DEF ReadState, Goto, OneMoves
  <2>2. state[p] <= EXIT
    BY <1>0, <2>1 DEF StepOK
  <2> QED BY <1>0, <1>1, <2>1, <2>2, MachineQuiet
<1>4. CASE Act(c)
  <2>1. thread[c] = "act" /\ curstate' = curstate /\ thread' = [thread EXCEPT ![c] = "ack"]
    BY <1>4 DEF Act, Goto
  <2>2. curstate[c] = state[p] /\ state[p] <= EXIT
    BY <1>0, <2>1 DEF StepOK
  <2>3. curstate' = [curstate EXCEPT ![c] = state[p]]
    BY <1>0, <2>1, <2>2 DEF TypeOK
  <2>4. OneMoves(p, c, "ack", state[p])
    BY <1>1, <1>2, <2>1, <2>3 DEF OneMoves
  <2> QED BY <1>0, <1>1, <2>1, <2>2, <2>4, MachineQuiet
<1> QED BY <1>3, <1>4

\* ack_state(): one fewer is late; the last one turns to the next state.
LEMMA MachineAcks ==
    ASSUME Inv, NEW c \in Cpus, ack_state(c), NEW p \in Callers, work[c] = p
    PROVE  MachineOK(p)'
<1>0. thread[c] = "ack" /\ TypeOK /\ c \in Cpus
  BY DEF ack_state, Goto, Inv
<1>1. Machine(p) /\ Waiting(p) /\ MachineOK(p) /\ StepOK(p, c) /\ c \in Parts(p)
  BY <1>0, AtWork, Participates
<1>2. /\ curstate[c] = state[p] /\ state[p] <= EXIT /\ c \in Late(p) /\ ~Turning(p)
      /\ thread_ack[p] = Cardinality(Late(p)) /\ thread_ack[p] >= 1
  BY <1>0, Acknowledges
<1> DEFINE to == IF thread_ack[p] = 1 THEN "reset" ELSE IF curstate[c] = EXIT THEN "signal" ELSE "fn"
<1>3. /\ UNCHANGED <<works, work, pc, todo, num_threads, state, online, curstate>>
      /\ thread_ack'[p] = thread_ack[p] - 1 /\ thread' = [thread EXCEPT ![c] = to]
  BY <1>0 DEF ack_state, Goto, LastAck, callerVars, TypeOK
<1> HIDE DEF to
<1>4. OneMoves(p, c, to, curstate[c])
  <2>1. curstate' = [curstate EXCEPT ![c] = curstate[c]]
    BY <1>0, <1>3 DEF TypeOK
  <2>2. \A d \in Cpus : On(p, d)' <=> On(p, d)
    BY <1>3, SameOn
  <2> QED BY <1>3, <2>1, <2>2 DEF OneMoves
<1>5. /\ Parts(p)' = Parts(p) /\ thread'[c] = to /\ curstate'[c] = curstate[c]
      /\ \A d \in Cpus \ {c} : thread'[d] = thread[d] /\ curstate'[d] = curstate[d]
      /\ \A d \in Cpus \ {c} : d \in Late(p)' <=> d \in Late(p)
  BY <1>0, <1>3, <1>4, OneParts
<1>6. c \notin Late(p)'
  BY <1>2, <1>3, <1>5 DEF Late, to
<1>7. Late(p) \in SUBSET Cpus /\ Late(p)' \in SUBSET Cpus
  BY DEF Late, Parts
<1>8. Late(p)' = Late(p) \ {c} /\ Cardinality(Late(p)) \in Nat
  BY <1>5, <1>6, <1>7, Constants
<1>9. Cardinality(Late(p)') = Cardinality(Late(p)) - 1 /\ thread_ack'[p] = Cardinality(Late(p)')
  BY <1>2, <1>3, <1>7, <1>8, OneCpu
<1>10. thread_ack[p] = 1 => Late(p)' = {}
  BY <1>2, <1>7, <1>8, <1>9, Constants
<1>11. ASSUME NEW d \in Cpus, d # c PROVE ~Turns(p, d)'
  BY <1>2, <1>3, <1>5, <1>11 DEF Turns, Turning
<1>12. ASSUME NEW d \in Cpus, work'[d] = p PROVE StepOK(p, d)'
  <2>1. CASE d = c
    <3>1. to = "reset" => Late(p)' = {} /\ thread_ack'[p] = 0
      BY <1>3, <1>10 DEF to
    <3>2. to \in {"reset", "signal", "fn"} /\ (to = "signal" => curstate[c] = EXIT)
          /\ (to = "fn" => state[p] < EXIT)
      <4>1. state[p] \in Int
        BY <1>0, StateTypes
      <4> QED BY <1>2, <4>1 DEF to, EXIT
    <3>3. to = "signal" => state[p] >= EXIT
      BY <1>2, <3>2 DEF EXIT
    <3> QED BY <1>2, <1>3, <1>5, <2>1, <3>1, <3>2, <3>3 DEF StepOK
  <2>2. CASE d # c
    <3>1. StepOK(p, d)
      BY <1>1, <1>3, <1>12 DEF MachineOK
    <3>2. thread'[d] \notin {"reset", "advance"}
      BY <1>11, <1>12, <2>2 DEF Turns
    <3> QED BY <1>3, <1>5, <2>2, <3>1, <3>2 DEF StepOK
  <2> QED BY <2>1, <2>2
<1>13. Parts(p) \subseteq Cpus
  BY DEF Parts
<1> QED BY <1>1, <1>3, <1>5, <1>9, <1>11, <1>12, <1>13 DEF MachineOK

\* set_state(), the counter.
LEMMA MachineResets ==
    ASSUME Inv, NEW c \in Cpus, SetAck(c), NEW p \in Callers, work[c] = p
    PROVE  MachineOK(p)'
<1>0. thread[c] = "reset" /\ TypeOK
  BY DEF SetAck, Goto, Inv
<1>1. Machine(p) /\ Waiting(p) /\ MachineOK(p) /\ StepOK(p, c) /\ c \in Parts(p)
  BY <1>0, AtWork, Participates
<1>2. curstate[c] = state[p] /\ state[p] <= EXIT /\ Late(p) = {} /\ \A d \in Cpus : Turns(p, d) => d = c
  BY <1>0, Advances
<1>3. /\ UNCHANGED <<works, work, pc, todo, num_threads, state, online, curstate>>
      /\ thread_ack'[p] = num_threads[p] /\ thread' = [thread EXCEPT ![c] = "advance"]
  BY <1>0 DEF SetAck, Goto, callerVars, TypeOK
<1>4. OneMoves(p, c, "advance", curstate[c])
  <2>1. curstate' = [curstate EXCEPT ![c] = curstate[c]]
    BY <1>0, <1>3 DEF TypeOK
  <2>2. \A d \in Cpus : On(p, d)' <=> On(p, d)
    BY <1>3, SameOn
  <2> QED BY <1>3, <2>1, <2>2 DEF OneMoves
<1>5. /\ Parts(p)' = Parts(p) /\ thread'[c] = "advance" /\ curstate'[c] = curstate[c]
      /\ \A d \in Cpus \ {c} : thread'[d] = thread[d] /\ curstate'[d] = curstate[d]
      /\ \A d \in Cpus \ {c} : d \in Late(p)' <=> d \in Late(p)
  BY <1>0, <1>3, <1>4, OneParts
<1>6. c \notin Late(p)'
  BY <1>2, <1>3, <1>5 DEF Late
<1>7. Late(p)' \in SUBSET Cpus
  BY DEF Late, Parts
<1>8. Late(p)' = {}
  BY <1>2, <1>5, <1>6, <1>7
<1>9. ASSUME NEW d \in Cpus, Turns(p, d)' PROVE d = c
  BY <1>2, <1>3, <1>5, <1>9 DEF Turns
<1>10. Turning(p)'
  <2>1. Turns(p, c)'
    BY <1>3, <1>5 DEF Turns
  <2> QED BY <2>1 DEF Turning
<1>11. ASSUME NEW d \in Cpus, work'[d] = p PROVE StepOK(p, d)'
  <2>1. CASE d = c
    BY <1>2, <1>3, <1>5, <1>8, <2>1 DEF StepOK
  <2>2. CASE d # c
    <3>1. StepOK(p, d)
      BY <1>1, <1>3, <1>11 DEF MachineOK
    <3>2. thread'[d] \notin {"reset", "advance"}
      BY <1>9, <1>11, <2>2 DEF Turns
    <3> QED BY <1>3, <1>5, <2>2, <3>1, <3>2 DEF StepOK
  <2> QED BY <2>1, <2>2
<1>12. Parts(p) \subseteq Cpus
  BY DEF Parts
<1> QED BY <1>1, <1>3, <1>5, <1>9, <1>10, <1>11, <1>12 DEF MachineOK

\* set_state(), the state: every CPU is late again.
LEMMA MachineAdvances ==
    ASSUME Inv, NEW c \in Cpus, SetState(c), NEW p \in Callers, work[c] = p
    PROVE  MachineOK(p)'
<1>0. thread[c] = "advance" /\ TypeOK
  BY DEF SetState, Goto, Inv
<1>1. /\ Machine(p) /\ Waiting(p) /\ MachineOK(p) /\ StepOK(p, c) /\ c \in Parts(p)
      /\ thread_ack[p] = num_threads[p]
  BY <1>0, AtWork, Participates DEF StepOK
<1>2. /\ curstate[c] = state[p] /\ state[p] <= EXIT /\ state[p] >= PREPARE /\ Late(p) = {}
      /\ \A d \in Cpus : Turns(p, d) => d = c
  BY <1>0, Advances
<1> DEFINE to == IF curstate[c] = EXIT THEN "signal" ELSE "fn"
<1>3. /\ UNCHANGED <<works, work, pc, todo, num_threads, thread_ack, online, curstate>>
      /\ state'[p] = state[p] + 1 /\ thread' = [thread EXCEPT ![c] = to]
  BY <1>0 DEF SetState, AfterSetState, Goto, callerVars, TypeOK
<1>4. to \in {"signal", "fn"} /\ (to = "signal" <=> state[p] = EXIT)
  BY <1>2
<1> HIDE DEF to
<1>5. OneMoves(p, c, to, curstate[c])
  <2>1. curstate' = [curstate EXCEPT ![c] = curstate[c]]
    BY <1>0, <1>3 DEF TypeOK
  <2>2. \A d \in Cpus : On(p, d)' <=> On(p, d)
    BY <1>3, SameOn
  <2> QED BY <1>3, <2>1, <2>2 DEF OneMoves
<1>6. /\ Parts(p)' = Parts(p) /\ thread'[c] = to /\ curstate'[c] = curstate[c]
      /\ \A d \in Cpus \ {c} : thread'[d] = thread[d] /\ curstate'[d] = curstate[d]
  BY <1>0, <1>5, OneParts
<1>7. state[p] \in Int /\ (\A d \in Cpus : curstate[d] \in Int) /\ Parts(p) \subseteq Cpus
  BY <1>0, StateTypes DEF Parts
<1>8. ASSUME NEW d \in Parts(p)
      PROVE  work[d] = p /\ curstate[d] = state[p] /\ thread[d] \in {"fn", "reset", "advance", "signal"}
  BY <1>2, <1>8 DEF Late
<1>9. Late(p)' = Parts(p)
  <2>1. ASSUME NEW d \in Parts(p) PROVE curstate'[d] # state'[p]
    BY <1>3, <1>7, <1>8, <2>1
  <2> QED BY <1>6, <2>1 DEF Late
<1>10. ASSUME NEW d \in Cpus, work[d] = p PROVE d \in Parts(p)
  BY <1>10 DEF Parts, On
<1>11. ASSUME NEW d \in Cpus PROVE ~Turns(p, d)'
  <2>1. CASE d = c
    BY <1>4, <1>6, <2>1 DEF Turns
  <2>2. CASE d # c
    BY <1>2, <1>3, <1>6, <2>2 DEF Turns
  <2> QED BY <2>1, <2>2
<1>12. ASSUME NEW d \in Cpus, work'[d] = p PROVE StepOK(p, d)'
  <2>1. curstate'[d] = state'[p] - 1 /\ state'[p] - 1 = state[p] /\ curstate[d] = state[p]
    BY <1>3, <1>7, <1>8, <1>10, <1>12
  <2>2. thread'[d] \in {"fn", "signal"} /\ (thread'[d] = "signal" <=> state[p] = EXIT)
    <3>1. CASE d = c
      BY <1>4, <1>6, <3>1
    <3>2. CASE d # c
      <4>1. StepOK(p, d) /\ thread[d] \in {"fn", "signal"} /\ thread'[d] = thread[d]
        BY <1>1, <1>2, <1>3, <1>6, <1>8, <1>10, <1>12, <3>2 DEF MachineOK, Turns
      <4>2. thread[d] = "fn" => state[p] # EXIT
        BY <1>7, <2>1, <4>1 DEF StepOK, EXIT
      <4>3. thread[d] = "signal" => state[p] = EXIT
        BY <2>1, <4>1 DEF StepOK
      <4> QED BY <4>1, <4>2, <4>3
    <3> QED BY <3>1, <3>2
  <2>3. thread'[d] = "fn" => state'[p] <= EXIT
    BY <1>2, <1>3, <1>7, <2>2 DEF EXIT
  <2>4. thread'[d] = "signal" => curstate'[d] = EXIT /\ state'[p] >= EXIT
    BY <1>3, <1>7, <2>1, <2>2 DEF EXIT
  <2> QED BY <2>1, <2>2, <2>3, <2>4 DEF StepOK
<1>13. state'[p] <= EXIT => /\ state[p] < EXIT
                            /\ thread_ack'[p] = Cardinality(Late(p)')
                            /\ Cardinality(Parts(p)') = num_threads'[p] /\ online' \subseteq Parts(p)'
  <2>1. state'[p] <= EXIT => state[p] < EXIT
    BY <1>3, <1>7 DEF EXIT
  <2> QED BY <1>1, <1>3, <1>6, <1>9, <2>1 DEF MachineOK
<1>14. state'[p] >= PREPARE /\ (state'[p] < EXIT => state'[p] <= EXIT)
  BY <1>2, <1>3, <1>7 DEF PREPARE, EXIT
<1>15. \A d \in Parts(p)' : work'[d] = p
  BY <1>3, <1>6, <1>8
<1> QED BY <1>11, <1>12, <1>13, <1>14, <1>15 DEF MachineOK

\* A work of p is done: the stopper leaves.
LEMMA MachineLeaves ==
    ASSUME Inv, NEW c \in Cpus, cpu_stop_signal_done(c), NEW p \in Callers, work[c] = p, Machine(p)
    PROVE  MachineOK(p)'
<1>0. thread[c] = "signal" /\ TypeOK /\ p # NULL /\ NULL \notin Callers
  BY SignalOn, Constants DEF Inv
<1>1. Waiting(p) /\ MachineOK(p) /\ StepOK(p, c) /\ c \in Parts(p) /\ c \notin todo[p]
  BY <1>0, AtWork
<1>2. /\ UNCHANGED <<pc, todo, num_threads, thread_ack, state, online, curstate>>
      /\ \A d \in Cpus : On(p, d)' <=> On(p, d) /\ d # c
      /\ work' = [work EXCEPT ![c] = NULL] /\ thread' = [thread EXCEPT ![c] = "repeat"]
  BY SignalOn DEF cpu_stop_signal_done, Goto, callerVars, dataVars
<1>3. /\ work'[c] # p /\ \A d \in Cpus \ {c} : work'[d] = work[d] /\ thread'[d] = thread[d]
  BY <1>0, <1>2 DEF TypeOK
<1>4. Parts(p)' = Parts(p) \ {c}
  BY <1>1, <1>2 DEF Parts
<1>5. state[p] >= EXIT /\ curstate[c] = EXIT /\ state[p] \in Int
  BY <1>0, <1>1, StateTypes DEF StepOK
<1>6. state[p] <= EXIT => Late(p)' = Late(p)
  <2>1. state[p] <= EXIT => c \notin Late(p)
    BY <1>0, <1>5 DEF Late, EXIT
  <2>2. Late(p)' = Late(p) \ {c}
    BY <1>2, <1>3, <1>4 DEF Late, Parts
  <2> QED BY <2>1, <2>2
<1>7. ASSUME NEW d \in Cpus PROVE Turns(p, d)' <=> Turns(p, d)
  BY <1>0, <1>3 DEF Turns
<1>8. Turning(p)' <=> Turning(p)
  BY <1>7 DEF Turning
<1>9. ASSUME NEW d \in Cpus, work'[d] = p PROVE StepOK(p, d)'
  <2>1. d # c /\ StepOK(p, d)
    BY <1>1, <1>3, <1>9 DEF MachineOK
  <2> QED BY <1>2, <1>3, <1>6, <2>1 DEF StepOK
<1>10. ASSUME NEW d \in Parts(p)', work'[d] # p PROVE state'[p] = PREPARE
  BY <1>1, <1>2, <1>3, <1>4, <1>10 DEF MachineOK, Parts
<1>11. ~(state'[p] < EXIT) /\ state'[p] >= PREPARE
  BY <1>2, <1>5 DEF PREPARE, EXIT
<1> QED BY <1>1, <1>2, <1>6, <1>7, <1>8, <1>9, <1>10, <1>11 DEF MachineOK

\* A stopper takes up its work of p.
LEMMA MachineTakes ==
    ASSUME Inv, NEW c \in Cpus, TakeWork(c), NEW p \in Callers, Machine(p), work'[c] = p
    PROVE  MachineOK(p)'
<1>0. TypeOK /\ work[c] = NULL /\ p # NULL /\ thread[c] = "repeat" /\ c \in Cpus
  BY TakeOn, Constants DEF Inv, TakeWork, Goto
<1>1. On(p, c)
  <2>1. On(p, c)'
    BY DEF On
  <2> QED BY <2>1, TakeOn
<1>2. Waiting(p) /\ MachineOK(p) /\ c \in Parts(p)
  BY <1>1 DEF Inv, OnInv, OnOK, MachineInv, Parts
<1>3. state[p] = PREPARE
  BY <1>0, <1>2 DEF MachineOK
<1>4. /\ UNCHANGED <<pc, todo, num_threads, thread_ack, state, online>>
      /\ \A d \in Cpus : On(p, d)' <=> On(p, d)
  BY TakeOn DEF TakeWork, callerVars, dataVars
<1>5. /\ thread'[c] = "fn" /\ curstate'[c] = NONE
      /\ \A d \in Cpus \ {c} : work'[d] = work[d] /\ thread'[d] = thread[d] /\ curstate'[d] = curstate[d]
  BY <1>0 DEF TakeWork, Goto, TypeOK
<1>6. Parts(p)' = Parts(p)
  BY <1>4 DEF Parts
<1>7. c \in Late(p) /\ c \in Late(p)'
  BY <1>0, <1>2, <1>3, <1>4, <1>5, <1>6 DEF Late, NONE, PREPARE
<1>8. ASSUME NEW d \in Cpus, d # c PROVE d \in Late(p)' <=> d \in Late(p)
  BY <1>4, <1>5, <1>6, <1>8 DEF Late
<1>9. Late(p)' = Late(p)
  <2>1. Late(p) \in SUBSET Cpus /\ Late(p)' \in SUBSET Cpus
    BY DEF Late, Parts
  <2> QED BY <1>7, <1>8, <2>1
<1>10. ASSUME NEW d \in Cpus PROVE Turns(p, d)' <=> Turns(p, d)
  BY <1>0, <1>5 DEF Turns
<1>11. Turning(p)' <=> Turning(p)
  BY <1>10 DEF Turning
<1>12. ASSUME NEW d \in Cpus, work'[d] = p PROVE StepOK(p, d)'
  <2>1. CASE d = c
    BY <1>3, <1>4, <1>5, <2>1 DEF StepOK, NONE, PREPARE, EXIT
  <2>2. CASE d # c
    <3>1. StepOK(p, d)
      BY <1>2, <1>5, <1>12, <2>2 DEF MachineOK
    <3> QED BY <1>4, <1>5, <1>9, <2>2, <3>1 DEF StepOK
  <2> QED BY <2>1, <2>2
<1> QED BY <1>2, <1>3, <1>4, <1>6, <1>9, <1>10, <1>11, <1>12 DEF MachineOK

\* Every step keeps MachineInv.
LEMMA MachineStep ==
    ASSUME Inv, Next
    PROVE  MachineInv'
<1>0. ASSUME NEW q \in Callers PROVE MachineOK(q) /\ q # NULL
  BY Constants DEF Inv, MachineInv
<1> SUFFICES ASSUME NEW q \in Callers, Machine(q), Waiting(q)' PROVE MachineOK(q)'
  BY DEF MachineInv, MachineOK, Machine
<1>1. ASSUME NEW p \in Callers, Caller(p) PROVE MachineOK(q)'
  BY <1>0, <1>1, MachineCaller, MachineFrame, MachineStart
<1>2. ASSUME NEW c \in Cpus, Stopper(c) PROVE MachineOK(q)'
  <2>1. CASE work[c] # q /\ work'[c] # q
    BY <1>0, <1>2, <2>1, MachineOthers, MachineFrame
  <2>2. CASE work[c] # q /\ work'[c] = q
    <3>1. TakeWork(c)
      BY <1>0, <1>2, <2>2 DEF Stopper, Unparked, cpu_stop_should_run, RunOne, ReadState, ThreadPark,
           cpu_stop_park,
         cpu_stop_signal_done, Act, ack_state, SetAck, SetState, Inv, TypeOK
    <3> QED BY <2>2, <3>1, MachineTakes
  <2>3. CASE work[c] = q
    <3>1. \/ ReadState(c) \/ Act(c) \/ ack_state(c) \/ SetAck(c) \/ SetState(c)
          \/ cpu_stop_signal_done(c)
      <4>1. thread[c] \in {"fn", "act", "ack", "reset", "advance", "signal"}
        BY <1>0, <2>3 DEF Inv, WorkInv, WorkOK
      <4> QED BY <1>2, <2>3, <4>1 DEF Stopper, Unparked, cpu_stop_should_run, RunOne, ThreadPark,
                                      cpu_stop_park, TakeWork, Goto, Machine
    <3> QED BY <2>3, <3>1, MachineReads, MachineAcks, MachineResets, MachineAdvances, MachineLeaves
  <2> QED BY <2>1, <2>2, <2>3
<1> QED BY <1>1, <1>2 DEF Next

-----------------------------------------------------------------------------
(* Completion.                                                             *)

\* The sets of CPUs are finite.
LEMMA LiveSets ==
    ASSUME TypeOK, NEW q \in Callers
    PROVE  /\ todo[q] \in SUBSET Cpus /\ Live(q) \in SUBSET Cpus
           /\ Cardinality(todo[q]) \in Nat /\ (Cardinality(todo[q]) = 0 <=> todo[q] = {})
           /\ Cardinality(Live(q)) \in Nat /\ (Cardinality(Live(q)) = 0 <=> Live(q) = {})
<1>1. todo[q] \in SUBSET Cpus /\ Live(q) \in SUBSET Cpus
  BY DEF TypeOK, Live
<1> QED BY <1>1, Constants

\* A step that leaves the completion of q and its works as they are.
SameDone(q) ==
    /\ Waiting(q)' => Waiting(q)
    /\ nr_todo'[q] = nr_todo[q] /\ executed'[q] = executed[q] /\ completion'[q] = completion[q]
    /\ todo'[q] = todo[q]
    /\ \A d \in Cpus : (On(q, d)' <=> On(q, d)) /\ (On(q, d) => enabled'[d] = enabled[d])

\* Then what is known of the completion of q stays so.
LEMMA DoneFrame ==
    ASSUME NEW q \in Callers, DoneOK(q), SameDone(q)
    PROVE  DoneOK(q)'
<1>1. Parts(q)' = Parts(q) /\ Live(q)' = Live(q)
  BY DEF Parts, Live, SameDone
<1> QED BY <1>1 DEF DoneOK, SameDone, Machine

\* The steps of a caller that neither start a call nor queue or unpark.
LEMMA DoneCaller ==
    ASSUME Inv, NEW p \in Callers, Caller(p), NEW q \in Callers,
           ~cpu_stop_unpark(p), q = p => ~stop_one_cpu(p) /\ ~stop_cpus(p) /\ \A c \in Cpus : ~cpu_stop_queue_work(p, c)
    PROVE  SameDone(q)
<1>0. TypeOK
  BY DEF Inv
<1>1. CASE \E c \in Cpus : cpu_stop_queue_work(p, c)
  <2>1. PICK c \in Cpus : cpu_stop_queue_work(p, c)
    BY <1>1
  <2>2. q # p
    BY <2>1
  <2>3. \A d \in Cpus : On(q, d)' <=> On(q, d)
    BY <2>1, <2>2, QueueOn
  <2>4. nr_todo'[q] = nr_todo[q] /\ executed'[q] = executed[q] /\ completion'[q] = completion[q]
    BY <1>0, <2>1, <2>2 DEF cpu_stop_queue_work, Signalled, TypeOK
  <2> QED BY <1>0, <2>1, <2>2, <2>3, <2>4 DEF cpu_stop_queue_work, SameDone, Waiting, TypeOK
<1>2. CASE ~ \E c \in Cpus : cpu_stop_queue_work(p, c)
  <2>1. UNCHANGED <<works, work, enabled>>
    BY <1>2 DEF Caller, stop_one_cpu, StartMachine, stop_cpus, Queued, wait_for_completion,
         put_online_cpus, CpuDownRefused, CpuDead, CpuUp,
         CpuUpFailed, kthread_unpark, stopperVars
  <2>2. UNCHANGED <<executed, completion>> /\ nr_todo'[q] = nr_todo[q] /\ todo'[q] = todo[q]
    BY <1>0, <1>2 DEF Caller, stop_one_cpu, StartMachine, stop_cpus, Queued, wait_for_completion,
         put_online_cpus, CpuDownRefused, CpuDead, CpuUp,
         CpuUpFailed, kthread_unpark, doneVars, TypeOK
  <2>3. Waiting(q)' => Waiting(q)
    BY <1>0, <1>2 DEF Caller, stop_one_cpu, StartMachine, stop_cpus, Queued, wait_for_completion, At,
         put_online_cpus, CpuDownRefused, CpuDead, CpuUp,
         CpuUpFailed, kthread_unpark, Waiting, TypeOK
  <2>4. \A d \in Cpus : On(q, d)' <=> On(q, d)
    BY <2>1, SameOn
  <2> QED BY <2>1, <2>2, <2>3, <2>4 DEF SameDone
<1> QED BY <1>1, <1>2

\* A call starts to wait: nothing is queued yet.
LEMMA DoneStart ==
    ASSUME Inv, NEW p \in Callers, stop_one_cpu(p) \/ stop_cpus(p)
    PROVE  DoneOK(p)'
<1>0. TypeOK /\ pc[p] \in {"start", "mutex"} /\ ~completion[p] /\ ~executed[p] /\ Target[p] \in Cpus
  BY Constants DEF Inv, CallInv, CallOK, stop_one_cpu, stop_cpus, At
<1>1. UNCHANGED <<works, work, executed, completion>>
  BY DEF stop_one_cpu, stop_cpus, stopperVars
<1>2. \A d \in Cpus : ~On(p, d)'
  BY <1>0, <1>1, SameOn DEF Inv, OnInv, OnOK
<1>3. Live(p)' = {}
  BY <1>2 DEF Live
<1>4. nr_todo'[p] = Cardinality(todo'[p]) /\ Cardinality(todo'[p]) \in Nat
  <2>1. CASE stop_one_cpu(p)
    <3>1. Cardinality({Target[p]}) = 1
      BY FS_Singleton
    <3> QED BY <1>0, <2>1, <3>1 DEF stop_one_cpu, InitDone, TypeOK
  <2>2. CASE stop_cpus(p)
    BY <1>0, <2>2, Constants DEF stop_cpus, InitDone, TypeOK
  <2> QED BY <2>1, <2>2
<1>5. Cardinality(Live(p)') = 0
  BY <1>3, FS_EmptySet
<1> QED BY <1>0, <1>1, <1>2, <1>4, <1>5 DEF DoneOK

\* A work is queued, or completed at once where the stopper is disabled.
LEMMA DoneQueue ==
    ASSUME Inv, NEW p \in Callers, NEW c \in Cpus, cpu_stop_queue_work(p, c)
    PROVE  DoneOK(p)'
<1>0. TypeOK /\ DoneOK(p) /\ c \in todo[p] /\ pc[p] = "queue" /\ Waiting(p) /\ enabled[c] \in BOOLEAN
  BY DEF Inv, DoneInv, cpu_stop_queue_work, Waiting, TypeOK
<1>1. ~completion[p] /\ c \in Parts(p) /\ ~(Op[p] = "one" /\ executed[p]) /\ ~On(p, c)
  BY <1>0 DEF DoneOK, Parts, Inv, OnInv, OnOK
<1>2. \A d \in Cpus : On(p, d)' <=> On(p, d) \/ (d = c /\ enabled[c])
  BY QueueOn
<1>3. /\ todo'[p] = todo[p] \ {c} /\ UNCHANGED <<enabled, pc>>
      /\ nr_todo'[p] = nr_todo[p] - (IF enabled[c] THEN 0 ELSE 1)
      /\ executed'[p] = executed[p]
      /\ completion'[p] <=> completion[p] \/ (~enabled[c] /\ nr_todo[p] = 1)
  BY <1>0 DEF cpu_stop_queue_work, Signalled, CompletedAtOnce, TypeOK
<1>4. /\ nr_todo[p] = Cardinality(todo[p]) + Cardinality(Live(p)) /\ nr_todo[p] \in Int
      /\ Cardinality(todo[p]) \in Nat /\ Cardinality(Live(p)) \in Nat
      /\ todo[p] \in SUBSET Cpus /\ Live(p) \in SUBSET Cpus
  BY <1>0, <1>1, LiveSets DEF DoneOK, TypeOK
<1>5. Cardinality(todo'[p]) = Cardinality(todo[p]) - 1
  BY <1>0, <1>3, <1>4, OneCpu
<1>6. CASE enabled[c]
  <2>1. Live(p)' = Live(p) \cup {c} /\ c \notin Live(p)
    BY <1>1, <1>2, <1>3, <1>6 DEF Live
  <2>2. Cardinality(Live(p)') = Cardinality(Live(p)) + 1
    BY <1>4, <2>1, OneCpu
  <2>3. nr_todo'[p] = Cardinality(todo'[p]) + Cardinality(Live(p)')
    BY <1>3, <1>4, <1>5, <1>6, <2>2
  <2>4. \A d \in Cpus : On(p, d)' /\ ~enabled'[d] => completion'[p] \/ ~Waiting(p)'
    BY <1>0, <1>2, <1>3, <1>6 DEF DoneOK, Waiting
  <2> QED BY <1>1, <1>3, <1>6, <2>3, <2>4 DEF DoneOK
<1>7. CASE ~enabled[c]
  <2>1. Live(p)' = Live(p)
    BY <1>2, <1>3, <1>7 DEF Live
  <2>2. ~Machine(p)
    BY <1>1, <1>7, DisabledFree
  <2>3. nr_todo'[p] = Cardinality(todo'[p]) + Cardinality(Live(p)')
    BY <1>3, <1>4, <1>5, <1>7, <2>1
  <2>4. completion'[p] => todo'[p] = {}
    <3>1. nr_todo[p] = 1 => Cardinality(todo'[p]) = 0
      <4>1. Cardinality(todo[p]) >= 1
        BY <1>0, <1>4, OneCpu
      <4> QED BY <1>4, <1>5, <4>1
    <3>2. todo'[p] \in SUBSET Cpus
      BY <1>3, <1>4
    <3>3. Cardinality(todo'[p]) = 0 => todo'[p] = {}
      BY <3>2, Constants
    <3> QED BY <1>1, <1>3, <3>1, <3>3
  <2>5. \A d \in Cpus : On(p, d)' /\ ~enabled'[d] => completion'[p] \/ ~Waiting(p)'
    BY <1>0, <1>2, <1>3, <1>7 DEF DoneOK, Waiting
  <2> QED BY <1>1, <1>3, <2>2, <2>3, <2>4, <2>5 DEF DoneOK
<1> QED BY <1>0, <1>6, <1>7

\* A stopper is enabled again: the works that were signalled no longer count.
LEMMA DoneUnpark ==
    ASSUME Inv, NEW p \in Callers, cpu_stop_unpark(p), NEW q \in Callers
    PROVE  DoneOK(q)'
<1>0. TypeOK /\ DoneOK(q) /\ Target[p] \in Cpus
  BY Constants DEF Inv, DoneInv
<1>1. UNCHANGED <<works, work, nr_todo, executed, completion, todo>>
  BY DEF cpu_stop_unpark, doneVars
<1>2. Waiting(q)' => Waiting(q)
  BY <1>0 DEF cpu_stop_unpark, At, Waiting, TypeOK
<1>3. \A d \in Cpus : (On(q, d)' <=> On(q, d)) /\ (enabled[d] => enabled'[d])
  <2>1. \A d \in Cpus : On(q, d)' <=> On(q, d)
    BY <1>1, SameOn
  <2>2. \A d \in Cpus : enabled[d] => enabled'[d]
    BY <1>0 DEF cpu_stop_unpark, TypeOK
  <2> QED BY <2>1, <2>2
<1>4. Parts(q)' = Parts(q)
  BY <1>1, <1>3 DEF Parts
<1>5. ASSUME Waiting(q)', ~completion'[q] PROVE Live(q)' = Live(q)
  <2>1. \A d \in Cpus : On(q, d) => enabled[d]
    BY <1>0, <1>1, <1>2, <1>5 DEF DoneOK
  <2> QED BY <1>3, <2>1 DEF Live
<1> QED BY <1>0, <1>1, <1>2, <1>3, <1>4, <1>5 DEF DoneOK

\* cpu_stop_park() signals the works that are left on the list.
LEMMA DonePark ==
    ASSUME Inv, NEW c \in Cpus, cpu_stop_park(c), NEW q \in Callers
    PROVE  DoneOK(q)'
<1>0. TypeOK /\ DoneOK(q) /\ thread[c] = "park" /\ q # NULL
  BY Constants DEF Inv, DoneInv, cpu_stop_park, Goto
<1>1. work[c] = NULL
  BY <1>0 DEF Inv, WorkInv, WorkOK
<1>2. On(q, c) <=> q \in ToSet(works[c])
  <2>1. \A i : i \in DOMAIN works[c] => works[c][i] = works[c][i]
    OBVIOUS
  <2> QED BY <1>0, <1>1 DEF On, InList, ToSet
<1>3. /\ UNCHANGED <<works, work, pc, todo>> /\ executed'[q] = executed[q]
      /\ nr_todo'[q] = nr_todo[q] - (IF On(q, c) /\ Waiting(q) THEN 1 ELSE 0)
      /\ completion'[q] <=> completion[q] \/ (On(q, c) /\ Waiting(q) /\ nr_todo[q] = 1)
      /\ ~enabled'[c] /\ \A d \in Cpus \ {c} : enabled'[d] = enabled[d]
  BY <1>0, <1>2 DEF cpu_stop_park, Signalled, callerVars, TypeOK
<1>4. \A d \in Cpus : On(q, d)' <=> On(q, d)
  BY <1>3, SameOn
<1>5. Parts(q)' = Parts(q) /\ (Waiting(q)' <=> Waiting(q))
  BY <1>3, <1>4 DEF Parts, Waiting
<1>6. CASE ~On(q, c)
  <2>1. Live(q)' = Live(q)
    BY <1>3, <1>4, <1>6 DEF Live
  <2>2. nr_todo'[q] = nr_todo[q]
    BY <1>0, <1>3, <1>6 DEF TypeOK
  <2> QED BY <1>0, <1>3, <1>4, <1>5, <1>6, <2>1, <2>2 DEF DoneOK
<1>7. CASE On(q, c)
  <2>1. ~Machine(q) /\ Op[q] = "one"
    BY <1>0, <1>7, DisabledFree DEF Parts, Machine
  <2>2. \A d \in Cpus : On(q, d) \/ d \in todo[q] => d = c
    BY <1>7, <2>1 DEF Inv, OnInv, OnOK
  <2>3. enabled[c] /\ c \notin todo[q]
    BY <1>0, <1>7 DEF Inv, ParkInv, ParkOK, OnInv, OnOK
  <2>4. todo[q] = {} /\ Live(q) = {c}
    <3>1. todo[q] \in SUBSET Cpus /\ Live(q) \in SUBSET Cpus
      BY <1>0, LiveSets
    <3> QED BY <1>7, <2>2, <2>3, <3>1 DEF Live
  <2>5. Cardinality(todo[q]) = 0 /\ Cardinality(Live(q)) = 1
    BY <2>4, FS_EmptySet, FS_Singleton
  <2>6. Waiting(q) => completion'[q]
    BY <1>0, <1>3, <1>7, <2>5 DEF DoneOK
  <2>7. ~executed[q]
    BY <1>0, <1>7, <2>1 DEF DoneOK, Parts
  <2> QED BY <1>3, <1>5, <2>1, <2>4, <2>6, <2>7 DEF DoneOK
<1> QED BY <1>6, <1>7

\* cpu_stop_signal_done() for the work that was executed.
LEMMA DoneSignal ==
    ASSUME Inv, NEW c \in Cpus, cpu_stop_signal_done(c), NEW q \in Callers, work[c] = q
    PROVE  DoneOK(q)'
<1>0. TypeOK /\ DoneOK(q) /\ thread[c] = "signal" /\ On(q, c)
  BY SignalOn DEF Inv, DoneInv, On
<1>1. enabled[c] /\ c \notin todo[q]
  BY <1>0 DEF Inv, ParkInv, ParkOK, OnInv, OnOK
<1>2. /\ UNCHANGED <<pc, todo, enabled>>
      /\ executed'[q] <=> executed[q] \/ Waiting(q)
      /\ nr_todo'[q] = nr_todo[q] - (IF Waiting(q) THEN 1 ELSE 0)
      /\ completion'[q] <=> completion[q] \/ (Waiting(q) /\ nr_todo[q] = 1)
  BY <1>0 DEF cpu_stop_signal_done, Signalled, callerVars, TypeOK
<1>3. \A d \in Cpus : On(q, d)' <=> On(q, d) /\ d # c
  BY SignalOn
<1>4. Parts(q)' = Parts(q) \ {c} /\ Live(q)' = Live(q) \ {c} /\ c \in Live(q) /\ (Waiting(q)' <=> Waiting(q))
  BY <1>0, <1>1, <1>2, <1>3 DEF Parts, Live, Waiting
<1>5. /\ todo[q] \in SUBSET Cpus /\ Live(q) \in SUBSET Cpus
      /\ Cardinality(todo[q]) \in Nat /\ (Cardinality(todo[q]) = 0 <=> todo[q] = {})
      /\ Cardinality(Live(q)) \in Nat /\ Cardinality(Live(q)) >= 1
      /\ Cardinality(Live(q)') = Cardinality(Live(q)) - 1
      /\ Cardinality(Live(q)') = 0 <=> Live(q)' = {}
  <2>1. Live(q)' \in SUBSET Cpus
    BY DEF Live
  <2>2. /\ todo[q] \in SUBSET Cpus /\ Live(q) \in SUBSET Cpus
        /\ Cardinality(todo[q]) \in Nat /\ (Cardinality(todo[q]) = 0 <=> todo[q] = {})
        /\ Cardinality(Live(q)) \in Nat
    BY <1>0, LiveSets
  <2>3. Cardinality(Live(q) \ {c}) = Cardinality(Live(q)) - 1 /\ Cardinality(Live(q)) >= 1
    BY <1>4, <2>2, OneCpu
  <2>4. Cardinality(Live(q)') = 0 <=> Live(q)' = {}
    BY <2>1, Constants
  <2> QED BY <1>4, <2>2, <2>3, <2>4
<1>6. Op[q] = "one" => Parts(q)' = {}
  <2>1. Op[q] = "one" => \A d \in Parts(q) : d = c
    BY <1>0 DEF Inv, OnInv, OnOK, Parts, Machine
  <2> QED BY <1>4, <2>1
<1>7. \A d \in Cpus : On(q, d)' /\ ~enabled'[d] => completion'[q] \/ ~Waiting(q)'
  BY <1>0, <1>2, <1>3, <1>4 DEF DoneOK
<1>8. Machine(q) => ~completion[q]
  BY <1>0 DEF DoneOK, Parts
<1>9. CASE Waiting(q) /\ ~completion[q]
  <2>1. nr_todo[q] = Cardinality(todo[q]) + Cardinality(Live(q)) /\ nr_todo[q] \in Int
    BY <1>0, <1>9 DEF DoneOK, TypeOK
  <2>2. nr_todo'[q] = Cardinality(todo'[q]) + Cardinality(Live(q)')
    BY <1>2, <1>5, <1>9, <2>1
  <2>3. nr_todo[q] = 1 => todo[q] = {} /\ Live(q)' = {}
    <3>1. nr_todo[q] = 1 => Cardinality(todo[q]) = 0 /\ Cardinality(Live(q)) - 1 = 0
      BY <1>5, <2>1
    <3> QED BY <1>5, <3>1
  <2>4. Machine(q) /\ Live(q)' = {} /\ todo[q] = {} => Parts(q)' = {}
    <3>1. Machine(q) => \A d \in Parts(q) : d \in todo[q] \/ d \in Live(q)
      BY DEF Inv, OnInv, OnOK, Parts, Live
    <3> QED BY <1>4, <3>1
  <2> QED BY <1>2, <1>6, <1>7, <1>9, <2>2, <2>3, <2>4 DEF DoneOK
<1>10. CASE ~(Waiting(q) /\ ~completion[q])
  <2>1. completion'[q] <=> completion[q]
    BY <1>2, <1>10
  <2>2. completion[q] => todo[q] = {}
    BY <1>0 DEF DoneOK
  <2> QED BY <1>2, <1>4, <1>6, <1>7, <1>8, <1>10, <2>1, <2>2 DEF DoneOK
<1> QED BY <1>9, <1>10

\* Every step keeps DoneInv.
LEMMA DoneStep ==
    ASSUME Inv, Next
    PROVE  DoneInv'
<1>0. TypeOK /\ \A q \in Callers : DoneOK(q)
  BY DEF Inv, DoneInv
<1> SUFFICES ASSUME NEW q \in Callers PROVE DoneOK(q)'
  BY DEF DoneInv
<1>1. ASSUME NEW p \in Callers, Caller(p) PROVE DoneOK(q)'
  <2>1. CASE cpu_stop_unpark(p)
    BY <2>1, DoneUnpark
  <2>2. CASE q = p /\ (stop_one_cpu(p) \/ stop_cpus(p))
    BY <2>2, DoneStart
  <2>3. CASE q = p /\ \E c \in Cpus : cpu_stop_queue_work(p, c)
    BY <2>3, DoneQueue
  <2>4. CASE /\ ~cpu_stop_unpark(p)
             /\ q = p => ~stop_one_cpu(p) /\ ~stop_cpus(p) /\ \A c \in Cpus : ~cpu_stop_queue_work(p, c)
    <3>1. SameDone(q)
      BY <1>1, <2>4, DoneCaller
    <3> QED BY <1>0, <3>1, DoneFrame
  <2> QED BY <2>1, <2>2, <2>3, <2>4
<1>2. ASSUME NEW c \in Cpus, Stopper(c) PROVE DoneOK(q)'
  <2>1. CASE cpu_stop_park(c)
    BY <2>1, DonePark
  <2>2. CASE cpu_stop_signal_done(c) /\ work[c] = q
    BY <2>2, DoneSignal
  <2>3. CASE cpu_stop_signal_done(c) /\ work[c] # q
    <3>1. \A d \in Cpus : On(q, d)' <=> On(q, d)
      BY <2>3, SignalOn
    <3>2. nr_todo'[q] = nr_todo[q] /\ executed'[q] = executed[q] /\ completion'[q] = completion[q]
      BY <1>0, <2>3 DEF cpu_stop_signal_done, Signalled, TypeOK
    <3>3. UNCHANGED <<pc, todo, enabled>>
      BY <2>3 DEF cpu_stop_signal_done, callerVars
    <3>4. SameDone(q)
      BY <3>1, <3>2, <3>3 DEF SameDone, Waiting
    <3> QED BY <1>0, <3>4, DoneFrame
  <2>4. CASE ~cpu_stop_park(c) /\ ~cpu_stop_signal_done(c)
    <3>1. UNCHANGED <<pc, todo, enabled, nr_todo, executed, completion>>
      BY <1>2, <2>4 DEF Stopper, Unparked, cpu_stop_should_run, RunOne, TakeWork, ReadState, ThreadPark,
         Act, ack_state, SetAck, SetState, doneVars, callerVars
    <3>2. TakeWork(c) \/ UNCHANGED <<works, work>>
      BY <1>2, <2>4 DEF Stopper, Unparked, cpu_stop_should_run, RunOne, ReadState, ThreadPark,
         Act, ack_state, SetAck, SetState
    <3>3. \A d \in Cpus : On(q, d)' <=> On(q, d)
      BY <3>2, TakeOn, SameOn
    <3>4. SameDone(q)
      BY <3>1, <3>3 DEF SameDone, Waiting
    <3> QED BY <1>0, <3>4, DoneFrame
  <2> QED BY <2>1, <2>2, <2>3, <2>4
<1> QED BY <1>1, <1>2 DEF Next

-----------------------------------------------------------------------------
(* The theorems.                                                           *)

\* The invariant holds initially, every step keeps it, and so it holds throughout.
LEMMA InitInv == Init => Inv
<1> SUFFICES ASSUME Init PROVE Inv
  OBVIOUS
<1> USE DEF Init
<1>1. TypeOK
  <2>1. Cardinality(Cpus) \in Nat /\ 0 \in 0 .. Cardinality(Cpus) /\ NONE \in NONE .. EXIT + 1
    BY Constants DEF NONE, EXIT
  <2>2. <<>> \in Seq(Callers)
    OBVIOUS
  <2> QED BY <2>1, <2>2 DEF TypeOK
<1>2. \A p \in Callers, c \in Cpus : ~On(p, c)
  BY Constants DEF On, InList
<1>3. CallInv
  BY Constants DEF CallInv, CallOK, Machine, Waiting
<1>4. ReadyInv
  BY DEF ReadyInv, ReadyOK
<1>5. WorkInv
  BY DEF WorkInv, WorkOK, DupFree, InList
<1>6. OnInv
  BY <1>2 DEF OnInv, OnOK
<1>7. ParkInv
  BY Constants DEF ParkInv, ParkOK, PlugOK
<1>8. MachineInv
  BY DEF MachineInv, MachineOK, Waiting
<1>9. DoneInv
  BY <1>2 DEF DoneInv, DoneOK, Waiting
<1> QED BY <1>1, <1>3, <1>4, <1>5, <1>6, <1>7, <1>8, <1>9 DEF Inv

LEMMA StepInv == Inv /\ [Next]_vars => Inv'
<1> SUFFICES ASSUME Inv, [Next]_vars PROVE Inv'
  OBVIOUS
<1>1. CASE Next
  <2>1. TypeOK /\ CallInv /\ OnInv /\ WorkInv
    BY DEF Inv
  <2> QED BY <1>1, <2>1, TypeStep, CallStep, ReadyStep, WorkStep, OnStep, ParkStep, MachineStep,
       DoneStep DEF Inv
<1>2. CASE UNCHANGED vars
  <2>1. /\ UNCHANGED <<works, enabled, should_park, thread, work, curstate, online>>
        /\ UNCHANGED <<nr_todo, executed, completion, num_threads, state, thread_ack, failed>>
        /\ UNCHANGED <<pc, todo, hotplug, stop_cpus_mutex>>
    BY <1>2 DEF vars, stopperVars, doneVars, dataVars, callerVars
  <2>2. TypeOK' /\ CallInv' /\ ReadyInv' /\ WorkInv'
    BY <2>1 DEF Inv, TypeOK, CallInv, CallOK, ReadyInv, ReadyOK, WorkInv, WorkOK, Waiting, Machine
  <2>3. \A p \in Callers, c \in Cpus : On(p, c)' <=> On(p, c)
    BY <2>1, SameOn
  <2>4. OnInv'
    BY <2>1, <2>3 DEF Inv, OnInv, OnOK, Waiting, Machine
  <2>5. ParkInv'
    <3>1. \A c \in Cpus : Dead(c)' <=> Dead(c)
      BY <2>1, <2>3 DEF Dead, Parts, Machine
    <3>2. \A h \in Callers : Acted(h)' <=> Acted(h)
      BY <2>1 DEF Acted, RunsFn, Waiting
    <3>3. hotplug \subseteq Callers
      BY DEF Inv, TypeOK
    <3> QED BY <2>1, <3>1, <3>2, <3>3 DEF Inv, ParkInv, ParkOK, PlugOK
  <2>6. ASSUME NEW p \in Callers PROVE MachineOK(p)' /\ DoneOK(p)'
    <3>1. MachineOK(p) /\ DoneOK(p)
      BY DEF Inv, MachineInv, DoneInv
    <3>2. SameDone(p)
      BY <2>1, <2>3 DEF SameDone, Waiting
    <3>3. Machine(p) /\ Waiting(p) => SameMachine(p)
      BY <2>1, <2>3 DEF SameMachine
    <3>4. ~(Machine(p) /\ Waiting(p)) => MachineOK(p)'
      BY <2>1 DEF MachineOK, Waiting, Machine
    <3> QED BY <3>1, <3>2, <3>3, <3>4, DoneFrame, MachineFrame
  <2> QED BY <2>2, <2>4, <2>5, <2>6 DEF Inv, MachineInv, DoneInv
<1> QED BY <1>1, <1>2

LEMMA Invariance == Spec => []Inv
BY InitInv, StepInv, PTL DEF Spec

\* Works of p on the list of c, each of which is one entry.
LEMMA OutstandingOne ==
    ASSUME Inv, NEW p \in Callers, NEW c \in Cpus
    PROVE  Outstanding(p, c) = IF On(p, c) THEN 1 ELSE 0
<1> DEFINE E == {i \in DOMAIN works[c] : works[c][i] = p}
<1>1. DupFree(works[c]) /\ ~InList(works[c], work[c])
  BY DEF Inv, WorkInv, WorkOK
<1>2. ASSUME NEW i \in DOMAIN works[c], works[c][i] = p
      PROVE  Cardinality(E) = 1 /\ work[c] # p /\ On(p, c)
  <2>1. E = {i}
    BY <1>1, <1>2 DEF DupFree
  <2>2. work[c] # p /\ On(p, c)
    BY <1>1, <1>2 DEF InList, On
  <2> QED BY <2>1, <2>2, FS_Singleton
<1>3. ASSUME \A i \in DOMAIN works[c] : works[c][i] # p
      PROVE  Cardinality(E) = 0 /\ (On(p, c) <=> work[c] = p)
  <2>1. E = {}
    BY <1>3
  <2> QED BY <1>3, <2>1, FS_EmptySet DEF On, InList
<1>4. Outstanding(p, c) = Cardinality(E) + IF work[c] = p THEN 1 ELSE 0
  BY DEF Outstanding
<1> HIDE DEF E
<1> QED BY <1>2, <1>3, <1>4

\* The number of works to be signalled, as CompletionExact counts them.
LEMMA CountWorks ==
    ASSUME Inv, NEW p \in Callers
    PROVE  Cardinality(UNION {{<<c, i>> : i \in 1 .. IF enabled[c] THEN Outstanding(p, c) ELSE 0} : c \in Cpus})
             = Cardinality(Live(p))
<1> DEFINE row(c) == {<<c, i>> : i \in 1 .. IF enabled[c] THEN Outstanding(p, c) ELSE 0}
           U == UNION {row(c) : c \in Cpus}
           f == [c \in Live(p) |-> <<c, 1>>]
<1>1. ASSUME NEW c \in Cpus PROVE row(c) = IF c \in Live(p) THEN {<<c, 1>>} ELSE {}
  <2>1. (IF enabled[c] THEN Outstanding(p, c) ELSE 0) = IF c \in Live(p) THEN 1 ELSE 0
    BY OutstandingOne DEF Live
  <2>2. 1 .. 1 = {1} /\ 1 .. 0 = {}
    OBVIOUS
  <2> QED BY <2>1, <2>2
<1>2. U = {<<c, 1>> : c \in Live(p)}
  <2>1. Live(p) \subseteq Cpus
    BY DEF Live
  <2> HIDE DEF row
  <2> QED BY <1>1, <2>1
<1> HIDE DEF U
<1>3. f \in [Live(p) -> U] /\ (\A c, d \in Live(p) : f[c] = f[d] => c = d) /\ \A u \in U : \E c \in Live(p) : f[c] = u
  BY <1>2
<1>4. f \in Bijection(Live(p), U)
  <2>1. DOMAIN f = Live(p)
    OBVIOUS
  <2> HIDE DEF f
  <2> QED BY <1>3, <2>1 DEF Bijection, Injection, Surjection, IsInjective
<1>5. IsFiniteSet(Live(p))
  <2>1. Live(p) \in SUBSET Cpus
    BY DEF Live
  <2> QED BY <2>1, Constants
<1>6. Cardinality(U) = Cardinality(Live(p))
  BY <1>4, <1>5, FS_Bijection DEF ExistsBijection
<1> QED BY <1>6 DEF U

\* CompletionInv of cpu_stop_queue_work(), cpu_stop_signal_done() and cpu_stop_park(): types hold, a
\* caller of stop_one_cpu() or stop_machine() waits for exactly the works still to be done for it,
\* CPUs going down included, and no stopper runs a work for a call that returned its value.
THEOREM CompletionsExact == Spec => []CompletionInv
<1>1. Inv => CompletionInv
  <2> SUFFICES ASSUME Inv PROVE CompletionInv
    OBVIOUS
  <2>1. ASSUME NEW p \in Callers, Waiting(p), ~completion[p]
        PROVE  nr_todo[p] = Cardinality(todo[p]) + Cardinality(
                  UNION {{<<c, i>> : i \in 1 .. IF enabled[c] THEN Outstanding(p, c) ELSE 0} : c \in Cpus})
    <3>1. nr_todo[p] = Cardinality(todo[p]) + Cardinality(Live(p))
      BY <2>1 DEF Inv, DoneInv, DoneOK
    <3> QED BY <3>1, CountWorks
  <2>2. ASSUME NEW c \in Cpus, thread[c] = "fn" PROVE Waiting(work[c]) \/ ~executed[work[c]]
    <3>1. work[c] \in Callers /\ On(work[c], c)
      BY <2>2 DEF Inv, TypeOK, WorkInv, WorkOK, On
    <3>2. CASE Machine(work[c])
      BY <3>1, <3>2 DEF Inv, OnInv, OnOK
    <3>3. CASE Op[work[c]] = "one"
      BY <3>1, <3>3 DEF Inv, DoneInv, DoneOK, Parts
    <3> QED BY <3>2, <3>3 DEF Machine
  <2> QED BY <2>1, <2>2 DEF CompletionInv, CompletionExact, NotRunAfterSuccess, Inv
<1> QED BY <1>1, Invariance, PTL

\* Rendezvous of stop_machine_cpu_stop(): the stoppers go through the states in lock step, and the
\* function runs while every CPU online spins in its stopper with interrupts off.
THEOREM MachineIsStopped == Spec => []Rendezvous
<1>1. Inv => Rendezvous
  <2> SUFFICES ASSUME Inv PROVE Rendezvous
    OBVIOUS
  <2>0. TypeOK
    BY DEF Inv
  <2>1. ASSUME NEW c \in Cpus, RunsFn(c), Op[work[c]] # "one", NEW d \in online PROVE Stopped(work[c], d)
    <3> DEFINE p == work[c]
    <3>1. /\ p \in Callers /\ Machine(p) /\ Waiting(p) /\ MachineOK(p) /\ StepOK(p, c)
          /\ thread[c] = "act" /\ curstate[c] = RUN
      BY <2>1, AtWork, Participates DEF RunsFn
    <3>2. state[p] = RUN
      BY <3>1 DEF StepOK
    <3>3. d \in Parts(p) /\ d \in Cpus
      BY <2>0, <3>1, <3>2 DEF MachineOK, RUN, EXIT, TypeOK
    <3>4. work[d] = p
      BY <3>1, <3>2, <3>3 DEF MachineOK, RUN, PREPARE
    <3>5. StepOK(p, d) /\ thread[d] \in {"fn", "act", "ack", "reset", "advance", "signal"}
      <4>1. p # NULL
        BY <3>1, Constants
      <4> QED BY <3>1, <3>3, <3>4, <4>1 DEF MachineOK, Inv, WorkInv, WorkOK
    <3>6. thread[d] # "signal" /\ curstate[d] \in {DISABLE_IRQ, RUN}
      BY <3>2, <3>5 DEF StepOK, DISABLE_IRQ, RUN, EXIT
    <3> QED BY <3>4, <3>6 DEF Stopped
  <2>2. ASSUME NEW c \in Cpus, NEW d \in Cpus, work[c] # NULL, work[c] = work[d], Op[work[c]] # "one",
               curstate[c] # NONE
        PROVE  /\ curstate[c] <= state[work[c]]
               /\ curstate[c] <= curstate[d] + 1 \/ (curstate[d] = NONE /\ curstate[c] <= PREPARE)
    <3> DEFINE p == work[c]
    <3>1. p \in Callers /\ StepOK(p, c) /\ StepOK(p, d) /\ work[d] # NULL
      BY <2>2, AtWork DEF Machine
    <3>2. /\ thread[c] \in {"fn", "act", "ack", "reset", "advance", "signal"}
          /\ thread[d] \in {"fn", "act", "ack", "reset", "advance", "signal"}
      BY <2>2, <3>1 DEF Inv, WorkInv, WorkOK
    <3>3. state[p] \in Int /\ curstate[c] \in Int /\ curstate[d] \in Int /\ state[p] <= 5
      BY <2>0, <3>1, StateTypes
    <3> HIDE DEF p
    <3>4. /\ curstate[c] = state[p] \/ curstate[c] = state[p] - 1
          /\ curstate[d] = state[p] \/ curstate[d] = state[p] - 1
      BY <3>1, <3>2, <3>3 DEF StepOK, EXIT
    <3>5. curstate[c] <= state[p] /\ curstate[c] <= curstate[d] + 1
      BY <3>3, <3>4
    <3> QED BY <3>5 DEF p
  <2> QED BY <2>1, <2>2 DEF Rendezvous, MachineStopped, LockStep
<1> QED BY <1>1, Invariance, PTL

=============================================================================

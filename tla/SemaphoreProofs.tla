-------------------------- MODULE SemaphoreProofs --------------------------
(***************************************************************************)
(* Proofs about the counting semaphore, for any set of tasks, any initial  *)
(* count and any number of up() calls by outsiders.                        *)
(***************************************************************************)
EXTENDS Semaphore, CollectionLemmas

-----------------------------------------------------------------------------
(* The inductive invariant.  NoIdlePermit is what makes a hand-over legal  *)
(* for the abstract semaphore, NoDanglingWaiter what makes the first entry *)
(* of the list a task without a permit.                                    *)

ListInv ==
    /\ DupFree(wait_list)
    /\ \A t \in Tasks : InList(wait_list, t) <=> (Waiting(t) /\ ~up[t])
    /\ \A t \in Tasks : up[t] => Waiting(t)

IInv == TypeOK /\ ListInv /\ NoIdlePermit

LEMMA ListInvDef == ListInv <=> NoDanglingWaiter
BY DEF ListInv, NoDanglingWaiter, DupFree, InList

LEMMA InitIInv == Init => IInv
<1> SUFFICES ASSUME Init PROVE IInv
  OBVIOUS
<1> USE SemaphoreAssumption DEF Init
<1>1. TypeOK
  BY DEF TypeOK, Locations, DownOps, Signals
<1>2. ListInv
  BY DEF ListInv, DupFree, InList, Waiting
<1>3. NoIdlePermit
  BY DEF NoIdlePermit
<1> QED BY <1>1, <1>2, <1>3 DEF IInv

\* A turn of the waiting loop leaves the task either queued and asleep or
\* dequeued and idle.
LEMMA WaitLoopStep ==
    ASSUME TypeOK, NEW t \in Tasks, NEW o \in DownOps, NEW late \in BOOLEAN,
           NEW list \in Seq(Tasks), DupFree(list), InList(list, t),
           WaitLoop(t, o, late, list)
    PROVE  /\ wait_list' \in Seq(Tasks)
           /\ pc' \in [Tasks -> Locations]
           /\ op' \in [Tasks -> DownOps]
           /\ running' \in [Tasks -> BOOLEAN]
           /\ expired' \in [Tasks -> BOOLEAN]
           /\ DupFree(wait_list')
           /\ \A u \in Tasks : u # t => pc'[u] = pc[u]
           /\ pc'[t] \in {"idle", "sleep"}
           /\ \A u \in Tasks : InList(wait_list', u) <=>
                                  InList(list, u) /\ (u = t => pc'[t] = "sleep")
<1>1. CASE Interrupts(o, sig[t]) \/ late
  <2>1. /\ wait_list' = RemoveFirst(list, t)
        /\ pc' = [pc EXCEPT ![t] = "idle"]
        /\ op' = [op EXCEPT ![t] = "down"]
        /\ running' = running
        /\ expired' = [expired EXCEPT ![t] = FALSE]
    BY <1>1 DEF WaitLoop
  <2>2. /\ wait_list' \in Seq(Tasks) /\ DupFree(wait_list')
        /\ \A u \in Tasks : InList(wait_list', u) <=> InList(list, u) /\ u # t
    BY <2>1, RemoveList
  <2>3. /\ pc' \in [Tasks -> Locations] /\ op' \in [Tasks -> DownOps]
        /\ running' \in [Tasks -> BOOLEAN] /\ expired' \in [Tasks -> BOOLEAN]
        /\ pc'[t] = "idle" /\ \A u \in Tasks : u # t => pc'[u] = pc[u]
    BY <2>1 DEF TypeOK, Locations, DownOps
  <2> QED BY <2>2, <2>3
<1>2. CASE ~(Interrupts(o, sig[t]) \/ late)
  <2>1. /\ wait_list' = list
        /\ pc' = [pc EXCEPT ![t] = "sleep"]
        /\ op' = [op EXCEPT ![t] = o]
        /\ running' = [running EXCEPT ![t] = FALSE]
        /\ expired' = [expired EXCEPT ![t] = FALSE]
    BY <1>2 DEF WaitLoop
  <2>2. /\ pc' \in [Tasks -> Locations] /\ op' \in [Tasks -> DownOps]
        /\ running' \in [Tasks -> BOOLEAN] /\ expired' \in [Tasks -> BOOLEAN]
        /\ pc'[t] = "sleep" /\ \A u \in Tasks : u # t => pc'[u] = pc[u]
    BY <2>1 DEF TypeOK, Locations
  <2> QED BY <2>1, <2>2
<1> QED BY <1>1, <1>2

\* GrantFirst turns the first entry into an owner that is still waiting.
LEMMA GrantStep ==
    ASSUME IInv, wait_list # <<>>, GrantFirst
    PROVE  /\ Head(wait_list) \in Tasks
           /\ Waiting(Head(wait_list)) /\ ~up[Head(wait_list)]
           /\ wait_list' \in Seq(Tasks) /\ DupFree(wait_list')
           /\ up' = [up EXCEPT ![Head(wait_list)] = TRUE]
           /\ up' \in [Tasks -> BOOLEAN]
           /\ running' \in [Tasks -> BOOLEAN]
           /\ \A u \in Tasks : InList(wait_list', u) <=>
                                  InList(wait_list, u) /\ u # Head(wait_list)
           /\ count = 0 /\ count' = 0
<1> DEFINE w == Head(wait_list)
<1>1. /\ wait_list' = Tail(wait_list)
      /\ up' = [up EXCEPT ![w] = TRUE]
      /\ running' = [running EXCEPT ![w] = TRUE]
      /\ count' = count
  BY DEF GrantFirst
<1>2. /\ w \in Tasks /\ InList(wait_list, w)
      /\ Tail(wait_list) \in Seq(Tasks) /\ DupFree(Tail(wait_list))
      /\ \A u \in Tasks : InList(Tail(wait_list), u) <=> InList(wait_list, u) /\ u # w
  BY TailList DEF IInv, ListInv, TypeOK
<1>3. Waiting(w) /\ ~up[w]
  BY <1>2 DEF IInv, ListInv
<1>4. count = 0
  BY DEF IInv, NoIdlePermit
<1>5. up' \in [Tasks -> BOOLEAN] /\ running' \in [Tasks -> BOOLEAN]
  BY <1>1, <1>2 DEF IInv, TypeOK
<1> QED BY <1>1, <1>2, <1>3, <1>4, <1>5

\* Every action keeps the inductive invariant.
LEMMA NextIInv == IInv /\ [Next]_vars => IInv'
<1> SUFFICES ASSUME IInv, [Next]_vars PROVE IInv'
  OBVIOUS
<1> USE SemaphoreAssumption
<1>0. TypeOK /\ ListInv /\ NoIdlePermit
  BY DEF IInv
<1>1. ASSUME NEW t \in Tasks, DownFast(t) \/ DownTrylock(t) PROVE IInv'
  <2>1. /\ pc[t] = "idle" /\ count > 0 /\ count' = count - 1
        /\ pc' = [pc EXCEPT ![t] = "held"]
        /\ UNCHANGED <<wait_list, op, up, running, sig, expired, ups>>
    BY <1>0, <1>1 DEF DownFast, DownTrylock, TypeOK
  <2>2. wait_list = <<>>
    BY <1>0, <2>1 DEF NoIdlePermit, TypeOK
  <2>3. TypeOK'
    BY <1>0, <2>1 DEF TypeOK, Locations
  <2>4. ListInv'
    BY <1>0, <2>1 DEF TypeOK, ListInv, DupFree, InList, Waiting
  <2>5. NoIdlePermit'
    BY <2>1, <2>2 DEF NoIdlePermit
  <2> QED BY <2>3, <2>4, <2>5 DEF IInv
<1>2. ASSUME NEW t \in Tasks, NEW o \in DownOps, NEW late \in BOOLEAN, DownSlow(t, o, late)
      PROVE  IInv'
  <2> DEFINE list == Append(wait_list, t)
  <2>1. /\ pc[t] = "idle" /\ count = 0 /\ count' = count
        /\ up' = [up EXCEPT ![t] = FALSE]
        /\ sig' = sig /\ ups' = ups
        /\ WaitLoop(t, o, late, list)
    BY <1>2 DEF DownSlow
  <2>2. ~InList(wait_list, t)
    BY <1>0, <2>1 DEF ListInv, Waiting
  <2>3. /\ list \in Seq(Tasks) /\ DupFree(list)
        /\ \A u \in Tasks : InList(list, u) <=> InList(wait_list, u) \/ u = t
    BY <1>0, <2>2, AppendList DEF TypeOK, ListInv
  <2> HIDE DEF list
  <2>4. /\ wait_list' \in Seq(Tasks)
        /\ pc' \in [Tasks -> Locations]
        /\ op' \in [Tasks -> DownOps]
        /\ running' \in [Tasks -> BOOLEAN]
        /\ expired' \in [Tasks -> BOOLEAN]
        /\ DupFree(wait_list')
        /\ \A u \in Tasks : u # t => pc'[u] = pc[u]
        /\ pc'[t] \in {"idle", "sleep"}
        /\ \A u \in Tasks : InList(wait_list', u) <=>
                               InList(list, u) /\ (u = t => pc'[t] = "sleep")
    BY <1>0, <2>1, <2>3, WaitLoopStep
  <2>5. TypeOK'
    BY <1>0, <2>1, <2>4 DEF TypeOK
  <2>6. ListInv'
    BY <1>0, <2>1, <2>3, <2>4 DEF TypeOK, ListInv, Waiting
  <2>7. NoIdlePermit'
    BY <2>1 DEF NoIdlePermit
  <2> QED BY <2>5, <2>6, <2>7 DEF IInv
<1>3. ASSUME NEW t \in Tasks, ScheduleReturns(t) PROVE IInv'
  <2>1. TypeOK'
    BY <1>0, <1>3 DEF ScheduleReturns, TypeOK, Locations
  <2>2. ListInv'
    BY <1>0, <1>3 DEF ScheduleReturns, TypeOK, ListInv, DupFree, InList, Waiting
  <2>3. NoIdlePermit'
    BY <1>0, <1>3 DEF ScheduleReturns, NoIdlePermit
  <2> QED BY <2>1, <2>2, <2>3 DEF IInv
<1>4. ASSUME NEW t \in Tasks, RelockGranted(t) PROVE IInv'
  <2>1. TypeOK'
    BY <1>0, <1>4 DEF RelockGranted, TypeOK, Locations, DownOps
  <2>2. ListInv'
    BY <1>0, <1>4 DEF RelockGranted, TypeOK, ListInv, DupFree, InList, Waiting
  <2>3. NoIdlePermit'
    BY <1>0, <1>4 DEF RelockGranted, NoIdlePermit
  <2> QED BY <2>1, <2>2, <2>3 DEF IInv
<1>5. ASSUME NEW t \in Tasks, RelockAgain(t) PROVE IInv'
  <2>1. /\ pc[t] = "relock" /\ ~up[t]
        /\ UNCHANGED <<count, up, sig, ups>>
        /\ WaitLoop(t, op[t], expired[t], wait_list)
    BY <1>5 DEF RelockAgain
  <2>2. /\ InList(wait_list, t) /\ DupFree(wait_list) /\ wait_list \in Seq(Tasks)
        /\ op[t] \in DownOps /\ expired[t] \in BOOLEAN
    BY <1>0, <2>1 DEF ListInv, Waiting, TypeOK
  <2>3. /\ wait_list' \in Seq(Tasks)
        /\ pc' \in [Tasks -> Locations]
        /\ op' \in [Tasks -> DownOps]
        /\ running' \in [Tasks -> BOOLEAN]
        /\ expired' \in [Tasks -> BOOLEAN]
        /\ DupFree(wait_list')
        /\ \A u \in Tasks : u # t => pc'[u] = pc[u]
        /\ pc'[t] \in {"idle", "sleep"}
        /\ \A u \in Tasks : InList(wait_list', u) <=>
                               InList(wait_list, u) /\ (u = t => pc'[t] = "sleep")
    BY <1>0, <2>1, <2>2, WaitLoopStep
  <2>4. TypeOK'
    BY <1>0, <2>1, <2>3 DEF TypeOK
  <2>5. ListInv'
    BY <1>0, <2>1, <2>3 DEF TypeOK, ListInv, Waiting
  <2>6. NoIdlePermit'
    <3>1. wait_list # <<>>
      BY <2>2 DEF InList
    <3> QED BY <1>0, <2>1, <3>1 DEF NoIdlePermit
  <2> QED BY <2>4, <2>5, <2>6 DEF IInv
<1>6. ASSUME UpBody, UNCHANGED <<op, sig, expired>>, ups' \in 0..MaxUps,
             pc' = pc \/ \E t \in Tasks : pc[t] = "held" /\ pc' = [pc EXCEPT ![t] = "idle"]
      PROVE  IInv'
  <2>1. /\ pc' \in [Tasks -> Locations]
        /\ \A u \in Tasks : Waiting(u)' <=> Waiting(u)
    BY <1>0, <1>6 DEF TypeOK, Waiting, Locations
  <2>2. CASE wait_list = <<>>
    <3>1. count' = count + 1 /\ UNCHANGED <<wait_list, up, running>>
      BY <1>6, <2>2 DEF UpBody
    <3>2. TypeOK'
      BY <1>0, <1>6, <2>1, <3>1 DEF TypeOK
    <3>3. ListInv'
      BY <1>0, <2>1, <3>1 DEF ListInv, DupFree, InList
    <3>4. NoIdlePermit'
      BY <2>2, <3>1 DEF NoIdlePermit
    <3> QED BY <3>2, <3>3, <3>4 DEF IInv
  <2>3. CASE wait_list # <<>>
    <3>1. GrantFirst
      BY <1>6, <2>3 DEF UpBody
    <3>2. /\ Head(wait_list) \in Tasks
          /\ Waiting(Head(wait_list)) /\ ~up[Head(wait_list)]
          /\ wait_list' \in Seq(Tasks) /\ DupFree(wait_list')
          /\ up' = [up EXCEPT ![Head(wait_list)] = TRUE]
          /\ up' \in [Tasks -> BOOLEAN]
          /\ running' \in [Tasks -> BOOLEAN]
          /\ \A u \in Tasks : InList(wait_list', u) <=>
                                 InList(wait_list, u) /\ u # Head(wait_list)
          /\ count = 0 /\ count' = 0
      BY <2>3, <3>1, GrantStep
    <3>3. TypeOK'
      BY <1>0, <1>6, <2>1, <3>2 DEF TypeOK
    <3>4. ListInv'
      BY <1>0, <2>1, <3>2 DEF TypeOK, ListInv
    <3>5. NoIdlePermit'
      BY <3>2 DEF NoIdlePermit
    <3> QED BY <3>3, <3>4, <3>5 DEF IInv
  <2> QED BY <2>2, <2>3
<1>7. ASSUME NEW t \in Tasks, Up(t) PROVE IInv'
  BY <1>0, <1>6, <1>7 DEF Up, TypeOK
<1>8. CASE UpByOther
  BY <1>0, <1>6, <1>8 DEF UpByOther, TypeOK
<1>9. ASSUME NEW t \in Tasks, Environment(t) PROVE IInv'
  <2>1. /\ UNCHANGED <<count, wait_list, pc, op, up, ups>>
        /\ sig' \in [Tasks -> Signals]
        /\ running' \in [Tasks -> BOOLEAN]
        /\ expired' \in [Tasks -> BOOLEAN]
    <3>1. ASSUME NEW s \in Signals, SendSignal(t, s)
          PROVE  /\ UNCHANGED <<count, wait_list, pc, op, up, expired, ups>>
                 /\ sig' \in [Tasks -> Signals]
                 /\ running' \in [Tasks -> BOOLEAN]
      <4>1. sig' \in [Tasks -> Signals]
        BY <1>0, <3>1 DEF SendSignal, TypeOK
      <4>2. running' \in [Tasks -> BOOLEAN]
        BY <1>0, <3>1, Zenon DEF SendSignal, TypeOK, Interrupts
      <4> QED BY <3>1, <4>1, <4>2 DEF SendSignal
    <3>2. CASE HandleSignal(t)
      BY <1>0, <3>2 DEF HandleSignal, TypeOK, Signals
    <3>3. CASE TimerFires(t) \/ SpuriousWakeup(t)
      BY <1>0, <3>3 DEF TimerFires, SpuriousWakeup, TypeOK
    <3> QED BY <1>0, <1>9, <3>1, <3>2, <3>3 DEF Environment, TypeOK
  <2>2. TypeOK'
    BY <1>0, <2>1 DEF TypeOK
  <2>3. ListInv'
    BY <1>0, <2>1 DEF ListInv, DupFree, InList, Waiting
  <2>4. NoIdlePermit'
    BY <1>0, <2>1 DEF NoIdlePermit
  <2> QED BY <2>2, <2>3, <2>4 DEF IInv
<1>10. CASE UNCHANGED vars
  <2>1. TypeOK'
    BY <1>0, <1>10 DEF TypeOK, vars
  <2>2. ListInv'
    BY <1>0, <1>10 DEF ListInv, DupFree, InList, Waiting, vars
  <2>3. NoIdlePermit'
    BY <1>0, <1>10 DEF NoIdlePermit, vars
  <2> QED BY <2>1, <2>2, <2>3 DEF IInv
<1> QED
  BY <1>1, <1>2, <1>3, <1>4, <1>5, <1>7, <1>8, <1>9, <1>10 DEF Next, TaskStep

LEMMA IInvInvariant == Spec => []IInv
BY InitIInv, NextIInv, PTL DEF Spec

\* Type correctness of the semaphore.
THEOREM TypeCorrect == Spec => []TypeOK
BY IInvInvariant, PTL DEF IInv

\* The wait list is exactly the set of waiters that __down_common() still needs,
\* without duplicates, and grants go to waiting tasks only.
THEOREM WaitListExact == Spec => []NoDanglingWaiter
<1>1. IInv => NoDanglingWaiter
  BY ListInvDef DEF IInv
<1> QED BY <1>1, IInvInvariant, PTL

\* up() never leaves a permit free while a waiter is queued.
THEOREM PermitNeverIdle == Spec => []NoIdlePermit
BY IInvInvariant, PTL DEF IInv

-----------------------------------------------------------------------------
(* Refinement.  Each step of the code is a step of the abstract semaphore  *)
(* or leaves its state alone.                                              *)

LEMMA OwnersFinite == IsFiniteSet(Owners) /\ Owners \subseteq Tasks
BY FS_Subset, SemaphoreAssumption DEF Owners

LEMMA AbstractStep == IInv /\ [Next]_vars => [Abstract!Next]_(Abstract!vars)
<1> SUFFICES ASSUME IInv, [Next]_vars
             PROVE  Abstract!Next \/ UNCHANGED <<count, Owners, ups>>
  BY DEF Abstract!vars
<1>0. TypeOK /\ ListInv /\ NoIdlePermit
  BY DEF IInv
<1>1. ASSUME NEW t \in Tasks, DownFast(t) \/ DownTrylock(t) PROVE Abstract!Next
  <2>1. /\ pc[t] = "idle" /\ count > 0 /\ count' = count - 1
        /\ pc' = [pc EXCEPT ![t] = "held"]
        /\ up' = up /\ ups' = ups
    BY <1>0, <1>1 DEF DownFast, DownTrylock, TypeOK
  <2>2. t \notin Owners
    BY <1>0, <2>1 DEF Owners, ListInv, Waiting
  <2>3. Owners' = Owners \cup {t}
    BY <1>0, <2>1 DEF Owners, TypeOK
  <2> QED BY <2>1, <2>2, <2>3 DEF Abstract!Next, Abstract!Acquire
<1>2. ASSUME NEW t \in Tasks, NEW o \in DownOps, NEW late \in BOOLEAN, DownSlow(t, o, late)
      PROVE  UNCHANGED <<count, Owners, ups>>
  <2>1. /\ pc[t] = "idle" /\ count' = count /\ ups' = ups
        /\ up' = [up EXCEPT ![t] = FALSE]
        /\ pc' = [pc EXCEPT ![t] = "idle"] \/ pc' = [pc EXCEPT ![t] = "sleep"]
    BY <1>2 DEF DownSlow, WaitLoop
  <2>2. ~up[t]
    BY <1>0, <2>1 DEF ListInv, Waiting
  <2>3. Owners' = Owners
    BY <1>0, <2>1, <2>2 DEF Owners, TypeOK
  <2> QED BY <2>1, <2>3
<1>3. ASSUME NEW t \in Tasks, ScheduleReturns(t) PROVE UNCHANGED <<count, Owners, ups>>
  BY <1>0, <1>3 DEF ScheduleReturns, Owners, TypeOK
<1>4. ASSUME NEW t \in Tasks, RelockGranted(t) PROVE UNCHANGED <<count, Owners, ups>>
  BY <1>0, <1>4 DEF RelockGranted, Owners, TypeOK
<1>5. ASSUME NEW t \in Tasks, RelockAgain(t) PROVE UNCHANGED <<count, Owners, ups>>
  <2>1. /\ pc[t] = "relock" /\ ~up[t]
        /\ UNCHANGED <<count, up, ups>>
        /\ pc' = [pc EXCEPT ![t] = "idle"] \/ pc' = [pc EXCEPT ![t] = "sleep"]
    BY <1>5 DEF RelockAgain, WaitLoop
  <2>2. Owners' = Owners
    BY <1>0, <2>1 DEF Owners, TypeOK
  <2> QED BY <2>1, <2>2
<1>6. ASSUME UpBody, wait_list # <<>>
      PROVE  /\ count = 0 /\ count' = 0
             /\ Head(wait_list) \in Tasks \ Owners
             /\ up' = [up EXCEPT ![Head(wait_list)] = TRUE]
  <2>1. GrantFirst
    BY <1>6 DEF UpBody
  <2> QED BY <1>6, <2>1, GrantStep DEF Owners, Waiting
<1>7. ASSUME UpBody, wait_list = <<>> PROVE count' = count + 1 /\ up' = up
  BY <1>7 DEF UpBody
<1>8. ASSUME NEW t \in Tasks, Up(t) PROVE Abstract!Next
  <2>1. /\ pc[t] = "held" /\ pc' = [pc EXCEPT ![t] = "idle"] /\ ups' = ups /\ UpBody
        /\ t \in Owners /\ ~up[t]
    BY <1>0, <1>8 DEF Up, Owners, ListInv, Waiting
  <2>2. CASE wait_list = <<>>
    <3>1. Owners' = Owners \ {t}
      BY <1>0, <1>7, <2>1, <2>2 DEF Owners, TypeOK
    <3> QED BY <1>7, <2>1, <2>2, <3>1 DEF Abstract!Next, Abstract!Release
  <2>3. CASE wait_list # <<>>
    <3> DEFINE w == Head(wait_list)
    <3>1. w \in Tasks \ Owners /\ w # t /\ up' = [up EXCEPT ![w] = TRUE]
      BY <1>6, <2>1, <2>3
    <3> HIDE DEF w
    <3>2. Owners' = (Owners \ {t}) \cup {w}
      BY <1>0, <2>1, <3>1 DEF Owners, TypeOK
    <3>3. Abstract!Handover(t, w)
      BY <1>6, <2>1, <2>3, <3>1, <3>2 DEF Abstract!Handover
    <3> QED BY <3>1, <3>3 DEF Abstract!Next
  <2> QED BY <2>2, <2>3
<1>9. CASE UpByOther
  <2>1. ups' = ups + 1 /\ pc' = pc /\ UpBody
    BY <1>9 DEF UpByOther
  <2>2. CASE wait_list = <<>>
    <3>1. Owners' = Owners
      BY <1>7, <2>1, <2>2 DEF Owners
    <3> QED BY <1>7, <2>1, <2>2, <3>1 DEF Abstract!Next, Abstract!Produce
  <2>3. CASE wait_list # <<>>
    <3> DEFINE w == Head(wait_list)
    <3>1. w \in Tasks \ Owners /\ up' = [up EXCEPT ![w] = TRUE]
      BY <1>6, <2>1, <2>3
    <3> HIDE DEF w
    <3>2. Owners' = Owners \cup {w}
      BY <1>0, <2>1, <3>1 DEF Owners, TypeOK
    <3>3. Abstract!ProduceFor(w)
      BY <1>6, <2>1, <2>3, <3>1, <3>2 DEF Abstract!ProduceFor
    <3> QED BY <3>1, <3>3 DEF Abstract!Next
  <2> QED BY <2>2, <2>3
<1>10. ASSUME NEW t \in Tasks, Environment(t) PROVE UNCHANGED <<count, Owners, ups>>
  BY <1>10 DEF Environment, SendSignal, HandleSignal, TimerFires, SpuriousWakeup, Owners
<1>11. CASE UNCHANGED vars
  BY <1>11 DEF vars, Owners
<1> QED
  BY <1>1, <1>2, <1>3, <1>4, <1>5, <1>8, <1>9, <1>10, <1>11 DEF Next, TaskStep

\* kernel/semaphore.c implements the counting semaphore of CountingSemaphore.tla:
\* timeouts, signals and wake-ups that race with up() are invisible to its users.
THEOREM Refinement == Spec => ImplementsCountingSemaphore
<1>1. Init => Abstract!Init
  BY DEF Init, Abstract!Init, Owners
<1> QED BY <1>1, AbstractStep, IInvInvariant, PTL DEF Spec, ImplementsCountingSemaphore, Abstract!Spec

\* No permit is lost or duplicated.
THEOREM PermitsConserved == Spec => []PermitConservation
<1>1. Init => PermitConservation
  <2> SUFFICES ASSUME Init PROVE PermitConservation
    OBVIOUS
  <2>1. Owners = {}
    BY DEF Init, Owners
  <2> QED BY <2>1, FS_EmptySet, SemaphoreAssumption DEF Init, PermitConservation
<1>2. IInv /\ PermitConservation /\ [Next]_vars => PermitConservation'
  <2> SUFFICES ASSUME IInv, PermitConservation, [Next]_vars PROVE PermitConservation'
    OBVIOUS
  <2> DEFINE n == Cardinality(Owners)
  <2>0. /\ count \in Nat /\ ups \in Nat /\ InitCount \in Nat
        /\ IsFiniteSet(Owners) /\ n \in Nat /\ count + n = InitCount + ups
    BY OwnersFinite, FS_CardinalityType, SemaphoreAssumption
       DEF IInv, TypeOK, PermitConservation
  <2>1. Abstract!Next \/ UNCHANGED <<count, Owners, ups>>
    BY AbstractStep DEF Abstract!vars
  <2>2. ASSUME NEW t \in Tasks, Abstract!Acquire(t) PROVE PermitConservation'
    <3>1. Cardinality(Owners') = n + 1
      BY <2>0, <2>2, FS_AddElement DEF Abstract!Acquire
    <3> QED BY <2>0, <2>2, <3>1 DEF Abstract!Acquire, PermitConservation
  <2>3. ASSUME NEW t \in Tasks, Abstract!Release(t) PROVE PermitConservation'
    <3>1. Cardinality(Owners') = n - 1
      BY <2>0, <2>3, FS_RemoveElement DEF Abstract!Release
    <3> QED BY <2>0, <2>3, <3>1 DEF Abstract!Release, PermitConservation
  <2>4. ASSUME NEW t \in Tasks, NEW u \in Tasks, Abstract!Handover(t, u)
        PROVE  PermitConservation'
    <3>1. IsFiniteSet(Owners \ {t}) /\ Cardinality(Owners \ {t}) = n - 1
      BY <2>0, <2>4, FS_RemoveElement DEF Abstract!Handover
    <3>2. Cardinality(Owners') = (n - 1) + 1
      BY <2>4, <3>1, FS_AddElement DEF Abstract!Handover
    <3> QED BY <2>0, <2>4, <3>2 DEF Abstract!Handover, PermitConservation
  <2>5. CASE Abstract!Produce
    BY <2>0, <2>5 DEF Abstract!Produce, PermitConservation
  <2>6. ASSUME NEW u \in Tasks, Abstract!ProduceFor(u) PROVE PermitConservation'
    <3>1. Cardinality(Owners') = n + 1
      BY <2>0, <2>6, FS_AddElement DEF Abstract!ProduceFor
    <3> QED BY <2>0, <2>6, <3>1 DEF Abstract!ProduceFor, PermitConservation
  <2>7. CASE UNCHANGED <<count, Owners, ups>>
    BY <2>0, <2>7 DEF PermitConservation
  <2> QED BY <2>1, <2>2, <2>3, <2>4, <2>5, <2>6, <2>7 DEF Abstract!Next
<1> QED BY <1>1, <1>2, IInvInvariant, PTL DEF Spec

-----------------------------------------------------------------------------
(* Wake-ups.                                                               *)

\* A waiter with a reason to return is never left asleep: __up(), a signal and
\* the timer set the task running in the step that gives the reason, and a turn
\* of the loop goes back to sleep only when there is none.
THEOREM WakeupNeverLost == Spec => []NoLostWakeup
<1>1. Init => NoLostWakeup
  BY DEF Init, NoLostWakeup
<1>2. IInv /\ NoLostWakeup /\ [Next]_vars => NoLostWakeup'
  <2> SUFFICES ASSUME IInv, NoLostWakeup, [Next]_vars PROVE NoLostWakeup'
    OBVIOUS
  <2>0. TypeOK
    BY DEF IInv
  <2>1. ASSUME NEW t \in Tasks, DownFast(t) \/ DownTrylock(t) PROVE NoLostWakeup'
    BY <2>0, <2>1 DEF DownFast, DownTrylock, NoLostWakeup, TypeOK
  <2>2. ASSUME NEW t \in Tasks, NEW o \in DownOps, NEW late \in BOOLEAN, NEW list,
               WaitLoop(t, o, late, list), sig' = sig, up' = [up EXCEPT ![t] = FALSE]
        PROVE  NoLostWakeup'
    <3>1. CASE Interrupts(o, sig[t]) \/ late
      <4>1. /\ pc' = [pc EXCEPT ![t] = "idle"] /\ op' = [op EXCEPT ![t] = "down"]
            /\ running' = running /\ expired' = [expired EXCEPT ![t] = FALSE]
        BY <2>2, <3>1 DEF WaitLoop
      <4> QED BY <2>0, <2>2, <4>1 DEF NoLostWakeup, TypeOK
    <3>2. CASE ~(Interrupts(o, sig[t]) \/ late)
      <4>1. /\ pc' = [pc EXCEPT ![t] = "sleep"] /\ op' = [op EXCEPT ![t] = o]
            /\ running' = [running EXCEPT ![t] = FALSE]
            /\ expired' = [expired EXCEPT ![t] = FALSE]
        BY <2>2, <3>2 DEF WaitLoop
      <4> QED BY <2>0, <2>2, <3>2, <4>1 DEF NoLostWakeup, TypeOK
    <3> QED BY <3>1, <3>2
  <2>3. ASSUME NEW t \in Tasks, NEW o \in DownOps, NEW late \in BOOLEAN, DownSlow(t, o, late)
        PROVE  NoLostWakeup'
    BY <2>2, <2>3 DEF DownSlow
  <2>4. ASSUME NEW t \in Tasks, ScheduleReturns(t) \/ RelockGranted(t) PROVE NoLostWakeup'
    BY <2>0, <2>4 DEF ScheduleReturns, RelockGranted, NoLostWakeup, TypeOK
  <2>5. ASSUME NEW t \in Tasks, RelockAgain(t) PROVE NoLostWakeup'
    <3>1. op[t] \in DownOps /\ expired[t] \in BOOLEAN /\ up' = [up EXCEPT ![t] = FALSE]
      BY <2>0, <2>5 DEF RelockAgain, TypeOK
    <3> QED BY <2>2, <2>5, <3>1 DEF RelockAgain
  <2>6. ASSUME UpBody, UNCHANGED <<op, sig, expired>>,
               pc' = pc \/ \E t \in Tasks : pc' = [pc EXCEPT ![t] = "idle"]
        PROVE  NoLostWakeup'
    <3>1. CASE wait_list = <<>>
      BY <2>0, <2>6, <3>1 DEF UpBody, NoLostWakeup, TypeOK
    <3>2. CASE wait_list # <<>>
      <4> DEFINE w == Head(wait_list)
      <4>1. GrantFirst
        BY <2>6, <3>2 DEF UpBody
      <4>2. up' = [up EXCEPT ![w] = TRUE] /\ running' = [running EXCEPT ![w] = TRUE]
        BY <4>1 DEF GrantFirst
      <4> HIDE DEF w
      <4> QED BY <2>0, <2>6, <4>2 DEF NoLostWakeup, TypeOK
    <3> QED BY <3>1, <3>2
  <2>7. ASSUME NEW t \in Tasks, Up(t) PROVE NoLostWakeup'
    BY <2>6, <2>7 DEF Up
  <2>8. CASE UpByOther
    BY <2>6, <2>8 DEF UpByOther
  <2>9. ASSUME NEW t \in Tasks, Environment(t) PROVE NoLostWakeup'
    <3>1. ASSUME NEW s \in Signals \ {"none"}, SendSignal(t, s) PROVE NoLostWakeup'
      BY <2>0, <3>1 DEF SendSignal, NoLostWakeup, TypeOK, Interrupts
    <3>2. CASE HandleSignal(t)
      BY <2>0, <3>2 DEF HandleSignal, NoLostWakeup, TypeOK, Interrupts
    <3>3. CASE TimerFires(t) \/ SpuriousWakeup(t)
      BY <2>0, <3>3 DEF TimerFires, SpuriousWakeup, NoLostWakeup, TypeOK
    <3> QED BY <2>9, <3>1, <3>2, <3>3 DEF Environment
  <2>10. CASE UNCHANGED vars
    BY <2>10 DEF vars, NoLostWakeup
  <2> QED
    BY <2>1, <2>3, <2>4, <2>5, <2>7, <2>8, <2>9, <2>10 DEF Next, TaskStep
<1> QED BY <1>1, <1>2, IInvInvariant, PTL DEF Spec

-----------------------------------------------------------------------------
(* Order of service.                                                       *)

LEMMA AheadAppend ==
    ASSUME NEW list \in Seq(Tasks), NEW t \in Tasks, DupFree(list), ~InList(list, t),
           NEW a \in Tasks, NEW u \in Tasks, InList(list, u), Ahead(Append(list, t), a, u)
    PROVE  Ahead(list, a, u)
BY DEF Ahead, InList, DupFree

LEMMA AheadTail ==
    ASSUME NEW list \in Seq(Tasks), list # <<>>,
           NEW a \in Tasks, NEW u \in Tasks, Ahead(Tail(list), a, u)
    PROVE  Ahead(list, a, u)
<1>1. /\ Len(list) \in Nat \ {0} /\ DOMAIN list = 1..Len(list)
      /\ DOMAIN Tail(list) = 1..Len(list) - 1
      /\ \A i \in 1..Len(list) - 1 : Tail(list)[i] = list[i + 1]
  BY HeadTailProperties, EmptySeq, LenProperties
<1>2. PICK i, j \in 1..Len(list) - 1 : i < j /\ list[i + 1] = a /\ list[j + 1] = u
  BY <1>1 DEF Ahead
<1>3. i + 1 \in 1..Len(list) /\ j + 1 \in 1..Len(list) /\ i + 1 < j + 1
  BY <1>1, <1>2
<1> QED BY <1>1, <1>2, <1>3 DEF Ahead

LEMMA AheadRemove ==
    ASSUME NEW list \in Seq(Tasks), NEW t \in Tasks, DupFree(list), InList(list, t),
           NEW a \in Tasks, NEW u \in Tasks, Ahead(RemoveFirst(list, t), a, u)
    PROVE  Ahead(list, a, u)
<1> DEFINE r == RemoveFirst(list, t)
           n == Len(list)
<1>1. n \in Nat /\ DOMAIN list = 1..n
  BY LenProperties
<1>2. PICK k \in 1..n : list[k] = t
  BY <1>1 DEF InList
<1>3. /\ r \in Seq(Tasks) /\ Len(r) = n - 1
      /\ \A i \in 1..n - 1 : r[i] = IF i < k THEN list[i] ELSE list[i + 1]
  BY <1>1, <1>2, RemoveFirstEntry
<1>4. DOMAIN r = 1..n - 1
  BY <1>3, LenProperties
<1>5. PICK i, j \in 1..n - 1 : i < j /\ r[i] = a /\ r[j] = u
  BY <1>4 DEF Ahead
<1> HIDE DEF r
<1> DEFINE old(x) == IF x < k THEN x ELSE x + 1
<1>6. /\ old(i) \in 1..n /\ old(j) \in 1..n /\ old(i) < old(j)
      /\ list[old(i)] = a /\ list[old(j)] = u
  BY <1>1, <1>2, <1>3, <1>5
<1> HIDE DEF old
<1> QED BY <1>1, <1>6 DEF Ahead

\* Nobody overtakes a waiter in the list, and only its head, or a task that
\* finds it empty, comes to own a permit.
THEOREM FirstComeFirstServed == Spec => FifoService
<1> DEFINE Grant == \A t \in Owners' \ Owners : wait_list = <<>> \/ t = Head(wait_list)
           Order == \A a, u \in Tasks :
                      Ahead(wait_list', a, u) /\ InList(wait_list, u) => Ahead(wait_list, a, u)
<1>1. IInv /\ [Next]_vars => Grant
  <2> SUFFICES ASSUME IInv, [Next]_vars, NEW t \in Owners' \ Owners,
                      wait_list # <<>>, t # Head(wait_list)
               PROVE  FALSE
    BY Zenon
  <2>0. TypeOK /\ ListInv /\ count = 0 /\ t \in Tasks
    BY DEF IInv, NoIdlePermit, Owners
  <2>1. pc'[t] = "held" \/ up'[t]
    BY DEF Owners
  <2>2. pc[t] # "held" /\ ~up[t]
    BY <2>0 DEF Owners
  <2>3. ASSUME NEW s \in Tasks, DownFast(s) \/ DownTrylock(s) PROVE FALSE
    BY <2>0, <2>3 DEF DownFast, DownTrylock
  <2>4. ASSUME NEW s \in Tasks, NEW o \in DownOps, NEW late \in BOOLEAN, DownSlow(s, o, late)
        PROVE  FALSE
    BY <2>0, <2>1, <2>2, <2>4 DEF DownSlow, WaitLoop, TypeOK
  <2>5. ASSUME NEW s \in Tasks, ScheduleReturns(s) \/ RelockGranted(s) PROVE FALSE
    BY <2>0, <2>1, <2>2, <2>5 DEF ScheduleReturns, RelockGranted, TypeOK
  <2>6. ASSUME NEW s \in Tasks, RelockAgain(s) PROVE FALSE
    BY <2>0, <2>1, <2>2, <2>6 DEF RelockAgain, WaitLoop, TypeOK
  <2>7. UpBody => up' = [up EXCEPT ![Head(wait_list)] = TRUE]
    BY DEF UpBody, GrantFirst
  <2>8. ASSUME NEW s \in Tasks, Up(s) PROVE FALSE
    BY <2>0, <2>1, <2>2, <2>7, <2>8 DEF Up, TypeOK
  <2>9. CASE UpByOther
    BY <2>0, <2>1, <2>2, <2>7, <2>9 DEF UpByOther, TypeOK
  <2>10. ASSUME NEW s \in Tasks, Environment(s) PROVE FALSE
    BY <2>1, <2>2, <2>10 DEF Environment, SendSignal, HandleSignal, TimerFires, SpuriousWakeup
  <2>11. CASE UNCHANGED vars
    BY <2>1, <2>2, <2>11 DEF vars
  <2> QED
    BY <2>3, <2>4, <2>5, <2>6, <2>8, <2>9, <2>10, <2>11 DEF Next, TaskStep
<1>2. IInv /\ [Next]_vars => Order
  <2> SUFFICES ASSUME IInv, [Next]_vars, NEW a \in Tasks, NEW u \in Tasks,
                      Ahead(wait_list', a, u), InList(wait_list, u)
               PROVE  Ahead(wait_list, a, u)
    BY Zenon
  <2>0. wait_list \in Seq(Tasks) /\ DupFree(wait_list) /\ ListInv
    BY DEF IInv, TypeOK, ListInv
  <2>1. CASE wait_list' = wait_list
    BY <2>1
  <2>2. ASSUME NEW s \in Tasks, NEW o \in DownOps, NEW late \in BOOLEAN, DownSlow(s, o, late)
        PROVE  Ahead(wait_list, a, u)
    <3> DEFINE list == Append(wait_list, s)
    <3>1. ~InList(wait_list, s)
      BY <2>0, <2>2 DEF DownSlow, ListInv, Waiting
    <3>2. list \in Seq(Tasks) /\ DupFree(list) /\ InList(list, s)
      BY <2>0, <3>1, AppendList
    <3>3. wait_list' = list \/ wait_list' = RemoveFirst(list, s)
      BY <2>2 DEF DownSlow, WaitLoop
    <3> HIDE DEF list
    <3>4. Ahead(list, a, u)
      BY <3>2, <3>3, AheadRemove
    <3> QED BY <2>0, <3>1, <3>4, AheadAppend DEF list
  <2>3. ASSUME NEW s \in Tasks, RelockAgain(s) PROVE Ahead(wait_list, a, u)
    <3>1. InList(wait_list, s)
      BY <2>0, <2>3 DEF RelockAgain, ListInv, Waiting
    <3>2. wait_list' = wait_list \/ wait_list' = RemoveFirst(wait_list, s)
      BY <2>3 DEF RelockAgain, WaitLoop
    <3> QED BY <2>0, <3>1, <3>2, AheadRemove
  <2>4. ASSUME UpBody PROVE Ahead(wait_list, a, u)
    <3>1. CASE wait_list = <<>>
      BY <2>4, <3>1 DEF UpBody
    <3>2. CASE wait_list # <<>>
      BY <2>0, <2>4, <3>2, AheadTail DEF UpBody, GrantFirst
    <3> QED BY <3>1, <3>2
  <2>5. ASSUME NEW s \in Tasks,
               DownFast(s) \/ DownTrylock(s) \/ ScheduleReturns(s) \/ RelockGranted(s)
                 \/ Environment(s)
        PROVE  wait_list' = wait_list
    BY <2>5 DEF DownFast, DownTrylock, ScheduleReturns, RelockGranted, Environment,
                SendSignal, HandleSignal, TimerFires, SpuriousWakeup
  <2>6. ASSUME NEW s \in Tasks, Up(s) PROVE Ahead(wait_list, a, u)
    BY <2>4, <2>6 DEF Up
  <2>7. CASE UpByOther
    BY <2>4, <2>7 DEF UpByOther
  <2>8. CASE UNCHANGED vars
    BY <2>1, <2>8 DEF vars
  <2> QED BY <2>1, <2>2, <2>3, <2>5, <2>6, <2>7, <2>8 DEF Next, TaskStep
<1>3. IInv /\ [Next]_vars =>
        /\ \A t \in Owners' \ Owners : wait_list = <<>> \/ t = Head(wait_list)
        /\ \A t, u \in Tasks :
             /\ Ahead(wait_list', t, u)
             /\ \E i \in DOMAIN wait_list : wait_list[i] = u
             => Ahead(wait_list, t, u)
  BY <1>1, <1>2, Zenon DEF InList
<1> QED BY <1>3, IInvInvariant, PTL DEF Spec, FifoService

\* What holds whenever sem->lock is free: the list of kernel/semaphore.c is exact, no
\* permit is idle while somebody waits, and none is lost or duplicated.
THEOREM SemaphoreInvariant == Spec => []SemaphoreInv
BY TypeCorrect, WaitListExact, PermitNeverIdle, PermitsConserved, PTL DEF SemaphoreInv

=============================================================================

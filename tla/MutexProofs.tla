---------------------------- MODULE MutexProofs ----------------------------
(***************************************************************************)
(* Proofs about the mutex, then about the wait/wound mutex, for any set of *)
(* tasks.  The bound on the decrements of ->count of the mutex outstanding *)
(* at a time is a hypothesis of each of its results: beyond it             *)
(* atomic_dec_return() wraps, and the lock with it.                        *)
(***************************************************************************)
EXTENDS Mutex, CollectionLemmas

-----------------------------------------------------------------------------
(* The inductive invariant.                                                *)

InWaitLock == {"unlock_wake", "first", "first_xchg", "try", "xchg", "check", "done"}
OnWaitList == {"first", "first_xchg", "try", "xchg", "check", "sched", "done"}

\* One owner; the hint is set while it is in its critical section; no wrap.
OwnershipInv ==
    /\ TypeOK /\ FreeIffNoOwner
    /\ \A t, u \in Owners : t = u
    /\ owner # NULL => pc[owner] = "locked"
    /\ count >= -MaxDebt - 1

\* Who is inside ->wait_lock, and who is on ->wait_list.
QueueInv ==
    /\ \A t \in Tasks : wait_lock = t <=> pc[t] \in InWaitLock
    /\ DupFree(wait_list)
    /\ \A t \in Tasks : InList(wait_list, t) <=> pc[t] \in OnWaitList

\* A waiter that is about to sleep has left its mark, or an unlock that took the mark
\* away is waiting for ->wait_lock; one that got the lock leaves the mark of the others.
MarkInv ==
    /\ \A t \in Tasks : pc[t] # "sched" => running[t]
    /\ \A t \in Tasks : pc[t] = "check" => count < 0 \/ \E u \in Tasks : pc[u] = "unlock_slow"
    /\ \A t \in Tasks : pc[t] = "done" => count < 0

Inv == OwnershipInv /\ QueueInv /\ MarkInv /\ NoStrandedWaiter

-----------------------------------------------------------------------------

LEMMA InitInv == Init => Inv
<1> SUFFICES ASSUME Init PROVE Inv
  OBVIOUS
<1>1. /\ count = 1 /\ owner = NULL /\ wait_lock = NULL /\ wait_list = <<>>
      /\ pc = [t \in Tasks |-> "idle"] /\ running = [t \in Tasks |-> TRUE]
  BY DEF Init
<1>2. Owners = {}
  BY <1>1 DEF Owners
<1>3. OwnershipInv
  BY <1>1, <1>2, MutexAssumption, EmptySeq DEF Init, OwnershipInv, TypeOK, FreeIffNoOwner
<1>4. DOMAIN wait_list = {}
  BY <1>1
<1>5. QueueInv
  BY <1>1, <1>4, MutexAssumption DEF QueueInv, DupFree, InList, InWaitLock, OnWaitList
<1>6. MarkInv /\ NoStrandedWaiter
  BY <1>1 DEF MarkInv, NoStrandedWaiter
<1> QED BY <1>3, <1>5, <1>6 DEF Inv

\* The mutex changes hands by a count of 1 only, whichever path takes it: a step leaves the
\* owners alone, or takes a free mutex, or frees it.
LEMMA OwnersStep ==
    ASSUME MaxDebt <= IntMax, Inv, [Next]_vars
    PROVE  \/ Owners' = Owners /\ (count' = 1 <=> count = 1)
           \/ \E t \in Tasks : Owners = {} /\ Owners' = {t} /\ count' # 1
           \/ \E t \in Tasks : Owners = {t} /\ Owners' = {} /\ count' = 1
<1> DEFINE Kept == Owners' = Owners /\ (count' = 1 <=> count = 1)
           Taken(t) == Owners = {} /\ Owners' = {t} /\ count' # 1
           Freed(t) == Owners = {t} /\ Owners' = {} /\ count' = 1
<1>0. /\ TypeOK /\ FreeIffNoOwner /\ (\A t, u \in Owners : t = u)
      /\ MaxDebt \in Nat /\ IntMax \in Nat \ {0} /\ NULL \notin Tasks
  BY MutexAssumption DEF Inv, OwnershipInv
<1> USE DEF TypeOK, FreeIffNoOwner, Owners, At, Goto
<1>1. ASSUME NEW t \in Tasks, NEW i \in BOOLEAN, FastLock(t, i) PROVE Kept \/ Taken(t)
  <2>1. count' = count - 1
    BY <1>0, <1>1 DEF FastLock, Decrement
  <2>2. CASE count = 1
    <3>1. pc' = [pc EXCEPT ![t] = "set_owner"]
      BY <1>1, <2>1, <2>2 DEF FastLock
    <3> QED BY <1>0, <2>1, <2>2, <3>1
  <2>3. CASE count # 1
    <3>1. count \in Int /\ count <= 0 /\ count' < 0
      BY <1>0, <2>1, <2>3
    <3>2. pc' = [pc EXCEPT ![t] = "slow"] /\ pc[t] = "idle"
      BY <1>1, <3>1 DEF FastLock
    <3>3. count' # 1 /\ (count' = 1 <=> count = 1)
      BY <2>3, <3>1
    <3> QED BY <1>0, <3>2, <3>3
  <2> QED BY <2>2, <2>3
<1>2. ASSUME NEW t \in Tasks, Trylock(t) \/ SpinAcquire(t) PROVE Taken(t)
  BY <1>0, <1>2 DEF Trylock, SpinAcquire, LockFree
<1>3. ASSUME NEW t \in Tasks, SetOwner(t) \/ ClearOwner(t) PROVE Kept
  BY <1>0, <1>3 DEF SetOwner, ClearOwner
<1>4. ASSUME NEW t \in Tasks, FastUnlock(t) PROVE Kept \/ Freed(t)
  <2>1. /\ pc[t] = "unlock" /\ t \in Owners /\ count' = count + 1 /\ count <= 0
        /\ Owners = {t}
    BY <1>0, <1>4 DEF FastUnlock
  <2>2. CASE count = 0
    <3>1. pc' = [pc EXCEPT ![t] = "idle"]
      BY <1>4, <2>2 DEF FastUnlock, FastUnlocked, Return
    <3> QED BY <1>0, <2>1, <2>2, <3>1
  <2>3. CASE count # 0
    <3>1. pc' = [pc EXCEPT ![t] = "unlock_slow"]
      BY <1>0, <1>4, <2>1, <2>3 DEF FastUnlock, FastUnlocked
    <3> QED BY <1>0, <2>1, <2>3, <3>1
  <2> QED BY <2>2, <2>3
<1>5. ASSUME NEW t \in Tasks, UnlockSet(t) PROVE Freed(t)
  BY <1>0, <1>5 DEF UnlockSet
<1>6. ASSUME NEW t \in Tasks,
             UnlockWake(t) \/ SpinLock(t) \/ SpinReadOwner(t) \/ SpinOnOwner(t) \/ SpinFail(t)
      PROVE  Kept
  BY <1>0, <1>6 DEF UnlockWake, Return, SpinLock, SpinReadOwner, SpinOnOwner, SpinFail
<1>7. ASSUME NEW t \in Tasks, Enqueue(t) \/ Interrupted(t) \/ Sleep(t) \/ Schedule(t)
      PROVE  Kept
  BY <1>0, <1>7 DEF Enqueue, Interrupted, Return, Sleep, Schedule
<1>8. ASSUME NEW t \in Tasks, ShowNoWaiter(t) PROVE Kept
  BY <1>0, <1>8 DEF ShowNoWaiter
<1>9. ASSUME NEW t \in Tasks, Xchg(t) PROVE Kept \/ Taken(t)
  BY <1>0, <1>9 DEF Xchg, Exchanged
<1>10. ASSUME NEW t \in Tasks, Done(t) PROVE Kept
  BY <1>0, <1>10 DEF Done, CountAfterDequeue
<1>11. CASE Close \/ (\E t \in Tasks : Signal(t)) \/ UNCHANGED vars
  BY <1>0, <1>11 DEF Close, Signal, vars
<1> QED BY <1>1, <1>2, <1>3, <1>4, <1>5, <1>6, <1>7, <1>8, <1>9, <1>10, <1>11 DEF Next, Step

\* ->count and ->owner stay in step with the owner.
LEMMA OwnershipStep ==
    ASSUME MaxDebt <= IntMax, Inv, [Next]_vars
    PROVE  OwnershipInv'
<1>0. /\ TypeOK /\ FreeIffNoOwner /\ QueueInv
      /\ (\A t, u \in Owners : t = u) /\ (owner # NULL => pc[owner] = "locked")
      /\ count >= -MaxDebt - 1
      /\ MaxDebt \in Nat /\ IntMax \in Nat \ {0} /\ NULL \notin Tasks
  BY MutexAssumption DEF Inv, OwnershipInv
<1>a. \A t \in Tasks : pc[t] \in {"unlock", "done"} => count <= 0
  BY <1>0 DEF TypeOK, FreeIffNoOwner, Owners
<1>b. \A t \in Tasks : pc[t] \in {"set_owner", "spin_set_owner", "done"} => owner = NULL
  BY <1>0 DEF TypeOK, Owners
<1> DEFINE Goal == TypeOK' /\ (owner # NULL => pc[owner] = "locked")' /\ count' >= -MaxDebt - 1
<1> USE DEF TypeOK, At, Goto
<1>1. ASSUME NEW t \in Tasks, NEW i \in BOOLEAN, FastLock(t, i) PROVE Goal
  BY <1>0, <1>1 DEF FastLock, Decrement
<1>2. ASSUME NEW t \in Tasks, Trylock(t) \/ SpinAcquire(t) PROVE Goal
  BY <1>0, <1>2 DEF Trylock, SpinAcquire, LockFree
<1>3. ASSUME NEW t \in Tasks, SetOwner(t) \/ ClearOwner(t) PROVE Goal
  BY <1>0, <1>b, <1>3 DEF SetOwner, ClearOwner, OwnerCleared
<1>4. ASSUME NEW t \in Tasks, FastUnlock(t) PROVE Goal
  <2>1. count' \in (-IntMax - 1) .. 1 /\ count' >= -MaxDebt - 1
    BY <1>0, <1>a, <1>4 DEF FastUnlock
  <2>2. PICK l \in {"idle", "unlock_slow"} : pc' = [pc EXCEPT ![t] = l]
    BY <1>4 DEF FastUnlock, Return
  <2>3. intr' \in [Tasks -> BOOLEAN] /\ signal' \in [Tasks -> BOOLEAN]
    BY <1>0, <1>4 DEF FastUnlock, Return
  <2> QED BY <1>0, <1>4, <2>1, <2>2, <2>3 DEF FastUnlock
<1>5. ASSUME NEW t \in Tasks, UnlockSet(t) PROVE Goal
  BY <1>0, <1>5 DEF UnlockSet
<1>6. ASSUME NEW t \in Tasks, UnlockWake(t) PROVE Goal
  BY <1>0, <1>6 DEF UnlockWake, Return
<1>7. ASSUME NEW t \in Tasks, SpinLock(t) \/ SpinReadOwner(t) \/ SpinOnOwner(t) \/ SpinFail(t)
      PROVE  Goal
  BY <1>0, <1>7 DEF SpinLock, SpinReadOwner, SpinOnOwner, SpinFail
<1>8. ASSUME NEW t \in Tasks, Enqueue(t) PROVE Goal
  BY <1>0, <1>8, AppendProperties DEF Enqueue
<1>9. ASSUME NEW t \in Tasks, ShowNoWaiter(t) \/ Sleep(t) \/ Schedule(t) PROVE Goal
  <2>1. CASE ShowNoWaiter(t)
    <3>1. PICK l \in {"first_xchg", "try", "xchg", "check"} : pc' = [pc EXCEPT ![t] = l]
      BY <2>1 DEF ShowNoWaiter
    <3> QED BY <1>0, <2>1, <3>1 DEF ShowNoWaiter
  <2>2. CASE Sleep(t)
    BY <1>0, <2>2 DEF Sleep
  <2>3. CASE Schedule(t)
    BY <1>0, <2>3 DEF Schedule
  <2> QED BY <1>9, <2>1, <2>2, <2>3
<1>10. ASSUME NEW t \in Tasks, Xchg(t) PROVE Goal
  BY <1>0, <1>10 DEF Xchg, Exchanged
<1>11. ASSUME NEW t \in Tasks, Interrupted(t) \/ Done(t) PROVE Goal
  <2>1. RemoveFirst(wait_list, t) \in Seq(Tasks)
    BY <1>0, <1>11, RemoveList DEF QueueInv, Interrupted, Done, OnWaitList
  <2>2. CASE Interrupted(t)
    BY <1>0, <2>1, <2>2 DEF Interrupted, Return
  <2>3. CASE Done(t)
    BY <1>0, <1>a, <2>1, <2>3 DEF Done, CountAfterDequeue
  <2> QED BY <1>11, <2>2, <2>3
<1>12. ASSUME NEW t \in Tasks, Signal(t) PROVE Goal
  BY <1>0, <1>12 DEF Signal
<1>c. ASSUME Close \/ UNCHANGED vars PROVE Goal
  BY <1>0, <1>c DEF Close, vars
<1> HIDE DEF Goal, TypeOK
<1>13. Goal
  BY <1>1, <1>2, <1>3, <1>4, <1>5, <1>6, <1>7, <1>8, <1>9, <1>10, <1>11, <1>12, <1>c
     DEF Next, Step
<1>14. FreeIffNoOwner' /\ (\A t, u \in Owners : t = u)'
  BY <1>0, OwnersStep DEF FreeIffNoOwner
<1> QED BY <1>13, <1>14 DEF OwnershipInv, Goal

\* Only the task inside ->wait_lock changes the list, by itself.
LEMMA QueueStep ==
    ASSUME Inv, [Next]_vars
    PROVE  QueueInv'
<1>0. TypeOK /\ QueueInv /\ NULL \notin Tasks
  BY MutexAssumption DEF Inv, OwnershipInv
<1> USE DEF QueueInv, TypeOK, InWaitLock, OnWaitList, At, Goto
<1>1. ASSUME NEW t \in Tasks,
             \/ \E i \in BOOLEAN : FastLock(t, i)
             \/ Trylock(t) \/ Signal(t) \/ SetOwner(t) \/ ClearOwner(t) \/ FastUnlock(t)
      PROVE  QueueInv'
  BY <1>0, <1>1 DEF FastLock, Trylock, Signal, SetOwner, ClearOwner, FastUnlock, Return
<1>2. ASSUME NEW t \in Tasks, UnlockSet(t) \/ UnlockWake(t) PROVE QueueInv'
  BY <1>0, <1>2 DEF UnlockSet, UnlockWake, Return
<1>3. ASSUME NEW t \in Tasks,
             SpinLock(t) \/ SpinReadOwner(t) \/ SpinOnOwner(t) \/ SpinAcquire(t) \/ SpinFail(t)
      PROVE  QueueInv'
  BY <1>0, <1>3 DEF SpinLock, SpinReadOwner, SpinOnOwner, SpinAcquire, SpinFail
<1>4. ASSUME NEW t \in Tasks, Enqueue(t) PROVE QueueInv'
  <2>1. pc[t] \in {"slow", "queue"} /\ wait_lock = NULL /\ wait_lock' = t
        /\ wait_list' = Append(wait_list, t) /\ pc' = [pc EXCEPT ![t] = "first"]
    BY <1>4 DEF Enqueue
  <2>2. ~InList(wait_list, t)
    BY <1>0, <2>1
  <2>3. /\ DupFree(wait_list')
        /\ \A u \in Tasks : InList(wait_list', u) <=> InList(wait_list, u) \/ u = t
    BY <1>0, <2>1, <2>2, AppendList
  <2> QED BY <1>0, <2>1, <2>3
<1>5. ASSUME NEW t \in Tasks, ShowNoWaiter(t) \/ Xchg(t) \/ Sleep(t) \/ Schedule(t)
      PROVE  QueueInv'
  BY <1>0, <1>5 DEF ShowNoWaiter, Xchg, Sleep, Schedule
<1>6. ASSUME NEW t \in Tasks, Interrupted(t) \/ Done(t) PROVE QueueInv'
  <2>1. /\ pc[t] \in {"check", "done"} /\ wait_list' = RemoveFirst(wait_list, t)
        /\ wait_lock' = NULL /\ pc'[t] \in {"idle", "locked"}
        /\ pc' = [pc EXCEPT ![t] = pc'[t]]
    BY <1>0, <1>6 DEF Interrupted, Done, Return
  <2>2. /\ DupFree(wait_list')
        /\ \A u \in Tasks : InList(wait_list', u) <=> InList(wait_list, u) /\ u # t
    BY <1>0, <2>1, RemoveList
  <2>3. \A u \in Tasks : u # t => pc[u] \notin InWaitLock
    BY <1>0, <2>1
  <2> QED BY <1>0, <2>1, <2>2, <2>3
<1>7. CASE Close \/ UNCHANGED vars
  BY <1>0, <1>7 DEF Close, vars
<1> QED BY <1>1, <1>2, <1>3, <1>4, <1>5, <1>6, <1>7 DEF Next, Step

\* Nobody can take the mark away unseen while a task that left it holds ->wait_lock.
LEMMA MarkStep ==
    ASSUME MaxDebt <= IntMax, Inv, [Next]_vars
    PROVE  MarkInv' /\ NoStrandedWaiter'
<1>0. /\ TypeOK /\ OwnershipInv /\ QueueInv /\ MarkInv /\ NoStrandedWaiter
      /\ MaxDebt \in Nat /\ IntMax \in Nat \ {0} /\ NULL \notin Tasks
  BY MutexAssumption DEF Inv, OwnershipInv
<1>a. /\ count \in Int
      /\ \A t, u \in Tasks : pc[t] \in InWaitLock /\ pc[u] \in InWaitLock => t = u
      /\ wait_lock = NULL => \A t \in Tasks : pc[t] \notin InWaitLock
  BY <1>0 DEF TypeOK, QueueInv
<1>b. \A t \in Tasks : pc[t] \in {"unlock", "done"} => count <= 0
  BY <1>0 DEF OwnershipInv, TypeOK, FreeIffNoOwner, Owners
<1>c. \A t, u \in Tasks : pc[t] = "unlock" /\ pc[u] = "done" => FALSE
  BY <1>0 DEF OwnershipInv, Owners
<1> USE DEF MarkInv, NoStrandedWaiter, TypeOK, InWaitLock, At, Goto
<1>1. ASSUME NEW t \in Tasks, NEW i \in BOOLEAN, FastLock(t, i)
      PROVE  MarkInv' /\ NoStrandedWaiter'
  BY <1>0, <1>a, <1>1 DEF FastLock, Decrement
<1>2. ASSUME NEW t \in Tasks, Trylock(t) \/ SpinAcquire(t)
      PROVE  MarkInv' /\ NoStrandedWaiter'
  BY <1>0, <1>a, <1>2 DEF Trylock, SpinAcquire, LockFree
<1>3. ASSUME NEW t \in Tasks,
             \/ SetOwner(t) \/ ClearOwner(t)
             \/ SpinLock(t) \/ SpinReadOwner(t) \/ SpinOnOwner(t) \/ SpinFail(t)
      PROVE  MarkInv' /\ NoStrandedWaiter'
  <2>1. /\ UNCHANGED <<count, running, wait_list>> /\ pc' = [pc EXCEPT ![t] = pc'[t]]
        /\ pc[t] \notin {"unlock_slow", "unlock_wake", "sched"}
        /\ pc'[t] \notin {"check", "done", "sched"}
    BY <1>0, <1>3 DEF SetOwner, ClearOwner, SpinLock, SpinReadOwner, SpinOnOwner, SpinFail
  <2> QED BY <1>0, <2>1
<1>s. ASSUME NEW t \in Tasks, Signal(t) PROVE MarkInv' /\ NoStrandedWaiter'
  BY <1>0, <1>s DEF Signal
<1>4. ASSUME NEW t \in Tasks, FastUnlock(t) PROVE MarkInv' /\ NoStrandedWaiter'
  BY <1>0, <1>a, <1>b, <1>c, <1>4 DEF FastUnlock, FastUnlocked, Return
<1>5. ASSUME NEW t \in Tasks, UnlockSet(t) PROVE MarkInv' /\ NoStrandedWaiter'
  BY <1>0, <1>a, <1>5 DEF UnlockSet
<1>6. ASSUME NEW t \in Tasks, UnlockWake(t) PROVE MarkInv' /\ NoStrandedWaiter'
  <2>1. wait_list # <<>> => Head(wait_list) \in Tasks /\ Head(wait_list) \in ToSet(wait_list)
    BY <1>0, HeadTailProperties, LenProperties DEF ToSet
  <2> QED BY <1>0, <1>a, <1>6, <2>1 DEF UnlockWake, Return
<1>7. ASSUME NEW t \in Tasks, Enqueue(t) PROVE MarkInv' /\ NoStrandedWaiter'
  <2>1. t \in ToSet(wait_list') /\ running'[t]
    BY <1>0, <1>7, AppendProperties, LenProperties DEF ToSet, Enqueue
  <2> QED BY <1>0, <1>a, <1>7, <2>1 DEF Enqueue
<1>8. ASSUME NEW t \in Tasks, ShowNoWaiter(t) \/ Schedule(t) \/ Sleep(t)
      PROVE  MarkInv' /\ NoStrandedWaiter'
  BY <1>0, <1>a, <1>8 DEF ShowNoWaiter, Schedule, Sleep
<1>9. ASSUME NEW t \in Tasks, Xchg(t) PROVE MarkInv' /\ NoStrandedWaiter'
  BY <1>0, <1>a, <1>9 DEF Xchg, Exchanged
<1>10. ASSUME NEW t \in Tasks, Interrupted(t) \/ Done(t) PROVE MarkInv' /\ NoStrandedWaiter'
  BY <1>0, <1>a, <1>b, <1>10 DEF Interrupted, Done, Return, CountAfterDequeue
<1>11. CASE Close \/ UNCHANGED vars
  BY <1>0, <1>11 DEF Close, vars
<1> QED BY <1>1, <1>2, <1>3, <1>s, <1>4, <1>5, <1>6, <1>7, <1>8, <1>9, <1>10, <1>11 DEF Next, Step

LEMMA InvInvariant ==
    ASSUME MaxDebt <= IntMax
    PROVE  Spec => []Inv
<1>1. Inv /\ [Next]_vars => Inv'
  BY OwnershipStep, QueueStep, MarkStep DEF Inv
<1> QED BY InitInv, <1>1, PTL DEF Spec

-----------------------------------------------------------------------------

\* ->count is 1 exactly when nobody owns the mutex, at most one task does, and ->owner
\* never names another: the fast paths, the spinners and the waiters of kernel/mutex.c
\* agree on who is in, as long as ->count does not wrap.
THEOREM OneOwner ==
    ASSUME MaxDebt <= IntMax
    PROVE  Spec => []OwnerInv
<1>1. Inv => OwnerInv
  <2> SUFFICES ASSUME Inv, owner # NULL PROVE Owners = {owner}
    BY DEF Inv, OwnershipInv, OwnerInv, OwnerIsOwner
  <2>1. owner \in Owners
    BY DEF Inv, OwnershipInv, TypeOK, Owners
  <2> QED BY <2>1 DEF Inv, OwnershipInv
<1> QED BY <1>1, InvInvariant, PTL

\* A sleeping waiter of __mutex_lock_common() is shown by ->count, or somebody awake
\* will show it, or an unlock is on its way to wake it.
THEOREM WaitersRemembered ==
    ASSUME MaxDebt <= IntMax
    PROVE  Spec => []NoStrandedWaiter
<1>1. Inv => NoStrandedWaiter
  BY DEF Inv
<1> QED BY <1>1, InvInvariant, PTL

\* Each step of the mutex is a step of the abstract lock.
LEMMA LockStep ==
    ASSUME MaxDebt <= IntMax
    PROVE  Inv /\ [Next]_vars => [Abstract!Next]_(Abstract!vars)
<1> SUFFICES ASSUME Inv, [Next]_vars PROVE Abstract!Next \/ UNCHANGED Owners
  BY DEF Abstract!vars
<1>1. ASSUME NEW t \in Tasks, Owners = {} /\ Owners' = {t} PROVE Abstract!Next
  BY <1>1 DEF Abstract!Next, Abstract!AcquireWrite
<1>2. ASSUME NEW t \in Tasks, Owners = {t} /\ Owners' = {} PROVE Abstract!Next
  BY <1>2 DEF Abstract!Next, Abstract!ReleaseWrite
<1> QED BY <1>1, <1>2, OwnersStep

\* kernel/mutex.c implements a mutual exclusion lock.
THEOREM MutexIsLock ==
    ASSUME MaxDebt <= IntMax
    PROVE  Spec => ImplementsLock
<1>1. Init => Abstract!Init
  BY DEF Init, Abstract!Init, Owners
<1> QED BY <1>1, LockStep, InvInvariant, PTL DEF Spec, ImplementsLock, Abstract!Spec

-----------------------------------------------------------------------------
(***************************************************************************)
(* The wait/wound mutex.  What it shares with the mutex (Tasks, NULL and   *)
(* the variables of the same name) is shared notation: nothing relates a   *)
(* state of one to a state of the other.  The assumption on the constants  *)
(* of WwMutex is a hypothesis of each result.                              *)
(***************************************************************************)
CONSTANTS Locks, Want, Modulus, FirstStamp, MaxContexts

VARIABLES word, ctx, started, stamp, acquired, mode, held, lock, hold_ctx, contended

Ww == INSTANCE WwMutex

\* The library's operators as WwMutex sees them are the library's.
LEMMA WwSets ==
    /\ \A S : Ww!Cardinality(S) = Cardinality(S)
    /\ \A S : Ww!IsFiniteSet(S) <=> IsFiniteSet(S)
BY DEF Ww!Cardinality, Cardinality, Ww!IsFiniteSet, IsFiniteSet

LEMMA WwRemove == \A s, e : Ww!RemoveFirst(s, e) = RemoveFirst(s, e)
BY DEF Ww!RemoveFirst, RemoveFirst, Ww!RemoveAt, RemoveAt, Ww!SelectInSeq, SelectInSeq, Ww!Min, Min

InWwLock == {"try", "check", "stamp", "sleep", "done", "unlock_wake"}
OnWwList == {"try", "check", "stamp", "sleep", "sched", "done"}

\* Who is inside each ->wait_lock, and who is on each ->wait_list.
WwQueueInv ==
    /\ \A t \in Tasks : lock[t] = NULL <=> pc[t] \in {"none", "ready"}
    /\ \A t \in Tasks, l \in Locks : wait_lock[l] = t <=> lock[t] = l /\ pc[t] \in InWwLock
    /\ \A l \in Locks : DupFree(wait_list[l])
    /\ \A t \in Tasks, l \in Locks :
        InList(wait_list[l], t) <=> lock[t] = l /\ pc[t] \in OnWwList

\* One owner, shown by ->base.count; ->ctx is set after the lock is taken and cleared
\* before it is let go.
WwOwnershipInv ==
    /\ \A t, u \in Tasks, l \in Locks : Ww!Owns(t, l) /\ Ww!Owns(u, l) => t = u
    /\ \A l \in Locks : word[l] = "free" <=> \A t \in Tasks : ~Ww!Owns(t, l)
    /\ \A l \in Locks : ctx[l] # NULL =>
        \/ l \in held[ctx[l]]
        \/ lock[ctx[l]] = l /\ pc[ctx[l]] \in {"read_count", "wake"}

\* The locks of a context that count as acquired and are not in the caller's hands yet.
Arriving(t) == IF pc[t] \in {"read_count", "wake"} THEN 1 ELSE 0

\* What the caller knows of its context: the locks it has, and which one to begin with
\* after -EDEADLK.
CallerInv ==
    /\ \A t \in Tasks : lock[t] \notin held[t]
    /\ \A t \in Tasks : acquired[t] = Cardinality(held[t]) + Arriving(t)
    /\ \A t \in Tasks : pc[t] = "none" => contended[t] = NULL
    /\ \A t \in Tasks :
        pc[t] \in {"ready", "unlock", "unlock_slow", "unlock_wake"} /\ contended[t] # NULL =>
            mode[t] = "backoff"
    /\ \A t \in Tasks : pc[t] \in {"unlock", "unlock_slow", "unlock_wake"} => mode[t] # "grow"

\* A waiter that has failed to get the lock has left its mark for the unlocker, which
\* cannot get past ->wait_lock; so the owner it has seen is still the owner.
WwMarkInv ==
    /\ \A t \in Tasks :
        pc[t] \in {"check", "stamp", "sleep", "done"} => word[lock[t]] = "contended"
    /\ \A t \in Tasks : pc[t] = "stamp" => hold_ctx[t] \in Tasks
    /\ Ww!NoStaleContext

WwInv == Ww!TypeOK /\ WwQueueInv /\ WwOwnershipInv /\ CallerInv /\ WwMarkInv

-----------------------------------------------------------------------------

LEMMA WwInit ==
    ASSUME Ww!WwMutexAssumption
    PROVE  Ww!Init => WwInv
<1> SUFFICES ASSUME Ww!Init PROVE WwInv
  OBVIOUS
<1> USE DEF Ww!Init, Ww!WwMutexAssumption
<1>0. <<>> \in Seq(Tasks) /\ DOMAIN <<>> = {} /\ Cardinality({}) = 0 /\ Cardinality(Locks) \in Nat
  BY FS_CardinalityType, FS_EmptySet, WwSets
<1>1. Ww!TypeOK
  BY <1>0, WwSets DEF Ww!TypeOK
<1>2. WwQueueInv
  BY <1>0 DEF WwQueueInv, DupFree, InList, InWwLock, OnWwList
<1>3. WwOwnershipInv
  BY DEF WwOwnershipInv, Ww!Owns
<1>4. CallerInv
  BY <1>0 DEF CallerInv, Arriving
<1>5. WwMarkInv
  BY DEF WwMarkInv, Ww!NoStaleContext
<1> QED BY <1>1, <1>2, <1>3, <1>4, <1>5 DEF WwInv

\* Types, but for the bound of ->acquired.
LEMMA WwTypeStep ==
    ASSUME Ww!WwMutexAssumption, WwInv, [Ww!Next]_Ww!vars
    PROVE  /\ acquired' \in [Tasks -> Nat] /\ held' \in [Tasks -> SUBSET Locks]
           /\ lock' \in [Tasks -> Locks \cup {NULL}]
           /\ acquired' \in [Tasks -> 0 .. Ww!Cardinality(Locks)] => Ww!TypeOK'
<1>0. Ww!TypeOK /\ WwQueueInv /\ CallerInv /\ WwMarkInv
  BY DEF WwInv
<1> DEFINE Goal == /\ acquired' \in [Tasks -> Nat] /\ held' \in [Tasks -> SUBSET Locks]
                   /\ lock' \in [Tasks -> Locks \cup {NULL}]
                   /\ acquired' \in [Tasks -> 0 .. Ww!Cardinality(Locks)] => Ww!TypeOK'
<1>a. acquired \in [Tasks -> Nat]
  BY <1>0 DEF Ww!TypeOK
<1>b. NULL \notin Tasks /\ NULL \notin Locks /\ Modulus \in Nat /\ Modulus # 0
      /\ MaxContexts \in Nat /\ FirstStamp \in Nat
  BY DEF Ww!WwMutexAssumption
<1>c. \A t \in Tasks : pc[t] \notin {"none", "ready"} => lock[t] \in Locks
  BY <1>0 DEF Ww!TypeOK, WwQueueInv
<1> USE DEF Ww!TypeOK, Ww!Goto
<1>1. ASSUME NEW t \in Tasks, Ww!ww_acquire_init(t) PROVE Goal
  <2>1. started' \in 0 .. MaxContexts /\ (FirstStamp + started + 1) % Modulus \in 0 .. Modulus - 1
    BY <1>0, <1>b, <1>1 DEF Ww!ww_acquire_init
  <2> QED BY <1>0, <1>a, <1>1, <2>1 DEF Ww!ww_acquire_init, Ww!lockVars
<1>2. ASSUME NEW t \in Tasks, Ww!ww_acquire_fini(t) \/ Ww!Finish(t) \/ Ww!Signal(t) PROVE Goal
  <2>1. CASE Ww!ww_acquire_fini(t)
    BY <1>0, <1>a, <2>1 DEF Ww!ww_acquire_fini, Ww!lockVars, Ww!ctxVars, Ww!callVars
  <2>2. CASE Ww!Finish(t)
    BY <1>0, <1>a, <2>2 DEF Ww!Finish, Ww!lockVars, Ww!ctxVars
  <2>3. CASE Ww!Signal(t)
    BY <1>0, <1>a, <2>3 DEF Ww!Signal, Ww!lockVars, Ww!ctxVars, Ww!callVars
  <2> QED BY <1>2, <2>1, <2>2, <2>3
<1>3. ASSUME NEW t \in Tasks, NEW l \in Locks, Ww!FastLock(t, l) PROVE Goal
  BY <1>0, <1>a, <1>3 DEF Ww!FastLock, Ww!ctxVars
<1>4. ASSUME NEW t \in Tasks, NEW l \in Locks, Ww!UnlockContext(t, l) PROVE Goal
  BY <1>0, <1>a, <1>4 DEF Ww!UnlockContext, Ww!OneLess
<1>5. ASSUME NEW t \in Tasks, Ww!SpinAcquire(t) \/ Ww!SetContext(t) PROVE Goal
  <2>1. CASE Ww!SpinAcquire(t)
    BY <1>0, <1>a, <1>c, <2>1 DEF Ww!SpinAcquire, Ww!ctxVars, Ww!callVars
  <2>2. CASE Ww!SetContext(t)
    <3>1. acquired' \in [Tasks -> Nat]
      BY <1>a, <2>2 DEF Ww!SetContext
    <3>2. lock[t] \in Locks /\ ctx' = [ctx EXCEPT ![lock[t]] = t] /\ pc' = [pc EXCEPT ![t] = "read_count"]
      BY <1>c, <2>2 DEF Ww!SetContext
    <3> QED BY <1>0, <2>2, <3>1, <3>2 DEF Ww!SetContext, Ww!callVars
  <2> QED BY <1>5, <2>1, <2>2
<1>6. ASSUME NEW t \in Tasks, Ww!ReadCount(t) \/ Ww!WakeWaiters(t) PROVE Goal
  <2>1. CASE Ww!ReadCount(t)
    <3>1. CASE Ww!Uncontended(lock[t])
      <4>1. /\ lock[t] \in Locks /\ Ww!Got(t) /\ pc' = [pc EXCEPT ![t] = "ready"]
            /\ UNCHANGED <<Ww!lockVars, Ww!ctxVars, mode, hold_ctx, running>>
        BY <1>c, <2>1, <3>1 DEF Ww!ReadCount
      <4> QED BY <1>0, <1>a, <1>b, <4>1 DEF Ww!Got, Ww!lockVars, Ww!ctxVars
    <3>2. CASE ~Ww!Uncontended(lock[t])
      BY <1>0, <1>a, <2>1, <3>2 DEF Ww!ReadCount, Ww!lockVars, Ww!ctxVars
    <3> QED BY <3>1, <3>2
  <2>2. CASE Ww!WakeWaiters(t)
    <3>1. lock[t] \in Locks
      BY <1>c, <2>2 DEF Ww!WakeWaiters
    <3>2. held' \in [Tasks -> SUBSET Locks] /\ lock' \in [Tasks -> Locks \cup {NULL}]
      BY <1>0, <2>2, <3>1 DEF Ww!WakeWaiters, Ww!Got
    <3> QED BY <1>0, <1>a, <1>b, <2>2, <3>2
               DEF Ww!WakeWaiters, Ww!Got, Ww!WakeAll, Ww!lockVars, Ww!ctxVars
  <2> QED BY <1>6, <2>1, <2>2
<1>7. ASSUME NEW t \in Tasks, Ww!Enqueue(t) PROVE Goal
  <2>1. Append(wait_list[lock[t]], t) \in Seq(Tasks)
    <3>1. lock[t] \in Locks
      BY <1>c, <1>7 DEF Ww!Enqueue
    <3>2. wait_list[lock[t]] \in Seq(Tasks)
      BY <1>0, <3>1
    <3> QED BY <3>2, AppendProperties
  <2> QED BY <1>0, <1>a, <1>c, <1>7, <2>1 DEF Ww!Enqueue, Ww!ctxVars, Ww!callVars
<1>8. ASSUME NEW t \in Tasks, Ww!Try(t) \/ Ww!Sleep(t) \/ Ww!Schedule(t) PROVE Goal
  <2>1. CASE Ww!Try(t)
    BY <1>0, <1>a, <1>c, <2>1 DEF Ww!Try, Ww!LockFree, Ww!ctxVars, Ww!callVars
  <2>2. CASE Ww!Sleep(t)
    BY <1>0, <1>a, <1>c, <2>2 DEF Ww!Sleep, Ww!ctxVars, Ww!callVars
  <2>3. CASE Ww!Schedule(t)
    BY <1>0, <1>a, <1>c, <2>3 DEF Ww!Schedule, Ww!ctxVars, Ww!callVars
  <2> QED BY <1>8, <2>1, <2>2, <2>3
<1>9. ASSUME NEW t \in Tasks, Ww!CheckRead(t) PROVE Goal
  BY <1>0, <1>a, <1>c, <1>9 DEF Ww!CheckRead, Ww!lockVars, Ww!ctxVars
<1>10. ASSUME NEW t \in Tasks, Ww!CheckStamp(t) \/ Ww!Interrupted(t) \/ Ww!Done(t) PROVE Goal
  <2>1. lock[t] \in Locks /\ InList(wait_list[lock[t]], t)
    BY <1>0, <1>c, <1>10 DEF Ww!CheckStamp, Ww!Interrupted, Ww!Done, WwQueueInv, OnWwList
  <2>2. RemoveFirst(wait_list[lock[t]], t) \in Seq(Tasks)
    BY <1>0, <2>1, RemoveList DEF WwQueueInv
  <2>3. CASE Ww!CheckStamp(t)
    <3>1. CASE Ww!Later(stamp[t], stamp[hold_ctx[t]])
      <4>1. /\ Ww!LeaveQueue(t) /\ pc' = [pc EXCEPT ![t] = "ready"]
            /\ mode' = [mode EXCEPT ![t] = "backoff"] /\ lock' = [lock EXCEPT ![t] = NULL]
            /\ contended' = [contended EXCEPT ![t] = lock[t]]
            /\ hold_ctx' = [hold_ctx EXCEPT ![t] = NULL]
            /\ UNCHANGED <<word, ctx, Ww!ctxVars, held, running>>
        BY <2>3, <3>1 DEF Ww!CheckStamp
      <4> QED BY <1>0, <1>a, <1>b, <2>1, <2>2, <4>1, WwRemove DEF Ww!LeaveQueue, Ww!ctxVars
    <3>2. CASE ~Ww!Later(stamp[t], stamp[hold_ctx[t]])
      BY <1>0, <1>a, <1>b, <2>3, <3>2 DEF Ww!CheckStamp, Ww!ctxVars
    <3> QED BY <3>1, <3>2
  <2>4. CASE Ww!Interrupted(t)
    BY <1>0, <1>a, <1>b, <2>1, <2>2, <2>4, WwRemove
       DEF Ww!Interrupted, Ww!LeaveQueue, Ww!ctxVars
  <2>5. CASE Ww!Done(t)
    <3>1. word' \in [Locks -> {"free", "locked", "contended"}] /\ ctx' \in [Locks -> Tasks \cup {NULL}]
          /\ acquired' \in [Tasks -> Nat] /\ running' \in [Tasks -> BOOLEAN]
      BY <1>0, <1>a, <2>1, <2>5 DEF Ww!Done, Ww!WakeAll
    <3> QED BY <1>0, <1>b, <2>1, <2>2, <2>5, <3>1, WwRemove DEF Ww!Done, Ww!LeaveQueue, Ww!Got
  <2> QED BY <1>10, <2>3, <2>4, <2>5
<1>11. ASSUME NEW t \in Tasks, Ww!UnlockCount(t) PROVE Goal
  BY <1>0, <1>a, <1>b, <1>c, <1>11 DEF Ww!UnlockCount, Ww!ctxVars
<1>12. ASSUME NEW t \in Tasks, Ww!UnlockSet(t) PROVE Goal
  BY <1>0, <1>a, <1>c, <1>12 DEF Ww!UnlockSet, Ww!ctxVars, Ww!callVars
<1>13. ASSUME NEW t \in Tasks, Ww!UnlockWake(t) PROVE Goal
  BY <1>0, <1>a, <1>b, <1>c, <1>13 DEF Ww!UnlockWake, Ww!ctxVars
<1>14. ASSUME UNCHANGED Ww!vars PROVE Goal
  BY <1>0, <1>a, <1>14 DEF Ww!vars, Ww!lockVars, Ww!ctxVars, Ww!callVars
<1> HIDE DEF Goal, Ww!TypeOK
<1>15. Goal
  BY <1>1, <1>2, <1>3, <1>4, <1>5, <1>6, <1>7, <1>8, <1>9, <1>10, <1>11, <1>12, <1>13, <1>14
     DEF Ww!Next, Ww!Step
<1> QED BY <1>15 DEF Goal

\* Each ->wait_list is changed by the task inside ->wait_lock, by itself.
LEMMA WwQueueStep ==
    ASSUME Ww!WwMutexAssumption, WwInv, [Ww!Next]_Ww!vars
    PROVE  WwQueueInv'
<1>0. Ww!TypeOK /\ WwQueueInv /\ NULL \notin Tasks /\ NULL \notin Locks
  BY DEF Ww!WwMutexAssumption, WwInv
<1>c. \A t \in Tasks : pc[t] \notin {"none", "ready"} => lock[t] \in Locks
  BY <1>0 DEF Ww!TypeOK, WwQueueInv
<1> USE DEF WwQueueInv, Ww!TypeOK, InWwLock, OnWwList, Ww!Goto
<1>1. ASSUME NEW t \in Tasks,
             Ww!ww_acquire_init(t) \/ Ww!ww_acquire_fini(t) \/ Ww!Finish(t) \/ Ww!Signal(t)
      PROVE  WwQueueInv'
  <2>1. CASE Ww!ww_acquire_init(t)
    BY <1>0, <2>1 DEF Ww!ww_acquire_init, Ww!lockVars
  <2>2. CASE Ww!ww_acquire_fini(t)
    BY <1>0, <2>2 DEF Ww!ww_acquire_fini, Ww!lockVars, Ww!callVars
  <2>3. CASE Ww!Finish(t)
    BY <1>0, <2>3 DEF Ww!Finish, Ww!lockVars
  <2>4. CASE Ww!Signal(t)
    BY <1>0, <2>4 DEF Ww!Signal, Ww!lockVars, Ww!callVars
  <2> QED BY <1>1, <2>1, <2>2, <2>3, <2>4
<1>2. ASSUME NEW t \in Tasks, NEW l \in Locks, Ww!FastLock(t, l) \/ Ww!UnlockContext(t, l)
      PROVE  WwQueueInv'
  <2>1. CASE Ww!FastLock(t, l)
    BY <1>0, <2>1 DEF Ww!FastLock, Ww!LockFree, Ww!ctxVars
  <2>2. CASE Ww!UnlockContext(t, l)
    BY <1>0, <2>2 DEF Ww!UnlockContext
  <2> QED BY <1>2, <2>1, <2>2
<1>3. ASSUME NEW t \in Tasks, Ww!SpinAcquire(t) \/ Ww!SetContext(t) \/ Ww!Try(t) PROVE WwQueueInv'
  <2>1. CASE Ww!SpinAcquire(t)
    BY <1>0, <1>c, <2>1 DEF Ww!SpinAcquire, Ww!ctxVars, Ww!callVars
  <2>2. CASE Ww!SetContext(t)
    BY <1>0, <1>c, <2>2 DEF Ww!SetContext, Ww!callVars
  <2>3. CASE Ww!Try(t)
    BY <1>0, <1>c, <2>3 DEF Ww!Try, Ww!ctxVars, Ww!callVars
  <2> QED BY <1>3, <2>1, <2>2, <2>3
<1>4. ASSUME NEW t \in Tasks, Ww!ReadCount(t) \/ Ww!WakeWaiters(t) \/ Ww!UnlockCount(t)
      PROVE  WwQueueInv'
  <2>1. CASE Ww!ReadCount(t)
    BY <1>0, <1>c, <2>1 DEF Ww!ReadCount, Ww!Uncontended, Ww!Got, Ww!lockVars, Ww!ctxVars
  <2>2. CASE Ww!WakeWaiters(t)
    BY <1>0, <1>c, <2>2 DEF Ww!WakeWaiters, Ww!Got, Ww!lockVars, Ww!ctxVars
  <2>3. CASE Ww!UnlockCount(t)
    <3>1. CASE word[lock[t]] = "locked"
      BY <1>0, <1>c, <2>3, <3>1 DEF Ww!UnlockCount, Ww!UnlockedFast, Ww!ctxVars
    <3>2. CASE word[lock[t]] # "locked"
      BY <1>0, <1>c, <2>3, <3>2 DEF Ww!UnlockCount, Ww!UnlockedFast, Ww!ctxVars
    <3> QED BY <3>1, <3>2
  <2> QED BY <1>4, <2>1, <2>2, <2>3
<1>5. ASSUME NEW t \in Tasks, Ww!Enqueue(t) PROVE WwQueueInv'
  <2> DEFINE l == lock[t]
  <2>1. /\ l \in Locks /\ pc[t] = "slow" /\ pc' = [pc EXCEPT ![t] = "try"] /\ lock' = lock
        /\ wait_lock[l] = NULL /\ wait_lock' = [wait_lock EXCEPT ![l] = t]
        /\ wait_list' = [wait_list EXCEPT ![l] = Append(wait_list[l], t)]
    BY <1>0, <1>c, <1>5 DEF Ww!Enqueue, Ww!callVars
  <2> HIDE DEF l
  <2>2. ~InList(wait_list[l], t)
    BY <1>0, <2>1
  <2>a. \A u \in Tasks : lock[u] = l => pc[u] \notin InWwLock
    BY <1>0, <2>1
  <2>3. /\ DupFree(wait_list'[l])
        /\ \A u \in Tasks : InList(wait_list'[l], u) <=> InList(wait_list[l], u) \/ u = t
    BY <1>0, <2>1, <2>2, AppendList
  <2> QED BY <1>0, <2>1, <2>a, <2>3 DEF l
<1>6. ASSUME NEW t \in Tasks, Ww!CheckRead(t) \/ Ww!Sleep(t) \/ Ww!Schedule(t) PROVE WwQueueInv'
  <2>1. CASE Ww!CheckRead(t)
    BY <1>0, <1>c, <2>1 DEF Ww!CheckRead, Ww!lockVars, Ww!ctxVars
  <2>2. CASE Ww!Sleep(t)
    BY <1>0, <1>c, <2>2 DEF Ww!Sleep, Ww!ctxVars, Ww!callVars
  <2>3. CASE Ww!Schedule(t)
    BY <1>0, <1>c, <2>3 DEF Ww!Schedule, Ww!ctxVars, Ww!callVars
  <2> QED BY <1>6, <2>1, <2>2, <2>3
<1>7. ASSUME NEW t \in Tasks, Ww!CheckStamp(t) \/ Ww!Interrupted(t) \/ Ww!Done(t) PROVE WwQueueInv'
  <2> DEFINE l == lock[t]
  <2>1. CASE pc'[t] = "sleep"
    <3>1. /\ pc[t] = "stamp" /\ pc' = [pc EXCEPT ![t] = "sleep"]
          /\ UNCHANGED <<wait_list, wait_lock, lock>>
      BY <1>0, <1>7, <2>1 DEF Ww!CheckStamp, Ww!Interrupted, Ww!Done
    <3> QED BY <1>0, <3>1
  <2>2. CASE pc'[t] # "sleep"
    <3>1. /\ l \in Locks /\ pc[t] \in {"stamp", "check", "done"} /\ pc' = [pc EXCEPT ![t] = "ready"]
          /\ lock' = [lock EXCEPT ![t] = NULL]
          /\ wait_list' = [wait_list EXCEPT ![l] = RemoveFirst(wait_list[l], t)]
          /\ wait_lock' = [wait_lock EXCEPT ![l] = NULL]
      BY <1>0, <1>c, <1>7, <2>2, WwRemove
         DEF Ww!CheckStamp, Ww!Interrupted, Ww!Done, Ww!LeaveQueue, Ww!Got
    <3>2. InList(wait_list[l], t) /\ \A u \in Tasks : lock[u] = l /\ pc[u] \in InWwLock => u = t
      BY <1>0, <3>1
    <3>3. /\ DupFree(wait_list'[l])
          /\ \A u \in Tasks : InList(wait_list'[l], u) <=> InList(wait_list[l], u) /\ u # t
      BY <1>0, <3>1, <3>2, RemoveList
    <3> HIDE DEF l
    <3> QED BY <1>0, <3>1, <3>2, <3>3 DEF l
  <2> QED BY <2>1, <2>2
<1>8. ASSUME NEW t \in Tasks, Ww!UnlockSet(t) \/ Ww!UnlockWake(t) PROVE WwQueueInv'
  <2>1. CASE Ww!UnlockSet(t)
    BY <1>0, <1>c, <2>1 DEF Ww!UnlockSet, Ww!ctxVars, Ww!callVars
  <2>2. CASE Ww!UnlockWake(t)
    BY <1>0, <1>c, <2>2 DEF Ww!UnlockWake, Ww!ctxVars
  <2> QED BY <1>8, <2>1, <2>2
<1>9. CASE UNCHANGED Ww!vars
  BY <1>0, <1>9 DEF Ww!vars, Ww!lockVars, Ww!ctxVars, Ww!callVars
<1> QED BY <1>1, <1>2, <1>3, <1>4, <1>5, <1>6, <1>7, <1>8, <1>9 DEF Ww!Next, Ww!Step

\* A lock is taken only when it is free, and ->ctx named nobody then.
LEMMA WwOwnershipStep ==
    ASSUME Ww!WwMutexAssumption, WwInv, [Ww!Next]_Ww!vars
    PROVE  WwOwnershipInv'
<1>0. /\ Ww!TypeOK /\ WwOwnershipInv /\ NULL \notin Tasks /\ NULL \notin Locks
      /\ \A t \in Tasks : lock[t] \notin held[t]
  BY DEF Ww!WwMutexAssumption, WwInv, CallerInv
<1>c. \A t \in Tasks : pc[t] \notin {"none", "ready"} => lock[t] \in Locks
  BY DEF WwInv, Ww!TypeOK, WwQueueInv
<1>d. \A t \in Tasks, l \in Locks : word[l] = "free" => ~Ww!Owns(t, l) /\ ctx[l] = NULL
  BY <1>0 DEF WwOwnershipInv, Ww!TypeOK, Ww!Owns
<1> DEFINE Same(l) == /\ ctx'[l] = ctx[l] /\ (word'[l] = "free" <=> word[l] = "free")
                      /\ \A u \in Tasks : Ww!Owns(u, l)' <=> Ww!Owns(u, l)
                      /\ \A u \in Tasks : u = ctx[l] => 
                            \/ l \in held'[u]
                            \/ lock'[u] = l /\ pc'[u] \in {"read_count", "wake"}
           Kept == \A l \in Locks : Same(l)
           Others(l) == \A k \in Locks : k # l => Same(k)
           Takes(t, l) == /\ word[l] = "free" /\ word'[l] # "free" /\ ctx'[l] = ctx[l]
                          /\ \A u \in Tasks : Ww!Owns(u, l)' <=> u = t
                          /\ Others(l)
           Names(t, l) == /\ Ww!Owns(t, l) /\ Ww!Owns(t, l)' /\ word'[l] # "free" /\ ctx'[l] \in {t, NULL}
                          /\ \A u \in Tasks : Ww!Owns(u, l)' => Ww!Owns(u, l)
                          /\ ctx'[l] = t => \/ l \in held'[t]
                                            \/ lock'[t] = l /\ pc'[t] \in {"read_count", "wake"}
                          /\ Others(l)
           Frees(t, l) == /\ Ww!Owns(t, l) /\ word'[l] = "free" /\ ctx'[l] = NULL
                          /\ \A u \in Tasks : Ww!Owns(u, l)' <=> Ww!Owns(u, l) /\ u # t
                          /\ Others(l)
           Goal == \/ Kept
                   \/ \E t \in Tasks, l \in Locks : Takes(t, l) \/ Names(t, l) \/ Frees(t, l)
<1>e. ASSUME Goal PROVE WwOwnershipInv'
  <2>0. ASSUME NEW l \in Locks, Same(l)
        PROVE  /\ \A t, u \in Tasks : Ww!Owns(t, l)' /\ Ww!Owns(u, l)' => t = u
               /\ word'[l] = "free" <=> \A t \in Tasks : ~Ww!Owns(t, l)'
               /\ ctx'[l] # NULL => \/ l \in held'[ctx'[l]]
                                    \/ lock'[ctx'[l]] = l /\ pc'[ctx'[l]] \in {"read_count", "wake"}
    <3>1. ctx[l] \in Tasks \cup {NULL}
      BY <1>0 DEF Ww!TypeOK
    <3> QED BY <1>0, <2>0, <3>1 DEF WwOwnershipInv
  <2>1. CASE Kept
    BY <2>0, <2>1 DEF WwOwnershipInv
  <2>2. ASSUME NEW t \in Tasks, NEW l \in Locks, Takes(t, l) \/ Names(t, l) \/ Frees(t, l)
        PROVE  WwOwnershipInv'
    <3>1. /\ \A v, u \in Tasks : Ww!Owns(v, l)' /\ Ww!Owns(u, l)' => v = u
          /\ word'[l] = "free" <=> \A v \in Tasks : ~Ww!Owns(v, l)'
          /\ ctx'[l] # NULL => \/ l \in held'[ctx'[l]]
                               \/ lock'[ctx'[l]] = l /\ pc'[ctx'[l]] \in {"read_count", "wake"}
      <4>1. CASE Takes(t, l)
        BY <1>0, <1>d, <4>1
      <4>2. CASE Names(t, l)
        BY <1>0, <4>2 DEF WwOwnershipInv
      <4>3. CASE Frees(t, l)
        BY <1>0, <4>3 DEF WwOwnershipInv
      <4> QED BY <2>2, <4>1, <4>2, <4>3
    <3>2. Others(l)
      BY <2>2
    <3> HIDE DEF Same
    <3> QED BY <2>0, <3>1, <3>2 DEF WwOwnershipInv
  <2> HIDE DEF Kept, Takes, Names, Frees
  <2> QED BY <1>e, <2>1, <2>2
<1> HIDE DEF Kept, Takes, Names, Frees, Goal
<1> USE DEF Ww!TypeOK, Ww!Owns, Ww!Goto
<1>f. \A l \in Locks : ctx[l] # NULL => \/ l \in held[ctx[l]]
                                        \/ lock[ctx[l]] = l /\ pc[ctx[l]] \in {"read_count", "wake"}
  BY <1>0 DEF WwOwnershipInv
<1>g. \A t, u \in Tasks, l \in Locks : Ww!Owns(t, l) /\ Ww!Owns(u, l) => t = u
  BY <1>0 DEF WwOwnershipInv
\* A step of t that is about the lock l leaves the other locks alone.
<1>h. ASSUME NEW t \in Tasks, NEW l \in Locks,
             \A u \in Tasks : u # t => pc'[u] = pc[u] /\ lock'[u] = lock[u] /\ held'[u] = held[u],
             lock[t] \in {l, NULL}, lock'[t] \in {l, NULL},
             \A k \in Locks : k # l => (k \in held'[t] <=> k \in held[t]),
             \A k \in Locks : k # l => word'[k] = word[k] /\ ctx'[k] = ctx[k]
      PROVE  Others(l)
  <2> SUFFICES ASSUME NEW k \in Locks, k # l PROVE Same(k)
    OBVIOUS
  <2>1. ctx'[k] = ctx[k] /\ word'[k] = word[k] /\ lock[t] # k /\ lock'[t] # k
    BY <1>0, <1>h
  <2>2. \A u \in Tasks : Ww!Owns(u, k)' <=> Ww!Owns(u, k)
    BY <1>h, <2>1
  <2>3. ASSUME NEW u \in Tasks, u = ctx[k]
        PROVE  k \in held'[u] \/ (lock'[u] = k /\ pc'[u] \in {"read_count", "wake"})
    <3>1. k \in held[u] \/ (lock[u] = k /\ pc[u] \in {"read_count", "wake"})
      BY <1>0, <1>f, <2>3
    <3>2. CASE u = t
      BY <1>h, <2>1, <3>1, <3>2
    <3>3. CASE u # t
      BY <1>h, <3>1, <3>3
    <3> QED BY <3>2, <3>3
  <2> QED BY <2>1, <2>2, <2>3
\* A step of a task that does not own the lock it is dealing with, before or after.
<1>k. ASSUME NEW t \in Tasks, UNCHANGED <<word, ctx, held>>,
             \A u \in Tasks : u # t => pc'[u] = pc[u] /\ lock'[u] = lock[u],
             pc[t] \in {"slow", "sleep", "sched", "stamp", "check"},
             pc'[t] \in {"try", "sched", "ready", "sleep"}
      PROVE  Kept
  <2> SUFFICES ASSUME NEW k \in Locks PROVE Same(k)
    BY DEF Kept
  <2>2. \A u \in Tasks : Ww!Owns(u, k)' <=> Ww!Owns(u, k)
    BY <1>k
  <2>3. ASSUME NEW u \in Tasks, u = ctx[k]
        PROVE  k \in held'[u] \/ (lock'[u] = k /\ pc'[u] \in {"read_count", "wake"})
    <3>1. k \in held[u] \/ (lock[u] = k /\ pc[u] \in {"read_count", "wake"})
      BY <1>0, <1>f, <2>3
    <3> QED BY <1>k, <3>1
  <2> QED BY <1>k, <2>2, <2>3
<1> HIDE DEF Same
<1>1. ASSUME NEW t \in Tasks, Ww!ww_acquire_init(t) PROVE Kept
  BY <1>0, <1>f, <1>1 DEF Kept, Same, Ww!ww_acquire_init, Ww!lockVars
<1>2. ASSUME NEW t \in Tasks, Ww!ww_acquire_fini(t) PROVE Kept
  BY <1>0, <1>f, <1>2 DEF Kept, Same, Ww!ww_acquire_fini, Ww!lockVars, Ww!callVars
<1>3. ASSUME NEW t \in Tasks, Ww!Finish(t) PROVE Kept
  BY <1>0, <1>f, <1>3 DEF Kept, Same, Ww!Finish, Ww!lockVars
<1>4. ASSUME NEW t \in Tasks, Ww!Signal(t) PROVE Kept
  BY <1>0, <1>f, <1>4 DEF Kept, Same, Ww!Signal, Ww!lockVars, Ww!callVars
<1>5. ASSUME NEW t \in Tasks, NEW l \in Locks, Ww!FastLock(t, l) PROVE Kept \/ Takes(t, l)
  <2>1. CASE Ww!LockFree(l)
    <3>1. lock[t] = NULL
      BY <1>5 DEF WwInv, WwQueueInv, Ww!FastLock
    <3>2. Others(l)
      BY <1>0, <1>h, <1>5, <3>1 DEF Ww!FastLock
    <3> QED BY <1>0, <1>d, <1>5, <2>1, <3>2 DEF Takes, Ww!FastLock, Ww!LockFree
  <2>2. CASE ~Ww!LockFree(l)
    BY <1>0, <1>f, <1>5, <2>2 DEF Kept, Same, Ww!FastLock, Ww!LockFree
  <2> QED BY <2>1, <2>2
<1>6. ASSUME NEW t \in Tasks, NEW l \in Locks, Ww!UnlockContext(t, l) PROVE Names(t, l)
  <2>1. lock[t] = NULL
    BY <1>6 DEF WwInv, WwQueueInv, Ww!UnlockContext
  <2>2. Others(l)
    BY <1>0, <1>h, <1>6, <2>1 DEF Ww!UnlockContext
  <2> QED BY <1>0, <1>f, <1>g, <1>6, <2>2 DEF Names, Ww!UnlockContext, WwOwnershipInv
<1>7. ASSUME NEW t \in Tasks, NEW l \in Locks, l = lock[t], Ww!SpinAcquire(t)
      PROVE  Takes(t, l)
  <2>2. Others(l)
    BY <1>0, <1>h, <1>7 DEF Ww!SpinAcquire, Ww!callVars
  <2> QED BY <1>0, <1>d, <1>7, <2>2 DEF Takes, Ww!SpinAcquire, Ww!LockFree, Ww!callVars
<1>8. ASSUME NEW t \in Tasks, NEW l \in Locks, l = lock[t], Ww!SetContext(t)
      PROVE  Names(t, l)
  <2>2. Others(l)
    BY <1>0, <1>h, <1>8 DEF Ww!SetContext, Ww!callVars
  <2> QED BY <1>0, <1>8, <2>2 DEF Names, Ww!SetContext, Ww!callVars, WwOwnershipInv
<1>9. ASSUME NEW t \in Tasks, Ww!ReadCount(t) \/ Ww!WakeWaiters(t) PROVE Kept
  <2>1. CASE Ww!Got(t) /\ pc' = [pc EXCEPT ![t] = "ready"]
    BY <1>0, <1>c, <1>f, <1>9, <2>1
       DEF Kept, Same, Ww!Got, Ww!ReadCount, Ww!WakeWaiters, Ww!lockVars
  <2>2. CASE UNCHANGED <<held, lock>> /\ pc' = [pc EXCEPT ![t] = "wake"]
    BY <1>0, <1>c, <1>f, <1>9, <2>2 DEF Kept, Same, Ww!ReadCount, Ww!WakeWaiters, Ww!lockVars
  <2> QED BY <1>9, <2>1, <2>2 DEF Ww!ReadCount, Ww!WakeWaiters
<1>10. ASSUME NEW t \in Tasks, Ww!Enqueue(t) \/ Ww!Sleep(t) \/ Ww!Schedule(t) PROVE Kept
  <2>1. /\ pc[t] \in {"slow", "sleep", "sched"} /\ UNCHANGED <<word, ctx, held, lock>>
        /\ (\A u \in Tasks : u # t => pc'[u] = pc[u]) /\ pc'[t] \in {"try", "sched"}
    BY <1>0, <1>10 DEF Ww!Enqueue, Ww!Sleep, Ww!Schedule, Ww!callVars
  <2> QED BY <1>k, <2>1
<1>11. ASSUME NEW t \in Tasks, NEW l \in Locks, l = lock[t], Ww!Try(t)
      PROVE  Kept \/ Takes(t, l)
  <2>1. CASE Ww!LockFree(lock[t])
    <3>2. Others(l)
      BY <1>0, <1>h, <1>11 DEF Ww!Try, Ww!callVars
    <3> QED BY <1>0, <1>d, <1>11, <2>1, <3>2 DEF Takes, Ww!Try, Ww!LockFree, Ww!callVars
  <2>2. CASE ~Ww!LockFree(lock[t])
    BY <1>0, <1>f, <1>11, <2>2 DEF Kept, Same, Ww!Try, Ww!LockFree, Ww!callVars
  <2> QED BY <2>1, <2>2
<1>12. ASSUME NEW t \in Tasks, Ww!CheckRead(t) PROVE Kept
  BY <1>0, <1>f, <1>12 DEF Kept, Same, Ww!CheckRead, Ww!lockVars
<1>13. ASSUME NEW t \in Tasks, Ww!CheckStamp(t) \/ Ww!Interrupted(t) PROVE Kept
  <2>1. /\ pc[t] \in {"stamp", "check"} /\ UNCHANGED <<word, ctx, held>>
        /\ (\A u \in Tasks : u # t => pc'[u] = pc[u] /\ lock'[u] = lock[u])
        /\ pc'[t] \in {"ready", "sleep"}
    BY <1>0, <1>13 DEF Ww!CheckStamp, Ww!Interrupted
  <2> QED BY <1>k, <2>1
<1>14. ASSUME NEW t \in Tasks, NEW l \in Locks, l = lock[t], Ww!Done(t)
      PROVE  Names(t, l)
  <2>1. /\ pc[t] = "done" /\ pc' = [pc EXCEPT ![t] = "ready"]
        /\ ctx' = [ctx EXCEPT ![l] = t] /\ Ww!Got(t) /\ word[l] # "free"
        /\ word' = [word EXCEPT ![l] = word'[l]]
        /\ word'[l] # "free"
    BY <1>0, <1>d, <1>14 DEF Ww!Done
  <2>2. Others(l)
    <3>1. /\ \A u \in Tasks : u # t =>
                pc'[u] = pc[u] /\ lock'[u] = lock[u] /\ held'[u] = held[u]
          /\ lock[t] \in {l, NULL} /\ lock'[t] \in {l, NULL}
          /\ \A k \in Locks : k # l => (k \in held'[t] <=> k \in held[t])
      BY <1>0, <1>14, <2>1 DEF Ww!Got
    <3>2. \A k \in Locks : k # l => word'[k] = word[k] /\ ctx'[k] = ctx[k]
      BY <1>0, <2>1
    <3> QED BY <1>h, <3>1, <3>2
  <2> QED BY <1>0, <1>14, <2>1, <2>2 DEF Names, Ww!Got
<1>15. ASSUME NEW t \in Tasks, NEW l \in Locks, l = lock[t], Ww!UnlockCount(t)
      PROVE  Kept \/ Frees(t, l)
  <2>1. CASE Ww!UnlockedFast(lock[t])
    <3>1. /\ pc[t] = "unlock" /\ pc' = [pc EXCEPT ![t] = "ready"] /\ UNCHANGED <<ctx, held>>
          /\ word' = [word EXCEPT ![l] = "free"] /\ lock' = [lock EXCEPT ![t] = NULL]
      BY <1>15, <2>1 DEF Ww!UnlockCount
    <3>2. Others(l)
      BY <1>0, <1>h, <1>15, <3>1
    <3>3. Ww!Owns(t, l) /\ l \notin held[t]
      BY <1>0, <1>15, <3>1
    <3>4. ctx[l] = NULL
      <4> SUFFICES ASSUME ctx[l] \in Tasks PROVE FALSE
        BY <1>0
      <4>1. Ww!Owns(ctx[l], l) /\ (l \in held[ctx[l]] \/ pc[ctx[l]] \in {"read_count", "wake"})
        BY <1>0, <1>f
      <4>2. ctx[l] = t
        BY <1>g, <3>3, <4>1
      <4> QED BY <3>1, <3>3, <4>1, <4>2
    <3>5. \A u \in Tasks : Ww!Owns(u, l)' <=> Ww!Owns(u, l) /\ u # t
      BY <1>0, <1>15, <3>1, <3>3
    <3> QED BY <1>0, <3>1, <3>2, <3>3, <3>4, <3>5 DEF Frees
  <2>2. CASE ~Ww!UnlockedFast(lock[t])
    BY <1>0, <1>f, <1>15, <2>2 DEF Kept, Same, Ww!UnlockCount
  <2> QED BY <2>1, <2>2
<1>16. ASSUME NEW t \in Tasks, NEW l \in Locks, l = lock[t], Ww!UnlockSet(t)
      PROVE  Frees(t, l)
  <2>2. Others(l)
    BY <1>0, <1>h, <1>16 DEF Ww!UnlockSet, Ww!callVars
  <2>1. /\ pc[t] = "unlock_slow" /\ pc' = [pc EXCEPT ![t] = "unlock_wake"]
        /\ UNCHANGED <<ctx, held, lock>> /\ word' = [word EXCEPT ![l] = "free"]
    BY <1>16 DEF Ww!UnlockSet, Ww!callVars
  <2>3. Ww!Owns(t, l) /\ l \notin held[t]
    BY <1>0, <1>16, <2>1
  <2>4. ctx[l] = NULL
    <3> SUFFICES ASSUME ctx[l] \in Tasks PROVE FALSE
      BY <1>0
    <3>1. Ww!Owns(ctx[l], l) /\ (l \in held[ctx[l]] \/ pc[ctx[l]] \in {"read_count", "wake"})
      BY <1>0, <1>f
    <3>2. ctx[l] = t
      BY <1>g, <2>3, <3>1
    <3> QED BY <2>1, <2>3, <3>1, <3>2
  <2>5. \A u \in Tasks : Ww!Owns(u, l)' <=> Ww!Owns(u, l) /\ u # t
    BY <1>0, <1>16, <2>1, <2>3
  <2> QED BY <1>0, <2>1, <2>2, <2>3, <2>4, <2>5 DEF Frees
<1>17. ASSUME NEW t \in Tasks, Ww!UnlockWake(t) PROVE Kept
  BY <1>0, <1>c, <1>f, <1>17 DEF Kept, Same, Ww!UnlockWake
<1>18. ASSUME UNCHANGED Ww!vars PROVE Kept
  BY <1>0, <1>f, <1>18 DEF Kept, Same, Ww!vars, Ww!lockVars, Ww!callVars
<1> HIDE DEF Ww!TypeOK, Ww!Owns, Ww!Goto
<1>19. ASSUME NEW t \in Tasks,
              \/ Ww!SpinAcquire(t) \/ Ww!SetContext(t) \/ Ww!Try(t) \/ Ww!Done(t)
              \/ Ww!UnlockCount(t) \/ Ww!UnlockSet(t)
       PROVE  Goal
  <2>1. PICK l \in Locks : l = lock[t]
    BY <1>c, <1>19
       DEF Ww!SpinAcquire, Ww!SetContext, Ww!Try, Ww!Done, Ww!UnlockCount, Ww!UnlockSet, Ww!Goto
  <2> QED BY <1>7, <1>8, <1>11, <1>14, <1>15, <1>16, <1>19, <2>1 DEF Goal
<1> QED BY <1>e, <1>1, <1>2, <1>3, <1>4, <1>5, <1>6, <1>9, <1>10, <1>12, <1>13, <1>17, <1>18, <1>19
           DEF Ww!Next, Ww!Step, Goal

\* ->acquired counts the locks of the context, also while it takes or drops one.
LEMMA CallerStep ==
    ASSUME Ww!WwMutexAssumption, WwInv, [Ww!Next]_Ww!vars
    PROVE  CallerInv'
<1>0. /\ Ww!TypeOK /\ CallerInv /\ NULL \notin Locks
      /\ \A t \in Tasks : lock[t] = NULL <=> pc[t] \in {"none", "ready"}
  BY DEF Ww!WwMutexAssumption, WwInv, WwQueueInv
<1>i. \A t \in Tasks : acquired[t] \in Nat /\ acquired'[t] \in Nat
  BY <1>0, WwTypeStep DEF Ww!TypeOK
<1>a. \A t \in Tasks : IsFiniteSet(held[t]) /\ Cardinality(held[t]) \in Nat
  BY <1>0, FS_Subset, FS_CardinalityType, WwSets DEF Ww!WwMutexAssumption, Ww!TypeOK
<1>b. ASSUME NEW t \in Tasks, NEW l \in Locks, l \notin held[t]
      PROVE  Cardinality(held[t] \cup {l}) = Cardinality(held[t]) + 1
  BY <1>a, <1>b, FS_AddElement
<1>c. ASSUME NEW t \in Tasks, NEW l \in held[t]
      PROVE  Cardinality(held[t] \ {l}) = Cardinality(held[t]) - 1 /\ Cardinality(held[t]) > 0
  <2>1. Cardinality(held[t]) # 0
    BY <1>a, <1>c, FS_EmptySet
  <2>2. /\ IsFiniteSet(held[t]) /\ Cardinality(held[t]) \in Nat
        /\ Cardinality(held[t] \ {l}) = Cardinality(held[t]) - 1
    BY <1>a, <1>c, FS_RemoveElement
  <2> QED BY <2>1, <2>2
<1>d. \A t \in Tasks : pc[t] \notin {"none", "ready"} => lock[t] \in Locks
  BY <1>0 DEF Ww!TypeOK
<1> DEFINE Ok(t) ==
             /\ lock'[t] \notin held'[t] /\ acquired'[t] = Cardinality(held'[t]) + Arriving(t)'
             /\ pc'[t] = "none" => contended'[t] = NULL
             /\ pc'[t] \in {"ready", "unlock", "unlock_slow", "unlock_wake"} /\ contended'[t] # NULL =>
                  mode'[t] = "backoff"
             /\ pc'[t] \in {"unlock", "unlock_slow", "unlock_wake"} => mode'[t] # "grow"
           Same(t) == /\ pc'[t] = pc[t] /\ lock'[t] = lock[t] /\ held'[t] = held[t]
                      /\ acquired'[t] = acquired[t] /\ contended'[t] = contended[t]
                      /\ mode'[t] = mode[t]
           Goal == \E t \in Tasks : Ok(t) /\ \A u \in Tasks : u # t => Same(u)
<1>e. ASSUME NEW t \in Tasks, Same(t) PROVE Ok(t)
  BY <1>0, <1>e DEF CallerInv, Arriving
<1>f. ASSUME \A t \in Tasks : Ok(t) PROVE CallerInv'
  BY <1>f DEF CallerInv
<1>g. ASSUME Goal PROVE CallerInv'
  <2> HIDE DEF Ok, Same
  <2> QED BY <1>e, <1>f, <1>g
<1> HIDE DEF Goal
<1> USE DEF Ww!Goto
<1>1. ASSUME NEW t \in Tasks, Ww!ww_acquire_init(t) \/ Ww!ww_acquire_fini(t) \/ Ww!Finish(t)
      PROVE  Goal
  <2>1. /\ UNCHANGED <<held, lock, acquired, contended>> /\ pc[t] \in {"none", "ready"}
        /\ \A u \in Tasks : u # t => Same(u)
        /\ pc'[t] \in {"none", "ready"}
        /\ pc[t] = "ready" /\ pc'[t] # pc[t] => mode[t] = "finish" /\ mode'[t] = mode[t]
        /\ pc[t] = "ready" /\ pc'[t] = pc[t] => mode[t] = "grow"
        /\ pc[t] = "none" => pc'[t] = "ready"
    BY <1>0, <1>1
       DEF Ww!TypeOK, Ww!ww_acquire_init, Ww!ww_acquire_fini, Ww!Finish, Ww!ctxVars, Ww!callVars
  <2>2. Ok(t)
    BY <1>0, <2>1 DEF CallerInv, Arriving
  <2> QED BY <2>1, <2>2 DEF Goal
<1>2. ASSUME NEW t \in Tasks, Ww!Signal(t) \/ Ww!Enqueue(t) \/ Ww!Sleep(t) \/ Ww!Schedule(t)
      PROVE  Goal
  <2>1. /\ UNCHANGED <<held, lock, acquired, contended, mode>>
        /\ pc[t] \in {"slow", "sleep", "sched"} /\ pc'[t] \in {"try", "sched"}
        /\ \A u \in Tasks : u # t => Same(u)
    BY <1>0, <1>2
       DEF Ww!TypeOK, Ww!Signal, Ww!Enqueue, Ww!Sleep, Ww!Schedule, Ww!ctxVars, Ww!callVars
  <2> QED BY <1>0, <2>1 DEF CallerInv, Arriving, Goal
<1>3. ASSUME NEW t \in Tasks, NEW l \in Locks, Ww!FastLock(t, l) PROVE Goal
  <2>1. l \notin held[t]
    BY <1>0, <1>3 DEF CallerInv, Ww!FastLock, Ww!Wanted
  <2>2. /\ pc[t] = "ready" /\ pc'[t] \in {"set_ctx", "slow"} /\ lock'[t] = l /\ UNCHANGED <<held, acquired>>
        /\ \A u \in Tasks : u # t => Same(u)
    BY <1>0, <1>3 DEF Ww!TypeOK, Ww!FastLock, Ww!ctxVars
  <2> QED BY <1>0, <2>1, <2>2 DEF CallerInv, Arriving, Goal
<1>4. ASSUME NEW t \in Tasks, NEW l \in Locks, Ww!UnlockContext(t, l) PROVE Goal
  <2>1. /\ l \in held[t] /\ pc[t] = "ready" /\ pc'[t] = "unlock" /\ lock'[t] = l /\ held'[t] = held[t] \ {l}
        /\ acquired'[t] = Ww!OneLess(acquired[t]) /\ mode[t] \in {"backoff", "finish"}
        /\ UNCHANGED <<mode, contended>> /\ \A u \in Tasks : u # t => Same(u)
    BY <1>0, <1>4 DEF Ww!TypeOK, Ww!UnlockContext
  <2>2. acquired[t] = Cardinality(held[t])
    BY <1>0, <1>a, <2>1 DEF CallerInv, Arriving
  <2>3. acquired'[t] = Cardinality(held'[t])
    BY <1>i, <1>a, <1>c, <2>1, <2>2 DEF Ww!OneLess
  <2>4. Cardinality(held'[t]) \in Nat
    BY <1>i, <2>3
  <2>5. Ok(t)
    BY <1>0, <2>1, <2>3, <2>4 DEF CallerInv, Arriving
  <2> QED BY <2>1, <2>5 DEF Goal
<1>5. ASSUME NEW t \in Tasks, Ww!SpinAcquire(t) \/ Ww!Try(t) \/ Ww!CheckRead(t) PROVE Goal
  <2>1. /\ UNCHANGED <<held, lock, acquired, contended, mode>>
        /\ pc[t] \in {"slow", "try", "check"} /\ pc'[t] \in {"set_ctx", "done", "check", "sleep", "stamp"}
        /\ \A u \in Tasks : u # t => Same(u)
    BY <1>0, <1>5 DEF Ww!TypeOK, Ww!SpinAcquire, Ww!Try, Ww!CheckRead, Ww!ctxVars, Ww!callVars
  <2> QED BY <1>0, <2>1 DEF CallerInv, Arriving, Goal
<1>6. ASSUME NEW t \in Tasks, Ww!SetContext(t) PROVE Goal
  <2>1. /\ UNCHANGED <<held, lock, contended, mode>> /\ acquired'[t] = acquired[t] + 1
        /\ pc[t] = "set_ctx" /\ pc'[t] = "read_count" /\ \A u \in Tasks : u # t => Same(u)
    BY <1>0, <1>6 DEF Ww!TypeOK, Ww!SetContext, Ww!callVars
  <2>2. acquired[t] = Cardinality(held[t]) /\ Arriving(t)' = 1
    BY <1>0, <1>a, <2>1 DEF CallerInv, Arriving
  <2>3. acquired'[t] = Cardinality(held'[t]) + Arriving(t)'
    BY <2>1, <2>2
  <2>4. Ok(t)
    BY <1>0, <2>1, <2>3 DEF CallerInv
  <2> QED BY <2>1, <2>4 DEF Goal
<1>7. ASSUME NEW t \in Tasks, Ww!ReadCount(t) \/ Ww!WakeWaiters(t) \/ Ww!Done(t) PROVE Goal
  <2>1. CASE Ww!ReadCount(t) /\ pc'[t] = "wake"
    <3>1. /\ UNCHANGED <<held, lock, acquired, contended, mode>> /\ pc[t] = "read_count"
          /\ \A u \in Tasks : u # t => Same(u)
      BY <1>0, <2>1 DEF Ww!TypeOK, Ww!ReadCount, Ww!ctxVars
    <3> QED BY <1>0, <2>1, <3>1 DEF CallerInv, Arriving, Goal
  <2>2. CASE ~(Ww!ReadCount(t) /\ pc'[t] = "wake")
    <3>1. /\ pc'[t] = "ready" /\ pc[t] \in {"read_count", "wake", "done"} /\ Ww!Got(t) /\ mode' = mode
          /\ acquired'[t] = IF pc[t] = "done" THEN acquired[t] + 1 ELSE acquired[t]
          /\ \A u \in Tasks : u # t => pc'[u] = pc[u] /\ acquired'[u] = acquired[u]
      BY <1>0, <1>7, <2>2 DEF Ww!TypeOK, Ww!ReadCount, Ww!WakeWaiters, Ww!Done, Ww!ctxVars
    <3>2. /\ lock'[t] = NULL /\ contended'[t] = NULL /\ held'[t] = held[t] \cup {lock[t]}
          /\ \A u \in Tasks : u # t => Same(u)
      BY <1>0, <3>1 DEF Ww!TypeOK, Ww!Got
    <3>3. lock[t] \in Locks /\ lock[t] \notin held[t] /\ held[t] \subseteq Locks
      BY <1>0, <1>d, <3>1 DEF Ww!TypeOK, CallerInv
    <3>4. acquired'[t] = Cardinality(held'[t])
      BY <1>0, <1>i, <1>a, <1>b, <3>1, <3>2, <3>3 DEF CallerInv, Arriving
    <3>5. Arriving(t)' = 0 /\ NULL \notin held'[t]
      BY <1>0, <3>1, <3>2, <3>3 DEF Arriving
    <3>6. acquired'[t] = Cardinality(held'[t]) + Arriving(t)'
      BY <1>i, <3>4, <3>5
    <3> QED BY <3>1, <3>2, <3>5, <3>6 DEF Goal
  <2> QED BY <1>7, <2>1, <2>2
<1>8. ASSUME NEW t \in Tasks, Ww!CheckStamp(t) \/ Ww!Interrupted(t) PROVE Goal
  <2>1. /\ UNCHANGED <<held, acquired>> /\ pc[t] \in {"stamp", "check"} /\ pc'[t] \in {"ready", "sleep"}
        /\ pc'[t] = "ready" => lock'[t] = NULL /\ (contended'[t] = NULL \/ mode'[t] = "backoff")
        /\ pc'[t] = "sleep" => lock'[t] = lock[t]
        /\ \A u \in Tasks : u # t => Same(u)
    BY <1>0, <1>8 DEF Ww!TypeOK, Ww!CheckStamp, Ww!Interrupted, Ww!ctxVars
  <2>2. NULL \notin held[t]
    BY <1>0 DEF Ww!TypeOK
  <2> QED BY <1>0, <2>1, <2>2 DEF CallerInv, Arriving, Goal
<1>9. ASSUME NEW t \in Tasks, Ww!UnlockCount(t) \/ Ww!UnlockSet(t) \/ Ww!UnlockWake(t) PROVE Goal
  <2>1. /\ UNCHANGED <<held, acquired, contended, mode>>
        /\ pc[t] \in {"unlock", "unlock_slow", "unlock_wake"}
        /\ pc'[t] \in {"ready", "unlock_slow", "unlock_wake"} /\ lock'[t] \in {lock[t], NULL}
        /\ \A u \in Tasks : u # t => Same(u)
    BY <1>0, <1>9
       DEF Ww!TypeOK, Ww!UnlockCount, Ww!UnlockSet, Ww!UnlockWake, Ww!ctxVars, Ww!callVars
  <2>2. NULL \notin held[t]
    BY <1>0 DEF Ww!TypeOK
  <2> QED BY <1>0, <2>1, <2>2 DEF CallerInv, Arriving, Goal
<1>10. CASE UNCHANGED Ww!vars
  BY <1>0, <1>10 DEF Ww!vars, Ww!ctxVars, Ww!callVars, CallerInv, Arriving
<1> HIDE DEF Ww!Goto
<1> QED BY <1>g, <1>1, <1>2, <1>3, <1>4, <1>5, <1>6, <1>7, <1>8, <1>9, <1>10 DEF Ww!Next, Ww!Step

\* The mark of a waiter inside ->wait_lock stays, and with it the owner.
LEMMA WwMarkStep ==
    ASSUME Ww!WwMutexAssumption, WwInv, [Ww!Next]_Ww!vars
    PROVE  WwMarkInv'
<1>0. /\ Ww!TypeOK /\ WwQueueInv /\ WwMarkInv /\ NULL \notin Tasks /\ NULL \notin Locks
      /\ \A t \in Tasks : lock[t] \notin held[t]
  BY DEF Ww!WwMutexAssumption, WwInv, CallerInv
<1>a. \A t \in Tasks : pc[t] \notin {"none", "ready"} => lock[t] \in Locks
  BY <1>0 DEF Ww!TypeOK, WwQueueInv
<1>b. \A l \in Locks : ctx[l] \in Tasks => Ww!Owns(ctx[l], l)
  BY <1>0 DEF WwInv, WwOwnershipInv, Ww!Owns
<1> DEFINE Watch == {"check", "stamp", "sleep", "done"}
           Seen(u) == pc[u] = "stamp" => hold_ctx[u] \in Tasks /\ Ww!Owns(hold_ctx[u], lock[u])
           Ok(u) == (pc[u] \in Watch => word[lock[u]] = "contended") /\ Seen(u)
           Keeps(u) == \A h \in Tasks : Ww!Owns(h, lock[u]) =>
                 \/ lock[u] \in held'[h]
                 \/ lock'[h] = lock[u] /\ pc'[h] \in {"set_ctx", "read_count", "wake", "done",
                                                      "unlock", "unlock_slow"}
           Still(u) == /\ pc'[u] = pc[u] /\ lock'[u] = lock[u] /\ hold_ctx'[u] = hold_ctx[u]
                       /\ pc[u] \in Watch => word'[lock[u]] = "contended" /\ Keeps(u)
           Goal == \E t \in Tasks : Ok(t)' /\ \A u \in Tasks : u # t => Still(u)
<1>c. \A u \in Tasks : Ok(u)
  BY <1>0 DEF WwMarkInv, Ww!NoStaleContext
<1>d. ASSUME NEW u \in Tasks, Still(u) PROVE Ok(u)'
  <2>1. CASE pc[u] # "stamp"
    BY <1>c, <1>d, <2>1
  <2>2. CASE pc[u] = "stamp"
    <3>1. hold_ctx'[u] \in Tasks /\ Ww!Owns(hold_ctx[u], lock[u]) /\ Keeps(u)
      BY <1>c, <1>d, <2>2
    <3>2. Ww!Owns(hold_ctx[u], lock[u])'
      BY <1>c, <1>d, <2>2, <3>1 DEF Ww!Owns
    <3> QED BY <1>c, <1>d, <2>2, <3>1, <3>2
  <2> QED BY <2>1, <2>2
<1>e. ASSUME Goal PROVE WwMarkInv'
  <2>1. \A u \in Tasks : Ok(u)'
    <3> HIDE DEF Ok, Still
    <3> QED BY <1>d, <1>e
  <2> QED BY <2>1 DEF WwMarkInv, Ww!NoStaleContext
<1> HIDE DEF Goal
\* The step of t touches the lock l at most, and leaves it to its owner if others watch it.
<1>f. ASSUME NEW t \in Tasks,
             \A u \in Tasks : u # t => pc'[u] = pc[u] /\ lock'[u] = lock[u] /\ hold_ctx'[u] = hold_ctx[u]
                                       /\ held'[u] = held[u],
             \A u \in Tasks : u # t /\ pc[u] \in Watch =>
                 /\ word'[lock[u]] = word[lock[u]]
                 /\ Ww!Owns(t, lock[u]) =>
                     \/ lock[u] \in held'[t]
                     \/ lock'[t] = lock[u] /\ pc'[t] \in {"set_ctx", "read_count", "wake", "done",
                                                          "unlock", "unlock_slow"}
      PROVE  \A u \in Tasks : u # t => Still(u)
  <2> SUFFICES ASSUME NEW u \in Tasks, u # t, pc[u] \in Watch
               PROVE  word'[lock[u]] = "contended" /\ Keeps(u)
    BY <1>f
  <2>1. word'[lock[u]] = "contended"
    BY <1>c, <1>f
  <2>2. ASSUME NEW h \in Tasks, Ww!Owns(h, lock[u])
        PROVE  \/ lock[u] \in held'[h]
               \/ lock'[h] = lock[u] /\ pc'[h] \in {"set_ctx", "read_count", "wake", "done",
                                                    "unlock", "unlock_slow"}
    <3>1. CASE h = t
      BY <1>f, <2>2, <3>1
    <3>2. CASE h # t
      BY <1>f, <2>2, <3>2 DEF Ww!Owns
    <3> QED BY <3>1, <3>2
  <2> QED BY <2>1, <2>2
\* Who watches a lock holds its ->wait_lock, and has found it contended.
<1>g. ASSUME NEW u \in Tasks, pc[u] \in Watch
      PROVE  /\ lock[u] \in Locks /\ wait_lock[lock[u]] = u /\ word[lock[u]] = "contended"
  BY <1>0, <1>a, <1>c, <1>g DEF WwQueueInv, InWwLock
<1> HIDE DEF Still
<1> DEFINE Alone(t) == \A u \in Tasks : u # t => Still(u)
<1> USE DEF Ww!Goto
<1>1. ASSUME NEW t \in Tasks,
             \/ Ww!ww_acquire_init(t) \/ Ww!ww_acquire_fini(t) \/ Ww!Finish(t) \/ Ww!Signal(t)
             \/ Ww!Enqueue(t) \/ Ww!Schedule(t)
      PROVE  Goal
  <2>1. /\ UNCHANGED <<word, held, lock, hold_ctx>> /\ pc[t] \in {"none", "ready", "slow", "sched"}
        /\ pc'[t] \in {"none", "ready", "try", "sched"} /\ \A u \in Tasks : u # t => pc'[u] = pc[u]
    BY <1>0, <1>1
       DEF Ww!TypeOK, Ww!ww_acquire_init, Ww!ww_acquire_fini, Ww!Finish, Ww!Signal, Ww!Enqueue,
           Ww!Schedule, Ww!lockVars, Ww!callVars
  <2>2. Alone(t)
    BY <1>f, <2>1 DEF Ww!Owns
  <2> QED BY <2>1, <2>2 DEF Goal
<1>2. ASSUME NEW t \in Tasks, NEW l \in Locks, Ww!FastLock(t, l) PROVE Goal
  <2>1. /\ pc[t] = "ready" /\ pc'[t] \in {"set_ctx", "slow"} /\ UNCHANGED <<held, hold_ctx>>
        /\ \A u \in Tasks : u # t => pc'[u] = pc[u] /\ lock'[u] = lock[u]
        /\ \A k \in Locks : word[k] = "contended" => word'[k] = word[k]
    BY <1>0, <1>2 DEF Ww!TypeOK, Ww!FastLock, Ww!LockFree
  <2>2. Alone(t)
    BY <1>f, <1>g, <2>1 DEF Ww!Owns
  <2> QED BY <2>1, <2>2 DEF Goal
<1>3. ASSUME NEW t \in Tasks, NEW l \in Locks, Ww!UnlockContext(t, l) PROVE Goal
  <2>1. /\ pc[t] = "ready" /\ pc'[t] = "unlock" /\ UNCHANGED <<word, hold_ctx>>
        /\ lock'[t] = l /\ held'[t] = held[t] \ {l}
        /\ \A u \in Tasks : u # t => pc'[u] = pc[u] /\ lock'[u] = lock[u] /\ held'[u] = held[u]
    BY <1>0, <1>3 DEF Ww!TypeOK, Ww!UnlockContext
  <2>2. Alone(t)
    BY <1>f, <2>1 DEF Ww!Owns
  <2> QED BY <2>1, <2>2 DEF Goal
<1>4. ASSUME NEW t \in Tasks, Ww!SpinAcquire(t) \/ Ww!SetContext(t) PROVE Goal
  <2>1. /\ pc[t] \in {"slow", "set_ctx"} /\ pc'[t] \in {"set_ctx", "read_count"}
        /\ UNCHANGED <<held, lock, hold_ctx>> /\ lock[t] \in Locks
        /\ \A u \in Tasks : u # t => pc'[u] = pc[u]
        /\ \A k \in Locks : word[k] = "contended" => word'[k] = word[k]
    <3>1. CASE Ww!SpinAcquire(t)
      BY <1>0, <1>a, <3>1 DEF Ww!TypeOK, Ww!SpinAcquire, Ww!LockFree, Ww!callVars
    <3>2. CASE Ww!SetContext(t)
      BY <1>0, <1>a, <3>2 DEF Ww!TypeOK, Ww!SetContext, Ww!callVars
    <3> QED BY <1>4, <3>1, <3>2
  <2>2. Alone(t)
    BY <1>f, <1>g, <2>1 DEF Ww!Owns
  <2> QED BY <2>1, <2>2 DEF Goal
<1>5. ASSUME NEW t \in Tasks, Ww!ReadCount(t) \/ Ww!WakeWaiters(t) PROVE Goal
  <2>1. /\ pc[t] \in {"read_count", "wake"} /\ UNCHANGED <<word, hold_ctx>>
        /\ \A u \in Tasks : u # t => pc'[u] = pc[u] /\ lock'[u] = lock[u] /\ held'[u] = held[u]
        /\ \/ pc'[t] = "ready" /\ held'[t] = held[t] \cup {lock[t]}
           \/ pc'[t] = "wake" /\ held'[t] = held[t] /\ lock'[t] = lock[t]
    BY <1>0, <1>5 DEF Ww!TypeOK, Ww!ReadCount, Ww!WakeWaiters, Ww!Got, Ww!lockVars
  <2>2. Alone(t)
    BY <1>f, <2>1 DEF Ww!Owns
  <2> QED BY <2>1, <2>2 DEF Goal
<1>6. ASSUME NEW t \in Tasks, Ww!Try(t) PROVE Goal
  <2>1. /\ pc[t] = "try" /\ pc'[t] \in {"done", "check"} /\ lock[t] \in Locks
        /\ UNCHANGED <<held, lock, hold_ctx>> /\ word' = [word EXCEPT ![lock[t]] = "contended"]
        /\ \A u \in Tasks : u # t => pc'[u] = pc[u]
    BY <1>0, <1>a, <1>6 DEF Ww!TypeOK, Ww!Try, Ww!callVars
  <2>2. \A k \in Locks : word[k] = "contended" => word'[k] = word[k]
    BY <1>0, <2>1 DEF Ww!TypeOK
  <2>3. Alone(t)
    BY <1>f, <1>g, <2>1, <2>2 DEF Ww!Owns
  <2>4. word'[lock'[t]] = "contended"
    BY <1>0, <2>1 DEF Ww!TypeOK
  <2> QED BY <2>1, <2>3, <2>4 DEF Goal
<1>7. ASSUME NEW t \in Tasks, Ww!CheckRead(t) PROVE Goal
  <2>1. /\ pc[t] = "check" /\ UNCHANGED <<word, ctx, held, lock>> /\ lock[t] \in Locks
        /\ \A u \in Tasks : u # t => pc'[u] = pc[u] /\ hold_ctx'[u] = hold_ctx[u]
        /\ \/ pc'[t] = "sleep"
           \/ pc'[t] = "stamp" /\ hold_ctx'[t] = ctx[lock[t]] /\ ctx[lock[t]] # NULL
    BY <1>0, <1>a, <1>7 DEF Ww!TypeOK, Ww!CheckRead, Ww!lockVars
  <2>2. Alone(t)
    BY <1>f, <2>1 DEF Ww!Owns
  <2>3. word'[lock'[t]] = "contended"
    BY <1>c, <2>1
  <2>4. ASSUME pc'[t] = "stamp" PROVE hold_ctx'[t] \in Tasks /\ Ww!Owns(hold_ctx[t], lock[t])'
    <3>1. ctx[lock[t]] \in Tasks /\ hold_ctx'[t] = ctx[lock[t]] /\ Ww!Owns(ctx[lock[t]], lock[t])
      BY <1>0, <1>b, <2>1, <2>4 DEF Ww!TypeOK
    <3>2. ctx[lock[t]] # t
      BY <1>0, <2>1, <3>1 DEF Ww!Owns
    <3> QED BY <2>1, <3>1, <3>2 DEF Ww!Owns
  <2> QED BY <2>1, <2>2, <2>3, <2>4 DEF Goal
<1>8. ASSUME NEW t \in Tasks, Ww!CheckStamp(t) \/ Ww!Interrupted(t) \/ Ww!Sleep(t) PROVE Goal
  <2>1. /\ pc[t] \in {"stamp", "check", "sleep"} /\ UNCHANGED <<word, held>>
        /\ \/ pc'[t] \in {"ready", "sched"}
           \/ pc'[t] = "sleep" /\ lock' = lock
        /\ \A u \in Tasks : u # t => pc'[u] = pc[u] /\ lock'[u] = lock[u] /\ hold_ctx'[u] = hold_ctx[u]
    BY <1>0, <1>8 DEF Ww!TypeOK, Ww!CheckStamp, Ww!Interrupted, Ww!Sleep, Ww!callVars
  <2>2. Alone(t)
    BY <1>f, <2>1 DEF Ww!Owns
  <2>3. Ok(t)'
    BY <1>c, <2>1
  <2> QED BY <2>2, <2>3 DEF Goal
<1>9. ASSUME NEW t \in Tasks, Ww!Done(t) PROVE Goal
  <2>1. /\ pc[t] = "done" /\ pc'[t] = "ready" /\ UNCHANGED hold_ctx /\ lock[t] \in Locks
        /\ held'[t] = held[t] \cup {lock[t]}
        /\ \A u \in Tasks : u # t => pc'[u] = pc[u] /\ lock'[u] = lock[u] /\ held'[u] = held[u]
        /\ \A k \in Locks : k # lock[t] => word'[k] = word[k]
    BY <1>0, <1>a, <1>9 DEF Ww!TypeOK, Ww!Done, Ww!Got
  <2>2. \A u \in Tasks : u # t /\ pc[u] \in Watch => lock[u] # lock[t]
    BY <1>g, <2>1
  <2>3. Alone(t)
    BY <1>f, <1>g, <2>1, <2>2 DEF Ww!Owns
  <2> QED BY <2>1, <2>3 DEF Goal
<1>10. ASSUME NEW t \in Tasks, Ww!UnlockCount(t) \/ Ww!UnlockSet(t) \/ Ww!UnlockWake(t) PROVE Goal
  <2>1. /\ pc[t] \in {"unlock", "unlock_slow", "unlock_wake"} /\ lock[t] \in Locks
        /\ pc'[t] \in {"ready", "unlock_slow", "unlock_wake"} /\ UNCHANGED <<held, hold_ctx>>
        /\ \A u \in Tasks : u # t => pc'[u] = pc[u] /\ lock'[u] = lock[u]
        /\ \A k \in Locks : k # lock[t] => word'[k] = word[k]
    <3>1. CASE Ww!UnlockCount(t)
      BY <1>0, <1>a, <3>1 DEF Ww!TypeOK, Ww!UnlockCount, Ww!ctxVars
    <3>2. CASE Ww!UnlockSet(t)
      BY <1>0, <1>a, <3>2 DEF Ww!TypeOK, Ww!UnlockSet, Ww!ctxVars, Ww!callVars
    <3>3. CASE Ww!UnlockWake(t)
      BY <1>0, <1>a, <3>3 DEF Ww!TypeOK, Ww!UnlockWake, Ww!ctxVars, Ww!callVars
    <3> QED BY <1>10, <3>1, <3>2, <3>3
  <2>2. CASE pc'[t] = "unlock_slow"
    <3>1. word' = word /\ lock' = lock /\ pc[t] = "unlock"
      BY <1>0, <1>10, <2>2 DEF Ww!TypeOK, Ww!UnlockCount, Ww!UnlockSet, Ww!UnlockWake
    <3>2. Alone(t)
      BY <1>f, <2>1, <2>2, <3>1 DEF Ww!Owns
    <3> QED BY <2>2, <3>2 DEF Goal
  <2>3. CASE pc'[t] # "unlock_slow"
    <3>1. wait_lock[lock[t]] \in {NULL, t} \/ word[lock[t]] = "locked"
      BY <1>0, <1>10, <2>1, <2>3
         DEF Ww!TypeOK, Ww!UnlockCount, Ww!UnlockSet, Ww!UnlockWake, Ww!UnlockedFast, WwQueueInv,
             InWwLock
    <3>2. \A u \in Tasks : u # t /\ pc[u] \in Watch => lock[u] # lock[t]
      BY <1>0, <1>g, <3>1
    <3>3. Alone(t)
      BY <1>f, <1>g, <2>1, <3>2 DEF Ww!Owns
    <3> QED BY <2>1, <3>3 DEF Goal
  <2> QED BY <2>2, <2>3
<1>11. CASE UNCHANGED Ww!vars
  BY <1>0, <1>11 DEF Ww!vars, Ww!lockVars, Ww!callVars, WwMarkInv, Ww!NoStaleContext, Ww!Owns
<1> HIDE DEF Ww!Goto
<1> QED BY <1>e, <1>1, <1>2, <1>3, <1>4, <1>5, <1>6, <1>7, <1>8, <1>9, <1>10, <1>11
           DEF Ww!Next, Ww!Step

LEMMA WwInvariant ==
    ASSUME Ww!WwMutexAssumption
    PROVE  Ww!Spec => []WwInv
<1>1. ASSUME WwInv, [Ww!Next]_Ww!vars PROVE WwInv'
  <2>1. WwQueueInv' /\ WwOwnershipInv' /\ CallerInv' /\ WwMarkInv'
    BY <1>1, WwQueueStep, WwOwnershipStep, CallerStep, WwMarkStep
  <2>2. /\ acquired' \in [Tasks -> Nat] /\ lock' \in [Tasks -> Locks \cup {NULL}]
        /\ held' \in [Tasks -> SUBSET Locks]
    BY <1>1, WwTypeStep
  <2>3. ASSUME NEW t \in Tasks PROVE acquired'[t] \in 0 .. Cardinality(Locks)
    <3>1. /\ IsFiniteSet(Locks) /\ held'[t] \subseteq Locks /\ lock'[t] \notin held'[t]
          /\ acquired'[t] = Cardinality(held'[t]) + Arriving(t)' /\ acquired'[t] \in Nat
          /\ lock'[t] = NULL <=> pc'[t] \in {"none", "ready"}
      BY <2>1, <2>2, WwSets DEF Ww!WwMutexAssumption, CallerInv, WwQueueInv
    <3>2. Cardinality(held'[t]) \in Nat /\ Cardinality(held'[t]) <= Cardinality(Locks)
          /\ Cardinality(Locks) \in Nat
      BY <3>1, FS_Subset, FS_CardinalityType
    <3>3. CASE Arriving(t)' = 0
      BY <3>1, <3>2, <3>3
    <3>4. CASE Arriving(t)' # 0
      <4>1. Arriving(t)' = 1 /\ lock'[t] \in Locks
        BY <2>2, <3>1, <3>4 DEF Arriving
      <4>2. Cardinality(held'[t]) # Cardinality(Locks)
        BY <3>1, <4>1, FS_Subset
      <4> QED BY <3>1, <3>2, <4>1, <4>2
    <3> QED BY <3>3, <3>4
  <2>4. Ww!TypeOK'
    <3>1. acquired' \in [Tasks -> 0 .. Cardinality(Locks)]
      BY <2>2, <2>3
    <3> QED BY <1>1, <3>1, WwTypeStep, WwSets
  <2> QED BY <2>1, <2>4 DEF WwInv
<1> QED BY WwInit, <1>1, PTL DEF Ww!Spec

-----------------------------------------------------------------------------

\* A wait/wound mutex has one owner, ->base.count is that of a free lock exactly when it has
\* none, and ->ctx names its owner or nobody, through fast path, spinning, waiting and both
\* ways to unlock; the types include that ->acquired counts locks.
THEOREM WwOneOwner ==
    ASSUME Ww!WwMutexAssumption
    PROVE  Ww!Spec => []Ww!OwnerInv
<1>1. WwInv => Ww!OwnerInv
  <2> SUFFICES ASSUME WwInv, NEW l \in Locks
               PROVE  LET O == {t \in Tasks : Ww!Owns(t, l)} IN
                      /\ Cardinality(O) <= 1
                      /\ word[l] = "free" <=> O = {}
                      /\ ctx[l] # NULL => O = {ctx[l]}
    BY WwSets DEF WwInv, Ww!OwnerInv, Ww!OneOwner
  <2> DEFINE O == {t \in Tasks : Ww!Owns(t, l)}
  <2>1. word[l] = "free" <=> O = {}
    BY DEF WwInv, WwOwnershipInv
  <2>2. \A t \in O : O = {t}
    BY DEF WwInv, WwOwnershipInv
  <2>3. ctx[l] # NULL => ctx[l] \in O
    BY DEF WwInv, WwOwnershipInv, Ww!TypeOK, Ww!Owns
  <2> HIDE DEF O
  <2>4. Cardinality(O) <= 1
    <3>1. CASE O = {}
      BY <3>1, FS_EmptySet
    <3>2. ASSUME NEW t \in O PROVE Cardinality(O) <= 1
      <4>1. O = {t}
        BY <2>2, <3>2
      <4>2. Cardinality({t}) = 1
        BY FS_Singleton
      <4> QED BY <4>1, <4>2
    <3> QED BY <3>1, <3>2
  <2> QED BY <2>1, <2>2, <2>3, <2>4 DEF O
<1> QED BY <1>1, WwInvariant, PTL

\* When __mutex_lock_check_stamp() looks at the stamp of the context it read from ->ctx,
\* that context still owns the lock: ww_mutex_unlock() cannot get past the waiter's mark.
THEOREM ContextIsAlive ==
    ASSUME Ww!WwMutexAssumption
    PROVE  Ww!Spec => []Ww!NoStaleContext
<1>1. WwInv => Ww!NoStaleContext
  BY DEF WwInv, WwMarkInv
<1> QED BY <1>1, WwInvariant, PTL
=============================================================================

---------------------------- MODULE RwSemProofs ----------------------------
(***************************************************************************)
(* Proofs about the reader/writer semaphore, for any set of tasks that     *)
(* RWSEM_ACTIVE_MASK can count.                                            *)
(***************************************************************************)
EXTENDS RwSem, CollectionLemmas

-----------------------------------------------------------------------------
(* The inductive invariant.                                                *)

InWaitLock == {"wake", "undo", "grant", "null", "proc", "w_set", "w_try"}

\* Where a task can be in each operation.
OpOk(l, o) ==
    /\ l \in {"idle", "reading", "writing"} <=> o = "none"
    /\ l = "enqueue" => o \in {"down_read", "down_write"}
    /\ l = "wake_lock" => o \in {"up", "downgrade"}
    /\ l \in {"r_set", "r_check", "r_sched"} => o = "down_read"
    /\ l \in {"w_set", "w_try", "w_sched", "w_read", "w_relock"} => o = "down_write"

OpInv == \A t \in Tasks : OpOk(pc[t], op[t])

\* Who is inside ->wait_lock; ->wait_list holds the writers that wait and the readers that
\* have not been granted the lock, each once.
QueueInv ==
    /\ \A t \in Tasks : wait_lock = t <=> pc[t] \in InWaitLock
    /\ DupFree(wait_list)
    /\ \A t \in Tasks : InList(wait_list, t) <=>
           pc[t] # "enqueue" /\ (op[t] = "down_write" \/ waiting[t])
    /\ \A t \in Tasks : waiting[t] => op[t] = "down_read" /\ pc[t] # "enqueue"

\* The locals of __rwsem_do_wake(): the grant ahead, and the readers it still has to wake.
WakerInv ==
    /\ (\A t \in Tasks : pc[t] \notin {"null", "proc"}) => loop = 0
    /\ (\A t \in Tasks : pc[t] \notin {"undo", "grant"}) => adjustment = 0
    /\ loop <= Len(wait_list)
    /\ \A i \in 1..loop : op[wait_list[i]] = "down_read"
    /\ \A t \in Tasks :
        /\ pc[t] \in {"wake", "undo", "grant"} => wait_list # <<>>
        /\ pc[t] \in {"undo", "grant"} => op[Head(wait_list)] = "down_read"
        /\ pc[t] \in {"undo", "grant"} => adjustment = IF op[t] = "downgrade" THEN 0 ELSE 1
        /\ pc[t] = "undo" => op[t] # "downgrade"
        /\ pc[t] = "null" => loop > 0
        /\ pc[t] = "proc" => tsk \in Tasks

Structure == TypeOK /\ OpInv /\ QueueInv /\ WakerInv

-----------------------------------------------------------------------------
(* Constants, and the readers at the head of the list.                     *)

LEMMA Constants ==
    /\ ActiveRange \in Nat /\ ActiveRange > 1 /\ NoTask \notin Tasks /\ IsFiniteSet(Tasks)
    /\ WAITING_BIAS = -ActiveRange /\ READ_BIAS = 1 /\ WRITE_BIAS = 1 - ActiveRange
    /\ WAITING_BIAS \in Int /\ WRITE_BIAS \in Int
<1>1. Cardinality(Tasks) \in Nat
  BY RwSemAssumption, FS_CardinalityType
<1> QED BY <1>1, RwSemAssumption DEF WAITING_BIAS, READ_BIAS, WRITE_BIAS

LEMMA LeadingReadersExist ==
    ASSUME wait_list \in Seq(Tasks)
    PROVE  /\ LeadingReaders \in 0..Len(wait_list)
           /\ \A i \in 1..LeadingReaders : ~IsWriter(wait_list[i])
           /\ LeadingReaders < Len(wait_list) => IsWriter(wait_list[LeadingReaders + 1])
<1> DEFINE n == Len(wait_list)
           T == {m \in 0..n : m < n => IsWriter(wait_list[m + 1])}
<1>1. n \in Nat
  BY LenProperties
<1> HIDE DEF n
<1>2. T \subseteq Nat /\ n \in T
  BY <1>1
<1>3. PICK k \in T : \A m \in T : k <= m
  BY <1>2, LeastNatural
<1>4. ASSUME NEW i \in 1..k PROVE ~IsWriter(wait_list[i])
  <2>1. i - 1 \in 0..n /\ i - 1 < n /\ (i - 1) + 1 = i /\ ~(k <= i - 1)
    BY <1>1, <1>3
  <2> QED BY <1>3, <2>1
<1> QED BY <1>3, <1>4 DEF LeadingReaders, n

-----------------------------------------------------------------------------

LEMMA ReturnFacts ==
    ASSUME NEW t \in Tasks, Structure, ReturnFromWake(t),
           pc[t] \in {"wake_lock", "wake", "undo", "proc"}
    PROVE  \/ op[t] = "down_read" /\ Goto(t, "r_set", "down_read") /\ wait_lock' = NoTask
           \/ op[t] = "down_write" /\ Goto(t, "w_set", "down_write") /\ wait_lock' = t
           \/ op[t] = "up" /\ Goto(t, "idle", "none") /\ wait_lock' = NoTask
           \/ op[t] = "downgrade" /\ Goto(t, "reading", "none") /\ wait_lock' = NoTask
<1>1. op[t] \in {"down_read", "down_write", "up", "downgrade"}
  BY DEF Structure, TypeOK, Operations, OpInv, OpOk
<1> QED BY <1>1 DEF ReturnFromWake

LEMMA StructureInit == Init => Structure
<1> SUFFICES ASSUME Init PROVE Structure
  OBVIOUS
<1>1. TypeOK /\ OpInv
  BY Constants, EmptySeq DEF Init, TypeOK, OpInv, OpOk, Locations, Operations
<1>2. QueueInv
  BY Constants DEF Init, QueueInv, DupFree, InList, InWaitLock
<1>3. WakerInv
  BY DEF Init, WakerInv
<1> QED BY <1>1, <1>2, <1>3 DEF Structure

\* Types.
LEMMA TypeStep ==
    ASSUME Structure, Next
    PROVE  TypeOK'
<1>0. TypeOK /\ OpInv /\ QueueInv /\ WakerInv
  BY DEF Structure
<1> USE Constants DEF TypeOK, Goto, slowVars, wakerVars
<1>1. ASSUME NEW t \in Tasks, StartCall(t) \/ DowngradeWrite(t) \/ Release(t) PROVE TypeOK'
  <2>1. count' \in Int /\ UNCHANGED slowVars
    BY <1>0, <1>1 DEF StartCall, DownRead, DownReadTrylock, DownWrite, DownWriteTrylock, Release,
                      UpRead, UpWrite, DowngradeWrite
  <2>2. PICK l \in Locations, o \in Operations : Goto(t, l, o)
    <3> HIDE DEF Goto
    <3>1. /\ {"enqueue", "reading", "writing", "wake_lock", "idle"} \subseteq Locations
          /\ {"none", "down_read", "down_write", "up", "downgrade"} \subseteq Operations
      BY DEF Locations, Operations
    <3> QED BY <1>1, <3>1, Zenon
            DEF StartCall, DownRead, DownReadTrylock, DownWrite, DownWriteTrylock, Release,
                UpRead, UpWrite, DowngradeWrite
  <2> QED BY <1>0, <2>1, <2>2
<1>2. ASSUME NEW t \in Tasks, EnqueueRead(t) \/ EnqueueWrite(t) PROVE TypeOK'
  <2>1. EnqueueAdjustment("down_read") \in Int /\ EnqueueAdjustment("down_write") \in Int
    BY DEF EnqueueAdjustment, Bias
  <2>2. count' \in Int
    BY <1>0, <1>2, <2>1 DEF EnqueueRead, EnqueueWrite
  <2>3. wait_list' \in Seq(Tasks)
    <3>1. wait_list' = Append(wait_list, t)
      BY <1>2 DEF EnqueueRead, EnqueueWrite
    <3> QED BY <1>0, <3>1, AppendProperties
  <2>4. CASE EnqueueRead(t)
    <3>1. PICK l \in {"wake", "r_set"} : pc' = [pc EXCEPT ![t] = l]
      BY <2>4 DEF EnqueueRead
    <3>2. wait_lock' \in Tasks \cup {NoTask}
      BY <2>4 DEF EnqueueRead
    <3> QED BY <1>0, <2>4, <2>2, <2>3, <3>1, <3>2 DEF EnqueueRead, Locations
  <2>5. CASE EnqueueWrite(t)
    <3>1. PICK l \in {"wake", "w_set"} : pc' = [pc EXCEPT ![t] = l]
      BY <2>5 DEF EnqueueWrite
    <3> QED BY <1>0, <2>5, <2>2, <2>3, <3>1 DEF EnqueueWrite, Locations
  <2> QED BY <1>2, <2>4, <2>5
<1>3. ASSUME NEW t \in Tasks, WakeLock(t) PROVE TypeOK'
  <2>1. \E l \in Locations, o \in Operations : Goto(t, l, o)
    BY <1>0, <1>3, ReturnFacts DEF WakeLock, Locations, Operations, Structure
  <2>2. wait_lock' \in Tasks \cup {NoTask}
    BY <1>0, <1>3, ReturnFacts DEF WakeLock, Structure
  <2> QED BY <1>0, <1>3, <2>1, <2>2 DEF WakeLock
<1>4. ASSUME NEW t \in Tasks, WakeWriter(t) PROVE TypeOK'
  <2>1. \E l \in Locations, o \in Operations : Goto(t, l, o)
    BY <1>0, <1>4, ReturnFacts DEF WakeWriter, Locations, Operations, Structure
  <2>2. wait_lock' \in Tasks \cup {NoTask}
    BY <1>0, <1>4, ReturnFacts DEF WakeWriter, Structure
  <2>3. running' \in [Tasks -> BOOLEAN]
    BY <1>0, <1>4 DEF WakeWriter
  <2>4. pc' \in [Tasks -> Locations] /\ op' \in [Tasks -> Operations]
    BY <1>0, <2>1
  <2> QED BY <1>0, <1>4, <2>2, <2>3, <2>4 DEF WakeWriter
<1>5. ASSUME NEW t \in Tasks, TryReaderGrant(t) \/ WakeReadOwned(t) PROVE TypeOK'
  <2>1. \E l \in Locations, o \in Operations : Goto(t, l, o)
    BY <1>0, <1>5 DEF TryReaderGrant, WakeReadOwned, Locations
  <2>2. count' \in Int /\ adjustment' \in {0, READ_BIAS}
    BY <1>0, <1>5 DEF TryReaderGrant, WakeReadOwned
  <2> QED BY <1>0, <1>5, <2>1, <2>2 DEF TryReaderGrant, WakeReadOwned
<1>6. ASSUME NEW t \in Tasks, UndoReaderGrant(t) PROVE TypeOK'
  <2>1. \E l \in Locations, o \in Operations : Goto(t, l, o)
    BY <1>0, <1>6, ReturnFacts DEF UndoReaderGrant, Locations, Operations, Structure
  <2>2. wait_lock' \in Tasks \cup {NoTask}
    BY <1>0, <1>6, ReturnFacts DEF UndoReaderGrant, Structure
  <2>3. count' \in Int /\ adjustment' \in {0, READ_BIAS}
    BY <1>0, <1>6 DEF UndoReaderGrant
  <2>4. pc' \in [Tasks -> Locations] /\ op' \in [Tasks -> Operations]
    BY <1>0, <2>1
  <2> QED BY <1>0, <1>6, <2>2, <2>3, <2>4 DEF UndoReaderGrant
<1>7. ASSUME NEW t \in Tasks, GrantReaders(t) PROVE TypeOK'
  <2>1. LeadingReaders \in Nat
    BY <1>0, LeadingReadersExist, LenProperties
  <2>2. count' \in Int
    BY <1>0, <1>7, <2>1 DEF GrantReaders
  <2> QED BY <1>0, <1>7, <2>1, <2>2 DEF GrantReaders, Locations
<1>8. ASSUME NEW t \in Tasks, ClearWaiterTask(t) PROVE TypeOK'
  <2>1. loop > 0 /\ loop <= Len(wait_list)
    BY <1>0, <1>8 DEF ClearWaiterTask, WakerInv
  <2>2. loop' \in Nat /\ Head(wait_list) \in Tasks /\ wait_list' \in Seq(Tasks)
    BY <1>0, <1>8, <2>1, HeadTailProperties, LenProperties DEF ClearWaiterTask
  <2> QED BY <1>0, <1>8, <2>2 DEF ClearWaiterTask, Locations
<1>9. ASSUME NEW t \in Tasks, WakeUpProcess(t) PROVE TypeOK'
  <2>1. \E l \in Locations, o \in Operations : Goto(t, l, o)
    BY <1>0, <1>9, ReturnFacts DEF WakeUpProcess, Locations, Operations, Structure
  <2>2. wait_lock' \in Tasks \cup {NoTask}
    BY <1>0, <1>9, ReturnFacts DEF WakeUpProcess, Structure
  <2>3. running' \in [Tasks -> BOOLEAN]
    BY <1>0, <1>9 DEF WakeUpProcess
  <2>4. pc' \in [Tasks -> Locations] /\ op' \in [Tasks -> Operations]
    BY <1>0, <2>1
  <2> QED BY <1>0, <1>9, <2>2, <2>3, <2>4 DEF WakeUpProcess
<1>10. ASSUME NEW t \in Tasks, ReaderSetState(t) \/ ReaderCheck(t) \/ ReaderSchedule(t)
       PROVE  TypeOK'
  <2>1. CASE ReaderSetState(t) \/ ReaderSchedule(t)
    BY <1>0, <2>1 DEF ReaderSetState, ReaderSchedule, Locations
  <2>2. CASE ReaderCheck(t)
    BY <1>0, <2>2 DEF ReaderCheck, Locations, Operations
  <2> QED BY <1>10, <2>1, <2>2
<1>11. ASSUME NEW t \in Tasks, WriterAcquire(t) PROVE TypeOK'
  <2>1. InList(wait_list, t)
    BY <1>0, <1>11 DEF WriterAcquire, QueueInv, OpInv, OpOk
  <2>2. wait_list' \in Seq(Tasks)
    BY <1>0, <1>11, <2>1, RemoveList DEF WriterAcquire, QueueInv
  <2>3. count' \in Int
    BY <1>11 DEF WriterAcquire, StolenCount
  <2> QED BY <1>0, <1>11, <2>2, <2>3 DEF WriterAcquire, Locations, Operations
<1>12. ASSUME NEW t \in Tasks, WriterSetState(t) \/ WriterTryFails(t) \/ WriterSchedule(t)
       PROVE  TypeOK'
  <2>1. CASE WriterSetState(t) \/ WriterSchedule(t)
    BY <1>0, <2>1 DEF WriterSetState, WriterSchedule, Locations
  <2>2. CASE WriterTryFails(t)
    BY <1>0, <2>2 DEF WriterTryFails, Locations
  <2> QED BY <1>12, <2>1, <2>2
<1>13. ASSUME NEW t \in Tasks, WriterReadCount(t) \/ WriterRelock(t) PROVE TypeOK'
  BY <1>0, <1>13, ZenonT(60) DEF WriterReadCount, WriterRelock, Locations
<1>14. ASSUME Close PROVE TypeOK'
  BY <1>0, <1>14 DEF Close
<1> QED BY <1>1, <1>2, <1>3, <1>4, <1>5, <1>6, <1>7, <1>8, <1>9, <1>10, <1>11, <1>12, <1>13, <1>14
        DEF Next, Wake, WaitForLock

\* A task moves on and leaves the list alone.
LEMMA MoveStep ==
    ASSUME Structure, NEW t \in Tasks, NEW l, NEW o,
           Goto(t, l, o), OpOk(l, o), UNCHANGED <<wait_list, waiting>>,
           l # "enqueue", pc[t] # "enqueue",
           o = "down_write" <=> op[t] = "down_write", waiting[t] => o = "down_read",
           l \in InWaitLock => wait_lock' = t /\ wait_lock \in {t, NoTask},
           l \notin InWaitLock => wait_lock' = IF pc[t] \in InWaitLock THEN NoTask ELSE wait_lock
    PROVE  OpInv' /\ QueueInv'
<1>0. TypeOK /\ OpInv /\ QueueInv /\ NoTask \notin Tasks
  BY Constants DEF Structure
<1>1. \A u \in Tasks : /\ pc'[u] = IF u = t THEN l ELSE pc[u]
                       /\ op'[u] = IF u = t THEN o ELSE op[u]
  BY <1>0 DEF TypeOK, Goto
<1>2. OpInv'
  BY <1>0, <1>1 DEF OpInv
<1>3. \A u \in Tasks : wait_lock' = u <=> pc'[u] \in InWaitLock
  BY <1>0, <1>1 DEF QueueInv
<1>4. \A u \in Tasks : /\ InList(wait_list, u) <=>
                            pc'[u] # "enqueue" /\ (op'[u] = "down_write" \/ waiting[u])
                       /\ waiting[u] => op'[u] = "down_read" /\ pc'[u] # "enqueue"
  BY <1>0, <1>1 DEF QueueInv
<1> QED BY <1>0, <1>2, <1>3, <1>4 DEF QueueInv

\* Each operation follows its own path, and the list changes under ->wait_lock only.
LEMMA QueueStep ==
    ASSUME Structure, Next
    PROVE  OpInv' /\ QueueInv'
<1>0. TypeOK /\ OpInv /\ QueueInv /\ WakerInv /\ NoTask \notin Tasks
  BY Constants DEF Structure
<1> USE DEF TypeOK, Goto, OpInv, OpOk, QueueInv, InWaitLock
<1>1. ASSUME NEW t \in Tasks, StartCall(t) PROVE OpInv' /\ QueueInv'
  <2>1. /\ pc[t] = "idle" /\ UNCHANGED slowVars
        /\ \E l, o : /\ <<l, o>> \in {<<"enqueue", "down_read">>, <<"enqueue", "down_write">>,
                                      <<"reading", "none">>, <<"writing", "none">>}
                     /\ Goto(t, l, o)
    BY <1>1 DEF StartCall, DownRead, DownReadTrylock, DownWrite, DownWriteTrylock
  <2> QED BY <1>0, <2>1 DEF slowVars
<1>2. ASSUME NEW t \in Tasks, DowngradeWrite(t) \/ Release(t) PROVE OpInv' /\ QueueInv'
  <2>1. /\ pc[t] \in {"reading", "writing"} /\ UNCHANGED slowVars
        /\ \E l, o : /\ <<l, o>> \in {<<"wake_lock", "up">>, <<"wake_lock", "downgrade">>,
                                      <<"reading", "none">>, <<"idle", "none">>}
                     /\ Goto(t, l, o)
    BY <1>2 DEF DowngradeWrite, Release, UpRead, UpWrite
  <2> QED BY <1>0, <2>1 DEF slowVars
<1>3. ASSUME NEW t \in Tasks, EnqueueRead(t) \/ EnqueueWrite(t) PROVE OpInv' /\ QueueInv'
  <2>1. /\ pc[t] = "enqueue" /\ wait_lock = NoTask /\ wait_list' = Append(wait_list, t)
        /\ UNCHANGED op
    BY <1>3 DEF EnqueueRead, EnqueueWrite
  <2>2. /\ DupFree(wait_list')
        /\ \A u \in Tasks : InList(wait_list', u) <=> InList(wait_list, u) \/ u = t
    BY <1>0, <2>1, AppendList
  <2>3. CASE EnqueueRead(t)
    BY <1>0, <2>1, <2>2, <2>3 DEF EnqueueRead
  <2>4. CASE EnqueueWrite(t)
    BY <1>0, <2>1, <2>2, <2>4 DEF EnqueueWrite
  <2> QED BY <1>3, <2>3, <2>4
<1>r. ASSUME NEW t \in Tasks, ReturnFromWake(t), UNCHANGED <<wait_list, waiting>>,
             \/ pc[t] \in {"wake", "undo", "proc"}
             \/ pc[t] = "wake_lock" /\ wait_lock = NoTask
      PROVE  OpInv' /\ QueueInv'
  <2>1. waiting[t] => op[t] = "down_read"
    BY <1>0
  <2>2. wait_lock = IF pc[t] = "wake_lock" THEN NoTask ELSE t
    BY <1>0, <1>r
  <2>3. pc[t] = "wake_lock" => op[t] # "down_read" /\ op[t] # "down_write"
    BY <1>0
  <2> HIDE DEF Goto, OpInv, QueueInv, TypeOK
  <2>4. CASE op[t] = "down_read" /\ Goto(t, "r_set", "down_read") /\ wait_lock' = NoTask
    BY <1>r, <2>1, <2>2, <2>3, <2>4, MoveStep
  <2>5. CASE op[t] = "down_write" /\ Goto(t, "w_set", "down_write") /\ wait_lock' = t
    BY <1>r, <2>1, <2>2, <2>3, <2>5, MoveStep
  <2>6. CASE op[t] = "up" /\ Goto(t, "idle", "none") /\ wait_lock' = NoTask
    BY <1>r, <2>1, <2>2, <2>6, MoveStep
  <2>7. CASE op[t] = "downgrade" /\ Goto(t, "reading", "none") /\ wait_lock' = NoTask
    BY <1>r, <2>1, <2>2, <2>7, MoveStep
  <2> QED BY <1>r, <2>4, <2>5, <2>6, <2>7, ReturnFacts
<1>4. ASSUME NEW t \in Tasks, WakeLock(t) PROVE OpInv' /\ QueueInv'
  <2>1. CASE wait_list = <<>>
    BY <1>4, <2>1, <1>r DEF WakeLock
  <2>2. CASE wait_list # <<>>
    <3>1. /\ pc[t] = "wake_lock" /\ wait_lock = NoTask /\ Goto(t, "wake", op[t])
          /\ wait_lock' = t /\ UNCHANGED <<wait_list, waiting>>
      BY <1>4, <2>2 DEF WakeLock
    <3>2. OpOk("wake", op[t]) /\ (waiting[t] => op[t] = "down_read")
      BY <1>0, <3>1
    <3> HIDE DEF Goto, OpInv, OpOk, QueueInv, TypeOK
    <3> QED BY <3>1, <3>2, MoveStep
  <2> QED BY <2>1, <2>2
<1>5. ASSUME NEW t \in Tasks, WakeWriter(t) PROVE OpInv' /\ QueueInv'
  BY <1>5, <1>r DEF WakeWriter
<1>w. ASSUME NEW t \in Tasks, NEW l \in {"wake", "undo", "grant", "null"},
             pc[t] \in {"wake", "undo", "grant", "proc"}, Goto(t, l, op[t]),
             UNCHANGED <<wait_lock, wait_list, waiting>>
      PROVE  OpInv' /\ QueueInv'
  <2>1. OpOk(l, op[t]) /\ (waiting[t] => op[t] = "down_read") /\ wait_lock = t
    BY <1>0, <1>w
  <2> HIDE DEF Goto, OpInv, OpOk, QueueInv, TypeOK
  <2> QED BY <1>w, <2>1, MoveStep
<1>6. ASSUME NEW t \in Tasks, TryReaderGrant(t) \/ WakeReadOwned(t) \/ GrantReaders(t)
      PROVE  OpInv' /\ QueueInv'
  <2> HIDE DEF Goto, OpInv, OpOk, QueueInv, TypeOK
  <2> QED BY <1>6, <1>w DEF TryReaderGrant, WakeReadOwned, GrantReaders
<1>7. ASSUME NEW t \in Tasks, UndoReaderGrant(t) \/ WakeUpProcess(t) PROVE OpInv' /\ QueueInv'
  <2> HIDE DEF Goto, OpInv, OpOk, QueueInv, TypeOK
  <2> QED BY <1>7, <1>r, <1>w DEF UndoReaderGrant, WakeUpProcess
<1>8. ASSUME NEW t \in Tasks, ClearWaiterTask(t) PROVE OpInv' /\ QueueInv'
  <2>1. wait_list # <<>> /\ op[Head(wait_list)] = "down_read"
    <3>1. loop > 0 /\ loop <= Len(wait_list) /\ \A i \in 1..loop : op[wait_list[i]] = "down_read"
      BY <1>0, <1>8 DEF ClearWaiterTask, WakerInv
    <3>2. wait_list # <<>> /\ Len(wait_list) \in Nat /\ 1 \in 1..loop
      BY <1>0, <3>1, LenProperties, EmptySeq
    <3>3. Head(wait_list) = wait_list[1]
      BY <1>0, <3>2, HeadTailProperties
    <3> QED BY <3>1, <3>2, <3>3
  <2>2. /\ Head(wait_list) \in Tasks /\ InList(wait_list, Head(wait_list))
        /\ DupFree(Tail(wait_list))
        /\ \A u \in Tasks :
              InList(Tail(wait_list), u) <=> InList(wait_list, u) /\ u # Head(wait_list)
    BY <1>0, <2>1, TailList
  <2>3. /\ pc' = [pc EXCEPT ![t] = "proc"] /\ op' = [op EXCEPT ![t] = op[t]] /\ pc[t] = "null"
        /\ waiting' = [waiting EXCEPT ![Head(wait_list)] = FALSE]
        /\ wait_list' = Tail(wait_list) /\ UNCHANGED wait_lock
    BY <1>8 DEF ClearWaiterTask
  <2> QED BY <1>0, <2>1, <2>2, <2>3
<1>9. ASSUME NEW t \in Tasks, ReaderSetState(t) \/ ReaderSchedule(t) \/ ReaderCheck(t)
      PROVE OpInv' /\ QueueInv'
  <2>1. /\ pc[t] \in {"r_set", "r_check", "r_sched"} /\ op[t] = "down_read"
        /\ UNCHANGED <<wait_lock, wait_list, waiting>>
    BY <1>0, <1>9 DEF ReaderSetState, ReaderSchedule, ReaderCheck
  <2> HIDE DEF Goto, OpInv, QueueInv, TypeOK
  <2>2. CASE \E l \in {"r_set", "r_check", "r_sched"} : Goto(t, l, op[t])
    BY <2>1, <2>2, MoveStep
  <2>3. CASE ~waiting[t] /\ Goto(t, "reading", "none")
    BY <2>1, <2>3, MoveStep
  <2> QED BY <1>9, <2>2, <2>3 DEF ReaderSetState, ReaderSchedule, ReaderCheck
<1>11. ASSUME NEW t \in Tasks, WriterAcquire(t) PROVE OpInv' /\ QueueInv'
  <2>1. pc[t] = "w_try" /\ op[t] = "down_write" /\ InList(wait_list, t)
    BY <1>0, <1>11 DEF WriterAcquire
  <2>2. /\ DupFree(wait_list')
        /\ \A u \in Tasks : InList(wait_list', u) <=> InList(wait_list, u) /\ u # t
    BY <1>0, <1>11, <2>1, RemoveList DEF WriterAcquire
  <2> QED BY <1>0, <1>11, <2>1, <2>2 DEF WriterAcquire
<1>12. ASSUME NEW t \in Tasks,
              \/ WriterSetState(t) \/ WriterTryFails(t) \/ WriterSchedule(t)
              \/ WriterReadCount(t) \/ WriterRelock(t)
       PROVE  OpInv' /\ QueueInv'
  <2>1. /\ op[t] = "down_write" /\ op' = op /\ UNCHANGED <<wait_list, waiting>>
        /\ pc'[t] \in {"w_set", "w_try", "w_sched", "w_read", "w_relock"}
        /\ pc' = [pc EXCEPT ![t] = pc'[t]]
        /\ pc[t] \in {"w_set", "w_try", "w_sched", "w_read", "w_relock"}
    BY <1>0, <1>12 DEF WriterSetState, WriterTryFails, WriterSchedule, WriterReadCount, WriterRelock
  <2>2. \A u \in Tasks : wait_lock' = u <=> pc'[u] \in InWaitLock
    BY <1>0, <1>12 DEF WriterSetState, WriterTryFails, WriterSchedule, WriterReadCount, WriterRelock
  <2> QED BY <1>0, <2>1, <2>2
<1>13. ASSUME Close PROVE OpInv' /\ QueueInv'
  BY <1>0, <1>13 DEF Close
<1> QED BY <1>1, <1>2, <1>3, <1>4, <1>5, <1>6, <1>7, <1>8, <1>9, <1>11, <1>12, <1>13
        DEF Next, Wake, WaitForLock

-----------------------------------------------------------------------------
(* The locals of __rwsem_do_wake().                                        *)

Waking == {"wake", "undo", "grant", "null", "proc"}

\* The head of the list, seen as an entry.
LEMMA HeadFacts ==
    ASSUME wait_list \in Seq(Tasks), wait_list # <<>>
    PROVE  /\ Head(wait_list) = wait_list[1] /\ Head(wait_list) \in Tasks
           /\ InList(wait_list, Head(wait_list))
           /\ Len(wait_list) \in Nat /\ Len(wait_list) > 0
<1>1. Len(wait_list) \in Nat /\ DOMAIN wait_list = 1..Len(wait_list) /\ Len(wait_list) > 0
  BY LenProperties, EmptySeq
<1>2. Head(wait_list) = wait_list[1] /\ Head(wait_list) \in Tasks
  BY HeadTailProperties
<1>3. 1 \in DOMAIN wait_list
  BY <1>1
<1> QED BY <1>1, <1>2, <1>3 DEF InList

\* Entries of the list are tasks.
LEMMA EntryFacts ==
    ASSUME wait_list \in Seq(Tasks)
    PROVE  /\ Len(wait_list) \in Nat
           /\ \A i \in 1..Len(wait_list) : wait_list[i] \in Tasks /\ InList(wait_list, wait_list[i])
BY LenProperties, ElementOfSeq DEF InList

\* Steps outside __rwsem_do_wake().
LEMMA WakerAside ==
    ASSUME Structure, NEW t \in Tasks, NEW l, NEW o, Goto(t, l, o),
           UNCHANGED <<wait_list, adjustment, loop, tsk>>,
           pc[t] \notin Waking, l \notin Waking, InList(wait_list, t) => o = op[t]
    PROVE  WakerInv'
<1>0. TypeOK /\ WakerInv
  BY DEF Structure
<1>1. \A u \in Tasks : /\ pc'[u] = IF u = t THEN l ELSE pc[u]
                       /\ InList(wait_list, u) => op'[u] = op[u]
                       /\ u # t => op'[u] = op[u]
  BY <1>0 DEF TypeOK, Goto
<1>2. \A i \in 1..loop : op'[wait_list[i]] = "down_read"
  BY <1>0, <1>1, EntryFacts DEF TypeOK, WakerInv
<1>3. \A u \in Tasks : pc'[u] \in Waking => pc[u] = pc'[u] /\ op'[u] = op[u]
  BY <1>1
<1>4. \A u \in Tasks : pc[u] \in Waking => pc[u] = pc'[u]
  BY <1>1
<1>5. wait_list # <<>> => op'[Head(wait_list)] = op[Head(wait_list)]
  BY <1>0, <1>1, HeadFacts DEF TypeOK
<1> QED BY <1>0, <1>2, <1>3, <1>4, <1>5 DEF WakerInv, Waking

\* Steps of the task that holds ->wait_lock.
LEMMA WakerInside ==
    ASSUME NEW t \in Tasks, NEW l, NEW o, Goto(t, l, o), TypeOK,
           \A u \in Tasks : u # t => pc[u] \notin Waking,
           l \notin {"null", "proc"} => loop' = 0,
           l \notin {"undo", "grant"} => adjustment' = 0,
           loop' <= Len(wait_list'), \A i \in 1..loop' : op'[wait_list'[i]] = "down_read",
           l \in {"wake", "undo", "grant"} => wait_list' # <<>>,
           l \in {"undo", "grant"} =>
               op'[Head(wait_list')] = "down_read" /\ adjustment' = IF o = "downgrade" THEN 0 ELSE 1,
           l = "undo" => o # "downgrade", l = "null" => loop' > 0, l = "proc" => tsk' \in Tasks
    PROVE  WakerInv'
<1>1. \A u \in Tasks : u # t => pc'[u] \notin Waking
  BY DEF TypeOK, Goto
<1>2. pc'[t] = l /\ op'[t] = o
  BY DEF TypeOK, Goto
<1> QED BY <1>1, <1>2 DEF WakerInv, Waking

LEMMA WakerStep ==
    ASSUME Structure, Next
    PROVE  WakerInv'
<1>0. TypeOK /\ OpInv /\ QueueInv /\ WakerInv /\ NoTask \notin Tasks
  BY Constants DEF Structure
<1>a. ASSUME NEW t \in Tasks, wait_lock \in {t, NoTask}
      PROVE  /\ \A u \in Tasks : u # t => pc[u] \notin Waking
             /\ pc[t] \notin {"null", "proc"} => loop = 0
             /\ pc[t] \notin {"undo", "grant"} => adjustment = 0
  <2>1. \A u \in Tasks : u # t => pc[u] \notin Waking
    BY <1>0, <1>a DEF QueueInv, InWaitLock, Waking
  <2> QED BY <1>0, <2>1 DEF WakerInv, Waking
<1>b. ASSUME NEW t \in Tasks, pc[t] \in InWaitLock
      PROVE  wait_lock = t
  BY <1>0, <1>b DEF QueueInv
<1>c. \A t \in Tasks : op[t] \in {"none", "up", "downgrade"} => ~InList(wait_list, t)
  BY <1>0 DEF QueueInv
<1>d. \A t \in Tasks : pc[t] \in {"idle", "reading", "writing"} => op[t] = "none"
  BY <1>0 DEF OpInv, OpOk
<1>r. ASSUME NEW t \in Tasks, ReturnFromWake(t), pc[t] \in Waking \cup {"wake_lock"},
             wait_lock \in {t, NoTask},
             adjustment' = 0, loop' = 0, UNCHANGED wait_list, pc[t] \notin {"grant", "null"}
      PROVE  WakerInv'
  <2>1. PICK l \in {"r_set", "w_set", "idle", "reading"}, o \in Operations : Goto(t, l, o)
    BY <1>r, ReturnFacts DEF Waking, Operations
  <2>2. loop' <= Len(wait_list') /\ \A i \in 1..loop' : op'[wait_list'[i]] = "down_read"
    BY <1>0, <1>r, EntryFacts DEF TypeOK
  <2> QED BY <1>0, <1>a, <1>r, <2>1, <2>2, WakerInside
<1>1. ASSUME NEW t \in Tasks, StartCall(t) \/ DowngradeWrite(t) \/ Release(t) PROVE WakerInv'
  <2>1. pc[t] \in {"idle", "reading", "writing"} /\ UNCHANGED slowVars
    BY <1>1 DEF StartCall, DownRead, DownReadTrylock, DownWrite, DownWriteTrylock,
                DowngradeWrite, Release, UpRead, UpWrite
  <2>2. PICK l \in {"enqueue", "reading", "writing", "wake_lock", "idle"}, o \in Operations :
           Goto(t, l, o)
    <3>1. {"none", "down_read", "down_write", "up", "downgrade"} \subseteq Operations
      BY DEF Operations
    <3> QED BY <1>1, <3>1, Zenon
            DEF StartCall, DownRead, DownReadTrylock, DownWrite, DownWriteTrylock, Release,
                UpRead, UpWrite, DowngradeWrite
  <2>3. ~InList(wait_list, t) /\ UNCHANGED <<wait_list, adjustment, loop, tsk>>
    BY <1>c, <1>d, <2>1 DEF slowVars, wakerVars
  <2> QED BY <2>1, <2>2, <2>3, WakerAside DEF Waking
<1>2. ASSUME NEW t \in Tasks, EnqueueRead(t) \/ EnqueueWrite(t) PROVE WakerInv'
  <2>1. /\ pc[t] = "enqueue" /\ wait_lock = NoTask /\ wait_list' = Append(wait_list, t)
        /\ op' = [op EXCEPT ![t] = op[t]] /\ UNCHANGED <<adjustment, loop, tsk>>
    BY <1>0, <1>2 DEF EnqueueRead, EnqueueWrite, wakerVars, TypeOK
  <2>2. PICK l \in {"wake", "r_set", "w_set"} : pc' = [pc EXCEPT ![t] = l]
    BY <1>2 DEF EnqueueRead, EnqueueWrite
  <2>3. loop' = 0 /\ adjustment' = 0
    BY <1>a, <2>1
  <2>4. wait_list' # <<>> /\ Len(wait_list') \in Nat
    BY <1>0, <2>1, AppendProperties, LenProperties DEF TypeOK
  <2>5. Goto(t, l, op[t])
    BY <2>1, <2>2 DEF Goto
  <2>6. loop' <= Len(wait_list') /\ \A i \in 1..loop' : op'[wait_list'[i]] = "down_read"
    BY <2>3, <2>4
  <2> QED BY <1>0, <1>a, <2>1, <2>3, <2>4, <2>5, <2>6, WakerInside
<1>3. ASSUME NEW t \in Tasks, WakeLock(t) PROVE WakerInv'
  <2>1. /\ pc[t] = "wake_lock" /\ wait_lock = NoTask /\ UNCHANGED <<wait_list, adjustment, loop, tsk>>
        /\ loop' = 0 /\ adjustment' = 0
    BY <1>3, <1>a DEF WakeLock, wakerVars
  <2>2. CASE wait_list = <<>>
    BY <1>3, <1>r, <2>1, <2>2 DEF WakeLock
  <2>3. CASE wait_list # <<>>
    <3>1. Goto(t, "wake", op[t])
      BY <1>3, <2>3 DEF WakeLock
    <3>2. loop' <= Len(wait_list') /\ \A i \in 1..loop' : op'[wait_list'[i]] = "down_read"
      BY <1>0, <2>1, EntryFacts DEF TypeOK
    <3> QED BY <1>0, <1>a, <2>1, <2>3, <3>1, <3>2, WakerInside
  <2> QED BY <2>2, <2>3
<1>4. ASSUME NEW t \in Tasks, WakeWriter(t) PROVE WakerInv'
  <2>1. pc[t] = "wake" /\ ReturnFromWake(t) /\ UNCHANGED <<wait_list, adjustment, loop>>
    BY <1>4 DEF WakeWriter, wakerVars
  <2>2. wait_lock = t /\ loop' = 0 /\ adjustment' = 0
    BY <1>a, <1>b, <2>1 DEF InWaitLock
  <2> QED BY <1>r, <2>1, <2>2 DEF Waking
<1>5. ASSUME NEW t \in Tasks, TryReaderGrant(t) \/ WakeReadOwned(t) PROVE WakerInv'
  <2>1. /\ pc[t] = "wake" /\ op[Head(wait_list)] # "down_write" /\ UNCHANGED <<wait_list, loop>>
        /\ op' = [op EXCEPT ![t] = op[t]]
    BY <1>5 DEF TryReaderGrant, WakeReadOwned, IsWriter, Goto
  <2>2. PICK l \in {"undo", "grant"} :
            /\ Goto(t, l, op[t]) /\ adjustment' = (IF op[t] = "downgrade" THEN 0 ELSE 1)
            /\ l = "undo" => op[t] # "downgrade"
    BY <1>5, Constants DEF TryReaderGrant, WakeReadOwned, ReadOwned
  <2>3. wait_lock = t /\ wait_list # <<>> /\ loop' = 0
    BY <1>0, <1>a, <1>b, <2>1 DEF InWaitLock, WakerInv
  <2>4. op[Head(wait_list)] = "down_read" /\ op'[Head(wait_list)] = op[Head(wait_list)]
    BY <1>0, <2>1, <2>3, HeadFacts DEF TypeOK, QueueInv
  <2>5. loop' <= Len(wait_list') /\ \A i \in 1..loop' : op'[wait_list'[i]] = "down_read"
    BY <1>0, <2>1, <2>3, HeadFacts DEF TypeOK
  <2> QED BY <1>0, <1>a, <2>1, <2>2, <2>3, <2>4, <2>5, WakerInside
<1>6. ASSUME NEW t \in Tasks, UndoReaderGrant(t) PROVE WakerInv'
  <2>1. pc[t] = "undo" /\ adjustment' = 0 /\ UNCHANGED <<wait_list, loop>>
    BY <1>6 DEF UndoReaderGrant
  <2>2. wait_lock = t /\ wait_list # <<>> /\ loop' = 0
    BY <1>0, <1>a, <1>b, <2>1 DEF InWaitLock, WakerInv
  <2>3. CASE ReturnFromWake(t)
    BY <1>r, <2>1, <2>2, <2>3 DEF Waking
  <2>4. CASE Goto(t, "wake", op[t])
    <3>1. loop' <= Len(wait_list') /\ \A i \in 1..loop' : op'[wait_list'[i]] = "down_read"
      BY <1>0, <2>1, <2>2, HeadFacts DEF TypeOK
    <3> QED BY <1>0, <1>a, <2>1, <2>2, <2>4, <3>1, WakerInside
  <2> QED BY <1>6, <2>3, <2>4 DEF UndoReaderGrant
<1>7. ASSUME NEW t \in Tasks, GrantReaders(t) PROVE WakerInv'
  <2>1. /\ pc[t] = "grant" /\ loop' = LeadingReaders /\ adjustment' = 0 /\ UNCHANGED wait_list
        /\ Goto(t, "null", op[t]) /\ op' = [op EXCEPT ![t] = op[t]]
    BY <1>7 DEF GrantReaders, Goto
  <2>2. wait_lock = t /\ wait_list # <<>> /\ op[Head(wait_list)] = "down_read"
    BY <1>0, <1>b, <2>1 DEF InWaitLock, WakerInv
  <2>3. /\ LeadingReaders \in 0..Len(wait_list)
        /\ \A i \in 1..LeadingReaders : op[wait_list[i]] # "down_write"
        /\ LeadingReaders < Len(wait_list) => op[wait_list[LeadingReaders + 1]] = "down_write"
    BY <1>0, LeadingReadersExist DEF TypeOK, IsWriter
  <2>4. LeadingReaders > 0
    <3> SUFFICES ASSUME LeadingReaders = 0 PROVE FALSE
      BY <2>3
    <3>1. 0 + 1 = 1 /\ 0 < Len(wait_list)
      BY <1>0, <2>2, HeadFacts DEF TypeOK
    <3> QED BY <1>0, <2>2, <2>3, <3>1, HeadFacts DEF TypeOK
  <2>5. \A i \in 1..loop' : op'[wait_list'[i]] = "down_read"
    <3> SUFFICES ASSUME NEW i \in 1..LeadingReaders PROVE op'[wait_list[i]] = "down_read"
      BY <2>1
    <3>1. i \in 1..Len(wait_list) /\ op[wait_list[i]] # "down_write"
      BY <1>0, <2>3, EntryFacts DEF TypeOK
    <3>2. wait_list[i] \in Tasks /\ InList(wait_list, wait_list[i])
      BY <1>0, <3>1, EntryFacts DEF TypeOK
    <3>3. op[wait_list[i]] = "down_read"
      BY <1>0, <3>1, <3>2 DEF QueueInv
    <3> QED BY <1>0, <2>1, <3>2, <3>3 DEF TypeOK
  <2>6. loop' <= Len(wait_list') /\ loop' > 0
    BY <1>0, <2>1, <2>3, <2>4, EntryFacts DEF TypeOK
  <2> QED BY <1>0, <1>a, <2>1, <2>2, <2>5, <2>6, WakerInside
<1>8. ASSUME NEW t \in Tasks, ClearWaiterTask(t) PROVE WakerInv'
  <2>1. /\ pc[t] = "null" /\ loop' = loop - 1 /\ wait_list' = Tail(wait_list)
        /\ tsk' = Head(wait_list) /\ UNCHANGED adjustment
        /\ Goto(t, "proc", op[t]) /\ op' = [op EXCEPT ![t] = op[t]]
    BY <1>8 DEF ClearWaiterTask, Goto
  <2>2. /\ wait_lock = t /\ adjustment' = 0 /\ loop > 0 /\ loop <= Len(wait_list) /\ loop \in Nat
        /\ \A i \in 1..loop : op[wait_list[i]] = "down_read"
    BY <1>0, <1>a, <1>b, <2>1 DEF InWaitLock, WakerInv, TypeOK
  <2>3. wait_list # <<>>
    BY <1>0, <2>2, EmptySeq DEF TypeOK
  <2>4. /\ Len(wait_list') = Len(wait_list) - 1 /\ Len(wait_list) \in Nat
        /\ \A i \in 1..Len(wait_list) - 1 : wait_list'[i] = wait_list[i + 1]
    BY <1>0, <2>1, <2>3, HeadTailProperties, LenProperties DEF TypeOK
  <2>5. \A i \in 1..loop' : op'[wait_list'[i]] = "down_read"
    <3> SUFFICES ASSUME NEW i \in 1..loop - 1 PROVE op'[wait_list'[i]] = "down_read"
      BY <2>1
    <3>1. i \in 1..Len(wait_list) - 1 /\ i + 1 \in 1..loop /\ i + 1 \in 1..Len(wait_list)
      BY <2>2, <2>4
    <3>2. wait_list'[i] = wait_list[i + 1] /\ wait_list[i + 1] \in Tasks
          /\ op[wait_list[i + 1]] = "down_read"
      BY <1>0, <2>2, <2>4, <3>1, EntryFacts DEF TypeOK
    <3> QED BY <1>0, <2>1, <3>2 DEF TypeOK
  <2>6. loop' <= Len(wait_list') /\ tsk' \in Tasks
    BY <1>0, <2>1, <2>2, <2>3, <2>4, HeadFacts DEF TypeOK
  <2> QED BY <1>0, <1>a, <2>1, <2>2, <2>5, <2>6, WakerInside
<1>9. ASSUME NEW t \in Tasks, WakeUpProcess(t) PROVE WakerInv'
  <2>1. pc[t] = "proc" /\ UNCHANGED <<wait_list, loop, adjustment>>
    BY <1>9 DEF WakeUpProcess
  <2>2. wait_lock = t /\ adjustment' = 0
    BY <1>0, <1>a, <1>b, <2>1 DEF InWaitLock, WakerInv
  <2>3. CASE loop = 0
    BY <1>9, <1>r, <2>1, <2>2, <2>3 DEF WakeUpProcess, Waking
  <2>4. CASE loop # 0
    <3>1. Goto(t, "null", op[t]) /\ op' = [op EXCEPT ![t] = op[t]]
      BY <1>9, <2>4 DEF WakeUpProcess, Goto
    <3>2. op' = op
      BY <1>0, <3>1 DEF TypeOK
    <3>3. loop' <= Len(wait_list') /\ loop' > 0 /\ \A i \in 1..loop' : op'[wait_list'[i]] = "down_read"
      BY <1>0, <2>1, <2>4, <3>2 DEF WakerInv, TypeOK
    <3> QED BY <1>0, <1>a, <2>1, <2>2, <3>1, <3>3, WakerInside
  <2> QED BY <2>3, <2>4
<1>10. ASSUME NEW t \in Tasks, ReaderSetState(t) \/ ReaderCheck(t) \/ ReaderSchedule(t)
       PROVE  WakerInv'
  <2>1. /\ pc[t] \in {"r_set", "r_check", "r_sched"} /\ op[t] = "down_read"
        /\ UNCHANGED <<wait_list, adjustment, loop, tsk>>
    BY <1>0, <1>10 DEF ReaderSetState, ReaderCheck, ReaderSchedule, wakerVars, OpInv, OpOk
  <2>2. \/ \E l \in {"r_set", "r_check", "r_sched"} : Goto(t, l, op[t])
        \/ ~InList(wait_list, t) /\ Goto(t, "reading", "none")
    BY <1>0, <1>10, <2>1 DEF ReaderSetState, ReaderCheck, ReaderSchedule, QueueInv
  <2> QED BY <2>1, <2>2, WakerAside DEF Waking
<1>11. ASSUME NEW t \in Tasks, WriterAcquire(t) PROVE WakerInv'
  <2>1. /\ pc[t] = "w_try" /\ wait_list' = RemoveFirst(wait_list, t) /\ op[t] = "down_write"
        /\ UNCHANGED <<adjustment, loop>> /\ Goto(t, "writing", "none")
    BY <1>0, <1>11 DEF WriterAcquire, wakerVars, OpInv, OpOk
  <2>2. wait_lock = t /\ loop' = 0 /\ adjustment' = 0
    BY <1>a, <1>b, <2>1 DEF InWaitLock
  <2>3. wait_list' \in Seq(Tasks)
    BY <1>0, <2>1, RemoveList DEF QueueInv, TypeOK
  <2>4. loop' <= Len(wait_list') /\ \A i \in 1..loop' : op'[wait_list'[i]] = "down_read"
    BY <2>2, <2>3, LenProperties
  <2> QED BY <1>0, <1>a, <2>1, <2>2, <2>4, WakerInside
<1>12. ASSUME NEW t \in Tasks,
              \/ WriterSetState(t) \/ WriterTryFails(t) \/ WriterSchedule(t)
              \/ WriterReadCount(t) \/ WriterRelock(t)
       PROVE  WakerInv'
  <2>1. /\ pc[t] \in {"w_set", "w_try", "w_sched", "w_read", "w_relock"}
        /\ UNCHANGED <<wait_list, adjustment, loop, tsk>>
        /\ \E l \in {"w_try", "w_sched", "w_read", "w_relock"} : Goto(t, l, op[t])
    BY <1>12 DEF WriterSetState, WriterTryFails, WriterSchedule, WriterReadCount, WriterRelock,
                 wakerVars
  <2> QED BY <2>1, WakerAside DEF Waking
<1>13. ASSUME Close PROVE WakerInv'
  BY <1>0, <1>13 DEF Close, WakerInv, wakerVars
<1> QED BY <1>1, <1>2, <1>3, <1>4, <1>5, <1>6, <1>7, <1>8, <1>9, <1>10, <1>11, <1>12, <1>13
        DEF Next, Wake, WaitForLock

-----------------------------------------------------------------------------
(* ->count: the active part counts users and the grant ahead, the rest     *)
(* counts writers and the queue.                                           *)

Writing == WriteOwners \cup Arriving("down_write")

Users == ReadOwners \cup Arriving("down_read") \cup Writing

Active == Cardinality(Users) + adjustment

QueueBias == IF Queued THEN 1 ELSE 0

Biases == Cardinality(Writing) + QueueBias

\* ->count in its two parts; writers exclude everybody; the readers at the head are granted
\* the lock only while no writer has it.
ShareInv ==
    /\ count = Active - ActiveRange * Biases
    /\ WriterExclusion
    /\ \A t \in Tasks : pc[t] = "grant" => WriteOwners = {}

LEMMA Products ==
    ASSUME NEW k \in Nat
    PROVE  /\ ActiveRange * k \in Int
           /\ k = 0 => ActiveRange * k = 0
           /\ k = 1 => ActiveRange * k = ActiveRange
           /\ k >= 1 => ActiveRange * k >= ActiveRange
           /\ k >= 2 => ActiveRange * k >= ActiveRange + ActiveRange
<1>1. ActiveRange \in Nat
  BY Constants
<1>2. k >= 1 => ActiveRange * k >= ActiveRange
  <2> SUFFICES ASSUME k >= 1 PROVE ActiveRange * k >= ActiveRange
    OBVIOUS
  <2>1. k - 1 \in Nat /\ ActiveRange * k = ActiveRange * (k - 1) + ActiveRange
    BY <1>1
  <2>2. ActiveRange * (k - 1) \in Nat
    BY <1>1, <2>1
  <2> QED BY <1>1, <2>1, <2>2
<1>3. k >= 2 => ActiveRange * k >= ActiveRange + ActiveRange
  <2> SUFFICES ASSUME k >= 2 PROVE ActiveRange * k >= ActiveRange + ActiveRange
    OBVIOUS
  <2>1. k - 2 \in Nat /\ ActiveRange * k = ActiveRange * (k - 2) + ActiveRange + ActiveRange
    BY <1>1
  <2>2. ActiveRange * (k - 2) \in Nat
    BY <1>1, <2>1
  <2> QED BY <1>1, <2>1, <2>2
<1> QED BY <1>1, <1>2, <1>3

LEMMA Sizes ==
    TypeOK =>
           /\ Users \subseteq Tasks /\ IsFiniteSet(Users) /\ Cardinality(Users) \in Nat
           /\ Writing \subseteq Users /\ IsFiniteSet(Writing) /\ Cardinality(Writing) \in Nat
           /\ Active \in 0..ActiveRange - 1 /\ Biases \in Nat /\ adjustment \in {0, 1}
           /\ QueueBias \in Int
           /\ ReadOwners \subseteq Tasks /\ WriteOwners \subseteq Tasks
           /\ Active = 0 => Users = {} /\ adjustment = 0
           /\ Biases = 0 => Writing = {} /\ ~Queued
           /\ Biases <= 1 /\ Queued => Writing = {}
<1> SUFFICES ASSUME TypeOK
             PROVE  /\ Users \subseteq Tasks /\ IsFiniteSet(Users) /\ Cardinality(Users) \in Nat
                    /\ Writing \subseteq Users /\ IsFiniteSet(Writing) /\ Cardinality(Writing) \in Nat
                    /\ Active \in 0..ActiveRange - 1 /\ Biases \in Nat /\ adjustment \in {0, 1}
                    /\ QueueBias \in Int
                    /\ ReadOwners \subseteq Tasks /\ WriteOwners \subseteq Tasks
                    /\ Active = 0 => Users = {} /\ adjustment = 0
                    /\ Biases = 0 => Writing = {} /\ ~Queued
                    /\ Biases <= 1 /\ Queued => Writing = {}
  OBVIOUS
<1>1. ReadOwners \subseteq Tasks /\ WriteOwners \subseteq Tasks /\ Users \subseteq Tasks
  BY DEF Users, Writing, ReadOwners, GrantedReaders, WriteOwners, Arriving
<1>2. Writing \subseteq Users
  BY DEF Users
<1>3. IsFiniteSet(Users) /\ Cardinality(Users) <= Cardinality(Tasks)
  BY <1>1, Constants, FS_Subset
<1>4. IsFiniteSet(Writing)
  BY <1>2, <1>3, FS_Subset
<1>5. Cardinality(Users) \in Nat /\ Cardinality(Writing) \in Nat /\ Cardinality(Tasks) \in Nat
  BY <1>3, <1>4, Constants, FS_CardinalityType
<1>6. adjustment \in {0, 1}
  BY Constants DEF TypeOK
<1>7. Active \in 0..ActiveRange - 1
  BY <1>3, <1>5, <1>6, RwSemAssumption DEF Active
<1>8. Biases \in Nat /\ QueueBias \in Int
  BY <1>5 DEF Biases, QueueBias
<1>9. Active = 0 => Cardinality(Users) = 0 /\ adjustment = 0
  BY <1>5, <1>6 DEF Active
<1>10. /\ Biases = 0 => Cardinality(Writing) = 0 /\ ~Queued
       /\ Biases <= 1 /\ Queued => Cardinality(Writing) = 0
  BY <1>5 DEF Biases, QueueBias
<1> QED BY <1>1, <1>2, <1>3, <1>4, <1>5, <1>6, <1>7, <1>8, <1>9, <1>10, FS_EmptySet

LEMMA PartTypes ==
    TypeOK => /\ Users \subseteq Tasks /\ IsFiniteSet(Users) /\ Cardinality(Users) \in Nat
              /\ Writing \subseteq Tasks /\ IsFiniteSet(Writing) /\ Cardinality(Writing) \in Nat
              /\ ReadOwners \subseteq Tasks /\ WriteOwners \subseteq Tasks
              /\ WriteOwners \subseteq Writing /\ ReadOwners \subseteq Users
              /\ adjustment \in Int /\ count \in Int /\ ActiveRange \in Int /\ QueueBias \in Int
<1>1. WriteOwners \subseteq Writing /\ ReadOwners \subseteq Users
  BY DEF Writing, Users
<1>2. TypeOK => count \in Int
  BY DEF TypeOK
<1> QED BY <1>1, <1>2, Sizes, Constants

LEMMA OwnerTypes ==
    TypeOK => /\ ReadOwners \subseteq Tasks /\ WriteOwners \subseteq Tasks
              /\ Users \subseteq Tasks /\ Writing \subseteq Tasks
BY Sizes

\* What the paths learn from ->count.
LEMMA CountSign ==
    TypeOK /\ ShareInv =>
           /\ count >= 0 => Writing = {} /\ ~Queued
           /\ count = 0 => Users = {}
           /\ count >= -ActiveRange /\ Queued => Writing = {}
           /\ count = -ActiveRange => Users = {} /\ adjustment = 0
           /\ ActivePart(count) = Active
<1> SUFFICES ASSUME TypeOK, ShareInv
             PROVE  /\ count >= 0 => Writing = {} /\ ~Queued
                    /\ count = 0 => Users = {}
                    /\ count >= -ActiveRange /\ Queued => Writing = {}
                    /\ count = -ActiveRange => Users = {} /\ adjustment = 0
                    /\ ActivePart(count) = Active
  OBVIOUS
<1>1. /\ Active \in 0..ActiveRange - 1 /\ Biases \in Nat /\ ActiveRange \in Nat \ {0}
      /\ count = Active - ActiveRange * Biases
  BY Sizes, Constants DEF ShareInv
<1> DEFINE p == ActiveRange * Biases
<1>2. /\ p \in Int
      /\ Biases = 0 => p = 0
      /\ Biases = 1 => p = ActiveRange
      /\ Biases >= 1 => p >= ActiveRange
      /\ Biases >= 2 => p >= ActiveRange + ActiveRange
  BY <1>1, Products
<1> HIDE DEF p
<1>3. count = Active - p
  BY <1>1 DEF p
<1>4. count >= 0 => Biases = 0
  BY <1>1, <1>2, <1>3
<1>5. count = 0 => Active = 0
  BY <1>1, <1>2, <1>3, <1>4
<1>6. count >= -ActiveRange => Biases <= 1
  BY <1>1, <1>2, <1>3
<1>7. count = -ActiveRange => Active = 0
  <2>1. Biases = 0 \/ Biases = 1 \/ Biases >= 2
    BY <1>1
  <2> QED BY <1>1, <1>2, <1>3, <2>1
<1>8. ActivePart(count) = Active
  <2>1. count \in Int /\ count % ActiveRange \in 0..ActiveRange - 1
        /\ (count \div ActiveRange) \in Int
        /\ count = ActiveRange * (count \div ActiveRange) + (count % ActiveRange)
    BY <1>1, <1>2, <1>3, DivMod
  <2>2. count = ActiveRange * (-Biases) + Active
    BY <1>1
  <2>3. -Biases \in Int
    BY <1>1
  <2> QED BY <1>1, <2>1, <2>2, <2>3, ModUnique DEF ActivePart
<1> QED BY <1>4, <1>5, <1>6, <1>7, <1>8, Sizes

\* A change of ->count by what has changed in its parts.
LEMMA CountMove ==
    ASSUME TypeOK, TypeOK', ShareInv,
           NEW d \in Int, NEW e \in Int, NEW f \in Int,
           Cardinality(Users') + adjustment' = Cardinality(Users) + adjustment + d,
           Cardinality(Writing') = Cardinality(Writing) + e, QueueBias' = QueueBias + f,
           count' = count + d - ActiveRange * (e + f)
    PROVE  count' = Active' - (ActiveRange * Biases)'
<1>1. Active \in Int /\ Biases \in Int /\ ActiveRange \in Int /\ e + f \in Int
      /\ Cardinality(Writing) \in Int /\ QueueBias \in Int
      /\ count = Active - ActiveRange * Biases
  BY Sizes, Constants DEF ShareInv
<1>2. Active' = Active + d /\ Biases' = Biases + (e + f)
  BY <1>1 DEF Active, Biases
<1>3. ActiveRange * (Biases + (e + f)) = ActiveRange * Biases + ActiveRange * (e + f)
  BY <1>1
<1>4. ActiveRange * Biases \in Int /\ ActiveRange * (e + f) \in Int
  BY <1>1
<1> QED BY <1>1, <1>2, <1>3, <1>4

\* Readers that own the lock or have been granted it, from where they are.
InRead(l, o, g) == l = "reading" \/ o = "downgrade" \/ (o = "down_read" /\ l # "enqueue" /\ g)

Granted(t) == ~waiting[t] \/ \E i \in 1..loop : wait_list[i] = t

\* Only the task that moves changes sides.
LEMMA MoveOwners ==
    ASSUME TypeOK, NEW t \in Tasks, NEW l, NEW o, Goto(t, l, o),
           \A u \in Tasks \ {t} : Granted(u)' <=> Granted(u)
    PROVE  /\ \A u \in Tasks \ {t} : /\ u \in ReadOwners' <=> u \in ReadOwners
                                     /\ u \in WriteOwners' <=> u \in WriteOwners
                                     /\ u \in Users' <=> u \in Users
                                     /\ u \in Writing' <=> u \in Writing
           /\ t \in ReadOwners <=> InRead(pc[t], op[t], Granted(t))
           /\ t \in ReadOwners' <=> InRead(l, o, Granted(t)')
           /\ t \in WriteOwners <=> pc[t] = "writing"
           /\ t \in WriteOwners' <=> l = "writing"
           /\ t \in Writing <=> pc[t] = "writing" \/ (pc[t] = "enqueue" /\ op[t] = "down_write")
           /\ t \in Writing' <=> l = "writing" \/ (l = "enqueue" /\ o = "down_write")
           /\ t \in Users <=> \/ InRead(pc[t], op[t], Granted(t))
                              \/ pc[t] = "writing"
                              \/ pc[t] = "enqueue" /\ op[t] \in {"down_read", "down_write"}
           /\ t \in Users' <=> \/ InRead(l, o, Granted(t)')
                               \/ l = "writing"
                               \/ l = "enqueue" /\ o \in {"down_read", "down_write"}
<1>1. \A u \in Tasks : /\ pc'[u] = IF u = t THEN l ELSE pc[u]
                       /\ op'[u] = IF u = t THEN o ELSE op[u]
  BY DEF TypeOK, Goto
<1>2. \A u \in Tasks : /\ u \in ReadOwners <=> InRead(pc[u], op[u], Granted(u))
                       /\ u \in ReadOwners' <=> InRead(pc'[u], op'[u], Granted(u)')
  BY DEF ReadOwners, GrantedReaders, InRead, Granted
<1>3. \A u \in Tasks : /\ u \in WriteOwners <=> pc[u] = "writing"
                       /\ u \in WriteOwners' <=> pc'[u] = "writing"
  BY DEF WriteOwners
<1>4. \A u \in Tasks :
         /\ u \in Arriving("down_read") <=> pc[u] = "enqueue" /\ op[u] = "down_read"
         /\ u \in Arriving("down_read")' <=> pc'[u] = "enqueue" /\ op'[u] = "down_read"
         /\ u \in Arriving("down_write") <=> pc[u] = "enqueue" /\ op[u] = "down_write"
         /\ u \in Arriving("down_write")' <=> pc'[u] = "enqueue" /\ op'[u] = "down_write"
  BY DEF Arriving
<1> HIDE DEF Granted
<1>5. \A u \in Tasks \ {t} : u \in ReadOwners' <=> u \in ReadOwners
  BY <1>1, <1>2 DEF InRead
<1>6. \A u \in Tasks \ {t} : /\ u \in WriteOwners' <=> u \in WriteOwners
                             /\ u \in Writing' <=> u \in Writing
  BY <1>1, <1>3, <1>4 DEF Writing
<1>7. \A u \in Tasks \ {t} : u \in Users' <=> u \in Users
  BY <1>1, <1>4, <1>5, <1>6 DEF Users
<1>8. /\ t \in Writing <=> pc[t] = "writing" \/ (pc[t] = "enqueue" /\ op[t] = "down_write")
      /\ t \in Writing' <=> l = "writing" \/ (l = "enqueue" /\ o = "down_write")
  BY <1>1, <1>3, <1>4 DEF Writing
<1>9. /\ t \in ReadOwners <=> InRead(pc[t], op[t], Granted(t))
      /\ t \in ReadOwners' <=> InRead(l, o, Granted(t)')
      /\ t \in WriteOwners <=> pc[t] = "writing"
      /\ t \in WriteOwners' <=> l = "writing"
  BY <1>1, <1>2, <1>3
<1>10. /\ t \in Users <=> \/ InRead(pc[t], op[t], Granted(t))
                          \/ pc[t] = "writing"
                          \/ pc[t] = "enqueue" /\ op[t] \in {"down_read", "down_write"}
       /\ t \in Users' <=> \/ InRead(l, o, Granted(t)')
                           \/ l = "writing"
                           \/ l = "enqueue" /\ o \in {"down_read", "down_write"}
  BY <1>1, <1>4, <1>8, <1>9 DEF Users
<1> QED BY <1>5, <1>6, <1>7, <1>8, <1>9, <1>10

-----------------------------------------------------------------------------
(* Every step keeps ->count exact and is a step of the abstract lock.      *)

LockMove == Abstract!Next \/ UNCHANGED <<ReadOwners, WriteOwners>>

LEMMA GrantedSame ==
    ASSUME UNCHANGED <<wait_list, waiting, loop>>
    PROVE  /\ \A u \in Tasks : Granted(u)' <=> Granted(u)
           /\ Queued' <=> Queued
           /\ QueueBias' = QueueBias
BY DEF Granted, Queued, QueueBias

\* A step that changes no owner and no part of ->count but the grant ahead.
LEMMA ShareSame ==
    ASSUME TypeOK, TypeOK', ShareInv, QueueBias' = QueueBias,
           UNCHANGED <<ReadOwners, WriteOwners, Users, Writing>>,
           count' = count + (adjustment' - adjustment),
           \A u \in Tasks : pc'[u] = "grant" => WriteOwners = {}
    PROVE  ShareInv' /\ LockMove
<1>0. /\ adjustment \in {0, 1} /\ adjustment' \in {0, 1} /\ count \in Int /\ ActiveRange \in Int
      /\ Cardinality(Users) \in Int /\ Cardinality(Writing) \in Int /\ QueueBias \in Int
  BY Sizes, Constants DEF TypeOK
<1>1. PICK d \in Int : d = adjustment' - adjustment
  <2>1. adjustment' - adjustment \in Int
    BY <1>0
  <2> QED BY <2>1, Zenon
<1>2. /\ Cardinality(Users') + adjustment' = Cardinality(Users) + adjustment + d
      /\ Cardinality(Writing') = Cardinality(Writing) + 0 /\ QueueBias' = QueueBias + 0
      /\ count' = count + d - ActiveRange * (0 + 0)
  BY <1>0, <1>1
<1>3. count' = Active' - (ActiveRange * Biases)'
  BY <1>2, CountMove
<1> QED BY <1>3 DEF ShareInv, WriterExclusion, LockMove

\* A task moves on without gaining or losing the lock.
LEMMA ShareAside ==
    ASSUME Structure, TypeOK', ShareInv, NEW t \in Tasks, NEW l, NEW o, Goto(t, l, o),
           UNCHANGED <<wait_list, waiting, loop>>,
           count' = count + (adjustment' - adjustment),
           pc[t] \notin {"writing", "enqueue"}, l \notin {"writing", "enqueue"},
           InRead(l, o, Granted(t)) <=> InRead(pc[t], op[t], Granted(t)),
           l = "grant" => WriteOwners = {}
    PROVE  /\ ShareInv' /\ LockMove
           /\ UNCHANGED <<ReadOwners, WriteOwners, Users, Writing>>
           /\ Queued' <=> Queued
<1>0. TypeOK
  BY DEF Structure
<1>1. (\A u \in Tasks : Granted(u)' <=> Granted(u)) /\ (Queued' <=> Queued) /\ QueueBias' = QueueBias
  BY GrantedSame
<1>2. \A u \in Tasks : /\ u \in ReadOwners' <=> u \in ReadOwners
                       /\ u \in WriteOwners' <=> u \in WriteOwners
                       /\ u \in Users' <=> u \in Users
                       /\ u \in Writing' <=> u \in Writing
  BY <1>0, <1>1, MoveOwners DEF InRead
<1>3. /\ ReadOwners \subseteq Tasks /\ WriteOwners \subseteq Tasks
      /\ Users \subseteq Tasks /\ Writing \subseteq Tasks
  BY <1>0, Sizes
<1>4. (/\ ReadOwners \subseteq Tasks /\ WriteOwners \subseteq Tasks
       /\ Users \subseteq Tasks /\ Writing \subseteq Tasks)'
  BY OwnerTypes, PTL
<1>5. UNCHANGED <<ReadOwners, WriteOwners, Users, Writing>>
  BY <1>2, <1>3, <1>4
<1>6. \A u \in Tasks : pc'[u] = "grant" => WriteOwners = {}
  BY <1>0 DEF TypeOK, Goto, ShareInv
<1>7. ShareInv' /\ LockMove
  BY <1>0, <1>1, <1>5, <1>6, ShareSame
<1> QED BY <1>1, <1>5, <1>7

\* down_read(), down_write() and the trylocks: a task arrives, or takes the lock when
\* ->count says that it is free.
LEMMA ShareDown ==
    ASSUME Structure, TypeOK', ShareInv, NEW t \in Tasks, StartCall(t)
    PROVE  /\ ShareInv' /\ LockMove /\ t \in Users'
           /\ pc'[t] = "reading" => ~Queued
<1>0. TypeOK /\ OpInv /\ QueueInv /\ WakerInv
  BY DEF Structure
<1>1. pc[t] = "idle" /\ UNCHANGED <<wait_list, waiting, loop, adjustment>>
  BY DEF StartCall, DownRead, DownReadTrylock, DownWrite, DownWriteTrylock, slowVars, wakerVars
<1>2. (\A u \in Tasks : Granted(u)' <=> Granted(u)) /\ (Queued' <=> Queued) /\ QueueBias' = QueueBias
  BY <1>1, GrantedSame
<1>3. op[t] = "none" /\ t \notin Users /\ t \notin Writing /\ t \notin ReadOwners
  <2>1. op[t] = "none"
    BY <1>0, <1>1 DEF OpInv, OpOk
  <2>2. t \notin ReadOwners
    BY <1>1, <2>1 DEF ReadOwners, GrantedReaders
  <2> QED BY <1>1, <2>1, <2>2 DEF Users, Writing, WriteOwners, Arriving
<1>4. \A u \in Tasks : pc'[u] = "grant" => pc[u] = "grant"
  BY <1>0 DEF TypeOK, Goto, StartCall, DownRead, DownReadTrylock, DownWrite, DownWriteTrylock
<1>s. /\ Users \subseteq Tasks /\ IsFiniteSet(Users) /\ Cardinality(Users) \in Nat
      /\ Writing \subseteq Tasks /\ IsFiniteSet(Writing) /\ Cardinality(Writing) \in Nat
      /\ ReadOwners \subseteq Tasks /\ WriteOwners \subseteq Tasks
      /\ WriteOwners \subseteq Writing /\ ReadOwners \subseteq Users
      /\ adjustment \in Int /\ count \in Int /\ ActiveRange \in Int /\ QueueBias \in Int
  BY <1>0, PartTypes
<1>p. (/\ ReadOwners \subseteq Tasks /\ WriteOwners \subseteq Tasks
       /\ Users \subseteq Tasks /\ Writing \subseteq Tasks)'
  BY OwnerTypes, PTL
<1>c. /\ Cardinality(Users \cup {t}) = Cardinality(Users) + 1
      /\ Cardinality(Writing \cup {t}) = Cardinality(Writing) + 1
  BY <1>3, <1>s, FS_AddElement
<1>5. CASE Goto(t, "enqueue", "down_read") /\ count' = count + 1
  <2>1. /\ ReadOwners' = ReadOwners /\ WriteOwners' = WriteOwners
        /\ Users' = Users \cup {t} /\ Writing' = Writing
    <3>1. \A u \in Tasks : /\ u \in ReadOwners' <=> u \in ReadOwners
                           /\ u \in WriteOwners' <=> u \in WriteOwners
                           /\ u \in Users' <=> u \in Users \cup {t}
                           /\ u \in Writing' <=> u \in Writing
      BY <1>0, <1>1, <1>2, <1>3, <1>5, MoveOwners DEF InRead
    <3> QED BY <1>s, <1>p, <3>1
  <2>2. /\ Cardinality(Users') + adjustment' = Cardinality(Users) + adjustment + 1
        /\ Cardinality(Writing') = Cardinality(Writing) + 0 /\ QueueBias' = QueueBias + 0
    BY <1>1, <1>2, <1>c, <1>s, <2>1
  <2>3. count' = count + 1 - ActiveRange * (0 + 0)
    BY <1>5, <1>s
  <2>4. count' = Active' - (ActiveRange * Biases)'
    BY <1>0, <2>2, <2>3, CountMove
  <2>5. pc'[t] = "enqueue"
    BY <1>0, <1>5 DEF TypeOK, Goto
  <2> QED BY <1>4, <2>1, <2>4, <2>5 DEF ShareInv, WriterExclusion, LockMove
<1>6. CASE Goto(t, "reading", "none") /\ count >= 0 /\ count' = count + 1
  <2>0. Writing = {} /\ ~Queued /\ WriteOwners = {}
    BY <1>0, <1>6, CountSign DEF Writing
  <2>1. /\ ReadOwners' = ReadOwners \cup {t} /\ WriteOwners' = WriteOwners
        /\ Users' = Users \cup {t} /\ Writing' = Writing
    <3>1. \A u \in Tasks : /\ u \in ReadOwners' <=> u \in ReadOwners \cup {t}
                           /\ u \in WriteOwners' <=> u \in WriteOwners
                           /\ u \in Users' <=> u \in Users \cup {t}
                           /\ u \in Writing' <=> u \in Writing
      BY <1>0, <1>1, <1>2, <1>3, <1>6, MoveOwners DEF InRead
    <3> QED BY <1>s, <1>p, <3>1
  <2>2. /\ Cardinality(Users') + adjustment' = Cardinality(Users) + adjustment + 1
        /\ Cardinality(Writing') = Cardinality(Writing) + 0 /\ QueueBias' = QueueBias + 0
    BY <1>1, <1>2, <1>c, <1>s, <2>1
  <2>3. count' = count + 1 - ActiveRange * (0 + 0)
    BY <1>6, <1>s
  <2>4. count' = Active' - (ActiveRange * Biases)'
    BY <1>0, <2>2, <2>3, CountMove
  <2>5. Abstract!AcquireRead({t})
    BY <1>3, <2>0, <2>1 DEF Abstract!AcquireRead
  <2>6. Abstract!Next
    BY <2>5 DEF Abstract!Next
  <2> QED BY <1>4, <2>0, <2>1, <2>4, <2>6 DEF ShareInv, WriterExclusion, LockMove
<1>7. CASE Goto(t, "enqueue", "down_write") /\ count' = count + 1 - ActiveRange
  <2>1. /\ ReadOwners' = ReadOwners /\ WriteOwners' = WriteOwners
        /\ Users' = Users \cup {t} /\ Writing' = Writing \cup {t}
    <3>1. \A u \in Tasks : /\ u \in ReadOwners' <=> u \in ReadOwners
                           /\ u \in WriteOwners' <=> u \in WriteOwners
                           /\ u \in Users' <=> u \in Users \cup {t}
                           /\ u \in Writing' <=> u \in Writing \cup {t}
      BY <1>0, <1>1, <1>2, <1>3, <1>7, MoveOwners DEF InRead
    <3> QED BY <1>s, <1>p, <3>1
  <2>2. /\ Cardinality(Users') + adjustment' = Cardinality(Users) + adjustment + 1
        /\ Cardinality(Writing') = Cardinality(Writing) + 1 /\ QueueBias' = QueueBias + 0
    BY <1>1, <1>2, <1>c, <1>s, <2>1
  <2>3. count' = count + 1 - ActiveRange * (1 + 0)
    BY <1>7, <1>s
  <2>4. count' = Active' - (ActiveRange * Biases)'
    BY <1>0, <2>2, <2>3, CountMove
  <2>5. pc'[t] = "enqueue"
    BY <1>0, <1>7 DEF TypeOK, Goto
  <2> QED BY <1>4, <2>1, <2>4, <2>5 DEF ShareInv, WriterExclusion, LockMove
<1>8. CASE Goto(t, "writing", "none") /\ count = 0 /\ count' = 1 - ActiveRange
  <2>0. Users = {} /\ ReadOwners = {} /\ WriteOwners = {} /\ ~Queued
    <3>1. count >= 0
      BY <1>8
    <3> QED BY <1>0, <1>8, <1>s, <3>1, CountSign DEF Writing
  <2>1. /\ ReadOwners' = {} /\ WriteOwners' = {t}
        /\ Users' = Users \cup {t} /\ Writing' = Writing \cup {t}
    <3>1. \A u \in Tasks : /\ u \in ReadOwners' <=> u \in ReadOwners
                           /\ u \in WriteOwners' <=> u \in WriteOwners \cup {t}
                           /\ u \in Users' <=> u \in Users \cup {t}
                           /\ u \in Writing' <=> u \in Writing \cup {t}
      BY <1>0, <1>1, <1>2, <1>3, <1>8, MoveOwners DEF InRead
    <3> QED BY <1>s, <1>p, <2>0, <3>1
  <2>2. /\ Cardinality(Users') + adjustment' = Cardinality(Users) + adjustment + 1
        /\ Cardinality(Writing') = Cardinality(Writing) + 1 /\ QueueBias' = QueueBias + 0
    BY <1>1, <1>2, <1>c, <1>s, <2>1
  <2>3. count' = count + 1 - ActiveRange * (1 + 0)
    BY <1>8, <1>s
  <2>4. count' = Active' - (ActiveRange * Biases)'
    BY <1>0, <2>2, <2>3, CountMove
  <2>5. Abstract!AcquireWrite(t)
    BY <2>0, <2>1 DEF Abstract!AcquireWrite
  <2>6. \A u \in Tasks : pc[u] # "grant"
    <3> SUFFICES ASSUME NEW u \in Tasks, pc[u] = "grant" PROVE FALSE
      OBVIOUS
    <3>1. \A v \in Tasks : v # u => pc[v] \notin {"null", "proc"}
      BY <1>0 DEF QueueInv, InWaitLock
    <3>2. loop = 0 /\ wait_list # <<>>
      BY <1>0, <3>1 DEF WakerInv
    <3> QED BY <1>0, <2>0, <3>2, HeadFacts DEF Queued, TypeOK
  <2>7. Abstract!Next
    BY <2>5 DEF Abstract!Next
  <2> QED BY <1>4, <2>0, <2>1, <2>4, <2>6, <2>7 DEF ShareInv, WriterExclusion, LockMove
<1> HIDE DEF Goto
<1>9. /\ WRITE_BIAS = 1 - ActiveRange /\ READ_BIAS = 1 /\ count \in Int /\ ActiveRange \in Int
  BY <1>s, Constants
<1>10. CASE DownRead(t) \/ DownReadTrylock(t)
  <2>1. count' = count + 1
    BY <1>9, <1>10 DEF DownRead, DownReadTrylock
  <2>2. Goto(t, "enqueue", "down_read") \/ (Goto(t, "reading", "none") /\ count >= 0)
    BY <1>9, <1>10, <2>1 DEF DownRead, DownReadTrylock
  <2> QED BY <1>5, <1>6, <2>1, <2>2
<1>11. CASE DownWrite(t) \/ DownWriteTrylock(t)
  <2>1. count' = count + 1 - ActiveRange
    BY <1>9, <1>11 DEF DownWrite, DownWriteTrylock
  <2>2. Goto(t, "enqueue", "down_write") \/ (Goto(t, "writing", "none") /\ count = 0)
    BY <1>9, <1>11, <2>1 DEF DownWrite, DownWriteTrylock
  <2>3. count = 0 => count' = 1 - ActiveRange
    BY <1>9, <2>1
  <2> QED BY <1>7, <1>8, <2>1, <2>2, <2>3
<1> QED BY <1>10, <1>11 DEF StartCall

\* up_read(), up_write() and downgrade_write().
LEMMA ShareUp ==
    ASSUME Structure, TypeOK', ShareInv, NEW t \in Tasks, Release(t) \/ DowngradeWrite(t)
    PROVE  ShareInv' /\ LockMove /\ (Queued' <=> Queued)
<1>0. TypeOK /\ OpInv /\ QueueInv /\ WakerInv
  BY DEF Structure
<1>1. /\ pc[t] \in {"reading", "writing"} /\ op[t] = "none"
      /\ UNCHANGED <<wait_list, waiting, loop, adjustment>>
  BY <1>0 DEF Release, UpRead, UpWrite, DowngradeWrite, slowVars, wakerVars, OpInv, OpOk
<1>2. (\A u \in Tasks : Granted(u)' <=> Granted(u)) /\ (Queued' <=> Queued) /\ QueueBias' = QueueBias
  BY <1>1, GrantedSame
<1>3. \A u \in Tasks : pc'[u] = "grant" => pc[u] = "grant"
  BY <1>0 DEF TypeOK, Goto, Release, UpRead, UpWrite, DowngradeWrite
<1>s. /\ Users \subseteq Tasks /\ IsFiniteSet(Users) /\ Cardinality(Users) \in Nat
      /\ Writing \subseteq Tasks /\ IsFiniteSet(Writing) /\ Cardinality(Writing) \in Nat
      /\ ReadOwners \subseteq Tasks /\ WriteOwners \subseteq Tasks
      /\ WriteOwners \subseteq Writing /\ ReadOwners \subseteq Users
      /\ adjustment \in Int /\ count \in Int /\ ActiveRange \in Int /\ QueueBias \in Int
  BY <1>0, PartTypes
<1>p. (/\ ReadOwners \subseteq Tasks /\ WriteOwners \subseteq Tasks
       /\ Users \subseteq Tasks /\ Writing \subseteq Tasks)'
  BY OwnerTypes, PTL
<1>b. WRITE_BIAS = 1 - ActiveRange /\ READ_BIAS = 1 /\ WAITING_BIAS = -ActiveRange
  BY Constants
<1>4. CASE UpRead(t)
  <2>0. /\ pc[t] = "reading" /\ count' = count - 1
        /\ Goto(t, "wake_lock", "up") \/ Goto(t, "idle", "none")
    BY <1>4, <1>b DEF UpRead
  <2>1. /\ ReadOwners' = ReadOwners \ {t} /\ WriteOwners' = WriteOwners /\ t \in ReadOwners
        /\ Users' = Users \ {t} /\ Writing' = Writing /\ t \in Users
    <3>1. \A u \in Tasks : /\ u \in ReadOwners' <=> u \in ReadOwners \ {t}
                           /\ u \in WriteOwners' <=> u \in WriteOwners
                           /\ u \in Users' <=> u \in Users \ {t}
                           /\ u \in Writing' <=> u \in Writing
      BY <1>0, <1>1, <1>2, <2>0, MoveOwners DEF InRead
    <3>2. t \in ReadOwners
      BY <2>0 DEF ReadOwners
    <3> QED BY <1>s, <1>p, <3>1, <3>2
  <2>2. Cardinality(Users') = Cardinality(Users) - 1
    BY <1>s, <2>1, FS_RemoveElement
  <2>3. /\ Cardinality(Users') + adjustment' = Cardinality(Users) + adjustment + (-1)
        /\ Cardinality(Writing') = Cardinality(Writing) + 0 /\ QueueBias' = QueueBias + 0
        /\ count' = count + (-1) - ActiveRange * (0 + 0)
    BY <1>1, <1>2, <1>s, <2>0, <2>1, <2>2
  <2>4. count' = Active' - (ActiveRange * Biases)'
    BY <1>0, <2>3, CountMove
  <2>5. Abstract!ReleaseRead(t)
    BY <2>1 DEF Abstract!ReleaseRead
  <2>6. Abstract!Next
    BY <2>5 DEF Abstract!Next
  <2> QED BY <1>2, <1>3, <2>1, <2>4, <2>6 DEF ShareInv, WriterExclusion, LockMove
<1>5. CASE UpWrite(t)
  <2>0. /\ pc[t] = "writing" /\ count' = count - (1 - ActiveRange)
        /\ Goto(t, "wake_lock", "up") \/ Goto(t, "idle", "none")
    BY <1>5, <1>b DEF UpWrite
  <2>a. WriteOwners = {t} /\ ReadOwners = {}
    BY <2>0 DEF ShareInv, WriterExclusion, WriteOwners
  <2>1. /\ ReadOwners' = {} /\ WriteOwners' = {} /\ t \in Users /\ t \in Writing
        /\ Users' = Users \ {t} /\ Writing' = Writing \ {t}
    <3>1. \A u \in Tasks : /\ u \in ReadOwners' <=> u \in ReadOwners
                           /\ u \in WriteOwners' <=> u \in WriteOwners \ {t}
                           /\ u \in Users' <=> u \in Users \ {t}
                           /\ u \in Writing' <=> u \in Writing \ {t}
      BY <1>0, <1>1, <1>2, <2>0, <2>a, MoveOwners DEF InRead
    <3>2. t \in Users /\ t \in Writing
      BY <2>a DEF Users, Writing
    <3> QED BY <1>s, <1>p, <2>a, <3>1, <3>2
  <2>2. /\ Cardinality(Users') = Cardinality(Users) - 1
        /\ Cardinality(Writing') = Cardinality(Writing) - 1
    BY <1>s, <2>1, FS_RemoveElement
  <2>3. /\ Cardinality(Users') + adjustment' = Cardinality(Users) + adjustment + (-1)
        /\ Cardinality(Writing') = Cardinality(Writing) + (-1) /\ QueueBias' = QueueBias + 0
    BY <1>1, <1>2, <1>s, <2>2
  <2>4. count' = count + (-1) - ActiveRange * ((-1) + 0)
    BY <1>s, <2>0
  <2>5. count' = Active' - (ActiveRange * Biases)'
    BY <1>0, <2>3, <2>4, CountMove
  <2>6. Abstract!ReleaseWrite(t)
    BY <2>a, <2>1 DEF Abstract!ReleaseWrite
  <2>7. Abstract!Next
    BY <2>6 DEF Abstract!Next
  <2> QED BY <1>2, <1>3, <2>1, <2>5, <2>7 DEF ShareInv, WriterExclusion, LockMove
<1>6. CASE DowngradeWrite(t)
  <2>0. /\ pc[t] = "writing" /\ count' = count - (-ActiveRange)
        /\ Goto(t, "wake_lock", "downgrade") \/ Goto(t, "reading", "none")
    BY <1>6, <1>b DEF DowngradeWrite
  <2>a. WriteOwners = {t} /\ ReadOwners = {}
    BY <2>0 DEF ShareInv, WriterExclusion, WriteOwners
  <2>1. /\ ReadOwners' = {t} /\ WriteOwners' = {} /\ t \in Writing
        /\ Users' = Users /\ Writing' = Writing \ {t}
    <3>1. \A u \in Tasks : /\ u \in ReadOwners' <=> u \in ReadOwners \cup {t}
                           /\ u \in WriteOwners' <=> u \in WriteOwners \ {t}
                           /\ u \in Users' <=> u \in Users
                           /\ u \in Writing' <=> u \in Writing \ {t}
      BY <1>0, <1>1, <1>2, <2>0, <2>a, MoveOwners DEF InRead
    <3>2. t \in Writing
      BY <2>a DEF Writing
    <3> QED BY <1>s, <1>p, <2>a, <3>1, <3>2
  <2>2. Cardinality(Writing') = Cardinality(Writing) - 1
    BY <1>s, <2>1, FS_RemoveElement
  <2>3. /\ Cardinality(Users') + adjustment' = Cardinality(Users) + adjustment + 0
        /\ Cardinality(Writing') = Cardinality(Writing) + (-1) /\ QueueBias' = QueueBias + 0
    BY <1>1, <1>2, <1>s, <2>1, <2>2
  <2>4. count' = count + 0 - ActiveRange * ((-1) + 0)
    BY <1>s, <2>0
  <2>5. count' = Active' - (ActiveRange * Biases)'
    BY <1>0, <2>3, <2>4, CountMove
  <2>6. Abstract!Downgrade(t)
    BY <2>a, <2>1 DEF Abstract!Downgrade
  <2>7. Abstract!Next
    BY <2>6 DEF Abstract!Next
  <2> QED BY <1>2, <1>3, <2>1, <2>5, <2>7 DEF ShareInv, WriterExclusion, LockMove
<1> QED BY <1>4, <1>5, <1>6 DEF Release

\* A task that holds ->wait_lock, or takes it, finds no grant of another under way.
LEMMA NoOtherWaker ==
    ASSUME Structure, NEW t \in Tasks, wait_lock \in {t, NoTask},
           pc[t] \notin {"null", "proc"}
    PROVE  /\ loop = 0
           /\ \A u \in Tasks : Granted(u) <=> ~waiting[u]
           /\ Queued <=> wait_list # <<>>
           /\ pc[t] \notin {"undo", "grant"} => adjustment = 0
           /\ \A u \in Tasks : u # t => pc[u] \notin Waking
<1>0. TypeOK /\ QueueInv /\ WakerInv /\ NoTask \notin Tasks
  BY Constants DEF Structure
<1>1. \A u \in Tasks : u # t => pc[u] \notin Waking
  BY <1>0 DEF QueueInv, InWaitLock, Waking
<1>2. loop = 0 /\ (pc[t] \notin {"undo", "grant"} => adjustment = 0)
  BY <1>0, <1>1 DEF WakerInv, Waking
<1>3. \A i : ~(i \in 1..0)
  OBVIOUS
<1>4. Len(wait_list) > 0 <=> wait_list # <<>>
  BY <1>0, LenProperties, EmptySeq DEF TypeOK
<1> QED BY <1>1, <1>2, <1>3, <1>4 DEF Granted, Queued

\* rwsem_down_read_failed(), rwsem_down_write_failed(): the bias of an arriving task becomes
\* that of the queue.
LEMMA ShareEnqueue ==
    ASSUME Structure, TypeOK', QueueInv', WakerInv', ShareInv, NEW t \in Tasks,
           EnqueueRead(t) \/ EnqueueWrite(t)
    PROVE  ShareInv' /\ LockMove /\ Queued' /\ loop' = 0 /\ adjustment' = 0
<1>0. TypeOK /\ OpInv /\ QueueInv /\ WakerInv
  BY DEF Structure
<1>1. /\ pc[t] = "enqueue" /\ wait_lock = NoTask /\ wait_list' = Append(wait_list, t)
      /\ op' = [op EXCEPT ![t] = op[t]] /\ UNCHANGED <<adjustment, loop>>
  BY <1>0 DEF EnqueueRead, EnqueueWrite, wakerVars, TypeOK
<1>2. PICK l \in {"wake", "r_set", "w_set"} : pc' = [pc EXCEPT ![t] = l]
  BY DEF EnqueueRead, EnqueueWrite
<1>3. Goto(t, l, op[t])
  BY <1>1, <1>2 DEF Goto
<1>4. /\ loop = 0 /\ adjustment = 0 /\ (Queued <=> wait_list # <<>>)
      /\ \A u \in Tasks : Granted(u) <=> ~waiting[u]
  BY <1>1, NoOtherWaker
<1>5. Queued' /\ QueueBias' = 1 /\ QueueBias = (IF wait_list = <<>> THEN 0 ELSE 1)
  <2>1. Len(wait_list') > 0
    BY <1>0, <1>1, AppendProperties, LenProperties DEF TypeOK
  <2> QED BY <1>1, <1>4, <2>1 DEF Queued, QueueBias
<1>6. /\ \A u \in Tasks : Granted(u)' <=> ~waiting'[u]
      /\ \A u \in Tasks \ {t} : Granted(u)' <=> Granted(u)
      /\ op[t] = "down_read" => waiting'[t]
  <2>1. \A i : ~(i \in 1..loop')
    BY <1>1, <1>4
  <2>2. \A u \in Tasks : Granted(u)' <=> ~waiting'[u]
    BY <2>1 DEF Granted
  <2>3. \A u \in Tasks \ {t} : waiting'[u] = waiting[u]
    BY <1>0 DEF EnqueueRead, EnqueueWrite, TypeOK
  <2>4. op[t] = "down_read" => waiting'[t]
    BY <1>0 DEF EnqueueRead, EnqueueWrite, TypeOK
  <2> QED BY <1>4, <2>2, <2>3, <2>4
<1>s. /\ Users \subseteq Tasks /\ IsFiniteSet(Users) /\ Cardinality(Users) \in Nat
      /\ Writing \subseteq Tasks /\ IsFiniteSet(Writing) /\ Cardinality(Writing) \in Nat
      /\ ReadOwners \subseteq Tasks /\ WriteOwners \subseteq Tasks
      /\ adjustment \in Int /\ count \in Int /\ ActiveRange \in Int /\ QueueBias \in Int
  BY <1>0, PartTypes
<1>p. (/\ ReadOwners \subseteq Tasks /\ WriteOwners \subseteq Tasks
       /\ Users \subseteq Tasks /\ Writing \subseteq Tasks)'
  BY OwnerTypes, PTL
<1>7. op[t] \in {"down_read", "down_write"}
  BY DEF EnqueueRead, EnqueueWrite
<1>8. /\ \A u \in Tasks : /\ u \in ReadOwners' <=> u \in ReadOwners
                          /\ u \in WriteOwners' <=> u \in WriteOwners
                          /\ u \in Users' <=> u \in Users \ {t}
                          /\ u \in Writing' <=> u \in Writing \ {t}
      /\ t \in Users /\ (t \in Writing <=> op[t] = "down_write")
  BY <1>0, <1>1, <1>3, <1>6, <1>7, MoveOwners DEF InRead
<1>9. /\ ReadOwners' = ReadOwners /\ WriteOwners' = WriteOwners
      /\ Users' = Users \ {t} /\ Writing' = Writing \ {t}
  BY <1>s, <1>p, <1>8
<1>10. Cardinality(Users') + adjustment' = Cardinality(Users) + adjustment + (-1)
  <2>1. Cardinality(Users') = Cardinality(Users) - 1
    BY <1>s, <1>8, <1>9, FS_RemoveElement
  <2> QED BY <1>1, <1>s, <2>1
<1>11. PICK e \in Int : /\ e = (IF op[t] = "down_write" THEN -1 ELSE 0)
                        /\ Cardinality(Writing') = Cardinality(Writing) + e
  <2>1. CASE op[t] = "down_write"
    <3>1. Cardinality(Writing') = Cardinality(Writing) - 1
      BY <1>s, <1>8, <1>9, <2>1, FS_RemoveElement
    <3> QED BY <1>s, <2>1, <3>1
  <2>2. CASE op[t] # "down_write"
    <3>1. Writing' = Writing
      BY <1>8, <1>9, <2>2
    <3> QED BY <1>s, <2>2, <3>1
  <2> QED BY <2>1, <2>2
<1>12. PICK f \in Int : f = (IF wait_list = <<>> THEN 1 ELSE 0) /\ QueueBias' = QueueBias + f
  BY <1>5
<1>13. count' = count + (-1) - ActiveRange * (e + f)
  <2>1. count' = count + EnqueueAdjustment(op[t])
    BY DEF EnqueueRead, EnqueueWrite
  <2>2. EnqueueAdjustment(op[t]) = -1 - ActiveRange * (e + f)
    BY <1>7, <1>11, <1>12, <1>s, Constants DEF EnqueueAdjustment, Bias
  <2>3. ActiveRange * (e + f) \in Int
    BY <1>s
  <2> QED BY <1>s, <2>1, <2>2, <2>3
<1>14. count' = Active' - (ActiveRange * Biases)'
  BY <1>0, <1>10, <1>11, <1>12, <1>13, CountMove
<1>15. \A u \in Tasks : pc'[u] = "grant" => pc[u] = "grant"
  BY <1>0, <1>2 DEF TypeOK
<1> QED BY <1>1, <1>4, <1>5, <1>9, <1>14, <1>15 DEF ShareInv, WriterExclusion, LockMove

\* try_reader_grant and its undo move the grant ahead and ->count together; with the grant in
\* place and ->count not below the bias of the queue, no writer has the lock.
LEMMA ShareTry ==
    ASSUME Structure, TypeOK', ShareInv, NEW t \in Tasks,
           TryReaderGrant(t) \/ WakeReadOwned(t) \/ UndoReaderGrant(t)
    PROVE  /\ ShareInv' /\ LockMove /\ (Queued' <=> Queued)
           /\ UNCHANGED <<ReadOwners, WriteOwners, Users, Writing>>
<1>0. TypeOK /\ OpInv /\ QueueInv /\ WakerInv
  BY DEF Structure
<1>1. UNCHANGED <<wait_list, waiting, loop>> /\ pc[t] \in {"wake", "undo"}
  BY DEF TryReaderGrant, WakeReadOwned, UndoReaderGrant
<1>2. /\ wait_lock = t /\ wait_list # <<>>
      /\ op[t] \in {"down_read", "down_write", "up", "downgrade"}
  BY <1>0, <1>1, ZenonT(60) DEF QueueInv, InWaitLock, WakerInv, OpInv, OpOk, TypeOK, Operations
<1>3. loop = 0 /\ Queued /\ (pc[t] = "wake" => adjustment = 0)
  BY <1>1, <1>2, NoOtherWaker
<1>4. /\ count \in Int /\ READ_BIAS = 1 /\ WAITING_BIAS = -ActiveRange /\ ActiveRange \in Int
      /\ adjustment \in {0, 1}
  BY <1>0, Constants, Sizes DEF TypeOK
<1>5. CASE TryReaderGrant(t)
  <2>1. /\ pc[t] = "wake" /\ op[t] # "downgrade" /\ adjustment' = 1 /\ count' = count + 1
        /\ Goto(t, "undo", op[t]) \/ (Goto(t, "grant", op[t]) /\ ~(count < -ActiveRange))
    BY <1>4, <1>5 DEF TryReaderGrant, ReadOwned
  <2>2. count' = count + (adjustment' - adjustment)
    BY <1>3, <1>4, <2>1
  <2>3. ~(count < -ActiveRange) => WriteOwners = {}
    BY <1>0, <1>3, <1>4, CountSign DEF Writing
  <2> QED BY <1>1, <2>1, <2>2, <2>3, ShareAside DEF InRead
<1>6. CASE WakeReadOwned(t)
  <2>1. /\ pc[t] = "wake" /\ op[t] = "downgrade" /\ adjustment' = 0 /\ count' = count
        /\ Goto(t, "grant", op[t])
    BY <1>6 DEF WakeReadOwned, ReadOwned
  <2>2. count' = count + (adjustment' - adjustment)
    BY <1>3, <1>4, <2>1
  <2>3. WriteOwners = {}
    BY <2>1 DEF ShareInv, WriterExclusion, ReadOwners
  <2> QED BY <1>1, <2>1, <2>2, <2>3, ShareAside DEF InRead
<1>7. CASE UndoReaderGrant(t)
  <2>1. pc[t] = "undo" /\ adjustment' = 0 /\ count' = count - adjustment
    BY <1>7 DEF UndoReaderGrant
  <2>2. count' = count + (adjustment' - adjustment)
    BY <1>4, <2>1
  <2>3. op[t] # "downgrade"
    BY <1>0, <2>1 DEF WakerInv
  <2>4. CASE ReturnFromWake(t)
    <3>1. \/ op[t] = "down_read" /\ Goto(t, "r_set", "down_read")
          \/ op[t] = "down_write" /\ Goto(t, "w_set", "down_write")
          \/ op[t] = "up" /\ Goto(t, "idle", "none")
      BY <2>1, <2>3, <2>4, ReturnFacts
    <3> QED BY <1>1, <2>1, <2>2, <3>1, ShareAside DEF InRead
  <2>5. CASE Goto(t, "wake", op[t])
    BY <1>1, <2>1, <2>2, <2>3, <2>5, ShareAside DEF InRead
  <2> QED BY <1>7, <2>4, <2>5 DEF UndoReaderGrant
<1> QED BY <1>5, <1>6, <1>7

\* The readers at the head are counted at once, and own the lock from here on.
LEMMA ShareGrant ==
    ASSUME Structure, TypeOK', WakerInv', ShareInv, NEW t \in Tasks, GrantReaders(t)
    PROVE  ShareInv' /\ LockMove /\ Users' # {}
<1>0. TypeOK /\ OpInv /\ QueueInv /\ WakerInv
  BY DEF Structure
<1> DEFINE n == LeadingReaders
           S == {wait_list[i] : i \in 1..LeadingReaders}
<1>1. /\ pc[t] = "grant" /\ loop' = n /\ adjustment' = 0 /\ UNCHANGED <<wait_list, waiting>>
      /\ Goto(t, "null", op[t])
      /\ count' = count + n * READ_BIAS - adjustment - (IF n = Len(wait_list) THEN WAITING_BIAS ELSE 0)
  BY DEF GrantReaders
<1>2. /\ n \in 0..Len(wait_list) /\ Len(wait_list) \in Nat /\ n \in Nat
      /\ \A i \in 1..n : op[wait_list[i]] # "down_write"
  BY <1>0, LeadingReadersExist, EntryFacts DEF TypeOK, IsWriter
<1>3. /\ wait_lock = t /\ wait_list # <<>> /\ WriteOwners = {}
  BY <1>0, <1>1 DEF QueueInv, InWaitLock, WakerInv, ShareInv
<1>4. loop = 0 /\ Queued /\ \A u \in Tasks : Granted(u) <=> ~waiting[u]
  BY <1>1, <1>3, NoOtherWaker
<1>5. n > 0
  <2>1. pc'[t] = "null"
    BY <1>0, <1>1 DEF TypeOK, Goto
  <2> QED BY <1>1, <2>1 DEF WakerInv
<1> HIDE DEF n
<1>6. /\ S \subseteq Tasks /\ IsFiniteSet(S) /\ Cardinality(S) = n
      /\ \A u \in S : waiting[u] /\ op[u] = "down_read" /\ pc[u] # "enqueue" /\ ~Granted(u)
  <2>1. \A i \in 1..n : /\ wait_list[i] \in Tasks /\ InList(wait_list, wait_list[i])
                        /\ op[wait_list[i]] # "down_write"
    <3>1. \A i \in 1..n : i \in 1..Len(wait_list)
      BY <1>2
    <3> QED BY <1>0, <1>2, <3>1, EntryFacts DEF TypeOK
  <2>2. S = {wait_list[i] : i \in 1..n}
    BY DEF n
  <2> HIDE DEF S
  <2>3. IsFiniteSet(S) /\ Cardinality(S) = n
    <3>1. wait_list \in Seq(Tasks) /\ DupFree(wait_list)
      BY <1>0 DEF QueueInv, TypeOK
    <3> QED BY <1>2, <2>2, <3>1, PrefixSize
  <2>4. \A u \in S : u \in Tasks /\ InList(wait_list, u) /\ op[u] # "down_write"
    BY <2>1, <2>2
  <2>5. \A u \in S : waiting[u] /\ op[u] = "down_read" /\ pc[u] # "enqueue"
    BY <1>0, <2>4 DEF QueueInv
  <2> QED BY <1>4, <2>3, <2>4, <2>5
<1>7. \A u \in Tasks : Granted(u)' <=> Granted(u) \/ u \in S
  <2>1. \A u \in Tasks : u \in S <=> \E i \in 1..n : wait_list[i] = u
    BY DEF n
  <2> HIDE DEF S
  <2>2. \A u \in Tasks : Granted(u)' <=> ~waiting[u] \/ u \in S
    BY <1>1, <2>1 DEF Granted
  <2> QED BY <1>4, <2>2
<1>8. UNCHANGED op /\ \A u \in Tasks : pc'[u] = IF u = t THEN "null" ELSE pc[u]
  BY <1>0, <1>1 DEF TypeOK, Goto
<1> HIDE DEF S
<1>9. ReadOwners' = ReadOwners \cup S /\ S \cap ReadOwners = {}
  <2>1. \A u \in Tasks : /\ u \in ReadOwners <=> InRead(pc[u], op[u], Granted(u))
                         /\ u \in ReadOwners' <=> InRead(pc'[u], op'[u], Granted(u)')
    BY DEF ReadOwners, GrantedReaders, InRead, Granted
  <2>2. \A u \in S : pc[u] # "reading"
    BY <1>0, <1>6 DEF OpInv, OpOk
  <2> HIDE DEF Granted
  <2>3. \A u \in Tasks : u \in ReadOwners' <=> u \in ReadOwners \cup S
    BY <1>1, <1>6, <1>7, <1>8, <2>1 DEF InRead
  <2>4. \A u \in S : u \notin ReadOwners
    BY <1>6, <2>1, <2>2 DEF InRead
  <2>5. ReadOwners \subseteq Tasks
    BY <1>0, OwnerTypes
  <2>6. ReadOwners' \subseteq Tasks
    BY DEF ReadOwners, GrantedReaders
  <2> QED BY <1>6, <2>3, <2>4, <2>5, <2>6
<1>10. /\ WriteOwners' = WriteOwners /\ Writing' = Writing /\ UNCHANGED Arriving("down_read")
  BY <1>1, <1>8 DEF WriteOwners, Writing, Arriving
<1>11. Users' = Users \cup S /\ S \cap Users = {}
  <2>1. \A u \in S : pc[u] # "writing" /\ pc[u] # "enqueue"
    BY <1>0, <1>6 DEF OpInv, OpOk
  <2> QED BY <1>6, <1>9, <1>10, <2>1 DEF Users, Writing, WriteOwners, Arriving
<1>s. /\ IsFiniteSet(Users) /\ Cardinality(Users) \in Int /\ Cardinality(Writing) \in Int
      /\ adjustment \in Int /\ count \in Int /\ ActiveRange \in Int /\ QueueBias \in Int
  BY <1>0, PartTypes
<1>12. Cardinality(Users') = Cardinality(Users) + n
  <2>1. Cardinality(Users \cup S) = Cardinality(Users) + Cardinality(S) - Cardinality({})
    BY <1>6, <1>11, <1>s, FS_Union
  <2> QED BY <1>2, <1>6, <1>11, <1>s, <2>1, FS_EmptySet
<1>13. PICK d \in Int : d = n - adjustment
  <2>1. n - adjustment \in Int
    BY <1>2, <1>s
  <2> QED BY <2>1, Zenon
<1>14. Cardinality(Users') + adjustment' = Cardinality(Users) + adjustment + d
  BY <1>1, <1>2, <1>12, <1>13, <1>s
<1>15. PICK f \in Int : f = (IF n = Len(wait_list) THEN -1 ELSE 0) /\ QueueBias' = QueueBias + f
  <2>1. Queued' <=> n # Len(wait_list)
    BY <1>1, <1>2 DEF Queued
  <2> QED BY <1>4, <2>1 DEF QueueBias
<1>16. count' = count + d - ActiveRange * (0 + f)
  BY <1>1, <1>2, <1>13, <1>15, <1>s, Constants
<1>17. Cardinality(Writing') = Cardinality(Writing) + 0
  BY <1>10, <1>s
<1>18. count' = Active' - (ActiveRange * Biases)'
  BY <1>0, <1>14, <1>15, <1>16, <1>17, CountMove
<1>19. S # {} /\ Users' # {}
  BY <1>2, <1>5, <1>6, <1>11, FS_EmptySet
<1>20. Abstract!AcquireRead(S)
  BY <1>3, <1>9, <1>10, <1>19 DEF Abstract!AcquireRead
<1>21. Abstract!Next
  BY <1>6, <1>20 DEF Abstract!Next
<1>22. \A u \in Tasks : pc'[u] # "grant"
  <2>1. \A u \in Tasks : u # t => pc[u] # "grant"
    BY <1>0, <1>1 DEF QueueInv, InWaitLock
  <2> QED BY <1>8, <2>1
<1> QED BY <1>3, <1>10, <1>18, <1>19, <1>21, <1>22 DEF ShareInv, WriterExclusion, LockMove

\* waiter->task = NULL passes no lock on: the reader has owned it since the grant.
LEMMA ShareClear ==
    ASSUME Structure, TypeOK', ShareInv, NEW t \in Tasks, ClearWaiterTask(t)
    PROVE  /\ ShareInv' /\ LockMove /\ (Queued' <=> Queued)
           /\ UNCHANGED <<ReadOwners, WriteOwners, Users, Writing>>
<1>0. TypeOK /\ OpInv /\ QueueInv /\ WakerInv
  BY DEF Structure
<1>h. PICK h : h = Head(wait_list)
  OBVIOUS
<1>1. /\ pc[t] = "null" /\ waiting' = [waiting EXCEPT ![h] = FALSE]
      /\ wait_list' = Tail(wait_list) /\ loop' = loop - 1
      /\ Goto(t, "proc", op[t]) /\ UNCHANGED <<count, adjustment>>
  BY <1>h DEF ClearWaiterTask
<1>2. loop \in Nat /\ loop > 0 /\ loop <= Len(wait_list) /\ wait_list # <<>>
  <2>1. loop \in Nat /\ loop > 0 /\ loop <= Len(wait_list)
    BY <1>0, <1>1 DEF WakerInv, TypeOK
  <2> QED BY <1>0, <2>1, EmptySeq DEF TypeOK
<1>3. /\ h = wait_list[1] /\ h \in Tasks /\ Len(wait_list) \in Nat
      /\ Len(wait_list') = Len(wait_list) - 1
      /\ \A i \in 1..Len(wait_list) - 1 : wait_list'[i] = wait_list[i + 1]
  BY <1>0, <1>1, <1>2, <1>h, HeadFacts, HeadTailProperties DEF TypeOK
<1>4. Queued' <=> Queued
  BY <1>1, <1>2, <1>3 DEF Queued
<1>5. \A u \in Tasks : Granted(u)' <=> Granted(u)
  <2>1. Granted(h)' /\ Granted(h)
    <3>1. waiting'[h] = FALSE /\ 1 \in 1..loop
      BY <1>0, <1>1, <1>2, <1>3 DEF TypeOK
    <3>2. \E i \in 1..loop : wait_list[i] = h
      BY <1>3, <3>1
    <3> QED BY <3>1, <3>2 DEF Granted
  <2>2. ASSUME NEW u \in Tasks, u # h PROVE Granted(u)' <=> Granted(u)
    <3>1. waiting'[u] = waiting[u]
      BY <1>0, <1>1, <1>3, <2>2 DEF TypeOK
    <3>2. ASSUME NEW i \in 1..loop, wait_list[i] = u PROVE \E j \in 1..loop' : wait_list'[j] = u
      <4>1. i # 1
        BY <1>3, <2>2, <3>2
      <4>2. i - 1 \in 1..loop' /\ i - 1 \in 1..Len(wait_list) - 1 /\ (i - 1) + 1 = i
        BY <1>1, <1>2, <1>3, <4>1
      <4>3. wait_list'[i - 1] = u
        BY <1>3, <3>2, <4>2
      <4> QED BY <4>2, <4>3
    <3>3. ASSUME NEW i \in 1..loop', wait_list'[i] = u PROVE \E j \in 1..loop : wait_list[j] = u
      <4>1. i + 1 \in 1..loop /\ i \in 1..Len(wait_list) - 1
        BY <1>1, <1>2, <1>3
      <4> QED BY <1>3, <3>3, <4>1
    <3> QED BY <3>1, <3>2, <3>3 DEF Granted
  <2> HIDE DEF Granted
  <2> QED BY <2>1, <2>2
<1>6. op[t] # "none" /\ (pc[t] # "enqueue") /\ (op[t] = "downgrade" \/ op[t] # "downgrade")
  BY <1>0, <1>1 DEF OpInv, OpOk
<1>7. \A u \in Tasks : /\ u \in ReadOwners' <=> u \in ReadOwners
                       /\ u \in WriteOwners' <=> u \in WriteOwners
                       /\ u \in Users' <=> u \in Users
                       /\ u \in Writing' <=> u \in Writing
  BY <1>0, <1>1, <1>5, MoveOwners DEF InRead
<1>8. /\ ReadOwners \subseteq Tasks /\ WriteOwners \subseteq Tasks
      /\ Users \subseteq Tasks /\ Writing \subseteq Tasks
  BY <1>0, OwnerTypes
<1>9. (/\ ReadOwners \subseteq Tasks /\ WriteOwners \subseteq Tasks
       /\ Users \subseteq Tasks /\ Writing \subseteq Tasks)'
  BY OwnerTypes, PTL
<1>10. UNCHANGED <<ReadOwners, WriteOwners, Users, Writing>>
  BY <1>7, <1>8, <1>9
<1>11. \A u \in Tasks : pc'[u] = "grant" => WriteOwners = {}
  BY <1>0, <1>1 DEF TypeOK, Goto, ShareInv
<1>12. QueueBias' = QueueBias /\ count' = count + (adjustment' - adjustment)
  BY <1>0, <1>1, <1>4, Sizes DEF QueueBias, TypeOK
<1>13. ShareInv' /\ LockMove
  BY <1>0, <1>10, <1>11, <1>12, ShareSame
<1> QED BY <1>4, <1>10, <1>13

\* cmpxchg(&sem->count, RWSEM_WAITING_BIAS, ...) succeeds when nobody uses the lock.
LEMMA ShareAcquire ==
    ASSUME Structure, TypeOK', ShareInv, NEW t \in Tasks, WriterAcquire(t)
    PROVE  ShareInv' /\ LockMove /\ Users' # {}
<1>0. TypeOK /\ OpInv /\ QueueInv /\ WakerInv
  BY DEF Structure
<1>1. /\ pc[t] = "w_try" /\ count = WAITING_BIAS /\ count' = StolenCount
      /\ wait_list' = RemoveFirst(wait_list, t) /\ Goto(t, "writing", "none")
      /\ UNCHANGED <<waiting, adjustment, loop>>
  BY DEF WriterAcquire, wakerVars
<1>2. wait_lock = t /\ op[t] = "down_write" /\ InList(wait_list, t)
  BY <1>0, <1>1 DEF QueueInv, InWaitLock, OpInv, OpOk
<1>3. /\ loop = 0 /\ adjustment = 0 /\ (Queued <=> wait_list # <<>>)
      /\ \A u \in Tasks : Granted(u) <=> ~waiting[u]
      /\ \A u \in Tasks : u # t => pc[u] \notin Waking
  BY <1>1, <1>2, NoOtherWaker
<1>4. Users = {} /\ ReadOwners = {} /\ WriteOwners = {} /\ Writing = {}
  BY <1>0, <1>1, CountSign, Constants DEF Users, Writing
<1>5. PICK k \in DOMAIN wait_list : wait_list[k] = t
  BY <1>2 DEF InList
<1>6. /\ Len(wait_list) \in Nat /\ Len(wait_list) > 0 /\ Len(wait_list') = Len(wait_list) - 1
  <2>1. Len(wait_list') = Len(wait_list) - 1
    <3>1. wait_list \in Seq(Tasks) /\ DupFree(wait_list)
      BY <1>0 DEF QueueInv, TypeOK
    <3>2. Len(RemoveFirst(wait_list, wait_list[k])) = Len(wait_list) - 1
      BY <3>1, RemoveFirstEntry
    <3> QED BY <1>1, <1>5, <3>2
  <2>2. Len(wait_list) \in Nat /\ DOMAIN wait_list = 1..Len(wait_list)
    BY <1>0, LenProperties DEF TypeOK
  <2> QED BY <1>5, <2>1, <2>2
<1>7. \A u \in Tasks : Granted(u)' <=> Granted(u)
  BY <1>1, <1>3 DEF Granted
<1>8. ReadOwners' = {} /\ WriteOwners' = {t} /\ Users' = {t} /\ Writing' = {t}
  <2>1. \A u \in Tasks : /\ u \in ReadOwners' <=> u \in {}
                         /\ u \in WriteOwners' <=> u \in {t}
                         /\ u \in Users' <=> u \in {t}
                         /\ u \in Writing' <=> u \in {t}
    BY <1>0, <1>1, <1>4, <1>7, MoveOwners DEF InRead
  <2>2. (/\ ReadOwners \subseteq Tasks /\ WriteOwners \subseteq Tasks
         /\ Users \subseteq Tasks /\ Writing \subseteq Tasks)'
    BY OwnerTypes, PTL
  <2> QED BY <2>1, <2>2
<1>9. /\ Cardinality(Users) = 0 /\ Cardinality(Writing) = 0
      /\ Cardinality(Users') = 1 /\ Cardinality(Writing') = 1
  BY <1>4, <1>8, FS_EmptySet, FS_Singleton
<1>10. /\ Cardinality(Users') + adjustment' = Cardinality(Users) + adjustment + 1
       /\ Cardinality(Writing') = Cardinality(Writing) + 1
  BY <1>1, <1>3, <1>9
<1>11. PICK f \in Int : f = (IF Len(wait_list) = 1 THEN -1 ELSE 0) /\ QueueBias' = QueueBias + f
  <2>1. Queued /\ (Queued' <=> Len(wait_list) # 1)
    BY <1>1, <1>3, <1>6 DEF Queued
  <2> QED BY <2>1 DEF QueueBias
<1>12. count' = count + 1 - ActiveRange * (1 + f)
  BY <1>1, <1>11, Constants DEF StolenCount
<1>13. count' = Active' - (ActiveRange * Biases)'
  BY <1>0, <1>10, <1>11, <1>12, CountMove
<1>14. Abstract!AcquireWrite(t)
  BY <1>4, <1>8 DEF Abstract!AcquireWrite
<1>15. Abstract!Next
  BY <1>14 DEF Abstract!Next
<1>16. \A u \in Tasks : pc'[u] # "grant"
  BY <1>0, <1>1, <1>3 DEF TypeOK, Goto, Waking
<1> QED BY <1>8, <1>13, <1>15, <1>16 DEF ShareInv, WriterExclusion, LockMove

LEMMA ShareReturn ==
    ASSUME Structure, TypeOK', ShareInv, NEW t \in Tasks,
           WakeLock(t) \/ WakeWriter(t) \/ WakeUpProcess(t)
    PROVE  /\ ShareInv' /\ LockMove /\ (Queued' <=> Queued) /\ adjustment' = adjustment
           /\ UNCHANGED <<ReadOwners, WriteOwners, Users, Writing>>
<1>0. TypeOK /\ OpInv /\ QueueInv /\ WakerInv
  BY DEF Structure
<1>1. /\ UNCHANGED <<wait_list, waiting, loop, count, adjustment>>
      /\ pc[t] \in {"wake_lock", "wake", "proc"}
  <2>1. CASE WakeLock(t)
    BY <2>1 DEF WakeLock, wakerVars
  <2>2. CASE WakeWriter(t)
    BY <2>2 DEF WakeWriter, wakerVars
  <2>3. CASE WakeUpProcess(t)
    BY <2>3 DEF WakeUpProcess
  <2> QED BY <2>1, <2>2, <2>3
<1>2. count' = count + (adjustment' - adjustment)
  BY <1>0, <1>1, Sizes DEF TypeOK
<1>3. CASE ReturnFromWake(t)
  <2>1. \/ op[t] = "down_read" /\ Goto(t, "r_set", "down_read")
        \/ op[t] = "down_write" /\ Goto(t, "w_set", "down_write")
        \/ op[t] = "up" /\ Goto(t, "idle", "none")
        \/ op[t] = "downgrade" /\ Goto(t, "reading", "none")
    BY <1>1, <1>3, ReturnFacts
  <2> QED BY <1>1, <1>2, <2>1, ShareAside DEF InRead
<1>4. CASE Goto(t, "wake", op[t]) \/ Goto(t, "null", op[t])
  BY <1>1, <1>2, <1>4, ShareAside DEF InRead
<1> QED BY <1>3, <1>4 DEF WakeLock, WakeWriter, WakeUpProcess

LEMMA ShareWait ==
    ASSUME Structure, TypeOK', ShareInv, NEW t \in Tasks,
           \/ ReaderSetState(t) \/ ReaderCheck(t) \/ ReaderSchedule(t)
           \/ WriterSetState(t) \/ WriterTryFails(t) \/ WriterSchedule(t)
           \/ WriterReadCount(t) \/ WriterRelock(t)
    PROVE  /\ ShareInv' /\ LockMove /\ (Queued' <=> Queued) /\ adjustment' = adjustment
           /\ UNCHANGED <<ReadOwners, WriteOwners, Users, Writing>>
<1>0. TypeOK /\ OpInv /\ QueueInv /\ WakerInv
  BY DEF Structure
<1>1. CASE ReaderSetState(t) \/ ReaderCheck(t) \/ ReaderSchedule(t)
  <2>1. /\ pc[t] \in {"r_set", "r_check", "r_sched"} /\ op[t] = "down_read"
        /\ UNCHANGED <<wait_list, waiting, loop, count, adjustment>>
    BY <1>0, <1>1 DEF ReaderSetState, ReaderCheck, ReaderSchedule, wakerVars, OpInv, OpOk
  <2>2. \/ \E l \in {"r_set", "r_check", "r_sched"} : Goto(t, l, op[t])
        \/ Granted(t) /\ Goto(t, "reading", "none")
    BY <1>1 DEF ReaderSetState, ReaderCheck, ReaderSchedule, Granted
  <2>3. count' = count + (adjustment' - adjustment)
    BY <1>0, <2>1, Sizes DEF TypeOK
  <2> QED BY <2>1, <2>2, <2>3, ShareAside DEF InRead
<1>2. CASE \/ WriterSetState(t) \/ WriterTryFails(t) \/ WriterSchedule(t)
           \/ WriterReadCount(t) \/ WriterRelock(t)
  <2>1. /\ pc[t] \in {"w_set", "w_try", "w_sched", "w_read", "w_relock"}
        /\ UNCHANGED <<wait_list, waiting, loop, count, adjustment>>
        /\ \E l \in {"w_try", "w_sched", "w_read", "w_relock"} : Goto(t, l, op[t])
    BY <1>2 DEF WriterSetState, WriterTryFails, WriterSchedule, WriterReadCount, WriterRelock,
                wakerVars
  <2>2. op[t] = "down_write"
    BY <1>0, <2>1 DEF OpInv, OpOk
  <2>3. count' = count + (adjustment' - adjustment)
    BY <1>0, <2>1, Sizes DEF TypeOK
  <2> QED BY <2>1, <2>2, <2>3, ShareAside DEF InRead
<1> QED BY <1>1, <1>2

LEMMA ShareClose ==
    ASSUME ShareInv, Close \/ UNCHANGED vars
    PROVE  /\ ShareInv' /\ LockMove /\ (Queued' <=> Queued)
           /\ UNCHANGED <<ReadOwners, WriteOwners, Users, Writing>>
<1>1. UNCHANGED <<count, wait_list, pc, op, waiting, adjustment, loop>>
  BY DEF Close, vars, wakerVars
<1>2. UNCHANGED <<ReadOwners, WriteOwners, Users, Writing>> /\ (Queued' <=> Queued)
  BY <1>1 DEF ReadOwners, GrantedReaders, WriteOwners, Users, Writing, Arriving, Queued
<1>3. Active' = Active /\ Biases' = Biases
  BY <1>1, <1>2 DEF Active, Biases, QueueBias
<1> QED BY <1>1, <1>2, <1>3 DEF ShareInv, WriterExclusion, LockMove

LEMMA ShareStep ==
    ASSUME Structure, Structure', ShareInv, Next
    PROVE  ShareInv' /\ LockMove
<1>0. TypeOK' /\ QueueInv' /\ WakerInv'
  BY DEF Structure
<1>1. ASSUME NEW t \in Tasks, StartCall(t) \/ DowngradeWrite(t) \/ Release(t)
      PROVE  ShareInv' /\ LockMove
  BY <1>0, <1>1, ShareDown, ShareUp
<1>2. ASSUME NEW t \in Tasks, Wake(t) PROVE ShareInv' /\ LockMove
  BY <1>0, <1>2, ShareReturn, ShareTry, ShareGrant, ShareClear DEF Wake
<1>3. ASSUME NEW t \in Tasks, WaitForLock(t) PROVE ShareInv' /\ LockMove
  BY <1>0, <1>3, ShareEnqueue, ShareWait, ShareAcquire DEF WaitForLock
<1>4. CASE Close
  BY <1>4, ShareClose
<1> QED BY <1>1, <1>2, <1>3, <1>4 DEF Next

-----------------------------------------------------------------------------
(* Wake-ups.                                                               *)

\* Somebody waits while nobody has the lock, arrives for it or has a grant ahead.
Unwatched == Queued /\ Users = {} /\ adjustment = 0

\* A task that will look at the queue, or try to take the lock, before it sleeps.
WillWake(t) ==
    \/ pc[t] = "wake_lock" /\ op[t] = "up"
    \/ pc[t] = "wake" /\ op[t] \in {"up", "down_read"}
    \/ pc[t] = "wake" /\ op[t] = "down_write" /\ op[Head(wait_list)] # "down_write"
    \/ pc[t] \in {"w_set", "w_try"} /\ ActivePart(lcount[t]) = 0
    \/ pc[t] \in {"w_read", "w_relock"}
    \/ pc[t] = "w_sched" /\ running[t]

WakeInv ==
    /\ Unwatched => \E t \in Tasks : WillWake(t)
    /\ \A t \in Tasks : pc[t] = "w_relock" => ActivePart(lcount[t]) = 0

\* A reader that has been granted the lock is awake, or about to be woken.
SleepInv ==
    \A t \in Tasks : pc[t] = "r_sched" /\ ~waiting[t] =>
        running[t] \/ (tsk = t /\ \E w \in Tasks : pc[w] = "proc")

LEMMA UnwatchedCount ==
    TypeOK /\ ShareInv /\ Unwatched =>
        count = WAITING_BIAS /\ ActivePart(count) = 0 /\ count < -1 /\ count < 0
<1> SUFFICES ASSUME TypeOK, ShareInv, Unwatched
             PROVE  count = WAITING_BIAS /\ ActivePart(count) = 0 /\ count < -1 /\ count < 0
  OBVIOUS
<1>1. Writing = {}
  BY DEF Unwatched, Users
<1>2. Active = 0 /\ Biases = 1
  BY <1>1, FS_EmptySet DEF Unwatched, Active, Biases, QueueBias
<1>3. count = 0 - ActiveRange * 1
  BY <1>2 DEF ShareInv
<1> QED BY <1>2, <1>3, CountSign, Constants

LEMMA WakeStep ==
    ASSUME Structure, Structure', ShareInv, ShareInv', WakeInv, Next
    PROVE  (Unwatched => \E t \in Tasks : WillWake(t))'
<1>0. TypeOK /\ OpInv /\ QueueInv /\ WakerInv /\ TypeOK' /\ QueueInv' /\ WakerInv'
  BY DEF Structure
<1> SUFFICES ASSUME Unwatched' PROVE \E t \in Tasks : WillWake(t)'
  OBVIOUS
<1>u. (count = WAITING_BIAS /\ ActivePart(count) = 0 /\ count < -1 /\ count < 0)'
  BY <1>0, UnwatchedCount, PTL
<1>a. count' = WAITING_BIAS /\ count' < -1 /\ count' < 0
  BY <1>u DEF WAITING_BIAS
<1>b. ActivePart(count') = 0 /\ Users' = {} /\ adjustment' = 0 /\ Queued'
  BY <1>u DEF ActivePart, Unwatched
<1>c. ASSUME Queued' <=> Queued, UNCHANGED <<Users, adjustment>>
      PROVE  /\ Unwatched /\ count = WAITING_BIAS /\ ActivePart(count) = 0
             /\ \E w \in Tasks : WillWake(w)
  BY <1>0, <1>b, <1>c, UnwatchedCount DEF Unwatched, WakeInv
<1>d. ASSUME NEW t \in Tasks, NEW l, NEW o, Goto(t, l, o), NEW w \in Tasks, w # t, WillWake(w),
             lcount'[w] = lcount[w], running[w] => running'[w], pc[w] # "wake"
      PROVE  WillWake(w)'
  <2>1. pc'[w] = pc[w] /\ op'[w] = op[w]
    BY <1>0, <1>d DEF TypeOK, Goto
  <2> QED BY <1>d, <2>1 DEF WillWake, ActivePart
<1>f. ASSUME NEW t \in Tasks, NEW l, NEW o, Goto(t, l, o)
      PROVE  pc'[t] = l /\ op'[t] = o
  BY <1>0, <1>f DEF TypeOK, Goto
<1>1. ASSUME NEW t \in Tasks, StartCall(t) \/ GrantReaders(t) \/ WriterAcquire(t) PROVE FALSE
  BY <1>0, <1>1, <1>b, ShareDown, ShareGrant, ShareAcquire
<1>2. ASSUME NEW t \in Tasks, DowngradeWrite(t) PROVE FALSE
  <2>1. pc'[t] = "reading" \/ op'[t] = "downgrade"
    BY <1>2, <1>f DEF DowngradeWrite
  <2> QED BY <1>b, <2>1 DEF Users, ReadOwners
<1>3. ASSUME NEW t \in Tasks, Release(t) PROVE WillWake(t)'
  <2>1. Goto(t, "wake_lock", "up")
    BY <1>3, <1>a, <1>b DEF Release, UpRead, UpWrite
  <2> QED BY <1>f, <2>1 DEF WillWake
<1>4. ASSUME NEW t \in Tasks, EnqueueRead(t) PROVE WillWake(t)'
  <2>1. pc' = [pc EXCEPT ![t] = "wake"] /\ op[t] = "down_read" /\ UNCHANGED op
    BY <1>4, <1>a DEF EnqueueRead
  <2> QED BY <1>0, <2>1 DEF WillWake, TypeOK
<1>5. ASSUME NEW t \in Tasks, EnqueueWrite(t) PROVE WillWake(t)'
  <2>1. ~(count' > WAITING_BIAS)
    BY <1>a, Constants
  <2>2. pc' = [pc EXCEPT ![t] = "w_set"] /\ lcount' = [lcount EXCEPT ![t] = count']
    BY <1>5, <2>1 DEF EnqueueWrite
  <2>3. pc'[t] = "w_set" /\ lcount'[t] = count'
    BY <1>0, <2>2 DEF TypeOK
  <2> QED BY <1>b, <2>3 DEF WillWake, ActivePart
<1>6. ASSUME NEW t \in Tasks, WakeLock(t) PROVE WillWake(t)'
  <2>1. Unwatched
    BY <1>0, <1>6, <1>c, ShareReturn
  <2>2. pc[t] = "wake_lock" /\ wait_lock = NoTask
    BY <1>6 DEF WakeLock
  <2>3. wait_list # <<>>
    BY <2>1, <2>2, NoOtherWaker DEF Unwatched
  <2>4. op[t] \in {"up", "downgrade"} /\ op[t] # "downgrade"
    BY <1>0, <2>1, <2>2 DEF OpInv, OpOk, Unwatched, Users, ReadOwners
  <2>5. Goto(t, "wake", op[t])
    BY <1>6, <2>3 DEF WakeLock
  <2> QED BY <1>f, <2>4, <2>5 DEF WillWake
<1>7. ASSUME NEW t \in Tasks, WakeWriter(t) PROVE \E w \in Tasks : WillWake(w)'
  <2>1. Unwatched /\ \E w \in Tasks : WillWake(w)
    BY <1>0, <1>7, <1>c, ShareReturn
  <2>2. /\ pc[t] = "wake" /\ ReturnFromWake(t) /\ op[Head(wait_list)] = "down_write"
        /\ UNCHANGED <<wait_list, lcount>>
        /\ running' = IF WakeAny(t) THEN [running EXCEPT ![Head(wait_list)] = TRUE] ELSE running
    BY <1>7 DEF WakeWriter, IsWriter
  <2>3. wait_list # <<>> /\ wait_lock = t /\ \A u \in Tasks : u # t => pc[u] \notin InWaitLock
    BY <1>0, <2>2 DEF WakerInv, QueueInv, InWaitLock
  <2>4. PICK l, o : Goto(t, l, o)
    BY <2>2, ReturnFacts
  <2>5. CASE WakeAny(t)
    <3>1. PICK h \in Tasks : h = Head(wait_list)
      BY <1>0, <2>3, HeadFacts DEF TypeOK
    <3>2. h # t /\ InList(wait_list, h)
      BY <1>0, <2>2, <2>3, <2>5, <3>1, HeadFacts DEF WakeAny, TypeOK
    <3>3. op[h] = "down_write" /\ pc[h] # "enqueue" /\ pc[h] \notin InWaitLock
      BY <1>0, <2>2, <2>3, <3>1, <3>2 DEF QueueInv
    <3>4. pc[h] \in {"w_sched", "w_read", "w_relock"}
      BY <1>0, <3>3 DEF OpInv, OpOk, TypeOK, Locations, InWaitLock
    <3>5. pc'[h] = pc[h] /\ running'[h]
      BY <1>0, <2>2, <2>4, <2>5, <3>1, <3>2 DEF TypeOK, Goto
    <3> QED BY <3>4, <3>5 DEF WillWake
  <2>6. CASE ~WakeAny(t)
    <3>1. op[t] # "downgrade"
      BY <2>1 DEF Unwatched, Users, ReadOwners
    <3>2. op[t] = "down_write"
      BY <1>0, <2>2, <2>6, <3>1 DEF WakeAny, OpInv, OpOk, TypeOK, Operations
    <3>3. ~WillWake(t)
      BY <2>2, <3>2 DEF WillWake
    <3>4. PICK w \in Tasks : WillWake(w)
      BY <2>1
    <3>5. w # t /\ pc[w] # "wake" /\ lcount'[w] = lcount[w] /\ running'[w] = running[w]
      BY <2>2, <2>3, <2>6, <3>3, <3>4 DEF InWaitLock
    <3> QED BY <1>d, <2>4, <3>4, <3>5
  <2> QED BY <2>5, <2>6
<1>8. ASSUME NEW t \in Tasks, TryReaderGrant(t) \/ WakeReadOwned(t) PROVE FALSE
  <2>1. CASE TryReaderGrant(t)
    BY <1>b, <2>1, Constants DEF TryReaderGrant
  <2>2. CASE WakeReadOwned(t)
    <3>1. op'[t] = "downgrade"
      BY <1>f, <2>2 DEF WakeReadOwned, ReadOwned
    <3> QED BY <1>b, <3>1 DEF Users, ReadOwners
  <2> QED BY <1>8, <2>1, <2>2
<1>9. ASSUME NEW t \in Tasks, UndoReaderGrant(t) PROVE WillWake(t)'
  <2>1. /\ pc[t] = "undo" /\ Goto(t, "wake", op[t]) /\ UNCHANGED wait_list
    BY <1>9, <1>b DEF UndoReaderGrant
  <2>2. /\ op[t] # "downgrade" /\ op[Head(wait_list)] = "down_read" /\ wait_list # <<>>
        /\ op[t] \in {"down_read", "down_write", "up"}
    BY <1>0, <2>1 DEF WakerInv, OpInv, OpOk, TypeOK, Operations
  <2>3. pc'[t] = "wake" /\ op'[t] = op[t] /\ UNCHANGED op
    BY <1>0, <2>1 DEF TypeOK, Goto
  <2>4. op'[Head(wait_list')] # "down_write"
    BY <2>1, <2>2, <2>3
  <2> QED BY <2>2, <2>3, <2>4 DEF WillWake
<1>10. ASSUME NEW t \in Tasks, ClearWaiterTask(t) PROVE FALSE
  <2>1. Users = {}
    BY <1>0, <1>10, <1>b, ShareClear
  <2>2. loop > 0 /\ loop <= Len(wait_list) /\ loop \in Nat /\ op[wait_list[1]] = "down_read"
    <3>1. loop > 0 /\ loop \in Nat /\ loop <= Len(wait_list)
      BY <1>0, <1>10 DEF ClearWaiterTask, WakerInv, TypeOK
    <3>2. 1 \in 1..loop
      BY <3>1
    <3> QED BY <1>0, <3>1, <3>2 DEF WakerInv
  <2>3. wait_list[1] \in Tasks /\ InList(wait_list, wait_list[1]) /\ 1 \in 1..loop
    <3>1. 1 \in 1..Len(wait_list) /\ 1 \in 1..loop
      BY <1>0, <2>2, EntryFacts DEF TypeOK
    <3> QED BY <1>0, <3>1, EntryFacts DEF TypeOK
  <2>4. pc[wait_list[1]] # "enqueue"
    BY <1>0, <2>3 DEF QueueInv
  <2> QED BY <2>1, <2>2, <2>3, <2>4 DEF Users, ReadOwners, GrantedReaders
<1>11. ASSUME NEW t \in Tasks, WakeUpProcess(t) PROVE \E w \in Tasks : WillWake(w)'
  <2>1. \E w \in Tasks : WillWake(w)
    BY <1>0, <1>11, <1>c, ShareReturn
  <2>2. pc[t] = "proc" /\ UNCHANGED lcount /\ running' = [running EXCEPT ![tsk] = TRUE]
    BY <1>11 DEF WakeUpProcess
  <2>3. PICK l, o : Goto(t, l, o)
    BY <1>11, <2>2, ReturnFacts DEF WakeUpProcess
  <2>4. PICK w \in Tasks : WillWake(w)
    BY <2>1
  <2>5. w # t /\ lcount'[w] = lcount[w] /\ (running[w] => running'[w])
    BY <1>0, <2>2, <2>4 DEF WillWake, TypeOK
  <2>6. pc[w] # "wake"
    BY <1>0, <2>2, <2>5 DEF QueueInv, InWaitLock
  <2> QED BY <1>d, <2>3, <2>4, <2>5, <2>6
<1>12. ASSUME NEW t \in Tasks, ReaderSetState(t) \/ ReaderCheck(t) \/ ReaderSchedule(t)
       PROVE  \E w \in Tasks : WillWake(w)'
  <2>1. \E w \in Tasks : WillWake(w)
    BY <1>0, <1>12, <1>c, ShareWait
  <2>2. /\ pc[t] \in {"r_set", "r_check", "r_sched"} /\ UNCHANGED <<lcount, wait_list>>
        /\ \E l, o : Goto(t, l, o)
    BY <1>12 DEF ReaderSetState, ReaderCheck, ReaderSchedule
  <2>3. PICK w \in Tasks : WillWake(w)
    BY <2>1
  <2>4. w # t
    BY <2>2, <2>3 DEF WillWake
  <2>5. running'[w] = running[w]
    BY <1>0, <1>12, <2>4 DEF ReaderSetState, ReaderCheck, ReaderSchedule, TypeOK
  <2>6. CASE pc[w] # "wake"
    BY <1>d, <2>2, <2>3, <2>4, <2>5, <2>6
  <2>7. CASE pc[w] = "wake"
    <3>1. pc'[w] = pc[w] /\ op'[w] = op[w]
      BY <1>0, <2>2, <2>4 DEF TypeOK, Goto
    <3>2. op[Head(wait_list)] # "down_write" => op'[Head(wait_list')] # "down_write"
      <4>1. wait_list # <<>> /\ Head(wait_list) \in Tasks
        BY <1>0, <2>7, HeadFacts DEF WakerInv, TypeOK
      <4>2. op'[t] # "down_write"
        <5>1. op[t] = "down_read"
          BY <1>0, <2>2 DEF OpInv, OpOk
        <5>2. op'[t] \in {op[t], "none"}
          BY <1>f, <1>12 DEF ReaderSetState, ReaderCheck, ReaderSchedule
        <5> QED BY <5>1, <5>2
      <4> QED BY <1>0, <2>2, <4>1, <4>2 DEF TypeOK, Goto
    <3> QED BY <2>3, <2>7, <3>1, <3>2 DEF WillWake
  <2> QED BY <2>6, <2>7
<1>13. ASSUME NEW t \in Tasks, WriterSetState(t) \/ WriterTryFails(t)
       PROVE  \E w \in Tasks : WillWake(w)'
  <2>1. count = WAITING_BIAS /\ \E w \in Tasks : WillWake(w)
    BY <1>0, <1>13, <1>c, ShareWait
  <2>2. pc[t] \in {"w_set", "w_try"} /\ UNCHANGED wait_list /\ \E l, o : Goto(t, l, o)
    BY <1>13 DEF WriterSetState, WriterTryFails
  <2>3. PICK w \in Tasks : WillWake(w)
    BY <2>1
  <2>4. CASE w = t
    <3>1. ActivePart(lcount[t]) = 0
      BY <2>2, <2>3, <2>4 DEF WillWake
    <3>2. WriterSetState(t)
      BY <1>13, <2>1, <3>1 DEF WriterTryFails
    <3>3. pc'[t] = "w_try" /\ lcount'[t] = lcount[t]
      BY <1>f, <3>2 DEF WriterSetState
    <3> QED BY <3>1, <3>3 DEF WillWake, ActivePart
  <2>5. CASE w # t
    <3>1. pc[w] # "wake"
      BY <1>0, <2>2, <2>5 DEF QueueInv, InWaitLock
    <3>2. lcount'[w] = lcount[w] /\ running'[w] = running[w]
      BY <1>0, <1>13, <2>5 DEF WriterSetState, WriterTryFails, TypeOK
    <3> QED BY <1>d, <2>2, <2>3, <2>5, <3>1, <3>2
  <2> QED BY <2>4, <2>5
<1>14. ASSUME NEW t \in Tasks, WriterSchedule(t) PROVE WillWake(t)'
  BY <1>14, <1>f DEF WriterSchedule, WillWake
<1>15. ASSUME NEW t \in Tasks, WriterReadCount(t) PROVE WillWake(t)'
  <2>1. ActivePart(count) = 0
    BY <1>0, <1>15, <1>c, ShareWait
  <2> QED BY <1>15, <1>f, <2>1 DEF WriterReadCount, WillWake
<1>16. ASSUME NEW t \in Tasks, WriterRelock(t) PROVE WillWake(t)'
  <2>1. pc'[t] = "w_try" /\ lcount'[t] = lcount[t] /\ ActivePart(lcount[t]) = 0
    BY <1>16, <1>f DEF WriterRelock, WakeInv
  <2> QED BY <2>1 DEF WillWake, ActivePart
<1>17. ASSUME Close PROVE \E w \in Tasks : WillWake(w)'
  <2>1. adjustment' = adjustment /\ UNCHANGED <<wait_list, pc, op, running, lcount>>
    BY <1>17 DEF Close, wakerVars
  <2>2. \E w \in Tasks : WillWake(w)
    BY <1>17, <1>c, <2>1, ShareClose
  <2> QED BY <2>1, <2>2 DEF WillWake, ActivePart
<1> QED BY <1>1, <1>2, <1>3, <1>4, <1>5, <1>6, <1>7, <1>8, <1>9, <1>10, <1>11, <1>12, <1>13,
           <1>14, <1>15, <1>16, <1>17 DEF Next, Wake, WaitForLock

LEMMA RelockStep ==
    ASSUME Structure, WakeInv, Next
    PROVE  (\A t \in Tasks : pc[t] = "w_relock" => ActivePart(lcount[t]) = 0)'
<1>0. TypeOK /\ \A t \in Tasks : pc[t] = "w_relock" => ActivePart(lcount[t]) = 0
  BY DEF Structure, WakeInv
<1> SUFFICES ASSUME NEW u \in Tasks, pc'[u] = "w_relock" PROVE ActivePart(lcount'[u]) = 0
  BY DEF ActivePart
<1>1. ASSUME pc[u] = "w_relock", lcount'[u] = lcount[u] PROVE ActivePart(lcount'[u]) = 0
  BY <1>0, <1>1
<1>2. ASSUME NEW t \in Tasks, NEW l, NEW o, Goto(t, l, o), l # "w_relock",
             \A w \in Tasks : w # t => lcount'[w] = lcount[w]
      PROVE  ActivePart(lcount'[u]) = 0
  BY <1>0, <1>1, <1>2 DEF TypeOK, Goto
<1>3. ASSUME NEW t \in Tasks, StartCall(t) \/ DowngradeWrite(t) \/ Release(t)
      PROVE  ActivePart(lcount'[u]) = 0
  <2>1. UNCHANGED lcount
    BY <1>3 DEF StartCall, DownRead, DownReadTrylock, DownWrite, DownWriteTrylock, Release,
                UpRead, UpWrite, DowngradeWrite, slowVars
  <2>2. \E l, o : Goto(t, l, o) /\ l # "w_relock"
    BY <1>3 DEF StartCall, DownRead, DownReadTrylock, DownWrite, DownWriteTrylock, Release,
                UpRead, UpWrite, DowngradeWrite
  <2> QED BY <1>2, <2>1, <2>2
<1>4. ASSUME NEW t \in Tasks, Wake(t) PROVE ActivePart(lcount'[u]) = 0
  <2>1. UNCHANGED lcount
    BY <1>4 DEF Wake, WakeLock, WakeWriter, TryReaderGrant, WakeReadOwned, UndoReaderGrant,
                GrantReaders, ClearWaiterTask, WakeUpProcess
  <2>2. CASE ReturnFromWake(t) /\ pc[t] \in {"wake_lock", "wake", "undo", "proc"}
    <3>1. \E l, o : Goto(t, l, o) /\ l # "w_relock"
      BY <2>2, ReturnFacts
    <3> QED BY <1>2, <2>1, <3>1
  <2>3. CASE \E l, o : Goto(t, l, o) /\ l # "w_relock"
    BY <1>2, <2>1, <2>3
  <2> QED BY <1>4, <2>2, <2>3 DEF Wake, WakeLock, WakeWriter, TryReaderGrant, WakeReadOwned,
             UndoReaderGrant, GrantReaders, ClearWaiterTask, WakeUpProcess
<1>5. ASSUME NEW t \in Tasks, EnqueueRead(t) \/ EnqueueWrite(t)
      PROVE  ActivePart(lcount'[u]) = 0
  <2>1. u # t /\ pc[u] = "w_relock"
    BY <1>0, <1>5 DEF EnqueueRead, EnqueueWrite, TypeOK
  <2>2. lcount'[u] = lcount[u]
    BY <1>0, <1>5, <2>1 DEF EnqueueRead, EnqueueWrite, TypeOK
  <2> QED BY <1>1, <2>1, <2>2
<1>6. ASSUME NEW t \in Tasks, ReaderSetState(t) \/ ReaderCheck(t) \/ ReaderSchedule(t)
      PROVE  ActivePart(lcount'[u]) = 0
  <2>1. UNCHANGED lcount /\ \E l, o : Goto(t, l, o) /\ l # "w_relock"
    BY <1>6 DEF ReaderSetState, ReaderCheck, ReaderSchedule
  <2> QED BY <1>2, <2>1
<1>7. ASSUME NEW t \in Tasks, \/ WriterSetState(t) \/ WriterAcquire(t) \/ WriterTryFails(t)
                              \/ WriterSchedule(t) \/ WriterRelock(t)
      PROVE  ActivePart(lcount'[u]) = 0
  <2>1. \A w \in Tasks : w # t => lcount'[w] = lcount[w]
    BY <1>0, <1>7 DEF WriterSetState, WriterAcquire, WriterTryFails, WriterSchedule, WriterRelock,
                      TypeOK
  <2>2. \E l, o : Goto(t, l, o) /\ l # "w_relock"
    BY <1>7 DEF WriterSetState, WriterAcquire, WriterTryFails, WriterSchedule, WriterRelock
  <2> QED BY <1>2, <2>1, <2>2
<1>8. ASSUME NEW t \in Tasks, WriterReadCount(t) PROVE ActivePart(lcount'[u]) = 0
  <2>1. CASE u = t
    <3>1. ActivePart(count) = 0
      BY <1>0, <1>8, <2>1 DEF WriterReadCount, Goto, TypeOK
    <3> QED BY <1>0, <1>8, <2>1, <3>1 DEF WriterReadCount, TypeOK
  <2>2. CASE u # t
    BY <1>0, <1>1, <1>8, <2>2 DEF WriterReadCount, Goto, TypeOK
  <2> QED BY <2>1, <2>2
<1>9. ASSUME Close PROVE ActivePart(lcount'[u]) = 0
  BY <1>1, <1>9 DEF Close
<1> QED BY <1>3, <1>4, <1>5, <1>6, <1>7, <1>8, <1>9 DEF Next, WaitForLock

\* A reader that sleeps keeps its flag and its task state, unless somebody wakes it.
LEMMA SleepStep ==
    ASSUME Structure, SleepInv, Next
    PROVE  SleepInv'
<1>0. TypeOK /\ OpInv /\ QueueInv /\ WakerInv
  BY DEF Structure
<1> DEFINE Woken(u) == running[u] \/ (tsk = u /\ \E w \in Tasks : pc[w] = "proc")
<1> SUFFICES ASSUME NEW u \in Tasks, pc'[u] = "r_sched", ~waiting'[u] PROVE Woken(u)'
  BY DEF SleepInv
\* The reader is still asleep, and the task waking it has not moved.
<1>1. ASSUME NEW t \in Tasks, NEW l, NEW o, Goto(t, l, o), l # "r_sched", pc[t] # "proc",
             waiting'[u] = waiting[u], running[u] => running'[u] \/ pc[u] # "r_sched",
             tsk' = tsk \/ pc[u] # "r_sched"
      PROVE  Woken(u)'
  <2>1. u # t /\ pc[u] = "r_sched" /\ ~waiting[u]
    BY <1>0, <1>1 DEF TypeOK, Goto
  <2>2. CASE running[u]
    BY <1>1, <2>1, <2>2
  <2>3. CASE ~running[u]
    <3>1. PICK w \in Tasks : tsk = u /\ pc[w] = "proc"
      BY <2>1, <2>3 DEF SleepInv
    <3>2. w # t /\ tsk' = u
      BY <1>1, <2>1, <3>1
    <3>3. pc'[w] = "proc"
      BY <1>0, <1>1, <3>1, <3>2 DEF TypeOK, Goto
    <3> QED BY <3>2, <3>3
  <2> QED BY <2>2, <2>3
<1>2. ASSUME NEW t \in Tasks, StartCall(t) \/ DowngradeWrite(t) \/ Release(t) PROVE Woken(u)'
  <2>1. UNCHANGED slowVars /\ pc[t] # "proc" /\ \E l, o : Goto(t, l, o) /\ l # "r_sched"
    BY <1>2 DEF StartCall, DownRead, DownReadTrylock, DownWrite, DownWriteTrylock, Release,
                UpRead, UpWrite, DowngradeWrite
  <2> QED BY <1>1, <2>1 DEF slowVars, wakerVars
<1>3. ASSUME NEW t \in Tasks, WakeLock(t) \/ WakeWriter(t) PROVE Woken(u)'
  <2>1. /\ UNCHANGED <<waiting, tsk>> /\ pc[t] \in {"wake_lock", "wake"}
        /\ (running[u] => running'[u])
    BY <1>0, <1>3 DEF WakeLock, WakeWriter, wakerVars, TypeOK
  <2>2. \E l, o : Goto(t, l, o) /\ l # "r_sched"
    BY <1>3, <2>1, ReturnFacts DEF WakeLock, WakeWriter
  <2> QED BY <1>1, <2>1, <2>2
<1>4. ASSUME NEW t \in Tasks, TryReaderGrant(t) \/ WakeReadOwned(t) \/ UndoReaderGrant(t) \/ GrantReaders(t)
      PROVE  Woken(u)'
  <2>1. /\ UNCHANGED <<waiting, tsk, running>> /\ pc[t] \in {"wake", "undo", "grant"}
    BY <1>4 DEF TryReaderGrant, WakeReadOwned, UndoReaderGrant, GrantReaders
  <2>2. \E l, o : Goto(t, l, o) /\ l # "r_sched"
    <3>1. CASE UndoReaderGrant(t)
      BY <3>1, ReturnFacts DEF UndoReaderGrant
    <3>2. CASE TryReaderGrant(t) \/ WakeReadOwned(t) \/ GrantReaders(t)
      BY <3>2 DEF TryReaderGrant, WakeReadOwned, GrantReaders
    <3> QED BY <1>4, <3>1, <3>2
  <2> QED BY <1>1, <2>1, <2>2
<1>5. ASSUME NEW t \in Tasks, ClearWaiterTask(t) PROVE Woken(u)'
  <2>1. /\ pc[t] = "null" /\ Goto(t, "proc", op[t]) /\ UNCHANGED running /\ tsk' = Head(wait_list)
        /\ waiting' = [waiting EXCEPT ![Head(wait_list)] = FALSE]
    BY <1>5 DEF ClearWaiterTask
  <2>2. pc'[t] = "proc"
    BY <1>0, <2>1 DEF TypeOK, Goto
  <2>3. CASE tsk' = u
    BY <2>2, <2>3
  <2>4. CASE tsk' # u
    <3>1. u # t /\ pc[u] = "r_sched" /\ ~waiting[u]
      BY <1>0, <2>1, <2>4 DEF TypeOK, Goto
    <3>2. \A w \in Tasks : pc[w] # "proc"
      BY <1>0, <2>1 DEF QueueInv, InWaitLock
    <3> QED BY <2>1, <3>1, <3>2 DEF SleepInv
  <2> QED BY <2>3, <2>4
<1>6. ASSUME NEW t \in Tasks, WakeUpProcess(t) PROVE Woken(u)'
  <2>1. /\ pc[t] = "proc" /\ running' = [running EXCEPT ![tsk] = TRUE] /\ UNCHANGED waiting
    BY <1>6 DEF WakeUpProcess
  <2>2. PICK l, o : Goto(t, l, o) /\ l # "r_sched"
    BY <1>6, <2>1, ReturnFacts DEF WakeUpProcess
  <2>3. u # t /\ pc[u] = "r_sched" /\ ~waiting[u]
    BY <1>0, <2>1, <2>2 DEF TypeOK, Goto
  <2>4. running[u] \/ tsk = u
    BY <2>3 DEF SleepInv
  <2> QED BY <1>0, <2>1, <2>4 DEF TypeOK
<1>7. ASSUME NEW t \in Tasks, EnqueueRead(t) \/ EnqueueWrite(t) PROVE Woken(u)'
  <2>1. /\ op' = [op EXCEPT ![t] = op[t]] /\ pc[t] = "enqueue" /\ UNCHANGED <<running, tsk>>
        /\ \E l \in {"wake", "r_set", "w_set"} : pc' = [pc EXCEPT ![t] = l]
    BY <1>0, <1>7 DEF EnqueueRead, EnqueueWrite, wakerVars, TypeOK
  <2>2. PICK l \in {"wake", "r_set", "w_set"} : Goto(t, l, op[t])
    BY <2>1 DEF Goto
  <2>3. u # t
    BY <1>0, <2>2 DEF Goto, TypeOK
  <2>4. waiting'[u] = waiting[u]
    BY <1>0, <1>7, <2>3 DEF EnqueueRead, EnqueueWrite, TypeOK
  <2> QED BY <1>1, <2>1, <2>2, <2>4
<1>8. ASSUME NEW t \in Tasks, ReaderSetState(t) \/ ReaderSchedule(t) PROVE Woken(u)'
  <2>1. /\ pc[t] \in {"r_set", "r_sched"} /\ UNCHANGED <<waiting, tsk>>
        /\ \E l, o : Goto(t, l, o) /\ l # "r_sched"
    BY <1>8 DEF ReaderSetState, ReaderSchedule, wakerVars
  <2>2. running[u] => running'[u] \/ pc[u] # "r_sched"
    BY <1>0, <1>8 DEF ReaderSetState, ReaderSchedule, TypeOK
  <2> QED BY <1>1, <2>1, <2>2
<1>9. ASSUME NEW t \in Tasks, ReaderCheck(t) PROVE Woken(u)'
  <2>1. CASE waiting[t]
    <3>1. u # t /\ pc[u] = "r_sched" /\ ~waiting[u]
      BY <1>0, <1>9, <2>1 DEF ReaderCheck, Goto, TypeOK
    <3>2. /\ pc[t] # "proc" /\ Goto(t, "r_sched", op[t]) /\ UNCHANGED <<running, tsk>>
      BY <1>9, <2>1 DEF ReaderCheck, wakerVars
    <3>3. \A w \in Tasks : pc[w] = "proc" => pc'[w] = "proc"
      BY <1>0, <3>2 DEF Goto, TypeOK
    <3> QED BY <3>1, <3>2, <3>3 DEF SleepInv
  <2>2. CASE ~waiting[t]
    <3>1. /\ pc[t] # "proc" /\ Goto(t, "reading", "none") /\ UNCHANGED <<waiting, tsk>>
          /\ running[u] => running'[u]
      BY <1>0, <1>9, <2>2 DEF ReaderCheck, wakerVars, TypeOK
    <3> QED BY <1>1, <3>1
  <2> QED BY <2>1, <2>2
<1>10. ASSUME NEW t \in Tasks, \/ WriterSetState(t) \/ WriterAcquire(t) \/ WriterTryFails(t)
                               \/ WriterSchedule(t) \/ WriterReadCount(t) \/ WriterRelock(t)
       PROVE  Woken(u)'
  <2>1. /\ pc[t] \in {"w_set", "w_try", "w_sched", "w_read", "w_relock"} /\ UNCHANGED <<waiting, tsk>>
        /\ \E l, o : Goto(t, l, o) /\ l # "r_sched"
    BY <1>10 DEF WriterSetState, WriterAcquire, WriterTryFails, WriterSchedule, WriterReadCount,
                 WriterRelock, wakerVars
  <2>2. running[u] => running'[u] \/ pc[u] # "r_sched"
    BY <1>0, <1>10, <2>1 DEF WriterSetState, WriterAcquire, WriterTryFails, WriterSchedule,
                             WriterReadCount, WriterRelock, TypeOK
  <2> QED BY <1>1, <2>1, <2>2
<1>11. ASSUME Close PROVE Woken(u)'
  BY <1>11 DEF Close, wakerVars, SleepInv
<1> QED BY <1>2, <1>3, <1>4, <1>5, <1>6, <1>7, <1>8, <1>9, <1>10, <1>11 DEF Next, Wake, WaitForLock

-----------------------------------------------------------------------------

Inv == Structure /\ ShareInv /\ WakeInv /\ SleepInv

LEMMA InitInv == Init => Inv
<1> SUFFICES ASSUME Init PROVE Inv
  OBVIOUS
<1>1. Structure
  BY StructureInit
<1>2. TypeOK
  BY <1>1 DEF Structure
<1>3. ReadOwners = {} /\ WriteOwners = {} /\ Arriving("down_read") = {} /\ Arriving("down_write") = {}
  BY DEF Init, ReadOwners, GrantedReaders, WriteOwners, Arriving
<1>4. ~Queued
  BY DEF Init, Queued
<1>5. Cardinality(Users) = 0 /\ Cardinality(Writing) = 0
  BY <1>3, FS_EmptySet DEF Users, Writing
<1>6. Active = 0 /\ Biases = 0
  BY <1>4, <1>5 DEF Active, Biases, QueueBias, Init
<1>7. ShareInv
  BY <1>3, <1>6, Constants DEF ShareInv, WriterExclusion, Init
<1>8. WakeInv /\ SleepInv
  BY <1>4 DEF WakeInv, SleepInv, Unwatched, Init
<1> QED BY <1>1, <1>7, <1>8 DEF Inv

LEMMA StepInv == Inv /\ [Next]_vars => Inv' /\ LockMove
<1> SUFFICES ASSUME Inv, [Next]_vars PROVE Inv' /\ LockMove
  OBVIOUS
<1>1. Structure /\ ShareInv /\ WakeInv /\ SleepInv
  BY DEF Inv
<1>2. CASE Next
  <2>1. Structure'
    BY <1>1, <1>2, TypeStep, QueueStep, WakerStep DEF Structure
  <2>2. ShareInv' /\ LockMove
    BY <1>1, <1>2, <2>1, ShareStep
  <2>3. WakeInv'
    BY <1>1, <1>2, <2>1, <2>2, WakeStep, RelockStep DEF WakeInv
  <2>4. SleepInv'
    BY <1>1, <1>2, SleepStep
  <2> QED BY <2>1, <2>2, <2>3, <2>4 DEF Inv
<1>3. CASE UNCHANGED vars
  <2>1. ShareInv' /\ LockMove /\ (Queued' <=> Queued) /\ UNCHANGED <<Users, Writing>>
    BY <1>1, <1>3, ShareClose
  <2>2. TypeOK' /\ OpInv'
    BY <1>1, <1>3 DEF vars, Structure, TypeOK, OpInv
  <2>3. QueueInv' /\ WakerInv'
    BY <1>1, <1>3 DEF vars, Structure, QueueInv, WakerInv
  <2>4. WakeInv' /\ SleepInv'
    BY <1>1, <1>3, <2>1 DEF vars, WakeInv, SleepInv, Unwatched, WillWake, ActivePart
  <2> QED BY <2>1, <2>2, <2>3, <2>4 DEF Inv, Structure
<1> QED BY <1>2, <1>3

LEMMA InvInvariant == Spec => []Inv
<1>1. Inv /\ [Next]_vars => Inv'
  BY StepInv
<1> QED BY InitInv, <1>1, PTL DEF Spec

-----------------------------------------------------------------------------

\* ->count is the sum of what each owner, each arriving task, the grant ahead and the queue
\* contribute, and a writer owns the lock alone: the fast paths of asm-generic/rwsem.h and
\* the grants, undos and steals of lib/rwsem.c never lose or repeat a bias.
THEOREM CountIsExact == Spec => []CountInv
<1>1. Inv => CountInv
  <2> SUFFICES ASSUME Inv PROVE CountInv
    OBVIOUS
  <2>0. TypeOK /\ OpInv /\ ShareInv
    BY DEF Inv, Structure
  <2> DEFINE R == ReadOwners
             W == WriteOwners
             AR == Arriving("down_read")
             AW == Arriving("down_write")
  <2>1. R \subseteq Tasks /\ W \subseteq Tasks /\ AR \subseteq Tasks /\ AW \subseteq Tasks
    BY DEF ReadOwners, GrantedReaders, WriteOwners, Arriving
  <2>2. IsFiniteSet(R) /\ IsFiniteSet(W) /\ IsFiniteSet(AR) /\ IsFiniteSet(AW)
    BY <2>1, Constants, FS_Subset
  <2>3. \A t \in Tasks : pc[t] = "enqueue" => op[t] \in {"down_read", "down_write"}
    BY <2>0 DEF OpInv, OpOk
  <2>4. \A t \in Tasks : pc[t] = "writing" => op[t] = "none"
    BY <2>0 DEF OpInv, OpOk
  <2>5. W \cap AW = {} /\ R \cap AR = {} /\ (R \cup AR) \cap (W \cup AW) = {}
    BY <2>3, <2>4 DEF ReadOwners, GrantedReaders, WriteOwners, Arriving
  <2>6. /\ Writing = W \cup AW /\ Users = (R \cup AR) \cup (W \cup AW)
    BY DEF Writing, Users
  <2>7. PICK r \in Nat, w \in Nat, ar \in Nat, aw \in Nat :
            /\ r = Cardinality(R) /\ w = Cardinality(W)
            /\ ar = Cardinality(AR) /\ aw = Cardinality(AW)
    BY <2>2, FS_CardinalityType
  <2>8. /\ IsFiniteSet(R \cup AR) /\ Cardinality(R \cup AR) = r + ar
        /\ IsFiniteSet(W \cup AW) /\ Cardinality(W \cup AW) = w + aw
    BY <2>2, <2>5, <2>7, DisjointSizes
  <2>9. Cardinality(Users) = (r + ar) + (w + aw) /\ Cardinality(Writing) = w + aw
    BY <2>5, <2>6, <2>8, DisjointSizes
  <2>10. count = ((r + ar) + (w + aw) + adjustment) - ActiveRange * ((w + aw) + QueueBias)
    BY <2>0, <2>9 DEF ShareInv, Active, Biases
  <2>11. PICK n \in Nat, A \in Nat : n = w + aw /\ A = ActiveRange
    BY Constants
  <2>12. A * n \in Int /\ (1 - A) * n = n - A * n /\ A * (n + 0) = A * n /\ A * (n + 1) = A * n + A
    BY <2>11
  <2>13. count = 1 * (r + ar) + adjustment + (1 - A) * n + (IF Queued THEN -A ELSE 0)
    <3>1. count \in Int /\ adjustment \in Int /\ (1 - A) * n \in Int
      BY <2>0, <2>11, <2>12, Constants DEF TypeOK
    <3>2. count = ((r + ar) + n + adjustment) - A * (n + QueueBias)
      BY <2>10, <2>11, Zenon
    <3>3. CASE Queued
      <4>1. count = ((r + ar) + n + adjustment) - (A * n + A)
        BY <2>12, <3>2, <3>3 DEF QueueBias
      <4> QED BY <2>7, <2>11, <2>12, <3>1, <3>3, <4>1
    <3>4. CASE ~Queued
      <4>1. count = ((r + ar) + n + adjustment) - A * n
        BY <2>12, <3>2, <3>4 DEF QueueBias
      <4> QED BY <2>7, <2>11, <2>12, <3>1, <3>4, <4>1
    <3> QED BY <3>3, <3>4
  <2>14. CountExact
    BY <2>7, <2>11, <2>13, Constants, Zenon DEF CountExact
  <2> QED BY <2>0, <2>14 DEF CountInv, ShareInv
<1> QED BY <1>1, InvInvariant, PTL

\* No wake-up is lost between rwsem_wake(), __rwsem_do_wake(), the writers that steal and the
\* waiters going to sleep: whenever everybody is idle or asleep, everybody is idle.
THEOREM WaitersAreWoken == Spec => []NoStrandedWaiter
<1>1. Inv => NoStrandedWaiter
  <2> SUFFICES ASSUME Inv,
                      \A t \in Tasks : \/ pc[t] = "idle"
                                       \/ pc[t] \in {"r_sched", "w_sched"} /\ ~running[t],
                      NEW s \in Tasks, pc[s] # "idle"
               PROVE  FALSE
    BY DEF NoStrandedWaiter
  <2>0. TypeOK /\ OpInv /\ QueueInv /\ WakerInv /\ WakeInv /\ SleepInv
    BY DEF Inv, Structure
  <2>1. loop = 0 /\ adjustment = 0
    BY <2>0 DEF WakerInv
  <2>2. \A t \in Tasks : pc[t] = "r_sched" => waiting[t]
    BY <2>0 DEF SleepInv
  <2>3. \A t \in Tasks : /\ pc[t] = "idle" => op[t] = "none"
                         /\ pc[t] = "r_sched" => op[t] = "down_read"
                         /\ pc[t] = "w_sched" => op[t] = "down_write"
    BY <2>0 DEF OpInv, OpOk
  <2>4. \A i \in 1..loop : FALSE
    BY <2>1
  <2>5. Users = {}
    BY <2>2, <2>3, <2>4 DEF Users, Writing, ReadOwners, GrantedReaders, WriteOwners, Arriving
  <2>6. InList(wait_list, s)
    BY <2>0, <2>2, <2>3 DEF QueueInv
  <2>7. Queued
    <3>1. PICK i \in 1..Len(wait_list) : wait_list[i] = s
      BY <2>6 DEF InList
    <3>2. Len(wait_list) \in Nat
      BY <2>0, LenProperties DEF TypeOK
    <3> QED BY <2>1, <3>1, <3>2 DEF Queued
  <2>8. PICK w \in Tasks : WillWake(w)
    BY <2>0, <2>1, <2>5, <2>7 DEF WakeInv, Unwatched
  <2> QED BY <2>8 DEF WillWake
<1> QED BY <1>1, InvInvariant, PTL

\* A reader on the fast path of __down_read() never passes a task in the queue.
THEOREM NoBarging == Spec => NoReaderBarging
<1> DEFINE Ahead == \A t \in Tasks : pc[t] = "idle" /\ pc'[t] = "reading" => ~Queued
<1>1. Inv /\ Inv' /\ [Next]_vars => [Ahead]_vars
  <2> SUFFICES ASSUME Inv, Inv', Next, NEW u \in Tasks, pc[u] = "idle", pc'[u] = "reading"
               PROVE  ~Queued
    OBVIOUS
  <2>0. Structure /\ TypeOK /\ TypeOK' /\ ShareInv
    BY DEF Inv, Structure
  <2>1. ASSUME NEW t \in Tasks, pc[t] # "idle", NEW l, NEW o, Goto(t, l, o) PROVE FALSE
    BY <2>0, <2>1 DEF TypeOK, Goto
  <2>2. ASSUME NEW t \in Tasks, StartCall(t) PROVE ~Queued
    <3>1. pc' = [pc EXCEPT ![t] = pc'[t]]
      BY <2>0, <2>2 DEF StartCall, DownRead, DownReadTrylock, DownWrite, DownWriteTrylock, Goto, TypeOK
    <3>2. u = t
      BY <2>0, <3>1 DEF TypeOK
    <3> QED BY <2>0, <2>2, <3>2, ShareDown
  <2>3. ASSUME NEW t \in Tasks, DowngradeWrite(t) \/ Release(t) PROVE FALSE
    BY <2>1, <2>3 DEF DowngradeWrite, Release, UpRead, UpWrite
  <2>4. ASSUME NEW t \in Tasks, Wake(t) PROVE FALSE
    <3>1. CASE ReturnFromWake(t) /\ pc[t] \in {"wake_lock", "wake", "undo", "proc"}
      BY <2>0, <2>1, <3>1, ReturnFacts
    <3>2. CASE \E l, o : Goto(t, l, o) /\ pc[t] # "idle"
      BY <2>1, <3>2
    <3> QED BY <2>4, <3>1, <3>2 DEF Wake, WakeLock, WakeWriter, TryReaderGrant, WakeReadOwned,
               UndoReaderGrant, GrantReaders, ClearWaiterTask, WakeUpProcess
  <2>5. ASSUME NEW t \in Tasks, EnqueueRead(t) \/ EnqueueWrite(t) PROVE FALSE
    BY <2>0, <2>5 DEF EnqueueRead, EnqueueWrite, TypeOK
  <2>6. ASSUME NEW t \in Tasks, ReaderSetState(t) \/ ReaderCheck(t) \/ ReaderSchedule(t) PROVE FALSE
    BY <2>1, <2>6 DEF ReaderSetState, ReaderCheck, ReaderSchedule
  <2>7. ASSUME NEW t \in Tasks, \/ WriterSetState(t) \/ WriterAcquire(t) \/ WriterTryFails(t)
                                \/ WriterSchedule(t) \/ WriterReadCount(t) \/ WriterRelock(t)
        PROVE  FALSE
    BY <2>1, <2>7 DEF WriterSetState, WriterAcquire, WriterTryFails, WriterSchedule,
                      WriterReadCount, WriterRelock
  <2>8. ASSUME Close PROVE FALSE
    BY <2>8 DEF Close
  <2> QED BY <2>2, <2>3, <2>4, <2>5, <2>6, <2>7, <2>8 DEF Next, WaitForLock
<1> QED BY <1>1, InvInvariant, PTL DEF Spec, NoReaderBarging

\* Each step of the semaphore is a step of the abstract reader/writer lock: grants admit
\* readers in a group, a downgrade lets no writer in between.
THEOREM RwSemIsLock == Spec => ImplementsRWLock
<1>1. Init => Abstract!Init
  BY DEF Init, Abstract!Init, ReadOwners, GrantedReaders, WriteOwners
<1>2. Inv /\ [Next]_vars => [Abstract!Next]_(Abstract!vars)
  BY StepInv DEF LockMove, Abstract!vars
<1> QED BY <1>1, <1>2, InvInvariant, PTL DEF Spec, ImplementsRWLock, Abstract!Spec

=============================================================================

------------------------ MODULE DeferredWorkProofs ------------------------
(***************************************************************************)
(* Proofs about deferred work, for any set of items and any set of         *)
(* callers: the lists of irq_work, then those of task_work.                *)
(***************************************************************************)
EXTENDS IrqWork, CollectionLemmas

-----------------------------------------------------------------------------
(* What lies on a chain of work items.                                     *)

\* Chain(p) for any function n in the place of ->llnode.next.
From(n, p) ==
    {w \in Works : \A S \in SUBSET Nodes :
        p \in S /\ (\A v \in S \ {NULL} : n[v] \in S) => w \in S}

\* It is the smallest closed set with p in it.
LEMMA ChainFrom == \A p : Chain(p) = From(next, p)
<1> SUFFICES ASSUME NEW p, NEW w \in Works
             PROVE  w \in Chain(p) <=> w \in From(next, p)
  BY DEF Chain, From
<1> DEFINE Closed(S) == p \in S /\ \A v \in S \ {NULL} : next[v] \in S
<1>1. ASSUME w \in Chain(p), NEW S \in SUBSET Nodes, Closed(S), w \notin S
      PROVE  FALSE
  BY <1>1 DEF Chain
<1>2. ASSUME w \in From(next, p), NEW S \in SUBSET (Nodes \ {w}), Closed(S)
      PROVE  FALSE
  <2>1. S \in SUBSET Nodes /\ w \notin S
    OBVIOUS
  <2> QED
    BY <1>2, <2>1 DEF From
<1> QED
  BY <1>1, <1>2 DEF Chain, From

\* An empty list holds nothing.
LEMMA FromNull ==
    ASSUME NEW n \in [Works -> Nodes], NULL \notin Works
    PROVE  From(n, NULL) = {}
<1>1. {NULL} \in SUBSET Nodes
  BY DEF Nodes
<1>2. \A w \in From(n, NULL) : w \in {NULL}
  BY <1>1, Zenon DEF From
<1> QED
  BY <1>2 DEF From

\* A chain holds the item it starts with.
LEMMA FromHead ==
    ASSUME NEW n, NEW p \in Works
    PROVE  p \in From(n, p)
  BY DEF From

\* A chain is its first item and the chain that follows it.
LEMMA FromStep ==
    ASSUME NEW n \in [Works -> Nodes], NEW p \in Works, NULL \notin Works
    PROVE  From(n, p) = {p} \cup From(n, n[p])
<1>1. ASSUME NEW w \in From(n, p), w # p
      PROVE  w \in From(n, n[p])
  <2> SUFFICES ASSUME NEW S \in SUBSET Nodes, n[p] \in S, \A v \in S \ {NULL} : n[v] \in S
               PROVE  w \in S
    BY <1>1, Zenon DEF From
  <2> DEFINE T == S \cup {p}
  <2>1. T \in SUBSET Nodes /\ p \in T
    BY DEF Nodes
  <2>2. \A v \in T \ {NULL} : n[v] \in T
    OBVIOUS
  <2>3. w \in T
    BY <2>1, <2>2, <1>1, Zenon DEF From
  <2> QED
    BY <2>3, <1>1
<1>2. ASSUME NEW w \in From(n, n[p])
      PROVE  w \in From(n, p)
  <2>1. w \in Works
    BY <1>2 DEF From
  <2> SUFFICES ASSUME NEW S \in SUBSET Nodes, p \in S, \A v \in S \ {NULL} : n[v] \in S
               PROVE  w \in S
    BY <2>1, Zenon DEF From
  <2>2. n[p] \in S
    OBVIOUS
  <2> QED
    BY <1>2, <2>2, Zenon DEF From
<1>3. p \in From(n, p)
  BY FromHead
<1> QED
  BY <1>1, <1>2, <1>3

\* The chain that starts at an item of a chain lies on it.
LEMMA FromSub ==
    ASSUME NEW n, NEW p, NEW v \in From(n, p)
    PROVE  From(n, v) \subseteq From(n, p)
<1> SUFFICES ASSUME NEW w \in From(n, v)
             PROVE  w \in From(n, p)
  OBVIOUS
<1>1. w \in Works
  BY DEF From
<1> SUFFICES ASSUME NEW S \in SUBSET Nodes, p \in S, \A u \in S \ {NULL} : n[u] \in S
             PROVE  w \in S
  BY <1>1, Zenon DEF From
<1>2. v \in S
  BY Zenon DEF From
<1> QED
  BY <1>2, Zenon DEF From

\* The rest of a chain after one of its items lies on it.
LEMMA FromRest ==
    ASSUME NEW n \in [Works -> Nodes], NEW p, NEW v \in From(n, p), NULL \notin Works
    PROVE  /\ From(n, n[v]) \subseteq From(n, p)
           /\ n[v] = NULL \/ n[v] \in From(n, p)
<1>1. v \in Works
  BY DEF From
<1>2. From(n, n[v]) \subseteq From(n, p)
  BY <1>1, FromStep, FromSub
<1>3. n[v] \in Works => n[v] \in From(n, n[v])
  BY FromHead
<1> QED
  BY <1>1, <1>2, <1>3 DEF Nodes

\* A chain does not change when the ->next of an item that is not on it does.
LEMMA FromSame ==
    ASSUME NEW n \in [Works -> Nodes], NEW p \in Nodes, NEW x \in Works, NEW y \in Nodes,
           x \notin From(n, p), NULL \notin Works
    PROVE  From([n EXCEPT ![x] = y], p) = From(n, p)
<1> DEFINE m == [n EXCEPT ![x] = y]
           F == From(n, p) \cup {NULL}
<1>1. p \in F
  BY FromHead DEF Nodes
<1>2. \A v \in F \ {NULL} : n[v] \in F
  BY FromRest
<1>3. x \notin F /\ F \subseteq Nodes
  BY DEF Nodes, From
<1>4. \A v \in F \ {NULL} : m[v] = n[v]
  BY <1>3 DEF From
<1>5. ASSUME NEW w \in From(m, p)
      PROVE  w \in From(n, p)
  <2>1. w \in Works
    BY DEF From
  <2> SUFFICES ASSUME NEW S \in SUBSET Nodes, p \in S, \A u \in S \ {NULL} : n[u] \in S
               PROVE  w \in S
    BY <2>1, Zenon DEF From
  <2> DEFINE T == S \cap F
  <2> HIDE DEF F, m
  <2>2. T \in SUBSET Nodes /\ p \in T
    BY <1>1
  <2>3. \A u \in T \ {NULL} : m[u] \in T
    BY <1>2, <1>4
  <2>4. w \in T
    BY <2>2, <2>3, <1>5, Zenon DEF From
  <2> QED
    BY <2>4
<1>6. ASSUME NEW w \in From(n, p)
      PROVE  w \in From(m, p)
  <2>1. w \in Works
    BY DEF From
  <2> HIDE DEF F, m
  <2> SUFFICES ASSUME NEW S \in SUBSET Nodes, p \in S, \A u \in S \ {NULL} : m[u] \in S
               PROVE  w \in S
    BY <2>1, Zenon DEF From
  <2> DEFINE T == S \cap F
  <2>2. T \in SUBSET Nodes /\ p \in T
    BY <1>1
  <2>3. \A u \in T \ {NULL} : n[u] \in T
    BY <1>2, <1>4
  <2>4. w \in T
    BY <2>2, <2>3, <1>6, Zenon DEF From
  <2> QED
    BY <2>4
<1> QED
  BY <1>5, <1>6

-----------------------------------------------------------------------------
(* The inductive invariant.                                                *)

Pending(w) == "PENDING" \in flags[w]

\* Holders(w), one place at a time: place i of kind k holds item w.
At(w, k, i) ==
    \/ k = "caller" /\ i \in Callers /\ pc[i] = "add" /\ arg[i] = w
    \/ k = "list" /\ i \in CPUs /\ w \in From(next, first[i])
    \/ k = "chain" /\ i \in CPUs /\ w \in From(next, llnode[i])
    \/ k = "runner" /\ i \in CPUs /\ run[i] = "xchg" /\ work[i] = w

\* An item is in one place while it is pending, and in none otherwise.
PlaceInv ==
    /\ \A w \in Works : \A k, i : At(w, k, i) => Pending(w)
    /\ \A w \in Works : Pending(w) => \E k, i : At(w, k, i)
    /\ \A w \in Works : \A k, i, l, j : At(w, k, i) /\ At(w, l, j) => k = l /\ i = j

\* Pending items are busy, and so is every item somebody wants run.
BusyInv ==
    /\ \A w \in Works : Pending(w) => "BUSY" \in flags[w]
    /\ \A w \in owed : Pending(w)

\* No list and no rest of a chain runs into itself.
AcyclicInv ==
    /\ \A c \in CPUs : \A w \in From(next, first[c]) : w \notin From(next, next[w])
    /\ \A c \in CPUs : \A w \in From(next, llnode[c]) : w \notin From(next, next[w])

\* What callers have in hand.
CallInv ==
    /\ \A t \in Callers : pc[t] \in {"add", "raise", "sync"} => arg[t] \in Works
    /\ \A t \in Callers : pc[t] = "raise" => cpu[t] \in CPUs

\* What __irq_work_run() has in hand; NULL is no item.
RunInv ==
    /\ NULL \notin Works
    /\ \A c \in CPUs : run[c] \in {"idle", "take"} => llnode[c] = NULL
    /\ \A c \in CPUs : run[c] = "fetch" => llnode[c] \in Works
    /\ \A c \in CPUs : run[c] \in {"xchg", "func"} => work[c] \in Works

IrqInv == TypeOK /\ CallInv /\ RunInv /\ PlaceInv /\ BusyInv /\ AcyclicInv

-----------------------------------------------------------------------------
(* It holds initially and every step keeps it.                             *)

LEMMA IrqInit == Init => IrqInv
<1> SUFFICES ASSUME Init PROVE IrqInv
  OBVIOUS
<1>0. NULL \notin Works
  BY IrqWorkAssumption
<1>1. TypeOK /\ CallInv /\ RunInv
  BY IrqWorkAssumption DEF Init, TypeOK, CallInv, RunInv, IRQ_WORK_FLAGS, Nodes
<1>2. \A c \in CPUs : From(next, first[c]) = {} /\ From(next, llnode[c]) = {}
  BY <1>0, <1>1, FromNull DEF Init, TypeOK
<1>3. \A w \in Works : ~Pending(w)
  BY DEF Init, Pending
<1>4. \A w \in Works : \A k, i : ~At(w, k, i)
  BY <1>2 DEF Init, At
<1>5. PlaceInv /\ BusyInv /\ AcyclicInv
  BY <1>2, <1>3, <1>4 DEF Init, PlaceInv, BusyInv, AcyclicInv
<1> QED
  BY <1>1, <1>5 DEF IrqInv

LEMMA IrqTypeStep ==
    ASSUME IrqInv, Next
    PROVE  TypeOK'
<1> USE DEF TypeOK, IrqInv, Nodes, IRQ_WORK_FLAGS
<1>1. ASSUME NEW t \in Callers, NEW w \in Works, NEW c \in CPUs, Claim(t, w, c) PROVE TypeOK'
  BY <1>1 DEF Claim, cpuVars, callVars, runVars
<1>2. ASSUME NEW t \in Callers, NEW w \in Works, Sync(t, w) PROVE TypeOK'
  BY <1>2 DEF Sync, workVars, cpuVars, runVars
<1>3. ASSUME NEW t \in Callers, NEW c \in CPUs, Add(t, c) PROVE TypeOK'
  BY <1>3 DEF Add, cpuVars, runVars, CallInv
<1>4. ASSUME NEW t \in Callers, Raise(t) PROVE TypeOK'
  BY <1>4 DEF Raise, workVars, runVars, CallInv
<1>5. ASSUME NEW t \in Callers, SyncReturn(t) PROVE TypeOK'
  BY <1>5 DEF SyncReturn, workVars, cpuVars, runVars
<1>6. ASSUME NEW c \in CPUs, Interrupt(c) PROVE TypeOK'
  BY <1>6 DEF Interrupt, EnterRun, workVars, callVars
<1>7. ASSUME NEW c \in CPUs, Tick(c) PROVE TypeOK'
  BY <1>7 DEF Tick, EnterRun, workVars, callVars
<1>8. ASSUME NEW c \in CPUs, Take(c) PROVE TypeOK'
  <2>1. run' \in [CPUs -> {"idle", "take", "fetch", "xchg", "func"}]
    BY <1>8 DEF Take, Return, Continue
  <2>2. /\ tick' \in [CPUs -> {"periodic", "ticking", "stopping", "stopped", "due"}]
        /\ late' \in [CPUs -> SUBSET Works]
    BY <1>8 DEF Take, Return, Continue, irq_exit
  <2> QED
    BY <1>8, <2>1, <2>2 DEF Take, callVars
<1>9. ASSUME NEW c \in CPUs, Fetch(c) PROVE TypeOK'
  <2>1. NotPending(llnode[c]) \in SUBSET {"BUSY"} /\ llnode[c] \in Works
    BY <1>9 DEF Fetch, NotPending, RunInv
  <2> QED
    BY <1>9, <2>1 DEF Fetch, workVars, cpuVars, callVars
<1>10. ASSUME NEW c \in CPUs, StartFunc(c) PROVE TypeOK'
  BY <1>10 DEF StartFunc, cpuVars, callVars
<1>11. ASSUME NEW c \in CPUs, EndFunc(c) PROVE TypeOK'
  <2>1. NotBusy(c) \in SUBSET IRQ_WORK_FLAGS
    <3>1. flags[work[c]] \in SUBSET IRQ_WORK_FLAGS /\ lflags[c] \in SUBSET {"BUSY"}
      BY <1>11 DEF EndFunc, RunInv
    <3>2. lflags[c] \ {"BUSY"} = {}
      BY <3>1
    <3> QED
      BY <3>1, <3>2 DEF NotBusy
  <2>2. flags' \in [Works -> SUBSET IRQ_WORK_FLAGS]
    BY <1>11, <2>1 DEF EndFunc
  <2>3. run' \in [CPUs -> {"idle", "take", "fetch", "xchg", "func"}]
    BY <1>11 DEF EndFunc, Return, Continue
  <2>4. /\ tick' \in [CPUs -> {"periodic", "ticking", "stopping", "stopped", "due"}]
        /\ late' \in [CPUs -> SUBSET Works]
    BY <1>11 DEF EndFunc, Return, Continue, irq_exit
  <2> QED
    BY <1>11, <2>2, <2>3, <2>4 DEF EndFunc, callVars
<1>12. ASSUME NEW c \in CPUs, CpuDying(c) PROVE TypeOK'
  BY <1>12 DEF CpuDying, EnterRun, workVars, callVars
<1>13. ASSUME NEW c \in CPUs, CpuOnline(c) PROVE TypeOK'
  BY <1>13 DEF CpuOnline, workVars, callVars, runVars
<1>14. ASSUME NEW c \in CPUs, StopTickCheck(c) PROVE TypeOK'
  BY <1>14 DEF StopTickCheck, tickVars, workVars, callVars, runVars
<1>15. ASSUME NEW c \in CPUs, StopTick(c) PROVE TypeOK'
  BY <1>15 DEF StopTick, tickVars, workVars, callVars, runVars
<1>16. ASSUME NEW c \in CPUs, RestartTick(c) PROVE TypeOK'
  BY <1>16 DEF RestartTick, tickVars, workVars, callVars, runVars
<1>17. ASSUME NEW c \in CPUs, OtherInterrupt(c) PROVE TypeOK'
  BY <1>17 DEF OtherInterrupt, irq_exit, tickVars, workVars, callVars, runVars
<1>18. ASSUME NEW c \in CPUs, CpuDead(c) PROVE TypeOK'
  BY <1>18 DEF CpuDead, workVars, callVars, runVars
<1> QED
  BY <1>1, <1>2, <1>3, <1>4, <1>5, <1>6, <1>7, <1>8, <1>9, <1>10, <1>11, <1>12, <1>13,
     <1>14, <1>15, <1>16, <1>17, <1>18 DEF Next, CallStep, RunStep

\* The steps of a CPU outside __irq_work_run() leave items, callers and runners alone.
IdleStep(c) ==
    \/ OtherInterrupt(c) \/ CpuDead(c) \/ CpuOnline(c)
    \/ StopTickCheck(c) \/ StopTick(c) \/ RestartTick(c)

LEMMA IdleUnchanged ==
    ASSUME NEW c \in CPUs, IdleStep(c)
    PROVE  UNCHANGED <<workVars, callVars, runVars, owed>>
  BY DEF IdleStep, OtherInterrupt, CpuDead, CpuOnline, StopTickCheck, StopTick, RestartTick,
         tickVars

\* What callers and runners have in hand is kept.
LEMMA IrqCallStep ==
    ASSUME IrqInv, Next
    PROVE  CallInv' /\ RunInv'
<1> USE DEF TypeOK, IrqInv, Nodes, CallInv, RunInv
<1> DEFINE Goal == CallInv' /\ RunInv'
<1> SUFFICES Goal
  OBVIOUS
<1>1. ASSUME NEW t \in Callers, NEW w \in Works, NEW c \in CPUs, Claim(t, w, c) PROVE Goal
  BY <1>1, IrqWorkAssumption DEF Claim, callVars, runVars
<1>2. ASSUME NEW t \in Callers, NEW w \in Works, Sync(t, w) PROVE Goal
  BY <1>2 DEF Sync, runVars
<1>3. ASSUME NEW t \in Callers, NEW c \in CPUs, Add(t, c) PROVE Goal
  BY <1>3 DEF Add, runVars
<1>4. ASSUME NEW t \in Callers, Raise(t) PROVE Goal
  BY <1>4 DEF Raise, runVars
<1>5. ASSUME NEW t \in Callers, SyncReturn(t) PROVE Goal
  BY <1>5 DEF SyncReturn, runVars
<1>6. ASSUME NEW c \in CPUs, EnterRun(c) PROVE Goal
  BY <1>6 DEF EnterRun, IrqsOn, callVars
<1>8. ASSUME NEW c \in CPUs, Take(c) PROVE Goal
  BY <1>8 DEF Take, Return, Continue, callVars
<1>9. ASSUME NEW c \in CPUs, Fetch(c) PROVE Goal
  BY <1>9 DEF Fetch, callVars
<1>10. ASSUME NEW c \in CPUs, StartFunc(c) PROVE Goal
  BY <1>10 DEF StartFunc, callVars
<1>11. ASSUME NEW c \in CPUs, EndFunc(c) PROVE Goal
  BY <1>11 DEF EndFunc, Return, Continue, callVars
<1>12. ASSUME UNCHANGED <<callVars, runVars>> PROVE Goal
  BY <1>12 DEF callVars, runVars
<1> HIDE DEF Goal
<1>13. ASSUME NEW c \in CPUs, RunStep(c) \/ CpuDying(c) PROVE Goal
  BY <1>13, <1>6, <1>8, <1>9, <1>10, <1>11 DEF RunStep, Interrupt, Tick, CpuDying
<1>14. ASSUME NEW c \in CPUs, IdleStep(c) PROVE Goal
  <2>1. UNCHANGED <<callVars, runVars>>
    BY <1>14, IdleUnchanged
  <2> QED
    BY <2>1, <1>12
<1> QED
  BY <1>1, <1>2, <1>3, <1>4, <1>5, <1>13, <1>14 DEF Next, CallStep, IdleStep

\* Places that only a caller or a runner holds are the same when nobody starts or stops
\* adding an item or running one.
LEMMA PlacesSame ==
    ASSUME TypeOK, UNCHANGED <<next, first, llnode>>,
           \A t \in Callers : (pc'[t] = "add" <=> pc[t] = "add")
                              /\ (pc[t] = "add" => arg'[t] = arg[t]),
           \A c \in CPUs : (run'[c] = "xchg" <=> run[c] = "xchg")
                           /\ (run[c] = "xchg" => work'[c] = work[c])
    PROVE  /\ \A w \in Works : \A k, i : At(w, k, i)' <=> At(w, k, i)
           /\ AcyclicInv => AcyclicInv'
<1>1. \A w \in Works : \A k, i : At(w, k, i)' <=> At(w, k, i)
  BY DEF At
<1>2. AcyclicInv => AcyclicInv'
  BY DEF AcyclicInv
<1> QED
  BY <1>1, <1>2

\* A step that moves no item and no flag.
LEMMA PlacesQuiet ==
    ASSUME IrqInv, UNCHANGED <<next, first, llnode, flags, owed>>,
           \A t \in Callers : (pc'[t] = "add" <=> pc[t] = "add")
                              /\ (pc[t] = "add" => arg'[t] = arg[t]),
           \A c \in CPUs : (run'[c] = "xchg" <=> run[c] = "xchg")
                           /\ (run[c] = "xchg" => work'[c] = work[c])
    PROVE  PlaceInv' /\ BusyInv' /\ AcyclicInv'
<1>1. /\ \A w \in Works : \A k, i : At(w, k, i)' <=> At(w, k, i)
      /\ AcyclicInv'
  BY PlacesSame DEF IrqInv
<1>2. \A w \in Works : Pending(w)' <=> Pending(w)
  BY DEF Pending
<1>3. PlaceInv'
  BY <1>1, <1>2 DEF PlaceInv, IrqInv
<1>4. BusyInv'
  BY <1>2 DEF BusyInv, IrqInv, Pending
<1> QED
  BY <1>1, <1>3, <1>4

\* irq_work_claim() makes the item pending, in the caller's hands.
LEMMA ClaimPlaces ==
    ASSUME IrqInv, NEW t \in Callers, NEW x \in Works, NEW c \in CPUs, Claim(t, x, c)
    PROVE  PlaceInv' /\ BusyInv' /\ AcyclicInv'
<1> USE DEF IrqInv
<1>0. UNCHANGED <<next, first, llnode, run, work>> /\ owed' = owed \cup {x}
  BY DEF Claim, runVars
<1>1. CASE ~Claimable(x)
  <2>1. UNCHANGED <<flags, pc, arg>> /\ Pending(x)
    BY <1>1 DEF Claim, callVars, Claimable, Pending
  <2>2. (\A w \in Works : \A k, i : At(w, k, i)' <=> At(w, k, i)) /\ AcyclicInv'
    BY <1>0, <2>1, PlacesSame
  <2>3. \A w \in Works : Pending(w)' <=> Pending(w)
    BY <2>1 DEF Pending
  <2>4. PlaceInv'
    BY <2>2, <2>3 DEF PlaceInv
  <2>5. BusyInv'
    BY <1>0, <2>1 DEF BusyInv, Pending
  <2> QED
    BY <2>2, <2>4, <2>5
<1>2. CASE Claimable(x)
  <2>1. /\ pc[t] = "idle"
        /\ flags' = [flags EXCEPT ![x] = IRQ_WORK_FLAGS]
        /\ pc' = [pc EXCEPT ![t] = "add"] /\ arg' = [arg EXCEPT ![t] = x]
    BY <1>2 DEF Claim
  <2>2. \A w \in Works : Pending(w)' <=> Pending(w) \/ w = x
    BY <2>1 DEF Pending, TypeOK, IRQ_WORK_FLAGS
  <2>3. ~Pending(x)
    BY <1>2 DEF Claimable, Pending
  <2>4. \A w \in Works : \A k, i : At(w, k, i)' <=> At(w, k, i) \/ (w = x /\ k = "caller" /\ i = t)
    BY <1>0, <2>1 DEF At, TypeOK
  <2>5. PlaceInv'
    BY <2>2, <2>3, <2>4 DEF PlaceInv
  <2>6. BusyInv'
    <3>1. \A w \in Works : w # x => flags'[w] = flags[w]
      BY <2>1 DEF TypeOK
    <3>2. "BUSY" \in flags'[x]
      BY <2>1 DEF TypeOK, IRQ_WORK_FLAGS
    <3>3. \A w \in Works : Pending(w)' => "BUSY" \in flags'[w]
      BY <3>1, <3>2, <2>2 DEF BusyInv
    <3>4. \A w \in owed' : w \in Works /\ Pending(w)'
      BY <1>0, <2>2 DEF BusyInv, TypeOK
    <3> QED
      BY <3>3, <3>4 DEF BusyInv
  <2>7. AcyclicInv'
    BY <1>0 DEF AcyclicInv
  <2> QED
    BY <2>5, <2>6, <2>7
<1> QED
  BY <1>1, <1>2

\* llist_add() puts the item, which is on no list and no chain, at the head of one.
LEMMA AddLists ==
    ASSUME IrqInv, NEW t \in Callers, NEW c \in CPUs, Add(t, c)
    PROVE  /\ \A d \in CPUs :
                /\ From(next', first'[d]) = From(next, first[d]) \cup (IF d = c THEN {arg[t]} ELSE {})
                /\ From(next', llnode'[d]) = From(next, llnode[d])
           /\ \A d \in CPUs : \A w \in From(next, first[d]) \cup From(next, llnode[d]) :
                w # arg[t] /\ From(next', next'[w]) = From(next, next[w])
           /\ From(next', next'[arg[t]]) = From(next, first[c])
           /\ \A d \in CPUs : arg[t] \notin From(next, first[d])
           /\ At(arg[t], "caller", t)
<1> USE DEF IrqInv
<1> DEFINE x == arg[t]
<1>1. /\ pc[t] = "add" /\ x \in Works
      /\ next' = [next EXCEPT ![x] = first[c]] /\ first' = [first EXCEPT ![c] = x]
      /\ UNCHANGED llnode
  BY DEF Add, runVars, CallInv
<1>2. At(x, "caller", t)
  BY <1>1 DEF At
<1>3. \A d \in CPUs : x \notin From(next, first[d]) /\ x \notin From(next, llnode[d])
  <2>1. \A d \in CPUs : ~At(x, "list", d) /\ ~At(x, "chain", d)
    BY <1>1, <1>2 DEF PlaceInv
  <2> QED
    BY <2>1 DEF At
<1> HIDE DEF x
<1>4. ASSUME NEW p \in Nodes, x \notin From(next, p)
      PROVE  /\ From(next', p) = From(next, p)
             /\ \A w \in From(next, p) : From(next', next'[w]) = From(next, next[w])
  <2>0. NULL \notin Works /\ next \in [Works -> Nodes] /\ first[c] \in Nodes
    BY DEF RunInv, TypeOK
  <2>1. From(next', p) = From(next, p)
    BY <1>1, <1>4, <2>0, FromSame
  <2>2. ASSUME NEW w \in From(next, p)
        PROVE  From(next', next'[w]) = From(next, next[w])
    <3>1. w \in Works /\ w # x
      BY <1>4 DEF From
    <3>2. From(next, next[w]) \subseteq From(next, p)
      BY <2>0, <3>1, FromStep, FromSub
    <3>3. x \notin From(next, next[w]) /\ next[w] \in Nodes /\ next'[w] = next[w]
      BY <1>1, <1>4, <2>0, <3>1, <3>2
    <3>4. x \in Works
      BY <1>1
    <3>5. From([next EXCEPT ![x] = first[c]], next[w]) = From(next, next[w])
      BY <2>0, <3>3, <3>4, FromSame
    <3> QED
      BY <1>1, <3>3, <3>5
  <2> QED
    BY <2>1, <2>2
<1>5. /\ From(next', x) = {x} \cup From(next, first[c])
      /\ next'[x] = first[c]
  <2>0. NULL \notin Works /\ next' \in [Works -> Nodes] /\ first[c] \in Nodes
    BY <1>1 DEF RunInv, TypeOK
  <2>1. next'[x] = first[c]
    BY <1>1 DEF TypeOK
  <2>2. From(next', first[c]) = From(next, first[c])
    BY <1>3, <1>4, <2>0
  <2> QED
    BY <1>1, <2>0, <2>1, <2>2, FromStep
<1>6. \A d \in CPUs :
        /\ From(next', first'[d]) = From(next, first[d]) \cup (IF d = c THEN {x} ELSE {})
        /\ From(next', llnode'[d]) = From(next, llnode[d])
  BY <1>1, <1>3, <1>4, <1>5 DEF TypeOK
<1>7. \A d \in CPUs : \A w \in From(next, first[d]) \cup From(next, llnode[d]) :
        w # x /\ From(next', next'[w]) = From(next, next[w])
  BY <1>3, <1>4 DEF TypeOK
<1>8. From(next', next'[x]) = From(next, first[c])
  BY <1>3, <1>4, <1>5 DEF TypeOK
<1> QED
  BY <1>2, <1>3, <1>6, <1>7, <1>8 DEF x

\* It moves the item from the caller to the list.
LEMMA AddPlaces ==
    ASSUME IrqInv, NEW t \in Callers, NEW c \in CPUs, Add(t, c)
    PROVE  PlaceInv' /\ BusyInv' /\ AcyclicInv'
<1> USE DEF IrqInv
<1> DEFINE x == arg[t]
<1>1. /\ pc[t] = "add" /\ x \in Works
      /\ pc' = [pc EXCEPT ![t] = "raise"]
      /\ UNCHANGED <<flags, arg, llnode, run, work, owed>>
  BY DEF Add, runVars, CallInv
<1>2. At(x, "caller", t)
  BY AddLists
<1>6. \A d \in CPUs :
        /\ From(next', first'[d]) = From(next, first[d]) \cup (IF d = c THEN {x} ELSE {})
        /\ From(next', llnode'[d]) = From(next, llnode[d])
  BY AddLists
<1>3. /\ \A d \in CPUs : \A w \in From(next, first[d]) \cup From(next, llnode[d]) :
            From(next', next'[w]) = From(next, next[w])
      /\ From(next', next'[x]) = From(next, first[c]) /\ x \notin From(next, first[c])
  BY AddLists
<1> HIDE DEF x
<1>7. \A w \in Works : \A k, i :
        At(w, k, i)' <=> \/ At(w, k, i) /\ ~(w = x /\ k = "caller" /\ i = t)
                         \/ w = x /\ k = "list" /\ i = c
  <2> SUFFICES ASSUME NEW w \in Works, NEW k, NEW i
               PROVE  At(w, k, i)' <=> \/ At(w, k, i) /\ ~(w = x /\ k = "caller" /\ i = t)
                                       \/ w = x /\ k = "list" /\ i = c
    OBVIOUS
  <2>1. CASE k = "caller"
    BY <1>1, <2>1 DEF At, TypeOK, x
  <2>2. CASE k = "list"
    BY <1>6, <2>2 DEF At
  <2>3. CASE k = "chain"
    BY <1>6, <2>3 DEF At
  <2>4. CASE k = "runner"
    BY <1>1, <2>4 DEF At
  <2> QED
    BY <2>1, <2>2, <2>3, <2>4 DEF At
<1>8. \A w \in Works : Pending(w)' <=> Pending(w)
  BY <1>1 DEF Pending
<1>9. PlaceInv'
  <2>1. \A k, i : At(x, k, i) => k = "caller" /\ i = t
    BY <1>1, <1>2 DEF PlaceInv
  <2>2. Pending(x)
    BY <1>1, <1>2 DEF PlaceInv
  <2> QED
    BY <1>1, <1>7, <1>8, <2>1, <2>2 DEF PlaceInv
<1>10. BusyInv'
  BY <1>1 DEF BusyInv, Pending
<1>11. AcyclicInv'
  <2>1. ASSUME NEW d \in CPUs, NEW w \in From(next', first'[d])
        PROVE  w \notin From(next', next'[w])
    <3>1. CASE w = x
      BY <3>1, <1>3
    <3>2. CASE w # x
      <4>1. w \in From(next, first[d])
        BY <3>2, <2>1, <1>6
      <4> QED
        BY <4>1, <1>3 DEF AcyclicInv
    <3> QED
      BY <3>1, <3>2
  <2>2. ASSUME NEW d \in CPUs, NEW w \in From(next', llnode'[d])
        PROVE  w \notin From(next', next'[w])
    <3>1. w \in From(next, llnode[d])
      BY <2>2, <1>6
    <3> QED
      BY <3>1, <1>3 DEF AcyclicInv
  <2> QED
    BY <2>1, <2>2 DEF AcyclicInv
<1> QED
  BY <1>9, <1>10, <1>11

\* llist_del_all() moves every item of the list to the runner's chain.
LEMMA TakePlaces ==
    ASSUME IrqInv, NEW c \in CPUs, Take(c)
    PROVE  PlaceInv' /\ BusyInv' /\ AcyclicInv'
<1> USE DEF IrqInv
<1>1. /\ run[c] = "take" /\ llnode[c] = NULL
      /\ llnode' = [llnode EXCEPT ![c] = first[c]] /\ first' = [first EXCEPT ![c] = NULL]
      /\ UNCHANGED <<flags, next, pc, arg, work, owed>>
  BY DEF Take, callVars, RunInv
<1>2. \A d \in CPUs : run'[d] = "xchg" <=> run[d] = "xchg"
  BY DEF Take, Return, Continue, TypeOK
<1>3. From(next, NULL) = {}
  BY FromNull DEF TypeOK, RunInv
<1>4. \A d \in CPUs :
        /\ From(next', first'[d]) = IF d = c THEN {} ELSE From(next, first[d])
        /\ From(next', llnode'[d]) = From(next, IF d = c THEN first[c] ELSE llnode[d])
  BY <1>1, <1>3 DEF TypeOK
<1>5. \A w \in Works : \A k, i :
        At(w, k, i)' <=> IF i = c /\ k = "list" THEN FALSE
                         ELSE IF i = c /\ k = "chain" THEN At(w, "list", c)
                         ELSE At(w, k, i)
  <2> SUFFICES ASSUME NEW w \in Works, NEW k, NEW i
               PROVE  At(w, k, i)' <=> IF i = c /\ k = "list" THEN FALSE
                                       ELSE IF i = c /\ k = "chain" THEN At(w, "list", c)
                                       ELSE At(w, k, i)
    OBVIOUS
  <2>1. CASE k = "caller"
    BY <1>1, <2>1 DEF At
  <2>2. CASE k = "list"
    BY <1>4, <2>2 DEF At
  <2>3. CASE k = "chain"
    BY <1>4, <2>3 DEF At
  <2>4. CASE k = "runner"
    BY <1>1, <1>2, <2>4 DEF At
  <2> QED
    BY <2>1, <2>2, <2>3, <2>4 DEF At
<1>6. \A w \in Works : ~At(w, "chain", c)
  BY <1>1, <1>3 DEF At
<1>7. \A w \in Works : Pending(w)' <=> Pending(w)
  BY <1>1 DEF Pending
<1>8. PlaceInv'
  <2>1. ASSUME NEW w \in Works, NEW k, NEW i, At(w, k, i)'
        PROVE  Pending(w)'
    BY <1>5, <1>7, <2>1 DEF PlaceInv
  <2>2. ASSUME NEW w \in Works, Pending(w)'
        PROVE  \E k, i : At(w, k, i)'
    <3>1. PICK k, i : At(w, k, i)
      BY <1>7, <2>2 DEF PlaceInv
    <3>2. CASE i = c /\ k = "list"
      BY <1>5, <3>1, <3>2
    <3>3. CASE ~(i = c /\ k = "list")
      BY <1>5, <1>6, <3>1, <3>3
    <3> QED
      BY <3>2, <3>3
  <2>3. ASSUME NEW w \in Works, NEW k, NEW i, NEW l, NEW j, At(w, k, i)', At(w, l, j)'
        PROVE  k = l /\ i = j
    BY <1>5, <2>3 DEF PlaceInv
  <2> QED
    BY <2>1, <2>2, <2>3 DEF PlaceInv
<1>9. BusyInv'
  BY <1>1 DEF BusyInv, Pending
<1>10. AcyclicInv'
  BY <1>1, <1>4 DEF AcyclicInv
<1> QED
  BY <1>8, <1>9, <1>10

\* llist_next() takes the first item off the chain into the runner's hands.
LEMMA FetchPlaces ==
    ASSUME IrqInv, NEW c \in CPUs, Fetch(c)
    PROVE  PlaceInv' /\ BusyInv' /\ AcyclicInv'
<1> USE DEF IrqInv
<1> DEFINE x == llnode[c]
<1>1. /\ run[c] = "fetch" /\ x \in Works
      /\ work' = [work EXCEPT ![c] = x] /\ llnode' = [llnode EXCEPT ![c] = next[x]]
      /\ run' = [run EXCEPT ![c] = "xchg"]
      /\ UNCHANGED <<flags, next, first, pc, arg, owed>>
  BY DEF Fetch, callVars, workVars, RunInv
<1>2. /\ From(next, x) = {x} \cup From(next, next[x])
      /\ x \notin From(next, next[x])
  <2>1. From(next, x) = {x} \cup From(next, next[x])
    BY <1>1, FromStep DEF TypeOK, RunInv
  <2> QED
    BY <2>1 DEF AcyclicInv
<1>3. At(x, "chain", c)
  BY <1>2 DEF At
<1>4. \A w \in Works : \A k, i :
        At(w, k, i)' <=> \/ At(w, k, i) /\ ~(w = x /\ k = "chain" /\ i = c)
                         \/ w = x /\ k = "runner" /\ i = c
  <2> SUFFICES ASSUME NEW w \in Works, NEW k, NEW i
               PROVE  At(w, k, i)' <=> \/ At(w, k, i) /\ ~(w = x /\ k = "chain" /\ i = c)
                                       \/ w = x /\ k = "runner" /\ i = c
    OBVIOUS
  <2>1. CASE k = "caller"
    BY <1>1, <2>1 DEF At
  <2>2. CASE k = "list"
    BY <1>1, <2>2 DEF At
  <2>3. CASE k = "chain"
    <3>1. \A d \in CPUs : d # c => llnode'[d] = llnode[d]
      BY <1>1 DEF TypeOK
    <3>2. llnode'[c] = next[x]
      BY <1>1 DEF TypeOK
    <3>3. i = c => (w \in From(next, llnode[i]) /\ w # x <=> w \in From(next, next[x]))
      BY <1>2
    <3> HIDE DEF x
    <3> QED
      BY <1>1, <2>3, <3>1, <3>2, <3>3 DEF At
  <2>4. CASE k = "runner"
    BY <1>1, <2>4 DEF At, TypeOK
  <2> QED
    BY <2>1, <2>2, <2>3, <2>4 DEF At
<1>5. \A w \in Works : Pending(w)' <=> Pending(w)
  BY <1>1 DEF Pending
<1>6. (\A k, i : At(x, k, i) => k = "chain" /\ i = c) /\ Pending(x)
  BY <1>1, <1>3 DEF PlaceInv
<1>7. AcyclicInv'
  <2>1. \A d \in CPUs : From(next', llnode'[d]) \subseteq From(next, llnode[d])
    BY <1>1, <1>2 DEF TypeOK
  <2> QED
    BY <1>1, <2>1 DEF AcyclicInv
<1> HIDE DEF x
<1>8. PlaceInv'
  BY <1>1, <1>4, <1>5, <1>6 DEF PlaceInv
<1>9. BusyInv'
  BY <1>1 DEF BusyInv, Pending
<1> QED
  BY <1>7, <1>8, <1>9

\* xchg() takes PENDING off the item and with it the item out of every place.
LEMMA StartPlaces ==
    ASSUME IrqInv, NEW c \in CPUs, StartFunc(c)
    PROVE  PlaceInv' /\ BusyInv' /\ AcyclicInv'
<1> USE DEF IrqInv
<1> DEFINE x == work[c]
<1>1. /\ run[c] = "xchg" /\ x \in Works
      /\ flags' = [flags EXCEPT ![x] = lflags[c]] /\ owed' = owed \ {x}
      /\ run' = [run EXCEPT ![c] = "func"]
      /\ UNCHANGED <<next, first, llnode, work, pc, arg>>
  BY DEF StartFunc, callVars, RunInv
<1>2. At(x, "runner", c)
  BY <1>1 DEF At
<1>3. \A k, i : At(x, k, i) => k = "runner" /\ i = c
  BY <1>1, <1>2 DEF PlaceInv
<1>4. \A w \in Works : \A k, i : At(w, k, i)' <=> At(w, k, i) /\ ~(k = "runner" /\ i = c)
  BY <1>1 DEF At, TypeOK
<1>5. "PENDING" \notin lflags[c]
  BY DEF TypeOK
<1>6. \A w \in Works : w # x => flags'[w] = flags[w]
  BY <1>1 DEF TypeOK
<1>7. \A w \in Works : w = x => ~Pending(w)'
  BY <1>1, <1>5 DEF Pending, TypeOK
<1>8. \A w \in Works : w # x => (Pending(w)' <=> Pending(w))
  BY <1>6 DEF Pending
<1>9. \A w \in Works : At(w, "runner", c) => w = x
  BY DEF At
<1>10. AcyclicInv'
  BY <1>1 DEF AcyclicInv
<1> HIDE DEF x
<1>11. PlaceInv'
  <2>1. ASSUME NEW w \in Works, NEW k, NEW i, At(w, k, i)'
        PROVE  Pending(w)'
    BY <1>3, <1>4, <1>8, <2>1 DEF PlaceInv
  <2>2. ASSUME NEW w \in Works, Pending(w)'
        PROVE  \E k, i : At(w, k, i)'
    <3>1. w # x
      BY <1>7, <2>2
    <3>2. PICK k, i : At(w, k, i)
      BY <1>8, <2>2, <3>1 DEF PlaceInv
    <3> QED
      BY <1>4, <1>9, <3>1, <3>2
  <2>3. ASSUME NEW w \in Works, NEW k, NEW i, NEW l, NEW j, At(w, k, i)', At(w, l, j)'
        PROVE  k = l /\ i = j
    BY <1>4, <2>3 DEF PlaceInv
  <2> QED
    BY <2>1, <2>2, <2>3 DEF PlaceInv
<1>12. BusyInv'
  <2>1. \A w \in owed' : w # x /\ w \in owed /\ w \in Works
    BY <1>1 DEF TypeOK
  <2> QED
    BY <1>6, <1>7, <1>8, <2>1 DEF BusyInv
<1> QED
  BY <1>10, <1>11, <1>12

\* The cmpxchg() after the callback leaves a pending item alone.
LEMMA EndPlaces ==
    ASSUME IrqInv, NEW c \in CPUs, EndFunc(c)
    PROVE  PlaceInv' /\ BusyInv' /\ AcyclicInv'
<1> USE DEF IrqInv
<1> DEFINE x == work[c]
<1>1. /\ run[c] = "func" /\ x \in Works
      /\ flags' = [flags EXCEPT ![x] = NotBusy(c)]
      /\ work' = [work EXCEPT ![c] = NULL]
      /\ UNCHANGED <<next, first, llnode, pc, arg, owed>>
  BY DEF EndFunc, callVars, RunInv
<1>2. \A d \in CPUs : (run'[d] = "xchg" <=> run[d] = "xchg")
                      /\ (run[d] = "xchg" => work'[d] = work[d])
  BY DEF EndFunc, Return, Continue, TypeOK
<1>3. (\A w \in Works : \A k, i : At(w, k, i)' <=> At(w, k, i)) /\ AcyclicInv'
  BY <1>1, <1>2, PlacesSame
<1>4. \A w \in Works : w # x => flags'[w] = flags[w]
  BY <1>1 DEF TypeOK
<1>5. /\ Pending(x) <=> "PENDING" \in flags'[x]
      /\ Pending(x) => flags'[x] = flags[x]
  <2>1. flags'[x] = NotBusy(c)
    BY <1>1 DEF TypeOK
  <2>2. "PENDING" \notin lflags[c]
    BY DEF TypeOK
  <2> QED
    BY <2>1, <2>2 DEF NotBusy, Pending
<1>6. \A w \in Works : Pending(w)' <=> Pending(w)
  BY <1>4, <1>5 DEF Pending
<1>7. PlaceInv'
  BY <1>3, <1>6 DEF PlaceInv
<1>8. BusyInv'
  <2>1. \A w \in Works : Pending(w) => flags'[w] = flags[w]
    BY <1>4, <1>5
  <2>2. \A w \in owed' : w \in Works /\ w \in owed
    BY <1>1 DEF TypeOK
  <2> QED
    BY <1>6, <2>1, <2>2 DEF BusyInv
<1> QED
  BY <1>3, <1>7, <1>8

LEMMA IrqStep == IrqInv /\ [Next]_vars => IrqInv'
<1> SUFFICES ASSUME IrqInv, [Next]_vars PROVE IrqInv'
  OBVIOUS
<1> DEFINE Goal == PlaceInv' /\ BusyInv' /\ AcyclicInv'
<1>1. ASSUME NEW t \in Callers, NEW w \in Works, Sync(t, w) PROVE Goal
  BY <1>1, PlacesQuiet DEF Sync, workVars, runVars, IrqInv, TypeOK
<1>2. ASSUME NEW t \in Callers, Raise(t) PROVE Goal
  BY <1>2, PlacesQuiet DEF Raise, workVars, runVars, IrqInv, TypeOK
<1>3. ASSUME NEW t \in Callers, SyncReturn(t) PROVE Goal
  BY <1>3, PlacesQuiet DEF SyncReturn, workVars, runVars, IrqInv, TypeOK
<1>4. ASSUME NEW c \in CPUs, EnterRun(c) PROVE Goal
  BY <1>4, PlacesQuiet DEF EnterRun, IrqsOn, workVars, callVars, IrqInv, TypeOK
<1>5. ASSUME UNCHANGED <<workVars, callVars, runVars, owed>> PROVE Goal
  BY <1>5, PlacesQuiet DEF workVars, callVars, runVars
<1> HIDE DEF Goal
<1>6. ASSUME NEW c \in CPUs, IdleStep(c)
      PROVE  Goal
  <2>1. UNCHANGED <<workVars, callVars, runVars, owed>>
    BY <1>6, IdleUnchanged
  <2> QED
    BY <2>1, <1>5
<1>7. ASSUME NEW c \in CPUs, RunStep(c) \/ CpuDying(c)
      PROVE  Goal
  BY <1>7, <1>4, TakePlaces, FetchPlaces, StartPlaces, EndPlaces
     DEF RunStep, Interrupt, Tick, CpuDying, Goal
<1>8. ASSUME NEW t \in Callers, NEW w \in Works, NEW c \in CPUs, Claim(t, w, c) PROVE Goal
  BY <1>8, ClaimPlaces DEF Goal
<1>9. ASSUME NEW t \in Callers, CallStep(t) \/ SyncReturn(t) PROVE Goal
  BY <1>9, <1>2, <1>3, AddPlaces DEF CallStep, Goal
<1>10. ASSUME Next PROVE IrqInv'
  <2>1. Goal
    BY <1>10, <1>1, <1>6, <1>7, <1>8, <1>9 DEF Next, IdleStep
  <2> QED
    BY <1>10, <2>1, IrqTypeStep, IrqCallStep DEF Goal, IrqInv
<1>11. ASSUME UNCHANGED vars PROVE IrqInv'
  <2>1. Goal
    BY <1>11, <1>5 DEF vars
  <2>2. TypeOK' /\ CallInv' /\ RunInv'
    BY <1>11 DEF vars, workVars, cpuVars, callVars, runVars, IrqInv, TypeOK, CallInv, RunInv
  <2> QED
    BY <2>1, <2>2 DEF Goal, IrqInv
<1> QED
  BY <1>10, <1>11

LEMMA IrqInvariant == Spec => []IrqInv
<1>1. Init => IrqInv
  BY IrqInit
<1> QED
  BY <1>1, IrqStep, PTL DEF Spec

\* The places of an item, as the set Holders() of the specification.
LEMMA HoldersAt ==
    ASSUME NEW w \in Works
    PROVE  /\ \A k, i : At(w, k, i) <=> <<k, i>> \in Holders(w)
           /\ \A x \in Holders(w) : \E k, i : x = <<k, i>>
<1>1. \A p : Chain(p) = From(next, p)
  BY ChainFrom
<1>2. ASSUME NEW k, NEW i PROVE At(w, k, i) <=> <<k, i>> \in Holders(w)
  BY <1>1 DEF At, Holders
<1>3. ASSUME NEW x \in Holders(w) PROVE \E k, i : x = <<k, i>>
  BY DEF Holders
<1> QED
  BY <1>2, <1>3

\* PENDING is in step with the lists for any number of items, CPUs and callers.
THEOREM IrqPending == Spec => []PendingInv
<1>1. ASSUME IrqInv PROVE PendingInv
  <2>1. ASSUME NEW w \in Works
        PROVE  Cardinality(Holders(w)) = IF "PENDING" \in flags[w] THEN 1 ELSE 0
    <3>1. CASE Pending(w)
      <4>1. PICK k, i : At(w, k, i)
        BY <1>1, <3>1 DEF IrqInv, PlaceInv
      <4>2. Holders(w) = {<<k, i>>}
        BY <1>1, <4>1, HoldersAt DEF IrqInv, PlaceInv
      <4> QED
        BY <3>1, <4>2, FS_Singleton DEF Pending
    <3>2. CASE ~Pending(w)
      <4>1. Holders(w) = {}
        BY <1>1, <3>2, HoldersAt DEF IrqInv, PlaceInv
      <4> QED
        BY <3>2, <4>1, FS_EmptySet DEF Pending
    <3> QED
      BY <3>1, <3>2
  <2>2. \A w \in owed : Pending(w)
    BY <1>1 DEF IrqInv, BusyInv
  <2> QED
    BY <1>1, <2>1, <2>2 DEF PendingInv, PendingInOnePlace, NoLostRequest, Pending, IrqInv
<1> QED
  BY <1>1, IrqInvariant, PTL

\* irq_work_sync() returns only when the item is in no place.
THEOREM IrqSync == Spec => SyncWaitsForPending
<1>1. ASSUME IrqInv, [Next]_vars, NEW t \in Callers, NEW w \in Works,
             pc[t] = "sync", arg[t] = w, pc'[t] = "idle"
      PROVE  Holders(w) = {}
  <2>1. "BUSY" \notin flags[w]
    <3>1. SyncReturn(t) => "BUSY" \notin flags[w]
      BY <1>1 DEF SyncReturn
    <3>2. \A u \in Callers : SyncReturn(u) => u = t
      BY <1>1 DEF SyncReturn, IrqInv, TypeOK
    <3>3. \A u \in Callers, v \in Works, c \in CPUs : ~Claim(u, v, c)
      BY <1>1 DEF Claim, callVars, IrqInv, TypeOK
    <3>4. \A u \in Callers, v \in Works : ~Sync(u, v)
      BY <1>1 DEF Sync, IrqInv, TypeOK
    <3>5. \A u \in Callers : ~CallStep(u)
      BY <1>1 DEF CallStep, Add, Raise, IrqInv, TypeOK
    <3>6. pc' # pc
      BY <1>1
    <3>7. \A c \in CPUs : ~(RunStep(c) \/ CpuDying(c))
      BY <3>6 DEF RunStep, Interrupt, Tick, EnterRun, Take, Fetch, StartFunc, EndFunc,
                  CpuDying, callVars
    <3>8. \A c \in CPUs : ~IdleStep(c)
      BY <3>6, IdleUnchanged DEF callVars
    <3>9. ~UNCHANGED vars
      BY <3>6 DEF vars, callVars
    <3> QED
      BY <1>1, <3>1, <3>2, <3>3, <3>4, <3>5, <3>7, <3>8, <3>9 DEF Next, IdleStep
  <2>2. ~Pending(w)
    BY <1>1, <2>1 DEF IrqInv, BusyInv
  <2> QED
    BY <1>1, <2>2, HoldersAt DEF IrqInv, PlaceInv
<1>2. IrqInv /\ [Next]_vars =>
        [\A t \in Callers, w \in Works :
            pc[t] = "sync" /\ arg[t] = w /\ pc'[t] = "idle" => Holders(w) = {}]_vars
  BY <1>1
<1> QED
  BY <1>2, IrqInvariant, PTL DEF Spec, SyncWaitsForPending

-----------------------------------------------------------------------------
(* Work on a list will be run.                                             *)

\* Item w is known to be unheard, or a caller is about to raise the interrupt for it.
Covered(w, c) ==
    \/ w \in late[c]
    \/ c \in Raising /\ \E t \in Callers : pc[t] = "raise" /\ cpu[t] = c /\ arg[t] = w

\* Of one CPU: irq_work_raised means an interrupt, unless the CPU is new and ticks; a CPU
\* that is down will tick, and runs nothing; no run is under way while the tick stops;
\* only unheard items are left on the list of a CPU that goes down; a list that no event
\* will run has covered items only; a lazy item that an NMI adds while the tick stops is
\* unheard.
WakeOK(c) ==
    /\ raised[c] /\ c \in Raising /\ hotplug[c] = "online" => ipi[c] \/ tick[c] = "periodic"
    /\ hotplug[c] = "offline" => tick[c] = "periodic" /\ run[c] = "idle"
    /\ run[c] # "idle" => tick[c] # "stopping"
    /\ hotplug[c] = "offline" \/ (hotplug[c] = "dying" /\ run[c] # "take") =>
          From(next, first[c]) \subseteq late[c]
    /\ hotplug[c] = "online" /\ ~WillRun(c) => \A w \in From(next, first[c]) : Covered(w, c)
    /\ \A t \in Nmi : pc[t] = "raise" /\ cpu[t] = c /\ tick[c] = "stopping" /\ arg[t] \in Lazy =>
          arg[t] \in late[c]

WakeInv == \A c \in CPUs : WakeOK(c)

\* The state of c's list and of the CPU itself is the same after the step.
SameWake(c) ==
    /\ From(next', first'[c]) = From(next, first[c]) /\ late'[c] = late[c]
    /\ raised'[c] = raised[c] /\ ipi'[c] = ipi[c]
    /\ tick'[c] = tick[c] /\ hotplug'[c] = hotplug[c] /\ run'[c] = run[c]

\* Nobody starts or stops being about to raise the interrupt at c.
SameRaisers(c) ==
    \A t \in Callers : (pc'[t] = "raise" /\ cpu'[t] = c <=> pc[t] = "raise" /\ cpu[t] = c)
                       /\ (pc[t] = "raise" /\ cpu[t] = c => arg'[t] = arg[t])

\* A CPU at which nothing changes keeps what is known of it.
LEMMA WakeSame ==
    ASSUME NEW c \in CPUs, WakeOK(c), SameWake(c), SameRaisers(c)
    PROVE  WakeOK(c)'
<1>1. \A w : Covered(w, c)' <=> Covered(w, c)
  BY DEF Covered, SameWake, SameRaisers
<1>2. WillRun(c)' <=> WillRun(c)
  BY DEF WillRun, SameWake
<1>3. \A t \in Nmi : t \in Callers
  BY IrqWorkAssumption
<1> QED
  BY <1>1, <1>2, <1>3 DEF WakeOK, SameWake, SameRaisers

\* A caller's step on another CPU, or one that is not about a list.
LEMMA WakeQuiet ==
    ASSUME IrqInv, NEW d \in CPUs, WakeOK(d), UNCHANGED <<next, first, late, cpuVars, run>>,
           SameRaisers(d)
    PROVE  WakeOK(d)'
<1>1. SameWake(d)
  BY DEF SameWake, cpuVars
<1> QED
  BY <1>1, WakeSame

\* llist_add(): what is added is covered, or an event will run the list.
LEMMA WakeAdd ==
    ASSUME IrqInv, NEW d \in CPUs, WakeOK(d), NEW t \in Callers, NEW c \in CPUs, Add(t, c)
    PROVE  WakeOK(d)'
<1> USE DEF IrqInv, TypeOK
<1> DEFINE x == arg[t]
<1>1. /\ pc[t] = "add" /\ Executes(t, c)
      /\ pc' = [pc EXCEPT ![t] = "raise"] /\ cpu' = [cpu EXCEPT ![t] = c] /\ arg' = arg
      /\ UNCHANGED <<raised, ipi, tick, hotplug, run>>
      /\ late' = [late EXCEPT ![c] = IF Unheard(x, c) THEN @ \cup {x} ELSE @]
  BY DEF Add, cpuVars, runVars
<1>2. \A e \in CPUs : From(next', first'[e]) = From(next, first[e]) \cup (IF e = c THEN {x} ELSE {})
  BY AddLists
<1>3. CASE d # c
  <2>1. SameWake(d)
    BY <1>1, <1>2, <1>3 DEF SameWake
  <2>2. SameRaisers(d)
    BY <1>1, <1>3 DEF SameRaisers
  <2> QED
    BY <2>1, <2>2, WakeSame
<1>4. CASE d = c
  <2>1. /\ late[c] \subseteq late'[c] /\ (Unheard(x, c) => x \in late'[c])
        /\ WillRun(c)' <=> WillRun(c)
    BY <1>1 DEF WillRun
  <2>2. \A w : Covered(w, c) => Covered(w, c)'
    BY <1>1, <2>1 DEF Covered
  <2>3. \A w : w = x /\ c \in Raising => Covered(w, c)'
    BY <1>1 DEF Covered
  <2>4. \A w : w = x /\ hotplug[c] = "online" /\ ~WillRun(c) /\ c \notin Raising => Covered(w, c)'
    BY <2>1 DEF WillRun, Unheard, Covered
  <2>5. hotplug[c] = "offline" => FALSE
    <3>1. hotplug[c] = "offline" => t \in Callbacks /\ run[c] = "func"
      BY <1>1 DEF Executes
    <3> QED
      BY <1>4, <3>1 DEF WakeOK
  <2>6. hotplug[c] = "dying" => x \in late'[c]
    BY <2>1 DEF Unheard
  <2>7. ASSUME NEW u \in Nmi, pc'[u] = "raise", cpu'[u] = c, tick'[c] = "stopping", arg'[u] \in Lazy
        PROVE  arg'[u] \in late'[c]
    <3>0. u \in Callers
      BY IrqWorkAssumption
    <3>1. CASE u = t
      BY <1>1, <2>1, <2>7, <3>1 DEF Unheard
    <3>2. CASE u # t
      BY <1>1, <1>4, <2>1, <2>7, <3>0, <3>2 DEF WakeOK
    <3> QED
      BY <3>1, <3>2
  <2>8. \A w \in From(next', first'[c]) : w = x \/ w \in From(next, first[c])
    BY <1>2
  <2>9. hotplug[c] = "online" /\ ~WillRun(c) => \A w \in From(next', first'[c]) : Covered(w, c)'
    BY <1>4, <2>2, <2>3, <2>4, <2>8 DEF WakeOK
  <2>10. hotplug[c] = "dying" /\ run[c] # "take" => From(next', first'[c]) \subseteq late'[c]
    BY <1>4, <2>1, <2>6, <2>8 DEF WakeOK
  <2> QED
    BY <1>1, <1>4, <2>1, <2>5, <2>7, <2>9, <2>10 DEF WakeOK
<1> QED
  BY <1>3, <1>4

\* The decision to raise the interrupt.
LEMMA WakeRaise ==
    ASSUME IrqInv, NEW d \in CPUs, WakeOK(d), NEW t \in Callers, Raise(t)
    PROVE  WakeOK(d)'
<1> USE DEF IrqInv, TypeOK
<1>0. PICK c \in CPUs : c = cpu[t]
  BY DEF Raise, CallInv
<1>1. /\ pc[t] = "raise" /\ cpu[t] = c /\ Executes(t, c)
      /\ UNCHANGED <<next, first, late, tick, hotplug, run>>
      /\ pc' = [pc EXCEPT ![t] = "idle"] /\ arg' = [arg EXCEPT ![t] = NULL]
      /\ cpu' = [cpu EXCEPT ![t] = NULL]
  BY <1>0 DEF Raise, workVars, runVars
<1>2. IF NeedsRaise(arg[t], c) /\ ~raised[c]
      THEN /\ raised' = [raised EXCEPT ![c] = TRUE]
           /\ ipi' = [ipi EXCEPT ![c] = @ \/ c \in Raising]
      ELSE UNCHANGED <<raised, ipi>>
  BY <1>0 DEF Raise
<1>3. \A u \in Callers \ {t} : pc'[u] = pc[u] /\ cpu'[u] = cpu[u] /\ arg'[u] = arg[u]
  BY <1>1
<1>4. pc'[t] = "idle"
  BY <1>1
<1>5. CASE d # c
  <2>1. SameWake(d)
    BY <1>1, <1>2, <1>5 DEF SameWake
  <2>2. SameRaisers(d)
    BY <1>1, <1>3, <1>4, <1>5 DEF SameRaisers
  <2> QED
    BY <2>1, <2>2, WakeSame
<1>6. CASE d = c
  <2>1. /\ ipi[c] => ipi'[c]
        /\ c \notin Raising => (ipi'[c] <=> ipi[c])
        /\ raised'[c] /\ c \in Raising => raised[c] \/ ipi'[c]
    <3>1. CASE NeedsRaise(arg[t], c) /\ ~raised[c]
      <4>1. raised'[c] /\ (ipi'[c] <=> ipi[c] \/ c \in Raising)
        BY <1>2, <3>1
      <4> QED BY <4>1
    <3>2. CASE ~(NeedsRaise(arg[t], c) /\ ~raised[c])
      BY <1>2, <3>2
    <3> QED BY <3>1, <3>2
  <2>2. \A u \in Nmi : pc'[u] = "raise" => u # t /\ u \in Callers
    BY <1>4, IrqWorkAssumption
  <2>3. hotplug[c] = "online" /\ ~WillRun(c)' =>
           \A w \in From(next, first[c]) : Covered(w, c)'
    <3> SUFFICES ASSUME hotplug[c] = "online", ~WillRun(c)', NEW w \in From(next, first[c])
                 PROVE  Covered(w, c)'
      OBVIOUS
    <3>1. ~WillRun(c)
      BY <1>1, <2>1 DEF WillRun
    <3>2. Covered(w, c)
      BY <1>6, <3>1 DEF WakeOK
    <3>3. ASSUME c \in Raising, arg[t] = w, w \notin late[c]
          PROVE  FALSE
      <4>1. tick[c] \in {"stopping", "stopped"} /\ ~ipi'[c]
        BY <1>1 DEF WillRun
      <4>2. ~NeedsRaise(arg[t], c)
        <5>1. raised[c] => ipi[c]
          BY <1>6, <3>3, <4>1 DEF WakeOK
        <5> QED
          BY <1>1, <1>2, <2>1, <3>3, <4>1, <5>1
      <4>3. tick[c] = "stopping" /\ arg[t] \in Lazy
        BY <4>1, <4>2 DEF NeedsRaise
      <4>4. run[c] = "idle"
        BY <1>6, <4>3 DEF WakeOK
      <4>5. t \in Nmi
        BY <1>1, <4>3, <4>4 DEF Executes
      <4> QED
        BY <1>1, <1>6, <3>3, <4>3, <4>5 DEF WakeOK
    <3>4. CASE w \in late[c]
      BY <1>1, <3>4 DEF Covered
    <3>5. CASE w \notin late[c]
      <4>1. PICK u \in Callers : pc[u] = "raise" /\ cpu[u] = c /\ arg[u] = w
        BY <3>2, <3>5 DEF Covered
      <4>2. c \in Raising
        BY <3>2, <3>5 DEF Covered
      <4>3. u # t
        BY <3>3, <3>5, <4>1, <4>2
      <4> QED
        BY <1>3, <4>1, <4>2, <4>3 DEF Covered
    <3> QED
      BY <3>4, <3>5
  <2>4. \A u \in Nmi : pc'[u] = "raise" /\ cpu'[u] = c /\ tick'[c] = "stopping" /\ arg'[u] \in Lazy =>
          arg'[u] \in late'[c]
    BY <1>1, <1>3, <1>6, <2>2 DEF WakeOK
  <2>5. raised'[c] /\ c \in Raising /\ hotplug[c] = "online" => ipi'[c] \/ tick[c] = "periodic"
    BY <1>6, <2>1 DEF WakeOK
  <2> QED
    BY <1>1, <1>6, <2>3, <2>4, <2>5 DEF WakeOK
<1> QED
  BY <1>5, <1>6

\* No caller is about to decide in an NMI on a CPU that serves none.
LEMMA NoNmiRaiser ==
    ASSUME NEW c \in CPUs, ~NmiOn(c)
    PROVE  \A t \in Nmi : ~(pc[t] = "raise" /\ cpu[t] = c)
  BY DEF NmiOn, OnCpu

\* After irq_exit() a list is empty or an event will run it.
LEMMA WakeIrqExit ==
    ASSUME IrqInv, NEW c \in CPUs, irq_exit(c), tick[c] # "stopping"
    PROVE  /\ tick'[c] # "stopping"
           /\ first[c] = NULL \/ tick'[c] \in {"periodic", "ticking", "due"}
           /\ tick[c] = "periodic" => tick'[c] = "periodic"
  BY DEF irq_exit, irq_work_needs_cpu, IrqInv, TypeOK

\* The steps of a CPU.
LEMMA WakeCpu ==
    ASSUME IrqInv, NEW d \in CPUs, WakeOK(d),
           RunStep(d) \/ CpuDying(d) \/ IdleStep(d)
    PROVE  WakeOK(d)'
<1> USE DEF IrqInv, TypeOK
<1>0. UNCHANGED callVars
  <2>1. RunStep(d) \/ CpuDying(d) => UNCHANGED callVars
    BY DEF RunStep, Interrupt, Tick, EnterRun, Take, Fetch, StartFunc, EndFunc, CpuDying
  <2> QED
    BY <2>1, IdleUnchanged
<1>1. UNCHANGED <<pc, arg, cpu>> /\ \A u \in Nmi : u \in Callers
  BY <1>0, IrqWorkAssumption DEF callVars
<1>2. From(next, NULL) = {}
  BY FromNull DEF RunInv
<1>3. ASSUME EnterRun(d), hotplug'[d] \in {"online", "dying"},
             tick'[d] = tick[d] \/ (tick[d] = "periodic" /\ tick'[d] = "ticking")
      PROVE  WakeOK(d)'
  <2>1. ~raised'[d] /\ run'[d] = "take" /\ tick[d] # "stopping" /\ ~NmiOn(d)
    BY <1>3 DEF EnterRun, IrqsOn
  <2> QED
    BY <1>3, <2>1 DEF WakeOK, WillRun
<1>4. ASSUME Interrupt(d) \/ Tick(d) \/ CpuDying(d) PROVE WakeOK(d)'
  <2>1. EnterRun(d) /\ hotplug[d] = "online"
    BY <1>4 DEF Interrupt, Tick, CpuDying, EnterRun, IrqsOn
  <2>2. hotplug'[d] \in {"online", "dying"}
    BY <1>4, <2>1 DEF Interrupt, Tick, CpuDying
  <2>3. tick'[d] = tick[d] \/ (tick[d] = "periodic" /\ tick'[d] = "ticking")
    BY <1>4 DEF Interrupt, Tick, CpuDying
  <2> QED
    BY <2>1, <2>2, <2>3, <1>3
<1>5. ASSUME Take(d) PROVE WakeOK(d)'
  <2>1. /\ run[d] = "take" /\ ~NmiOn(d) /\ first'[d] = NULL /\ next' = next
        /\ UNCHANGED <<raised, ipi, hotplug>>
        /\ tick[d] # "stopping"
    BY <1>5 DEF Take, WakeOK
  <2>2. From(next', first'[d]) = {}
    BY <1>2, <2>1
  <2>3. tick'[d] # "stopping" /\ (tick[d] = "periodic" => tick'[d] = "periodic")
    BY <1>5, <2>1, WakeIrqExit DEF Take, Return, Continue
  <2> QED
    BY <2>1, <2>2, <2>3 DEF WakeOK
<1>6. ASSUME Fetch(d) \/ StartFunc(d) PROVE WakeOK(d)'
  <2>1. /\ UNCHANGED <<next, first, late, raised, ipi, tick, hotplug>>
        /\ run[d] \in {"fetch", "xchg"} /\ run'[d] \in {"xchg", "func"}
    BY <1>6 DEF Fetch, StartFunc, workVars, cpuVars
  <2>2. (WillRun(d)' <=> WillRun(d)) /\ \A w : Covered(w, d)' <=> Covered(w, d)
    BY <1>1, <2>1 DEF WillRun, Covered
  <2> QED
    BY <1>1, <2>1, <2>2 DEF WakeOK
<1>7. ASSUME EndFunc(d) PROVE WakeOK(d)'
  <2>1. /\ UNCHANGED <<next, first, raised, ipi, hotplug>> /\ run[d] = "func" /\ ~NmiOn(d)
        /\ run'[d] \in {"idle", "fetch"} /\ tick[d] # "stopping"
    BY <1>7 DEF EndFunc, Return, Continue, NmiOn, OnCpu, WakeOK
  <2>2. CASE llnode[d] = NULL /\ hotplug[d] # "dying"
    <3>1. irq_exit(d)
      BY <1>7, <2>2 DEF EndFunc, Return
    <3>2. hotplug[d] = "online"
      BY <2>1, <2>2 DEF WakeOK
    <3> QED
      BY <1>1, <1>2, <2>1, <2>2, <3>1, <3>2, WakeIrqExit, NoNmiRaiser DEF WakeOK, WillRun
  <2>3. CASE ~(llnode[d] = NULL /\ hotplug[d] # "dying")
    <3>1. UNCHANGED <<tick, late>>
      BY <1>7, <2>3 DEF EndFunc, Return, Continue
    <3>2. (WillRun(d)' <=> WillRun(d)) /\ \A w : Covered(w, d)' <=> Covered(w, d)
      BY <1>1, <2>1, <3>1 DEF WillRun, Covered
    <3> QED
      BY <1>1, <2>1, <3>1, <3>2 DEF WakeOK
  <2> QED
    BY <2>2, <2>3
<1>8. ASSUME OtherInterrupt(d) PROVE WakeOK(d)'
  <2>1. /\ UNCHANGED <<next, first, raised, ipi, hotplug, run>> /\ run[d] = "idle"
        /\ hotplug[d] = "online" /\ ~NmiOn(d) /\ tick[d] # "stopping" /\ irq_exit(d)
    BY <1>8 DEF OtherInterrupt, IrqsOn, tickVars, workVars, runVars
  <2> QED
    BY <1>1, <1>2, <2>1, WakeIrqExit, NoNmiRaiser DEF WakeOK, WillRun
<1>9. ASSUME CpuDead(d) PROVE WakeOK(d)'
  BY <1>1, <1>9 DEF CpuDead, workVars, runVars, WakeOK
<1>10. ASSUME CpuOnline(d) PROVE WakeOK(d)'
  BY <1>1, <1>10 DEF CpuOnline, workVars, runVars, WakeOK, WillRun
<1>11. ASSUME StopTickCheck(d) PROVE WakeOK(d)'
  <2>1. /\ UNCHANGED <<next, first, raised, ipi, hotplug, run>> /\ run[d] = "idle"
        /\ hotplug[d] = "online" /\ ~NmiOn(d) /\ tick[d] = "ticking" /\ first[d] = NULL
    BY <1>11 DEF StopTickCheck, irq_work_needs_cpu, IrqsOn, tickVars, workVars, runVars
  <2> QED
    BY <1>1, <1>2, <2>1, NoNmiRaiser DEF WakeOK
<1>12. ASSUME StopTick(d) \/ RestartTick(d) PROVE WakeOK(d)'
  <2>1. /\ UNCHANGED <<next, first, raised, ipi, hotplug, run, late>>
        /\ tick[d] \in {"stopping", "stopped", "due"} /\ tick'[d] \in {"stopped", "ticking"}
        /\ tick'[d] = "stopped" => tick[d] = "stopping"
    BY <1>12 DEF StopTick, RestartTick, tickVars, workVars, runVars
  <2>2. (WillRun(d)' \/ (WillRun(d)' <=> WillRun(d))) /\ \A w : Covered(w, d)' <=> Covered(w, d)
    BY <1>1, <2>1 DEF WillRun, Covered
  <2> QED
    BY <2>1, <2>2 DEF WakeOK
<1> QED
  BY <1>4, <1>5, <1>6, <1>7, <1>8, <1>9, <1>10, <1>11, <1>12 DEF RunStep, IdleStep

LEMMA WakeStep ==
    ASSUME IrqInv, WakeInv, Next
    PROVE  WakeInv'
<1> USE DEF IrqInv, TypeOK
<1> SUFFICES ASSUME NEW d \in CPUs PROVE WakeOK(d)'
  BY DEF WakeInv
<1>0. WakeOK(d)
  BY DEF WakeInv
<1>1. ASSUME NEW t \in Callers, NEW w \in Works, NEW c \in CPUs, Claim(t, w, c) PROVE WakeOK(d)'
  <2>1. SameRaisers(d) /\ UNCHANGED <<next, first, late, cpuVars, run>>
    BY <1>1 DEF Claim, callVars, runVars, SameRaisers
  <2> QED
    BY <1>0, <2>1, WakeQuiet
<1>2. ASSUME NEW t \in Callers, NEW w \in Works, Sync(t, w) PROVE WakeOK(d)'
  <2>1. SameRaisers(d) /\ UNCHANGED <<next, first, late, cpuVars, run>>
    BY <1>2 DEF Sync, workVars, runVars, SameRaisers
  <2> QED
    BY <1>0, <2>1, WakeQuiet
<1>3. ASSUME NEW t \in Callers, SyncReturn(t) PROVE WakeOK(d)'
  <2>1. SameRaisers(d) /\ UNCHANGED <<next, first, late, cpuVars, run>>
    BY <1>3 DEF SyncReturn, workVars, runVars, SameRaisers
  <2> QED
    BY <1>0, <2>1, WakeQuiet
<1>4. ASSUME NEW t \in Callers, CallStep(t) PROVE WakeOK(d)'
  BY <1>0, <1>4, WakeAdd, WakeRaise DEF CallStep
<1>5. ASSUME NEW c \in CPUs, RunStep(c) \/ CpuDying(c) \/ IdleStep(c)
      PROVE  WakeOK(d)'
  <2>1. CASE c = d
    BY <1>0, <1>5, <2>1, WakeCpu
  <2>2. CASE c # d
    <3>1. RunStep(c) \/ CpuDying(c) => SameWake(d) /\ SameRaisers(d)
      BY <2>2 DEF SameWake, SameRaisers, RunStep, Interrupt, Tick, EnterRun, Take, Return,
         Continue, irq_exit, Fetch, StartFunc, EndFunc, CpuDying, workVars, cpuVars, callVars
    <3>2. IdleStep(c) => SameWake(d) /\ SameRaisers(d)
      BY <2>2 DEF SameWake, SameRaisers, IdleStep, OtherInterrupt, irq_exit, CpuDead, CpuOnline,
         StopTickCheck, StopTick, RestartTick, tickVars, workVars, callVars, runVars
    <3> QED
      BY <1>0, <1>5, <3>1, <3>2, WakeSame
  <2> QED
    BY <2>1, <2>2
<1> QED
  BY <1>1, <1>2, <1>3, <1>4, <1>5 DEF Next, IdleStep

\* Queued work is stuck neither on a running CPU nor on a dead one, whatever tasks,
\* callbacks and NMIs queue and whether or not the interrupt can be raised, except for the
\* items that the history variable names: the ones added while the CPU goes down, and the
\* ones added with the tick about to stop or stopped and no interrupt to be raised, as
\* long as no interrupt has ended on the CPU since.
THEOREM IrqWorkWillRun == Spec => []WorkWillRun
<1>1. Init => WakeInv
  <2>1. Init => \A c \in CPUs : From(next, first[c]) = {}
    BY IrqWorkAssumption, FromNull DEF Init, Nodes
  <2> QED
    BY <2>1 DEF Init, WakeInv, WakeOK
<1>2. IrqInv /\ WakeInv /\ [Next]_vars => WakeInv'
  <2>1. IrqInv /\ WakeInv /\ Next => WakeInv'
    BY WakeStep
  <2>2. WakeInv /\ UNCHANGED vars => WakeInv'
    BY DEF vars, workVars, cpuVars, callVars, runVars, WakeInv, WakeOK, WillRun, Covered
  <2> QED
    BY <2>1, <2>2
<1>3. IrqInv /\ WakeInv => WorkWillRun
  <2> SUFFICES ASSUME IrqInv, WakeInv PROVE WorkWillRun
    OBVIOUS
  <2>1. \A p : Chain(p) = From(next, p)
    BY ChainFrom
  <2>2. WorkHasWaker
    BY <2>1 DEF WakeInv, WakeOK, WorkHasWaker, Covered
  <2>3. FlushedBeforeOffline
    BY <2>1 DEF WakeInv, WakeOK, FlushedBeforeOffline
  <2> QED
    BY <2>2, <2>3 DEF WorkWillRun
<1> QED
  BY <1>1, <1>2, <1>3, IrqInvariant, PTL DEF Spec

-----------------------------------------------------------------------------
(***************************************************************************)
(* Work in task context.  What it shares with irq_work (Works, NULL,       *)
(* Callers and the variables of the same name) is shared notation: nothing *)
(* relates a state of one to a state of the other.  The assumption on the  *)
(* constants of TaskWork is a hypothesis of each result.                   *)
(***************************************************************************)
CONSTANTS Exited, Head0, Funcs, func, Notified

VARIABLES task_works, notify, exiting, pi_lock, want, pprev, lnext, head, queued

Tw == INSTANCE TaskWork

\* The library's operator as TaskWork sees it is the library's.
LEMMA TwRemove == \A s, e : Tw!RemoveFirst(s, e) = RemoveFirst(s, e)
BY DEF Tw!RemoveFirst, RemoveFirst, Tw!RemoveAt, RemoveAt, Tw!SelectInSeq, SelectInSeq, Tw!Min, Min

(* The inductive invariant: where every work of the history variable is.   *)

\* Linked() and Reversed() for any list q and any function nx in the place of ->next.
LinkedIn(nx, q, p, m, n) ==
    IF m > n THEN p \in {NULL, Exited}
    ELSE /\ p = q[n] /\ nx[q[m]] = NULL
         /\ \A i \in m + 1 .. n : nx[q[i]] = q[i - 1]

ReversedIn(nx, q, p, m, n) ==
    IF m > n THEN p = NULL
    ELSE /\ p = q[m] /\ nx[q[n]] = NULL
         /\ \A i \in m .. n - 1 : nx[q[i]] = q[i + 1]

Adding(c) == pc[c] \in {"add", "add_cas"}
Holding(c) == pc[c] \in {"cancel", "cancel_cas"}

\* The special values are no works; a canceller owns ->pi_lock.
LockInv ==
    /\ NULL \notin Works /\ Exited \notin Works /\ Head0 \notin Works
    /\ NULL # Exited /\ NULL # Head0 /\ Exited # Head0
    /\ \A c \in Callers : Holding(c) => pi_lock = c /\ pi_lock # NULL

\* A work that is being added is not queued and nobody else adds it.
AddInv ==
    /\ DupFree(queued)
    /\ \A c \in Callers : Adding(c) => arg[c] \in Works /\ ~InList(queued, arg[c])
    /\ \A c, d \in Callers : Adding(c) /\ Adding(d) /\ arg[c] = arg[d] => c = d

\* The list is closed by an exiting task that is done; work_exited ends every walk.
ExitInv ==
    /\ task_works = Exited => queued = <<>> /\ run = "user" /\ exiting
    /\ next[Exited] = NULL

\* The first k works are the task's, at least one while it deals with them.
TakenInv(k) ==
    /\ run = "wait" => k >= 1 /\ LinkedIn(next, queued, work, 1, k)
    /\ run = "reverse" => \E j \in 1 .. k : /\ LinkedIn(next, queued, work, 1, j)
                                            /\ ReversedIn(next, queued, head, j + 1, k)
    /\ run = "call" => k >= 1 /\ ReversedIn(next, queued, work, 1, k)
    /\ run \in {"user", "resume", "take"} => k = 0

\* Work w may be in a canceller's hands: it is linked, or the task waits for the lock.
Stable(w, k) == \E i \in 1 .. Len(queued) : queued[i] = w /\ (run = "wait" \/ i > k)

\* What the canceller c has in hand.
CancelInv(c, k) ==
    /\ Holding(c) /\ pprev[c] \in Works => Stable(pprev[c], k)
    /\ pc[c] = "cancel_cas" => /\ arg[c] \in Works /\ Stable(arg[c], k)
                               /\ lnext[c] = next[arg[c]] /\ pprev[c] # Exited

\* The task has the first k works, the others are linked.
SplitInv(k) ==
    /\ k \in 0 .. Len(queued)
    /\ TakenInv(k) /\ LinkedIn(next, queued, task_works, k + 1, Len(queued))
    /\ \A c \in Callers : CancelInv(c, k)

TwBase == Tw!TypeOK /\ LockInv /\ AddInv /\ ExitInv

TwInv == TwBase /\ \E k \in 0 .. Len(queued) : SplitInv(k)

-----------------------------------------------------------------------------
(* Pieces of a list.                                                       *)

\* Works m to n of q are d places further down in r, with the same links.
Moved(nx, ny, q, r, m, n, d) == \A i \in m .. n : r[i - d] = q[i] /\ ny[q[i]] = nx[q[i]]

\* A piece that moves is still linked.
LEMMA LinkedMoves ==
    ASSUME NEW nx, NEW ny, NEW q, NEW r, NEW p, NEW m \in Int, NEW n \in Int, NEW d \in Int,
           LinkedIn(nx, q, p, m, n), Moved(nx, ny, q, r, m, n, d)
    PROVE  LinkedIn(ny, r, p, m - d, n - d)
<1>0. \A i \in m .. n : r[i - d] = q[i] /\ ny[q[i]] = nx[q[i]]
  BY DEF Moved
<1>1. CASE m > n
  BY <1>1 DEF LinkedIn
<1>2. CASE m <= n
  <2>1. p = r[n - d] /\ ny[r[m - d]] = NULL
    BY <1>0, <1>2 DEF LinkedIn
  <2>2. ASSUME NEW i \in (m - d) + 1 .. n - d
        PROVE  ny[r[i]] = r[i - 1]
    <3>1. i + d \in m + 1 .. n /\ i + d \in m .. n /\ (i + d) - 1 \in m .. n
      OBVIOUS
    <3>2. r[(i + d) - d] = q[i + d] /\ r[((i + d) - 1) - d] = q[(i + d) - 1]
      BY <1>0, <3>1
    <3>3. (i + d) - d = i /\ ((i + d) - 1) - d = i - 1
      OBVIOUS
    <3>4. nx[q[i + d]] = q[(i + d) - 1]
      BY <1>2, <3>1 DEF LinkedIn
    <3> QED
      BY <1>0, <3>1, <3>2, <3>3, <3>4
  <2> QED
    BY <1>2, <2>1, <2>2 DEF LinkedIn
<1> QED
  BY <1>1, <1>2

\* The same at its place.
LEMMA LinkedStays ==
    ASSUME NEW nx, NEW ny, NEW q, NEW r, NEW p, NEW m \in Int, NEW n \in Int,
           LinkedIn(nx, q, p, m, n),
           \A i \in m .. n : r[i] = q[i] /\ ny[q[i]] = nx[q[i]]
    PROVE  LinkedIn(ny, r, p, m, n)
<1>1. \A i \in m + 1 .. n : i \in m .. n /\ i - 1 \in m .. n
  OBVIOUS
<1>2. m <= n => m \in m .. n /\ n \in m .. n
  OBVIOUS
<1> QED
  BY <1>1, <1>2 DEF LinkedIn

LEMMA ReversedStays ==
    ASSUME NEW nx, NEW ny, NEW q, NEW r, NEW p, NEW m \in Int, NEW n \in Int,
           ReversedIn(nx, q, p, m, n),
           \A i \in m .. n : r[i] = q[i] /\ ny[q[i]] = nx[q[i]]
    PROVE  ReversedIn(ny, r, p, m, n)
<1>1. \A i \in m .. n - 1 : i \in m .. n /\ i + 1 \in m .. n
  OBVIOUS
<1>2. m <= n => m \in m .. n /\ n \in m .. n
  OBVIOUS
<1> QED
  BY <1>1, <1>2 DEF ReversedIn

\* Entry x of works m to n of q is taken out in r, and the work added after it is linked
\* to what it was linked to.
Unlinked(nx, ny, q, r, m, n, x) ==
    /\ x \in m .. n - 1
    /\ \A i \in m .. n - 1 : r[i] = IF i < x THEN q[i] ELSE q[i + 1]
    /\ \A i \in m .. n : i # x + 1 => ny[q[i]] = nx[q[i]]
    /\ ny[q[x + 1]] = nx[q[x]]

\* The rest of the piece is still linked.
LEMMA LinkedUnlink ==
    ASSUME NEW nx, NEW ny, NEW q, NEW r, NEW p, NEW m \in Int, NEW n \in Int, NEW x,
           LinkedIn(nx, q, p, m, n), Unlinked(nx, ny, q, r, m, n, x)
    PROVE  LinkedIn(ny, r, p, m, n - 1)
<1> USE DEF Unlinked
<1>1. m <= n - 1 /\ x \in Int /\ x + 1 \in m .. n
  OBVIOUS
<1>2. p = q[n] /\ nx[q[m]] = NULL /\ \A i \in m + 1 .. n : nx[q[i]] = q[i - 1]
  BY <1>1 DEF LinkedIn
<1>3. p = r[n - 1]
  <2>1. r[n - 1] = q[(n - 1) + 1] /\ (n - 1) + 1 = n
    BY <1>1
  <2> QED
    BY <1>2, <2>1
<1>4. ny[r[m]] = NULL
  <2>1. CASE m = x
    BY <1>1, <1>2, <2>1
  <2>2. CASE m < x
    BY <1>1, <1>2, <2>2
  <2> QED
    BY <2>1, <2>2
<1>5. ASSUME NEW i \in m + 1 .. n - 1
      PROVE  ny[r[i]] = r[i - 1]
  <2>1. CASE i < x
    BY <1>2, <2>1
  <2>2. CASE i = x
    <3>1. r[i] = q[x + 1] /\ r[i - 1] = q[x - 1]
      BY <2>2
    <3>2. nx[q[x]] = q[x - 1]
      BY <1>2, <2>2
    <3> QED
      BY <3>1, <3>2
  <2>3. CASE i > x
    <3>1. r[i] = q[i + 1] /\ r[i - 1] = q[i]
      BY <2>3
    <3>2. i + 1 \in m .. n /\ i + 1 # x + 1 /\ i + 1 \in m + 1 .. n
      BY <2>3
    <3>3. ny[q[i + 1]] = nx[q[i + 1]] /\ nx[q[i + 1]] = q[(i + 1) - 1] /\ (i + 1) - 1 = i
      BY <1>2, <3>2
    <3> QED
      BY <3>1, <3>3
  <2> QED
    BY <2>1, <2>2, <2>3
<1> QED
  BY <1>1, <1>3, <1>4, <1>5 DEF LinkedIn

-----------------------------------------------------------------------------
(* What the invariant says of the values the actions use.                  *)

\* Positions of the list.
LEMMA QueuedWorks ==
    ASSUME Tw!TypeOK
    PROVE  /\ Len(queued) \in Nat /\ DOMAIN queued = 1 .. Len(queued)
           /\ \A i \in 1 .. Len(queued) : queued[i] \in Works
  BY LenProperties DEF Tw!TypeOK

\* The task has a queued work in hand when it reverses or calls.
LEMMA WorkInHand ==
    ASSUME TwInv, run \in {"reverse", "call"}
    PROVE  work \in Works /\ InList(queued, work)
<1>1. PICK k \in 0 .. Len(queued) : SplitInv(k)
  BY DEF TwInv
<1>2. /\ Len(queued) \in Nat /\ DOMAIN queued = 1 .. Len(queued)
      /\ \A i \in 1 .. Len(queued) : queued[i] \in Works
  BY QueuedWorks DEF TwInv, TwBase
<1>3. CASE run = "reverse"
  <2>1. PICK j \in 1 .. k : LinkedIn(next, queued, work, 1, j)
    BY <1>1, <1>3 DEF SplitInv, TakenInv
  <2>2. work = queued[j] /\ j \in 1 .. Len(queued)
    BY <1>2, <2>1 DEF LinkedIn
  <2> QED
    BY <1>2, <2>2 DEF InList
<1>4. CASE run = "call"
  <2>1. k >= 1 /\ ReversedIn(next, queued, work, 1, k)
    BY <1>1, <1>4 DEF SplitInv, TakenInv
  <2>2. work = queued[1] /\ 1 \in 1 .. Len(queued)
    BY <1>2, <2>1 DEF ReversedIn
  <2> QED
    BY <1>2, <2>2 DEF InList
<1> QED
  BY <1>3, <1>4

\* A canceller about to unlink has a queued work in hand.
LEMMA CancelInHand ==
    ASSUME TwInv, NEW c \in Callers, pc[c] = "cancel_cas"
    PROVE  /\ arg[c] \in Works /\ InList(queued, arg[c])
           /\ pprev[c] \in Works \cup {Head0}
<1>1. PICK k \in 0 .. Len(queued) : SplitInv(k)
  BY DEF TwInv
<1>2. DOMAIN queued = 1 .. Len(queued)
  BY QueuedWorks DEF TwInv, TwBase
<1>3. CancelInv(c, k)
  BY <1>1 DEF SplitInv
<1> QED
  BY <1>2, <1>3 DEF CancelInv, Stable, InList, TwInv, TwBase, Tw!TypeOK

-----------------------------------------------------------------------------
(* It holds initially.                                                     *)

LEMMA TwInit ==
    ASSUME Tw!TaskWorkAssumption
    PROVE  Tw!Init => TwInv
<1> SUFFICES ASSUME Tw!Init PROVE TwInv
  OBVIOUS
<1>1. Tw!TypeOK
  <2>1. pc \in [Callers -> {"idle", "add", "add_cas", "notify", "cancel", "cancel_cas"}]
    BY DEF Tw!Init
  <2>2. /\ arg \in [Callers -> Tw!Nodes] /\ want \in [Callers -> Funcs \cup {NULL}]
        /\ pprev \in [Callers -> Works \cup {Head0, Exited}] /\ lnext \in [Callers -> Tw!Nodes]
        /\ next \in [Works \cup {Exited} -> Tw!Nodes]
    BY DEF Tw!Init, Tw!Nodes
  <2>3. /\ task_works \in Tw!Nodes \cup {Exited} /\ work \in Tw!Nodes /\ head \in Tw!Nodes
        /\ pi_lock \in Callers \cup {NULL} /\ queued \in Seq(Works)
    BY DEF Tw!Init, Tw!Nodes
  <2>4. notify \in BOOLEAN /\ exiting \in BOOLEAN
    BY DEF Tw!Init
  <2> QED
    BY <2>1, <2>2, <2>3, <2>4 DEF Tw!Init, Tw!TypeOK
<1>2. LockInv /\ ExitInv
  BY DEF Tw!TaskWorkAssumption, Tw!Init, LockInv, ExitInv, Holding
<1>3. AddInv
  BY DEF Tw!Init, AddInv, Adding, DupFree
<1>4. SplitInv(0) /\ 0 \in 0 .. Len(queued)
  BY DEF Tw!Init, SplitInv, TakenInv, LinkedIn, CancelInv, Holding
<1> QED
  BY <1>1, <1>2, <1>3, <1>4 DEF TwInv, TwBase

-----------------------------------------------------------------------------
(* Every step keeps the types, the lock, the works being added and the end.*)

LEMMA TwTypeStep ==
    ASSUME TwInv, Tw!Next
    PROVE  Tw!TypeOK'
<1> USE DEF Tw!TypeOK, Tw!Nodes, Tw!Goto
<1>0. Tw!TypeOK
  BY DEF TwInv, TwBase
<1>1. ASSUME NEW c \in Callers, NEW w \in Works, Tw!BeginAdd(c, w) PROVE Tw!TypeOK'
  BY <1>0, <1>1 DEF Tw!BeginAdd, Tw!listVars, Tw!runVars
<1>2. ASSUME NEW c \in Callers, NEW f \in Funcs, Tw!CancelLock(c, f) PROVE Tw!TypeOK'
  BY <1>0, <1>2 DEF Tw!CancelLock, Tw!listVars, Tw!runVars
<1>3. ASSUME NEW c \in Callers, Tw!AddRead(c) PROVE Tw!TypeOK'
  BY <1>0, <1>3 DEF Tw!AddRead, Tw!Closed, Tw!runVars
<1>4. ASSUME NEW c \in Callers, Tw!AddCas(c) PROVE Tw!TypeOK'
  <2>1. arg[c] \in Works
    BY <1>4 DEF Tw!AddCas, TwInv, TwBase, AddInv, Adding
  <2>2. Append(queued, arg[c]) \in Seq(Works)
    BY <1>0, <2>1
  <2> QED
    BY <1>0, <1>4, <2>1, <2>2 DEF Tw!AddCas, Tw!AfterAdd, Tw!runVars
<1>5. ASSUME NEW c \in Callers, Tw!SetNotifyResume(c) PROVE Tw!TypeOK'
  BY <1>0, <1>5 DEF Tw!SetNotifyResume, Tw!listVars, Tw!runVars
<1>6. ASSUME NEW c \in Callers, Tw!CancelRead(c) PROVE Tw!TypeOK'
  <2> DEFINE w == Tw!Deref(pprev[c])
  <2>1. w \in Tw!Nodes \cup {Exited}
    BY <1>0 DEF Tw!Deref
  <2>2. UNCHANGED <<task_works, next, notify, exiting, run, work, head, queued>>
    BY <1>6 DEF Tw!CancelRead, Tw!listVars, Tw!runVars
  <2>3. CASE w = NULL /\ Tw!CancelReturn(c)
    BY <1>0, <2>2, <2>3 DEF Tw!CancelReturn
  <2>4. CASE w # NULL /\ pprev' = [pprev EXCEPT ![c] = w] /\ UNCHANGED <<pi_lock, pc, arg, want, lnext>>
    BY <1>0, <2>1, <2>2, <2>4
  <2>5. CASE /\ Tw!HasFunc(w, want[c]) /\ Tw!Goto(c, "cancel_cas")
             /\ arg' = [arg EXCEPT ![c] = w] /\ lnext' = [lnext EXCEPT ![c] = next[w]]
             /\ UNCHANGED <<pi_lock, want, pprev>>
    BY <1>0, <2>2, <2>5 DEF Tw!HasFunc
  <2> QED
    BY <1>6, <2>3, <2>4, <2>5 DEF Tw!CancelRead
<1>7. ASSUME NEW c \in Callers, Tw!CancelCas(c) PROVE Tw!TypeOK'
  <2>1. arg[c] \in Works /\ InList(queued, arg[c]) /\ DupFree(queued)
    BY <1>7, CancelInHand DEF Tw!CancelCas, TwInv, TwBase, AddInv
  <2>2. RemoveFirst(queued, arg[c]) \in Seq(Works)
    BY <1>0, <2>1, RemoveList
  <2>3. UNCHANGED <<notify, exiting, run, work, head>>
    BY <1>7 DEF Tw!CancelCas, Tw!runVars
  <2>4. CASE Tw!Deref(pprev[c]) = arg[c]
    BY <1>0, <1>7, <2>2, <2>3, <2>4, TwRemove DEF Tw!CancelCas, Tw!CancelReturn
  <2>5. CASE Tw!Deref(pprev[c]) # arg[c]
    BY <1>0, <1>7, <2>3, <2>5 DEF Tw!CancelCas, Tw!listVars
  <2> QED
    BY <2>4, <2>5
<1>8. ASSUME Tw!NotifyResume PROVE Tw!TypeOK'
  BY <1>0, <1>8 DEF Tw!NotifyResume, Tw!listVars, Tw!callVars
<1>9. ASSUME Tw!TestWorks PROVE Tw!TypeOK'
  BY <1>0, <1>9 DEF Tw!TestWorks, Tw!listVars, Tw!callVars
<1>10. ASSUME Tw!TakeList PROVE Tw!TypeOK'
  <2>1. task_works # Exited
    BY <1>10 DEF Tw!TakeList, TwInv, TwBase, ExitInv
  <2> QED
    BY <1>0, <1>10, <2>1 DEF Tw!TakeList, Tw!TakenHead, Tw!callVars
<1>11. ASSUME Tw!WaitPiLock PROVE Tw!TypeOK'
  BY <1>0, <1>11 DEF Tw!WaitPiLock, Tw!listVars, Tw!callVars
<1>12. ASSUME Tw!ReverseList PROVE Tw!TypeOK'
  <2>1. work \in Works
    BY <1>12, WorkInHand DEF Tw!ReverseList
  <2> QED
    BY <1>0, <1>12, <2>1 DEF Tw!ReverseList, Tw!callVars
<1>13. ASSUME Tw!RunFunc PROVE Tw!TypeOK'
  <2>1. work \in Works /\ InList(queued, work) /\ DupFree(queued)
    BY <1>13, WorkInHand DEF Tw!RunFunc, TwInv, TwBase, AddInv
  <2>2. RemoveFirst(queued, work) \in Seq(Works)
    BY <1>0, <2>1, RemoveList
  <2> QED
    BY <1>0, <1>13, <2>1, <2>2, TwRemove DEF Tw!RunFunc, Tw!listVars, Tw!callVars
<1>14. ASSUME Tw!Exit PROVE Tw!TypeOK'
  BY <1>0, <1>14 DEF Tw!Exit, Tw!listVars, Tw!callVars
<1> QED
  BY <1>1, <1>2, <1>3, <1>4, <1>5, <1>6, <1>7, <1>8, <1>9, <1>10, <1>11, <1>12, <1>13, <1>14
     DEF Tw!Next, Tw!CallStep, Tw!TaskStep

LEMMA TwLockStep ==
    ASSUME Tw!TaskWorkAssumption, TwInv, Tw!Next
    PROVE  LockInv'
<1> USE DEF LockInv, Holding, Tw!Goto
<1>0. Tw!TypeOK /\ LockInv
  BY DEF TwInv, TwBase
<1> USE DEF Tw!TypeOK
<1>1. ASSUME NEW c \in Callers, NEW w \in Works, Tw!BeginAdd(c, w) PROVE LockInv'
  BY <1>0, <1>1 DEF Tw!BeginAdd
<1>2. ASSUME NEW c \in Callers, NEW f \in Funcs, Tw!CancelLock(c, f) PROVE LockInv'
  BY <1>0, <1>2 DEF Tw!TaskWorkAssumption, Tw!CancelLock
<1>3. ASSUME NEW c \in Callers, Tw!AddRead(c) PROVE LockInv'
  BY <1>0, <1>3 DEF Tw!AddRead
<1>4. ASSUME NEW c \in Callers, Tw!AddCas(c) PROVE LockInv'
  BY <1>0, <1>4 DEF Tw!AddCas, Tw!AfterAdd
<1>5. ASSUME NEW c \in Callers, Tw!SetNotifyResume(c) PROVE LockInv'
  BY <1>0, <1>5 DEF Tw!SetNotifyResume
<1>6. ASSUME NEW c \in Callers, Tw!CancelRead(c) PROVE LockInv'
  BY <1>0, <1>6 DEF Tw!CancelRead, Tw!CancelReturn
<1>7. ASSUME NEW c \in Callers, Tw!CancelCas(c) PROVE LockInv'
  BY <1>0, <1>7 DEF Tw!CancelCas, Tw!CancelReturn
<1>8. ASSUME Tw!TaskStep \/ Tw!Exit PROVE LockInv'
  <2>1. UNCHANGED <<pc, pi_lock>>
    BY <1>8
       DEF Tw!TaskStep, Tw!NotifyResume, Tw!TestWorks, Tw!TakeList, Tw!WaitPiLock, Tw!ReverseList,
           Tw!RunFunc, Tw!Exit, Tw!callVars
  <2> QED
    BY <1>0, <2>1
<1> QED
  BY <1>1, <1>2, <1>3, <1>4, <1>5, <1>6, <1>7, <1>8 DEF Tw!Next, Tw!CallStep

LEMMA TwExitStep ==
    ASSUME TwInv, Tw!Next
    PROVE  ExitInv'
<1> USE DEF ExitInv
<1>0. Tw!TypeOK /\ LockInv /\ ExitInv
  BY DEF TwInv, TwBase
<1> USE DEF Tw!TypeOK
<1>1. ASSUME NEW c \in Callers, NEW w \in Works, Tw!BeginAdd(c, w) PROVE ExitInv'
  BY <1>0, <1>1 DEF Tw!BeginAdd, Tw!listVars, Tw!runVars
<1>2. ASSUME NEW c \in Callers, NEW f \in Funcs, Tw!CancelLock(c, f) PROVE ExitInv'
  BY <1>0, <1>2 DEF Tw!CancelLock, Tw!listVars, Tw!runVars
<1>3. ASSUME NEW c \in Callers, Tw!AddRead(c) PROVE ExitInv'
  <2>1. arg[c] \in Works
    BY <1>3 DEF Tw!AddRead, TwInv, TwBase, AddInv, Adding
  <2> QED
    BY <1>0, <1>3, <2>1 DEF Tw!AddRead, LockInv, Tw!runVars
<1>4. ASSUME NEW c \in Callers, Tw!AddCas(c) PROVE ExitInv'
  <2>1. arg[c] \in Works
    BY <1>4 DEF Tw!AddCas, TwInv, TwBase, AddInv, Adding
  <2> QED
    BY <1>0, <1>4, <2>1 DEF Tw!AddCas, LockInv, Tw!runVars
<1>5. ASSUME NEW c \in Callers, Tw!SetNotifyResume(c) PROVE ExitInv'
  BY <1>0, <1>5 DEF Tw!SetNotifyResume, Tw!listVars, Tw!runVars
<1>6. ASSUME NEW c \in Callers, Tw!CancelRead(c) PROVE ExitInv'
  BY <1>0, <1>6 DEF Tw!CancelRead, Tw!listVars, Tw!runVars
<1>7. ASSUME NEW c \in Callers, Tw!CancelCas(c) PROVE ExitInv'
  <2>1. /\ arg[c] \in Works /\ pprev[c] \in Works \cup {Head0} /\ lnext[c] \in Tw!Nodes
        /\ queued # <<>>
    BY <1>0, <1>7, CancelInHand DEF Tw!CancelCas, InList
  <2>2. UNCHANGED <<exiting, run>> /\ task_works # Exited
    BY <1>0, <1>7, <2>1 DEF Tw!CancelCas, Tw!runVars
  <2>3. task_works' # Exited
    BY <1>0, <1>7, <2>1, <2>2 DEF Tw!CancelCas, LockInv, Tw!Nodes, Tw!listVars
  <2>4. next'[Exited] = NULL
    BY <1>0, <1>7, <2>1 DEF Tw!CancelCas, LockInv, Tw!listVars
  <2> QED
    BY <2>3, <2>4
<1>8. ASSUME Tw!NotifyResume \/ Tw!TestWorks \/ Tw!Exit PROVE ExitInv'
  BY <1>0, <1>8 DEF Tw!NotifyResume, Tw!TestWorks, Tw!Exit, Tw!listVars
<1>9. ASSUME Tw!TakeList PROVE ExitInv'
  <2>1. task_works = NULL => queued = <<>>
    <3>1. PICK k \in 0 .. Len(queued) : SplitInv(k)
      BY DEF TwInv
    <3>2. k = 0 /\ LinkedIn(next, queued, task_works, 1, Len(queued))
      BY <1>9, <3>1 DEF Tw!TakeList, SplitInv, TakenInv
    <3>3. Len(queued) # 0 => task_works \in Works
      BY <1>0, <3>2, QueuedWorks DEF LinkedIn
    <3> QED
      BY <1>0, <3>3, EmptySeq DEF LockInv
  <2> QED
    BY <1>0, <1>9, <2>1 DEF Tw!TakeList, Tw!TakenHead, LockInv
<1>10. ASSUME Tw!WaitPiLock PROVE ExitInv'
  BY <1>0, <1>10 DEF Tw!WaitPiLock, Tw!listVars
<1>11. ASSUME Tw!ReverseList PROVE ExitInv'
  <2>1. work \in Works
    BY <1>11, WorkInHand DEF Tw!ReverseList
  <2> QED
    BY <1>0, <1>11, <2>1 DEF Tw!ReverseList, LockInv
<1>12. ASSUME Tw!RunFunc PROVE ExitInv'
  BY <1>0, <1>12 DEF Tw!RunFunc, Tw!listVars
<1> QED
  BY <1>1, <1>2, <1>3, <1>4, <1>5, <1>6, <1>7, <1>8, <1>9, <1>10, <1>11, <1>12
     DEF Tw!Next, Tw!CallStep, Tw!TaskStep

\* A step that leaves the list alone, and starts no adder, keeps the adders apart.
LEMMA AddSame ==
    ASSUME AddInv, queued' = queued,
           \A c \in Callers : Adding(c)' => Adding(c) /\ arg'[c] = arg[c]
    PROVE  AddInv'
<1>1. \A c \in Callers : Adding(c)' => arg'[c] \in Works /\ ~InList(queued', arg'[c])
  BY DEF AddInv
<1>2. \A c, d \in Callers : Adding(c)' /\ Adding(d)' /\ arg'[c] = arg'[d] => c = d
  BY DEF AddInv
<1> QED
  BY <1>1, <1>2 DEF AddInv

\* So does one that takes a work off it.
LEMMA AddRemoved ==
    ASSUME Tw!TypeOK, AddInv, NEW w \in Works, InList(queued, w),
           queued' = RemoveFirst(queued, w),
           \A c \in Callers : Adding(c)' => Adding(c) /\ arg'[c] = arg[c]
    PROVE  AddInv'
<1>1. DupFree(queued') /\ \A u \in Works : InList(queued', u) => InList(queued, u)
  BY RemoveList DEF AddInv, Tw!TypeOK
<1>2. \A c \in Callers : Adding(c)' => arg'[c] \in Works /\ ~InList(queued', arg'[c])
  BY <1>1 DEF AddInv
<1>3. \A c, d \in Callers : Adding(c)' /\ Adding(d)' /\ arg'[c] = arg'[d] => c = d
  BY DEF AddInv
<1> QED
  BY <1>1, <1>2, <1>3 DEF AddInv

LEMMA TwAddStep ==
    ASSUME TwInv, Tw!Next
    PROVE  AddInv'
<1>0. Tw!TypeOK /\ AddInv
  BY DEF TwInv, TwBase
<1> USE DEF Tw!TypeOK, Tw!Goto
<1>1. ASSUME NEW c \in Callers, NEW w \in Works, Tw!BeginAdd(c, w) PROVE AddInv'
  <2>1. /\ queued' = queued /\ pc'[c] = "add" /\ arg'[c] = w
        /\ \A d \in Callers \ {c} : pc'[d] = pc[d] /\ arg'[d] = arg[d]
    BY <1>0, <1>1 DEF Tw!BeginAdd
  <2>2. ~InList(queued, w) /\ \A d \in Callers : ~(Adding(d) /\ arg[d] = w)
    BY <1>1, <1>0, QueuedWorks DEF Tw!BeginAdd, Tw!Free, Tw!Contains, InList, Adding
  <2>3. \A d \in Callers : Adding(d)' => d = c \/ (Adding(d) /\ arg'[d] = arg[d])
    BY <2>1 DEF Adding
  <2>4. \A d \in Callers : Adding(d)' => arg'[d] \in Works /\ ~InList(queued', arg'[d])
    BY <1>0, <2>1, <2>2, <2>3 DEF AddInv
  <2>5. \A d, e \in Callers : Adding(d)' /\ Adding(e)' /\ arg'[d] = arg'[e] => d = e
    BY <1>0, <2>1, <2>2, <2>3 DEF AddInv
  <2> QED
    BY <1>0, <2>1, <2>4, <2>5 DEF AddInv
<1>2. ASSUME NEW c \in Callers, NEW f \in Funcs, Tw!CancelLock(c, f) PROVE AddInv'
  BY <1>0, <1>2, AddSame DEF Tw!CancelLock, Adding
<1>3. ASSUME NEW c \in Callers, Tw!AddRead(c) PROVE AddInv'
  BY <1>0, <1>3, AddSame DEF Tw!AddRead, Adding
<1>4. ASSUME NEW c \in Callers, Tw!AddCas(c) PROVE AddInv'
  <2>1. CASE ~Tw!HeadUnchanged(c)
    BY <1>0, <1>4, <2>1, AddSame DEF Tw!AddCas, Adding
  <2>2. CASE Tw!HeadUnchanged(c)
    <3>1. /\ queued' = Append(queued, arg[c]) /\ Adding(c) /\ ~Adding(c)'
          /\ \A d \in Callers \ {c} : pc'[d] = pc[d] /\ arg'[d] = arg[d]
      BY <1>0, <1>4, <2>2 DEF Tw!AddCas, Tw!AfterAdd, Adding
    <3>2. arg[c] \in Works /\ ~InList(queued, arg[c])
      BY <1>0, <3>1 DEF AddInv
    <3>3. /\ DupFree(queued')
          /\ \A u \in Works : InList(queued', u) <=> InList(queued, u) \/ u = arg[c]
      BY <1>0, <3>1, <3>2, AppendList DEF AddInv
    <3>4. \A d \in Callers : Adding(d)' => d # c /\ Adding(d) /\ arg'[d] = arg[d]
      BY <3>1 DEF Adding
    <3>5. \A d \in Callers : Adding(d)' => arg'[d] \in Works /\ ~InList(queued', arg'[d])
      BY <1>0, <3>1, <3>3, <3>4 DEF AddInv
    <3>6. \A d, e \in Callers : Adding(d)' /\ Adding(e)' /\ arg'[d] = arg'[e] => d = e
      BY <1>0, <3>4 DEF AddInv
    <3> QED
      BY <3>3, <3>5, <3>6 DEF AddInv
  <2> QED
    BY <2>1, <2>2
<1>5. ASSUME NEW c \in Callers, Tw!SetNotifyResume(c) PROVE AddInv'
  BY <1>0, <1>5, AddSame DEF Tw!SetNotifyResume, Adding
<1>6. ASSUME NEW c \in Callers, Tw!CancelRead(c) PROVE AddInv'
  BY <1>0, <1>6, AddSame DEF Tw!CancelRead, Tw!CancelReturn, Adding
<1>7. ASSUME NEW c \in Callers, Tw!CancelCas(c) PROVE AddInv'
  <2>1. arg[c] \in Works /\ InList(queued, arg[c])
    BY <1>7, CancelInHand DEF Tw!CancelCas
  <2>2. \A d \in Callers : Adding(d)' => Adding(d) /\ arg'[d] = arg[d]
    BY <1>0, <1>7 DEF Tw!CancelCas, Tw!CancelReturn, Adding
  <2>3. queued' = queued \/ queued' = RemoveFirst(queued, arg[c])
    BY <1>7, TwRemove DEF Tw!CancelCas
  <2> QED
    BY <1>0, <2>1, <2>2, <2>3, AddSame, AddRemoved
<1>8. ASSUME Tw!TaskStep \/ Tw!Exit PROVE AddInv'
  <2>1. \A d \in Callers : Adding(d)' => Adding(d) /\ arg'[d] = arg[d]
    BY <1>8
       DEF Tw!TaskStep, Tw!NotifyResume, Tw!TestWorks, Tw!TakeList, Tw!WaitPiLock, Tw!ReverseList,
           Tw!RunFunc, Tw!Exit, Tw!callVars, Adding
  <2>2. CASE Tw!RunFunc
    <3>1. work \in Works /\ InList(queued, work) /\ queued' = RemoveFirst(queued, work)
      BY <2>2, WorkInHand, TwRemove DEF Tw!RunFunc
    <3> QED
      BY <1>0, <2>1, <3>1, AddRemoved
  <2>3. CASE ~Tw!RunFunc
    <3>1. queued' = queued
      BY <1>8, <2>3
         DEF Tw!TaskStep, Tw!NotifyResume, Tw!TestWorks, Tw!TakeList, Tw!WaitPiLock, Tw!ReverseList,
             Tw!Exit
    <3> QED
      BY <1>0, <2>1, <3>1, AddSame
  <2> QED
    BY <2>2, <2>3
<1> QED
  BY <1>1, <1>2, <1>3, <1>4, <1>5, <1>6, <1>7, <1>8 DEF Tw!Next, Tw!CallStep

-----------------------------------------------------------------------------
(* Every step keeps the list in two pieces.                                *)

\* A canceller the step is not about keeps what it has in hand.
LEMMA CancelKept ==
    ASSUME NEW c \in Callers, NEW k, NEW l, CancelInv(c, k),
           pc'[c] = pc[c], arg'[c] = arg[c], pprev'[c] = pprev[c], lnext'[c] = lnext[c],
           \A w \in Works : Stable(w, k) => Stable(w, l)' /\ next'[w] = next[w]
    PROVE  CancelInv(c, l)'
<1>1. Holding(c)' <=> Holding(c)
  BY DEF Holding
<1>2. ASSUME Holding(c)', pprev'[c] \in Works
      PROVE  Stable(pprev[c], k)
  BY <1>1, <1>2 DEF CancelInv
<1>3. \A w : w = pprev'[c] /\ Holding(c)' /\ pprev'[c] \in Works => Stable(w, l)'
  BY <1>2
<1>4. ASSUME pc'[c] = "cancel_cas"
      PROVE  /\ arg[c] \in Works /\ Stable(arg[c], k)
             /\ lnext[c] = next[arg[c]] /\ pprev[c] # Exited
  BY <1>4 DEF CancelInv
<1>5. \A w : w = arg'[c] /\ pc'[c] = "cancel_cas" => Stable(w, l)' /\ next'[w] = next[w]
  BY <1>4
<1> QED
  BY <1>3, <1>4, <1>5 DEF CancelInv, Stable

\* The task's piece stays when none of its works moves or changes its link.
LEMMA TakenKept ==
    ASSUME NEW k \in Nat, TakenInv(k), UNCHANGED <<run, work, head>>,
           \A i \in 1 .. k : queued'[i] = queued[i] /\ next'[queued[i]] = next[queued[i]]
    PROVE  TakenInv(k)'
<1>1. run' = "wait" => k >= 1 /\ LinkedIn(next', queued', work', 1, k)
  BY LinkedStays DEF TakenInv
<1>2. ASSUME run' = "reverse"
      PROVE  \E j \in 1 .. k : /\ LinkedIn(next', queued', work', 1, j)
                               /\ ReversedIn(next', queued', head', j + 1, k)
  <2>1. PICK j \in 1 .. k : /\ LinkedIn(next, queued, work, 1, j)
                            /\ ReversedIn(next, queued, head, j + 1, k)
    BY <1>2 DEF TakenInv
  <2>2. LinkedIn(next', queued', work', 1, j)
    BY <2>1, LinkedStays
  <2>3. ReversedIn(next', queued', head', j + 1, k)
    BY <2>1, ReversedStays
  <2> QED
    BY <2>2, <2>3
<1>3. run' = "call" => k >= 1 /\ ReversedIn(next', queued', work', 1, k)
  BY ReversedStays DEF TakenInv
<1>4. run' \in {"user", "resume", "take"} => k = 0
  BY DEF TakenInv
<1> QED
  BY <1>1, <1>2, <1>3, <1>4 DEF TakenInv

\* A step that changes no link of a queued work leaves the pieces where they are.
LEMMA PiecesKept ==
    ASSUME Tw!TypeOK, NEW k \in 0 .. Len(queued), SplitInv(k),
           UNCHANGED <<task_works, queued, run, work, head>>,
           \A i \in 1 .. Len(queued) : next'[queued[i]] = next[queued[i]],
           \A c \in Callers : CancelInv(c, k)'
    PROVE  SplitInv(k)'
<1>0. Len(queued) \in Nat /\ k \in Nat /\ k <= Len(queued)
  BY QueuedWorks
<1>1. LinkedIn(next', queued', task_works', k + 1, Len(queued'))
  BY <1>0, LinkedStays DEF SplitInv
<1>2. TakenInv(k)'
  BY <1>0, TakenKept DEF SplitInv
<1> QED
  BY <1>1, <1>2 DEF SplitInv

\* Callers that do not look for works to cancel have none in hand.
LEMMA CancelIdle ==
    ASSUME NEW c \in Callers, NEW k, ~Holding(c)'
    PROVE  CancelInv(c, k)'
  BY DEF CancelInv, Holding

\* Queued works stay stable as long as the list and the task do not move.
LEMMA StableSame ==
    ASSUME NEW k, UNCHANGED <<queued, run>>
    PROVE  \A w : Stable(w, k)' <=> Stable(w, k)
  BY DEF Stable

\* A stable work is queued.
LEMMA StableQueued ==
    ASSUME Tw!TypeOK, NEW k, NEW w, Stable(w, k)
    PROVE  InList(queued, w)
  BY QueuedWorks DEF Stable, InList

\* Steps of callers that change no link of a queued work.
LEMMA SplitCallerQuiet ==
    ASSUME TwBase, NEW k \in 0 .. Len(queued), SplitInv(k), NEW c \in Callers,
           UNCHANGED <<task_works, queued, run, work, head>>,
           \A w \in Works : InList(queued, w) => next'[w] = next[w],
           \A d \in Callers \ {c} :
               /\ pc'[d] = pc[d] /\ arg'[d] = arg[d]
               /\ pprev'[d] = pprev[d] /\ lnext'[d] = lnext[d],
           CancelInv(c, k)'
    PROVE  SplitInv(k)'
<1>1. Tw!TypeOK
  BY DEF TwBase
<1>2. \A i \in 1 .. Len(queued) : next'[queued[i]] = next[queued[i]]
  BY <1>1, QueuedWorks DEF InList
<1>3. \A w \in Works : Stable(w, k) => Stable(w, k)' /\ next'[w] = next[w]
  BY <1>1, StableSame, StableQueued
<1>4. \A d \in Callers \ {c} : CancelInv(d, k)
  BY DEF SplitInv
<1>5. \A d \in Callers : CancelInv(d, k)'
  BY <1>3, <1>4, CancelKept
<1> QED
  BY <1>1, <1>2, <1>5, PiecesKept

\* task_work_add() before its cmpxchg() succeeds, and after it.
LEMMA SplitAdder ==
    ASSUME TwBase, NEW k \in 0 .. Len(queued), SplitInv(k), NEW c \in Callers,
           \/ \E w \in Works : Tw!BeginAdd(c, w)
           \/ Tw!AddRead(c)
           \/ Tw!AddCas(c) /\ ~Tw!HeadUnchanged(c)
           \/ Tw!SetNotifyResume(c)
    PROVE  SplitInv(k)'
<1> USE DEF TwBase, Tw!TypeOK, Tw!Goto
<1>1. UNCHANGED <<task_works, queued, run, work, head>>
  BY DEF Tw!BeginAdd, Tw!AddRead, Tw!AddCas, Tw!SetNotifyResume, Tw!listVars, Tw!runVars
<1>2. \A d \in Callers \ {c} : /\ pc'[d] = pc[d] /\ arg'[d] = arg[d]
                               /\ pprev'[d] = pprev[d] /\ lnext'[d] = lnext[d]
  BY DEF Tw!BeginAdd, Tw!AddRead, Tw!AddCas, Tw!SetNotifyResume
<1>3. ~Holding(c)'
  BY DEF Tw!BeginAdd, Tw!AddRead, Tw!AddCas, Tw!SetNotifyResume, Holding
<1>4. \A w \in Works : InList(queued, w) => next'[w] = next[w]
  <2>1. CASE Tw!AddRead(c)
    <3>1. ~InList(queued, arg[c])
      BY <2>1 DEF Tw!AddRead, AddInv, Adding
    <3> QED
      BY <2>1, <3>1 DEF Tw!AddRead
  <2>2. CASE ~Tw!AddRead(c)
    BY <2>2 DEF Tw!BeginAdd, Tw!AddCas, Tw!SetNotifyResume, Tw!listVars
  <2> QED
    BY <2>1, <2>2
<1>5. CancelInv(c, k)'
  BY <1>3, CancelIdle
<1> QED
  BY <1>1, <1>2, <1>4, <1>5, SplitCallerQuiet

\* task_work_add()'s cmpxchg(): the work is linked in front, as the newest.
LEMMA SplitAddCas ==
    ASSUME TwBase, NEW k \in 0 .. Len(queued), SplitInv(k), NEW c \in Callers,
           Tw!AddCas(c), Tw!HeadUnchanged(c)
    PROVE  SplitInv(k)' /\ k \in 0 .. Len(queued')
<1> USE DEF TwBase
<1> DEFINE x == arg[c]
           n == Len(queued)
<1>0. /\ n \in Nat /\ k \in Nat /\ k <= n
      /\ \A i \in 1 .. n : queued[i] \in Works
  BY QueuedWorks
<1>1. /\ task_works' = x /\ queued' = Append(queued, x)
      /\ UNCHANGED <<next, run, work, head>>
      /\ next[x] = task_works
      /\ \A d \in Callers \ {c} : /\ pc'[d] = pc[d] /\ arg'[d] = arg[d]
                                  /\ pprev'[d] = pprev[d] /\ lnext'[d] = lnext[d]
      /\ ~Holding(c)' /\ Adding(c)
  BY DEF Tw!AddCas, Tw!HeadUnchanged, Tw!AfterAdd, Tw!runVars, Tw!Goto, Tw!TypeOK, Holding, Adding
<1>2. x \in Works /\ next[x] \in Tw!Nodes
  BY <1>1 DEF AddInv, Tw!TypeOK
<1>3. /\ Len(queued') = n + 1 /\ queued'[n + 1] = x
      /\ \A i \in 1 .. n : queued'[i] = queued[i]
  BY <1>1, <1>2 DEF Tw!TypeOK
<1> HIDE DEF x, n
<1>4. LinkedIn(next', queued', task_works', k + 1, n + 1)
  <2>1. LinkedIn(next, queued, task_works, k + 1, n)
    BY DEF SplitInv, n
  <2>2. CASE k = n
    <3>1. next[x] = NULL
      BY <1>0, <1>1, <1>2, <2>1, <2>2 DEF LinkedIn, Tw!Nodes, LockInv
    <3> QED
      BY <1>0, <1>1, <1>3, <2>2, <3>1 DEF LinkedIn
  <2>3. CASE k < n
    <3>1. /\ task_works = queued[n] /\ next[queued[k + 1]] = NULL
          /\ \A i \in (k + 1) + 1 .. n : next[queued[i]] = queued[i - 1]
      BY <1>0, <2>1, <2>3 DEF LinkedIn
    <3>2. ASSUME NEW i \in (k + 1) + 1 .. n + 1
          PROVE  next'[queued'[i]] = queued'[i - 1]
      <4>1. CASE i = n + 1
        <5>1. queued'[i] = x /\ (n + 1) - 1 = n /\ queued'[n] = queued[n]
          BY <1>0, <1>3, <2>3, <4>1
        <5> QED
          BY <1>1, <3>1, <4>1, <5>1
      <4>2. CASE i # n + 1
        <5>1. i \in (k + 1) + 1 .. n /\ i \in 1 .. n /\ i - 1 \in 1 .. n
          BY <1>0, <4>2
        <5> QED
          BY <1>1, <1>3, <3>1, <5>1
      <4> QED
        BY <4>1, <4>2
    <3>3. next'[queued'[k + 1]] = NULL
      BY <1>0, <1>1, <1>3, <2>3, <3>1
    <3> QED
      BY <1>0, <1>1, <1>3, <2>3, <3>2, <3>3 DEF LinkedIn
  <2> QED
    BY <1>0, <2>2, <2>3
<1>5. \A i \in 1 .. k : queued'[i] = queued[i] /\ next'[queued[i]] = next[queued[i]]
  BY <1>0, <1>1, <1>3
<1>6. TakenInv(k)'
  BY <1>0, <1>1, <1>5, TakenKept DEF SplitInv
<1>7. \A w \in Works : Stable(w, k) => Stable(w, k)' /\ next'[w] = next[w]
  BY <1>0, <1>1, <1>3 DEF Stable, n
<1>8. \A d \in Callers : CancelInv(d, k)'
  <2>1. \A d \in Callers \ {c} : CancelInv(d, k)
    BY DEF SplitInv
  <2>2. CancelInv(c, k)'
    BY <1>1, CancelIdle
  <2>3. \A d \in Callers \ {c} : CancelInv(d, k)'
    BY <1>1, <1>7, <2>1, CancelKept
  <2> QED
    BY <2>2, <2>3
<1> QED
  BY <1>0, <1>3, <1>4, <1>6, <1>8 DEF SplitInv

\* What a canceller finds at *pprev: the end, or the work added before the one that
\* holds the link, in the same piece.
LEMMA DerefPlace ==
    ASSUME TwBase, NEW k \in 0 .. Len(queued), SplitInv(k), NEW c \in Callers, Holding(c),
           NEW w \in Works, w = Tw!Deref(pprev[c])
    PROVE  \E x \in 1 .. Len(queued) :
             /\ queued[x] = w /\ (run = "wait" \/ x > k)
             /\ \/ pprev[c] = Head0 /\ x = Len(queued) /\ x > k
                \/ /\ pprev[c] \in Works /\ x + 1 <= Len(queued) /\ pprev[c] = queued[x + 1]
                   /\ x > k \/ (run = "wait" /\ x + 1 <= k)
<1> USE DEF TwBase
<1>0. Len(queued) \in Nat /\ k \in Nat /\ k <= Len(queued)
  BY QueuedWorks
<1>1. CASE pprev[c] = Head0
  <2>1. w = task_works /\ w # NULL /\ w # Exited
    BY <1>1 DEF Tw!Deref, LockInv
  <2>2. k + 1 <= Len(queued) /\ w = queued[Len(queued)]
    BY <1>0, <2>1 DEF SplitInv, LinkedIn
  <2> QED
    BY <1>0, <1>1, <2>2
<1>2. CASE pprev[c] = Exited
  BY <1>2 DEF Tw!Deref, LockInv, ExitInv
<1>3. CASE pprev[c] \in Works
  <2>1. w = next[pprev[c]] /\ w # NULL
    BY <1>3 DEF Tw!Deref, LockInv
  <2>2. PICK i \in 1 .. Len(queued) : queued[i] = pprev[c] /\ (run = "wait" \/ i > k)
    BY <1>3 DEF SplitInv, CancelInv, Stable
  <2>3. CASE i > k
    <3>1. /\ next[queued[k + 1]] = NULL
          /\ \A j \in (k + 1) + 1 .. Len(queued) : next[queued[j]] = queued[j - 1]
      BY <1>0, <2>3 DEF SplitInv, LinkedIn
    <3>2. i # k + 1
      BY <2>1, <2>2, <3>1
    <3>3. i \in (k + 1) + 1 .. Len(queued) /\ i - 1 \in 1 .. Len(queued) /\ i - 1 > k
          /\ (i - 1) + 1 = i
      BY <1>0, <2>3, <3>2
    <3>4. w = queued[i - 1]
      BY <2>1, <2>2, <3>1, <3>3
    <3> QED
      BY <1>3, <2>2, <3>3, <3>4
  <2>4. CASE i <= k
    <3>1. run = "wait"
      BY <1>0, <2>2, <2>4
    <3>2. next[queued[1]] = NULL /\ \A j \in 1 + 1 .. k : next[queued[j]] = queued[j - 1]
      BY <1>0, <2>4, <3>1 DEF SplitInv, TakenInv, LinkedIn
    <3>3. i # 1
      BY <2>1, <2>2, <3>2
    <3>4. i \in 1 + 1 .. k /\ i - 1 \in 1 .. Len(queued) /\ (i - 1) + 1 = i
      BY <1>0, <2>4, <3>3
    <3>5. w = queued[i - 1]
      BY <2>1, <2>2, <3>2, <3>4
    <3> QED
      BY <1>3, <2>2, <2>4, <3>1, <3>4, <3>5
  <2> QED
    BY <1>0, <2>3, <2>4
<1> QED
  BY <1>1, <1>2, <1>3 DEF Tw!TypeOK

\* task_work_cancel() up to its successful cmpxchg().
LEMMA SplitCanceller ==
    ASSUME TwBase, NEW k \in 0 .. Len(queued), SplitInv(k), NEW c \in Callers,
           \/ \E f \in Funcs : Tw!CancelLock(c, f)
           \/ Tw!CancelRead(c)
           \/ Tw!CancelCas(c) /\ Tw!Deref(pprev[c]) # arg[c]
    PROVE  SplitInv(k)'
<1> USE DEF TwBase, Tw!TypeOK, Tw!Goto
<1>1. UNCHANGED <<task_works, next, queued, run, work, head>>
  BY DEF Tw!CancelLock, Tw!CancelRead, Tw!CancelCas, Tw!listVars, Tw!runVars
<1>2. \A d \in Callers \ {c} : /\ pc'[d] = pc[d] /\ arg'[d] = arg[d]
                               /\ pprev'[d] = pprev[d] /\ lnext'[d] = lnext[d]
  BY DEF Tw!CancelLock, Tw!CancelRead, Tw!CancelCas, Tw!CancelReturn
<1>3. \A w : Stable(w, k)' <=> Stable(w, k)
  BY <1>1, StableSame
<1>4. CASE \E f \in Funcs : Tw!CancelLock(c, f)
  <2>1. pc'[c] = "cancel" /\ pprev'[c] = Head0
    BY <1>4 DEF Tw!CancelLock
  <2>2. CancelInv(c, k)'
    BY <2>1 DEF CancelInv, LockInv
  <2> QED
    BY <1>1, <1>2, <2>2, SplitCallerQuiet
<1>5. CASE Tw!CancelRead(c)
  <2> DEFINE w == Tw!Deref(pprev[c])
  <2>1. w \in Works => Stable(w, k)
    BY <1>5, DerefPlace DEF Tw!CancelRead, Holding, Stable
  <2>2. Holding(c) /\ CancelInv(c, k)
    BY <1>5 DEF Tw!CancelRead, Holding, SplitInv
  <2>3. CASE w = NULL /\ Tw!CancelReturn(c)
    <3>1. CancelInv(c, k)'
      BY <2>3, CancelIdle DEF Tw!CancelReturn, Holding
    <3> QED
      BY <1>1, <1>2, <3>1, SplitCallerQuiet
  <2>4. CASE w # NULL /\ pprev' = [pprev EXCEPT ![c] = w] /\ UNCHANGED <<pi_lock, pc, arg, want, lnext>>
    <3>1. pc'[c] = "cancel" /\ pprev'[c] = w
      BY <1>5, <2>4 DEF Tw!CancelRead
    <3>2. \A v : v = w /\ v \in Works => Stable(v, k)'
      BY <1>3, <2>1
    <3>3. CancelInv(c, k)'
      BY <3>1, <3>2 DEF CancelInv, Stable
    <3> QED
      BY <1>1, <1>2, <3>3, SplitCallerQuiet
  <2>5. CASE /\ Tw!HasFunc(w, want[c]) /\ Tw!Goto(c, "cancel_cas")
             /\ arg' = [arg EXCEPT ![c] = w] /\ lnext' = [lnext EXCEPT ![c] = next[w]]
             /\ UNCHANGED <<pi_lock, want, pprev>>
    <3>1. w \in Works /\ pprev'[c] = pprev[c] /\ arg'[c] = w /\ lnext'[c] = next'[w]
      BY <1>1, <2>5 DEF Tw!HasFunc
    <3>2. pprev[c] # Exited
      <4>1. pprev[c] = Exited => w = NULL
        BY DEF Tw!Deref, ExitInv, LockInv
      <4> QED
        BY <3>1, <4>1 DEF LockInv
    <3>3. \A v : v = w \/ (v = pprev[c] /\ v \in Works) => Stable(v, k)'
      BY <1>3, <2>1, <2>2, <3>1 DEF CancelInv
    <3>4. CancelInv(c, k)'
      BY <3>1, <3>2, <3>3 DEF CancelInv, Stable
    <3> QED
      BY <1>1, <1>2, <3>4, SplitCallerQuiet
  <2> QED
    BY <1>5, <2>3, <2>4, <2>5 DEF Tw!CancelRead
<1>6. CASE Tw!CancelCas(c) /\ Tw!Deref(pprev[c]) # arg[c]
  <2>1. pc[c] = "cancel_cas" /\ pc'[c] = "cancel" /\ pprev'[c] = pprev[c]
    BY <1>6 DEF Tw!CancelCas
  <2>2. \A v : v = pprev[c] /\ v \in Works => Stable(v, k)'
    BY <1>3, <2>1 DEF SplitInv, CancelInv, Holding
  <2>3. CancelInv(c, k)'
    BY <2>1, <2>2 DEF CancelInv, Stable
  <2> QED
    BY <1>1, <1>2, <2>3, SplitCallerQuiet
<1> QED
  BY <1>4, <1>5, <1>6

\* task_work_cancel()'s cmpxchg() unlinks the work, from whichever piece it is in.
LEMMA SplitUnlink ==
    ASSUME TwBase, NEW k \in 0 .. Len(queued), SplitInv(k), NEW c \in Callers,
           Tw!CancelCas(c), Tw!Deref(pprev[c]) = arg[c]
    PROVE  \E l \in 0 .. Len(queued') : SplitInv(l)'
<1> USE DEF TwBase
<1> DEFINE n == Len(queued)
<1>0. /\ n \in Nat /\ k \in Nat /\ k <= n /\ DOMAIN queued = 1 .. n
      /\ \A i \in 1 .. n : queued[i] \in Works
      /\ \A i, j \in 1 .. n : queued[i] = queued[j] => i = j
  BY QueuedWorks DEF AddInv, DupFree
<1>1. /\ pc[c] = "cancel_cas" /\ Holding(c)
      /\ queued' = RemoveFirst(queued, arg[c])
      /\ UNCHANGED <<run, work, head>>
      /\ pc' = [pc EXCEPT ![c] = "idle"]
  BY TwRemove DEF Tw!CancelCas, Tw!CancelReturn, Tw!Goto, Tw!runVars, Holding
<1>2. arg[c] \in Works /\ lnext[c] = next[arg[c]]
  BY <1>1 DEF SplitInv, CancelInv
<1>3. PICK x \in 1 .. n :
        /\ queued[x] = arg[c]
        /\ \/ pprev[c] = Head0 /\ x = n /\ x > k
           \/ /\ pprev[c] \in Works /\ x + 1 <= n /\ pprev[c] = queued[x + 1]
              /\ x > k \/ (run = "wait" /\ x + 1 <= k)
  BY <1>1, <1>2, DerefPlace
<1>4. /\ Len(queued') = n - 1
      /\ \A i \in 1 .. n - 1 : queued'[i] = IF i < x THEN queued[i] ELSE queued[i + 1]
  <2>1. queued \in Seq(Works) /\ DupFree(queued) /\ x \in DOMAIN queued
    BY <1>0 DEF Tw!TypeOK, AddInv
  <2>2. queued' = RemoveFirst(queued, queued[x])
    BY <1>1, <1>3
  <2> QED
    BY <2>1, <2>2, RemoveFirstEntry
<1>5. \A d \in Callers : \A l : CancelInv(d, l)'
  <2>1. \A d \in Callers : ~Holding(d)'
    BY <1>1 DEF Holding, LockInv, Tw!TypeOK
  <2> QED
    BY <2>1, CancelIdle
<1>6. LinkedIn(next, queued, task_works, k + 1, n) /\ TakenInv(k)
  BY DEF SplitInv
<1> HIDE DEF n
<1>7. CASE pprev[c] = Head0
  <2>1. next' = next /\ task_works' = next[queued[n]] /\ x = n /\ x > k
    <3>1. pprev[c] \notin Works
      BY <1>7 DEF LockInv
    <3> QED
      BY <1>2, <1>3, <1>7, <3>1 DEF Tw!CancelCas
  <2>2. \A i \in 1 .. n - 1 : queued'[i] = queued[i]
    BY <1>0, <1>4, <2>1
  <2>3. /\ next[queued[k + 1]] = NULL
        /\ \A i \in (k + 1) + 1 .. n : next[queued[i]] = queued[i - 1]
    BY <1>0, <1>6, <2>1 DEF LinkedIn
  <2>4. LinkedIn(next', queued', task_works', k + 1, n - 1)
    <3>1. CASE k = n - 1
      BY <1>0, <2>1, <2>3, <3>1 DEF LinkedIn
    <3>2. CASE k < n - 1
      <4>1. task_works' = queued'[n - 1]
        BY <1>0, <2>1, <2>2, <2>3, <3>2
      <4>2. next'[queued'[k + 1]] = NULL
        BY <1>0, <2>1, <2>2, <2>3, <3>2
      <4>3. ASSUME NEW i \in (k + 1) + 1 .. n - 1
            PROVE  next'[queued'[i]] = queued'[i - 1]
        <5>1. i \in 1 .. n - 1 /\ i - 1 \in 1 .. n - 1 /\ i \in (k + 1) + 1 .. n
          BY <1>0
        <5> QED
          BY <2>1, <2>2, <2>3, <5>1
      <4> QED
        BY <1>0, <3>2, <4>1, <4>2, <4>3 DEF LinkedIn
    <3> QED
      BY <1>0, <2>1, <3>1, <3>2
  <2>5. \A i \in 1 .. k : queued'[i] = queued[i] /\ next'[queued[i]] = next[queued[i]]
    BY <1>0, <2>1, <2>2
  <2>6. TakenInv(k)'
    BY <1>0, <1>1, <1>6, <2>5, TakenKept
  <2>7. k \in 0 .. Len(queued')
    BY <1>0, <1>4, <2>1
  <2> QED
    BY <1>4, <1>5, <2>4, <2>6, <2>7 DEF SplitInv
<1>8. CASE pprev[c] \in Works
  <2>1. /\ pprev[c] # Head0 /\ x + 1 \in 1 .. n /\ pprev[c] = queued[x + 1]
        /\ x > k \/ (run = "wait" /\ x + 1 <= k)
    BY <1>0, <1>3, <1>8 DEF LockInv
  <2>2. task_works' = task_works /\ next' = [next EXCEPT ![queued[x + 1]] = next[queued[x]]]
    BY <1>2, <1>3, <2>1 DEF Tw!CancelCas
  <2>3. next'[queued[x + 1]] = next[queued[x]]
    BY <1>0, <2>1, <2>2 DEF Tw!TypeOK
  <2>4. \A i \in 1 .. n : i # x + 1 => next'[queued[i]] = next[queued[i]]
    BY <1>0, <2>1, <2>2 DEF Tw!TypeOK
  <2>5. CASE x > k
    <3>1. LinkedIn(next', queued', task_works', k + 1, n - 1)
      <4>1. \A i \in k + 1 .. n - 1 :
              queued'[i] = IF i < x THEN queued[i] ELSE queued[i + 1]
        BY <1>0, <1>4
      <4>2. x \in k + 1 .. n - 1 /\ k + 1 \in Int /\ n \in Int
        BY <1>0, <2>1, <2>5
      <4>3. \A i \in k + 1 .. n : i # x + 1 => next'[queued[i]] = next[queued[i]]
        BY <1>0, <2>4
      <4>4. Unlinked(next, next', queued, queued', k + 1, n, x)
        BY <2>3, <4>1, <4>2, <4>3 DEF Unlinked
      <4> QED
        BY <1>6, <2>2, <4>2, <4>4, LinkedUnlink
    <3>2. \A i \in 1 .. k : queued'[i] = queued[i] /\ next'[queued[i]] = next[queued[i]]
      BY <1>0, <1>4, <2>1, <2>4, <2>5
    <3>3. TakenInv(k)'
      BY <1>0, <1>1, <1>6, <3>2, TakenKept
    <3>4. k \in 0 .. Len(queued')
      BY <1>0, <1>4, <2>1, <2>5
    <3> QED
      BY <1>4, <1>5, <3>1, <3>3, <3>4 DEF SplitInv
  <2>6. CASE ~(x > k)
    <3>1. run = "wait" /\ x + 1 <= k
      BY <2>1, <2>6
    <3>2. LinkedIn(next', queued', work', 1, k - 1)
      <4>1. LinkedIn(next, queued, work, 1, k)
        BY <1>6, <3>1 DEF TakenInv
      <4>2. \A i \in 1 .. k - 1 : queued'[i] = IF i < x THEN queued[i] ELSE queued[i + 1]
        BY <1>0, <1>4
      <4>3. x \in 1 .. k - 1
        BY <1>0, <3>1
      <4>4. \A i \in 1 .. k : i # x + 1 => next'[queued[i]] = next[queued[i]]
        BY <1>0, <2>4
      <4>5. 1 \in Int /\ k \in Int
        BY <1>0
      <4>6. Unlinked(next, next', queued, queued', 1, k, x)
        BY <2>3, <4>2, <4>3, <4>4 DEF Unlinked
      <4> QED
        BY <1>1, <4>1, <4>5, <4>6, LinkedUnlink
    <3>3. LinkedIn(next', queued', task_works', k, n - 1)
      <4>1. Moved(next, next', queued, queued', k + 1, n, 1)
        <5> SUFFICES ASSUME NEW i \in k + 1 .. n
                     PROVE  queued'[i - 1] = queued[i] /\ next'[queued[i]] = next[queued[i]]
          BY DEF Moved
        <5>1. i - 1 \in 1 .. n - 1 /\ ~(i - 1 < x) /\ (i - 1) + 1 = i /\ i \in 1 .. n /\ i # x + 1
          BY <1>0, <3>1
        <5> QED
          BY <1>4, <2>4, <5>1
      <4>2. (k + 1) - 1 = k /\ k + 1 \in Int /\ n \in Int /\ 1 \in Int
        BY <1>0
      <4>3. LinkedIn(next', queued', task_works, (k + 1) - 1, n - 1)
        BY <1>6, <4>1, <4>2, LinkedMoves
      <4> QED
        BY <2>2, <4>2, <4>3
    <3>4. k - 1 \in 0 .. n - 1 /\ k - 1 >= 1 /\ (k - 1) + 1 = k
      BY <1>0, <3>1
    <3>5. TakenInv(k - 1)'
      BY <1>1, <3>1, <3>2, <3>4 DEF TakenInv
    <3>6. SplitInv(k - 1)'
      BY <1>4, <1>5, <3>3, <3>4, <3>5 DEF SplitInv
    <3> QED
      BY <1>4, <3>4, <3>6
  <2> QED
    BY <2>5, <2>6
<1> QED
  BY <1>3, <1>7, <1>8

\* The way into task_work_run().
LEMMA SplitEnter ==
    ASSUME TwBase, NEW k \in 0 .. Len(queued), SplitInv(k), Tw!NotifyResume \/ Tw!TestWorks \/ Tw!Exit
    PROVE  SplitInv(k)'
<1>1. /\ run \in {"user", "resume"} /\ run' \in {"user", "resume", "take"}
      /\ UNCHANGED <<task_works, next, queued, work, head, pc, arg, pprev, lnext>>
  BY DEF Tw!NotifyResume, Tw!TestWorks, Tw!Exit, Tw!listVars, Tw!callVars
<1>2. TakenInv(k)'
  BY <1>1 DEF SplitInv, TakenInv
<1>3. \A w \in Works : Stable(w, k) => Stable(w, k)' /\ next'[w] = next[w]
  BY <1>1 DEF Stable
<1>4. \A c \in Callers : CancelInv(c, k)'
  BY <1>1, <1>3, CancelKept DEF SplitInv
<1> QED
  BY <1>1, <1>2, <1>4 DEF SplitInv

\* The task takes the whole list, or closes the empty one.
LEMMA SplitTake ==
    ASSUME TwBase, NEW k \in 0 .. Len(queued), SplitInv(k), Tw!TakeList
    PROVE  \E l \in 0 .. Len(queued') : SplitInv(l)'
<1> USE DEF TwBase
<1> DEFINE n == Len(queued)
<1>0. n \in Nat /\ \A i \in 1 .. n : queued[i] \in Works
  BY QueuedWorks
<1>1. /\ run = "take" /\ k = 0 /\ work' = task_works /\ task_works' = Tw!TakenHead
      /\ run' = IF task_works = NULL THEN "user" ELSE "wait"
      /\ UNCHANGED <<next, queued, pc, arg, pprev, lnext>>
  BY DEF Tw!TakeList, Tw!callVars, SplitInv, TakenInv
<1>2. LinkedIn(next, queued, task_works, 1, n) /\ task_works # Exited
  BY <1>1 DEF SplitInv, ExitInv
<1>3. ASSUME NEW l \in 0 .. n, \A w \in Works : Stable(w, k) => Stable(w, l)'
      PROVE  \A c \in Callers : CancelInv(c, l)'
  BY <1>1, <1>3, CancelKept DEF SplitInv
<1>4. CASE task_works = NULL
  <2>1. n = 0
    BY <1>0, <1>2, <1>4 DEF LinkedIn, LockInv
  <2>2. LinkedIn(next', queued', task_works', 0 + 1, Len(queued'))
    BY <1>1, <2>1 DEF LinkedIn, Tw!TakenHead
  <2>3. TakenInv(0)'
    BY <1>1, <1>4 DEF TakenInv
  <2>4. \A w \in Works : ~Stable(w, k)
    BY <2>1 DEF Stable
  <2>5. \A c \in Callers : CancelInv(c, 0)'
    BY <1>0, <1>3, <2>4
  <2> QED
    BY <1>1, <2>1, <2>2, <2>3, <2>5 DEF SplitInv
<1>5. CASE task_works # NULL
  <2>0. PICK m \in 0 .. n : m = n
    BY <1>0
  <2>1. m >= 1
    BY <1>0, <1>2, <1>5, <2>0 DEF LinkedIn
  <2>2. LinkedIn(next', queued', task_works', m + 1, Len(queued'))
    BY <1>0, <1>1, <1>5, <2>0 DEF LinkedIn, Tw!TakenHead
  <2>3. TakenInv(m)'
    BY <1>1, <1>2, <1>5, <2>0, <2>1 DEF TakenInv
  <2>4. \A w \in Works : Stable(w, k) => Stable(w, m)'
    BY <1>1, <1>5 DEF Stable
  <2>5. \A c \in Callers : CancelInv(c, m)'
    BY <1>3, <2>4
  <2>6. SplitInv(m)' /\ m \in 0 .. Len(queued')
    BY <1>1, <2>2, <2>3, <2>5 DEF SplitInv
  <2> QED
    BY <2>6
<1> QED
  BY <1>4, <1>5

\* Nobody who holds ->pi_lock can still touch what the task has taken.
LEMMA SplitWait ==
    ASSUME TwBase, NEW k \in 0 .. Len(queued), SplitInv(k), Tw!WaitPiLock
    PROVE  SplitInv(k)'
<1> USE DEF TwBase
<1>0. k \in Nat
  BY QueuedWorks
<1>1. /\ run = "wait" /\ run' = "reverse" /\ head' = NULL /\ pi_lock = NULL
      /\ UNCHANGED <<task_works, next, queued, work, pc>>
  BY DEF Tw!WaitPiLock, Tw!UnlockWait, Tw!listVars, Tw!callVars
<1>2. k >= 1 /\ LinkedIn(next, queued, work, 1, k)
  BY <1>1 DEF SplitInv, TakenInv
<1>3. ReversedIn(next', queued', head', k + 1, k)
  BY <1>0, <1>1 DEF ReversedIn
<1>4. TakenInv(k)'
  BY <1>0, <1>1, <1>2, <1>3 DEF TakenInv
<1>5. \A c \in Callers : ~Holding(c)'
  BY <1>1 DEF LockInv, Holding
<1>6. \A c \in Callers : CancelInv(c, k)'
  BY <1>5, CancelIdle
<1> QED
  BY <1>1, <1>4, <1>6 DEF SplitInv

\* One more work in front of the reversed piece.
LEMMA ReversedGrows ==
    ASSUME NEW nx, NEW ny, NEW q, NEW h, NEW j \in Int, NEW k \in Int, j <= k,
           ReversedIn(nx, q, h, j + 1, k), ny[q[j]] = h,
           \A i \in j + 1 .. k : ny[q[i]] = nx[q[i]]
    PROVE  ReversedIn(ny, q, q[j], j, k)
<1>1. CASE j = k
  BY <1>1 DEF ReversedIn
<1>2. CASE j < k
  <2>1. /\ h = q[j + 1] /\ nx[q[k]] = NULL
        /\ \A i \in j + 1 .. k - 1 : nx[q[i]] = q[i + 1]
    BY <1>2 DEF ReversedIn
  <2>2. ASSUME NEW i \in j .. k - 1
        PROVE  ny[q[i]] = q[i + 1]
    <3>1. CASE i = j
      BY <2>1, <3>1
    <3>2. CASE i # j
      BY <2>1, <3>2
    <3> QED
      BY <3>1, <3>2
  <2>3. ny[q[k]] = NULL
    BY <1>2, <2>1
  <2> QED
    BY <1>2, <2>2, <2>3 DEF ReversedIn
<1> QED
  BY <1>1, <1>2

\* The loop that reverses what was taken moves one work from the one list to the other.
LEMMA SplitReverse ==
    ASSUME TwBase, NEW k \in 0 .. Len(queued), SplitInv(k), Tw!ReverseList
    PROVE  SplitInv(k)'
<1> USE DEF TwBase
<1> DEFINE n == Len(queued)
<1>0. /\ n \in Nat /\ k \in Nat /\ k <= n /\ DOMAIN queued = 1 .. n
      /\ \A i \in 1 .. n : queued[i] \in Works
      /\ \A i, j \in 1 .. n : queued[i] = queued[j] => i = j
  BY QueuedWorks DEF AddInv, DupFree
<1>1. /\ run = "reverse" /\ next' = [next EXCEPT ![work] = head]
      /\ IF next[work] = NULL
         THEN run' = "call" /\ head' = NULL /\ work' = work
         ELSE head' = work /\ work' = next[work] /\ run' = run
      /\ UNCHANGED <<task_works, queued, pc, arg, pprev, lnext>>
  BY DEF Tw!ReverseList, Tw!callVars
<1>2. PICK j \in 1 .. k : /\ LinkedIn(next, queued, work, 1, j)
                          /\ ReversedIn(next, queued, head, j + 1, k)
  BY <1>1 DEF SplitInv, TakenInv
<1>3. /\ j \in 1 .. n /\ work = queued[j] /\ next[queued[1]] = NULL
      /\ \A i \in 1 + 1 .. j : next[queued[i]] = queued[i - 1]
  BY <1>0, <1>2 DEF LinkedIn
<1>4. /\ next'[queued[j]] = head
      /\ \A i \in 1 .. n : i # j => next'[queued[i]] = next[queued[i]]
  BY <1>0, <1>1, <1>3 DEF Tw!TypeOK
<1>5. LinkedIn(next', queued', task_works', k + 1, Len(queued'))
  <2>1. LinkedIn(next, queued, task_works, k + 1, n)
    BY DEF SplitInv
  <2>2. \A i \in k + 1 .. n : queued'[i] = queued[i] /\ next'[queued[i]] = next[queued[i]]
    BY <1>0, <1>1, <1>2, <1>4
  <2>3. k + 1 \in Int /\ n \in Int
    BY <1>0
  <2> HIDE DEF n
  <2>4. LinkedIn(next', queued', task_works, k + 1, n)
    BY <2>1, <2>2, <2>3, LinkedStays
  <2> QED
    BY <1>1, <2>4 DEF n
<1>6. \A w \in Works : Stable(w, k) => Stable(w, k)' /\ next'[w] = next[w]
  BY <1>0, <1>1, <1>2, <1>4 DEF Stable
<1>7. \A c \in Callers : CancelInv(c, k)'
  BY <1>1, <1>6, CancelKept DEF SplitInv
<1>8. ReversedIn(next', queued, queued[j], j, k)
  <2>1. \A i \in j + 1 .. k : next'[queued[i]] = next[queued[i]]
    BY <1>0, <1>3, <1>4
  <2>2. j \in Int /\ k \in Int /\ j <= k /\ next'[queued[j]] = head
    BY <1>0, <1>2, <1>4
  <2> QED
    BY <1>2, <2>1, <2>2, ReversedGrows
<1>9. CASE next[work] = NULL
  <2>1. j = 1
    <3>1. j # 1 => next[queued[j]] \in Works
      BY <1>0, <1>3
    <3> QED
      BY <1>3, <1>9, <3>1 DEF LockInv
  <2>2. TakenInv(k)'
    BY <1>0, <1>1, <1>2, <1>3, <1>8, <1>9, <2>1 DEF TakenInv
  <2> QED
    BY <1>1, <1>5, <1>7, <2>2 DEF SplitInv
<1>10. CASE next[work] # NULL
  <2>1. j # 1 /\ j - 1 \in 1 .. k /\ (j - 1) + 1 = j
    BY <1>0, <1>2, <1>3, <1>10
  <2>2. work' = queued[j - 1] /\ head' = queued[j] /\ run' = "reverse"
    BY <1>0, <1>1, <1>3, <1>10, <2>1
  <2>3. LinkedIn(next', queued', work', 1, j - 1)
    <3>1. \A i \in 1 .. j - 1 : next'[queued[i]] = next[queued[i]]
      BY <1>0, <1>3, <1>4
    <3>2. \A i \in 1 + 1 .. j - 1 : next'[queued[i]] = queued[i - 1]
      BY <1>0, <1>3, <3>1
    <3>3. next'[queued[1]] = NULL
      BY <1>0, <1>3, <2>1, <3>1
    <3> QED
      BY <1>1, <2>1, <2>2, <3>2, <3>3 DEF LinkedIn
  <2>4. ReversedIn(next', queued', head', (j - 1) + 1, k)
    BY <1>1, <1>8, <2>1, <2>2
  <2>5. TakenInv(k)'
    BY <2>1, <2>2, <2>3, <2>4 DEF TakenInv
  <2> QED
    BY <1>1, <1>5, <1>7, <2>5 DEF SplitInv
<1> QED
  BY <1>9, <1>10

\* A call takes the oldest work off the list.
LEMMA SplitRun ==
    ASSUME TwBase, NEW k \in 0 .. Len(queued), SplitInv(k), Tw!RunFunc
    PROVE  \E l \in 0 .. Len(queued') : SplitInv(l)'
<1> USE DEF TwBase
<1> DEFINE n == Len(queued)
<1>0. /\ n \in Nat /\ k \in Nat /\ k <= n /\ DOMAIN queued = 1 .. n
      /\ \A i \in 1 .. n : queued[i] \in Works
  BY QueuedWorks
<1>1. /\ run = "call" /\ queued' = RemoveFirst(queued, work) /\ work' = next[work]
      /\ run' = IF next[work] = NULL THEN "take" ELSE "call"
      /\ UNCHANGED <<task_works, next, pc, arg, pprev, lnext>>
  BY TwRemove DEF Tw!RunFunc, Tw!listVars, Tw!callVars
<1>2. k >= 1 /\ ReversedIn(next, queued, work, 1, k)
  BY <1>1 DEF SplitInv, TakenInv
<1>3. /\ work = queued[1] /\ next[queued[k]] = NULL
      /\ \A i \in 1 .. k - 1 : next[queued[i]] = queued[i + 1]
  BY <1>0, <1>2 DEF ReversedIn
<1>4. Len(queued') = n - 1 /\ \A i \in 1 .. n - 1 : queued'[i] = queued[i + 1]
  <2>1. queued \in Seq(Works) /\ DupFree(queued) /\ 1 \in DOMAIN queued
    BY <1>0, <1>2 DEF Tw!TypeOK, AddInv
  <2>2. queued' = RemoveFirst(queued, queued[1])
    BY <1>1, <1>3
  <2>3. /\ Len(queued') = n - 1
        /\ \A i \in 1 .. n - 1 : queued'[i] = IF i < 1 THEN queued[i] ELSE queued[i + 1]
    BY <2>1, <2>2, RemoveFirstEntry
  <2> QED
    BY <1>0, <2>3
<1>5. \A i \in 2 .. n : queued'[i - 1] = queued[i]
  <2> SUFFICES ASSUME NEW i \in 2 .. n PROVE queued'[i - 1] = queued[i]
    OBVIOUS
  <2>1. i - 1 \in 1 .. n - 1 /\ (i - 1) + 1 = i
    BY <1>0
  <2> QED
    BY <1>4, <2>1
<1>6. LinkedIn(next', queued', task_works', k, n - 1)
  <2>1. Moved(next, next', queued, queued', k + 1, n, 1)
    BY <1>0, <1>1, <1>2, <1>5 DEF Moved
  <2>2. LinkedIn(next, queued, task_works, k + 1, n)
    BY DEF SplitInv
  <2>3. (k + 1) - 1 = k /\ k + 1 \in Int /\ n \in Int /\ 1 \in Int
    BY <1>0
  <2>4. LinkedIn(next', queued', task_works, (k + 1) - 1, n - 1)
    BY <2>1, <2>2, <2>3, LinkedMoves
  <2> QED
    BY <1>1, <2>3, <2>4
<1>7. \A w \in Works : Stable(w, k) => Stable(w, k - 1)' /\ next'[w] = next[w]
  <2> SUFFICES ASSUME NEW w \in Works, Stable(w, k)
               PROVE  Stable(w, k - 1)' /\ next'[w] = next[w]
    OBVIOUS
  <2>1. PICK i \in 1 .. n : queued[i] = w /\ i > k
    BY <1>1 DEF Stable
  <2>2. i - 1 \in 1 .. n - 1 /\ queued'[i - 1] = w /\ i - 1 > k - 1
    BY <1>0, <1>2, <1>5, <2>1
  <2> QED
    BY <1>1, <1>4, <2>2 DEF Stable
<1>8. \A c \in Callers : CancelInv(c, k - 1)'
  BY <1>1, <1>7, CancelKept DEF SplitInv
<1>9. TakenInv(k - 1)'
  <2>1. CASE k = 1
    BY <1>1, <1>3, <2>1 DEF TakenInv
  <2>2. CASE k # 1
    <3>1. 1 \in 1 .. k - 1 /\ 2 \in 1 .. n /\ k - 1 >= 1 /\ k - 1 \in Int
      BY <1>0, <1>2, <2>2
    <3>2. next[work] = queued[2] /\ queued[2] \in Works
      BY <1>0, <1>3, <3>1
    <3>3. work' = queued[2] /\ run' = "call"
      BY <1>1, <3>2 DEF LockInv
    <3>4. work' = queued'[1]
      BY <1>5, <3>1, <3>3
    <3>5. next'[queued'[k - 1]] = NULL
      BY <1>0, <1>1, <1>2, <1>3, <1>5, <2>2
    <3>6. ASSUME NEW i \in 1 .. (k - 1) - 1
          PROVE  next'[queued'[i]] = queued'[i + 1]
      <4>1. i + 1 \in 1 .. k - 1 /\ i \in 1 .. n - 1 /\ i + 1 \in 1 .. n - 1
        BY <1>0
      <4> QED
        BY <1>1, <1>3, <1>4, <4>1
    <3>7. ReversedIn(next', queued', work', 1, k - 1)
      BY <3>1, <3>4, <3>5, <3>6 DEF ReversedIn
    <3> QED
      BY <3>1, <3>3, <3>7 DEF TakenInv
  <2> QED
    BY <2>1, <2>2
<1>10. k - 1 \in 0 .. n - 1 /\ (k - 1) + 1 = k
  BY <1>0, <1>2
<1>11. SplitInv(k - 1)'
  BY <1>4, <1>6, <1>8, <1>9, <1>10 DEF SplitInv
<1> QED
  BY <1>4, <1>10, <1>11

LEMMA TwSplitStep ==
    ASSUME TwInv, Tw!Next
    PROVE  \E k \in 0 .. Len(queued') : SplitInv(k)'
<1> DEFINE Goal == \E k \in 0 .. Len(queued') : SplitInv(k)'
<1> SUFFICES Goal
  OBVIOUS
<1>1. PICK k \in 0 .. Len(queued) : SplitInv(k)
  BY DEF TwInv
<1>2. TwBase
  BY DEF TwInv
<1>3. SplitInv(k)' => Goal
  BY DEF SplitInv
<1>4. ASSUME NEW c \in Callers,
             (\E w \in Works : Tw!BeginAdd(c, w)) \/ (\E f \in Funcs : Tw!CancelLock(c, f)) \/ Tw!CallStep(c)
      PROVE  Goal
  <2>1. CASE Tw!AddCas(c) /\ Tw!HeadUnchanged(c)
    BY <1>1, <1>2, <1>3, <2>1, SplitAddCas
  <2>2. CASE Tw!CancelCas(c) /\ Tw!Deref(pprev[c]) = arg[c]
    BY <1>1, <1>2, <2>2, SplitUnlink
  <2>3. CASE \/ \E w \in Works : Tw!BeginAdd(c, w)
             \/ Tw!AddRead(c)
             \/ Tw!AddCas(c) /\ ~Tw!HeadUnchanged(c)
             \/ Tw!SetNotifyResume(c)
    BY <1>1, <1>2, <1>3, <2>3, SplitAdder
  <2>4. CASE \/ \E f \in Funcs : Tw!CancelLock(c, f)
             \/ Tw!CancelRead(c)
             \/ Tw!CancelCas(c) /\ Tw!Deref(pprev[c]) # arg[c]
    BY <1>1, <1>2, <1>3, <2>4, SplitCanceller
  <2> HIDE DEF Goal
  <2> QED
    BY <1>4, <2>1, <2>2, <2>3, <2>4 DEF Tw!CallStep
<1>5. CASE Tw!NotifyResume \/ Tw!TestWorks \/ Tw!Exit
  BY <1>1, <1>2, <1>3, <1>5, SplitEnter
<1>6. CASE Tw!TakeList
  BY <1>1, <1>2, <1>6, SplitTake
<1>7. CASE Tw!WaitPiLock
  BY <1>1, <1>2, <1>3, <1>7, SplitWait
<1>8. CASE Tw!ReverseList
  BY <1>1, <1>2, <1>3, <1>8, SplitReverse
<1>9. CASE Tw!RunFunc
  BY <1>1, <1>2, <1>9, SplitRun
<1> HIDE DEF Goal
<1> QED
  BY <1>4, <1>5, <1>6, <1>7, <1>8, <1>9 DEF Tw!Next, Tw!TaskStep

LEMMA TwInvariant ==
    ASSUME Tw!TaskWorkAssumption
    PROVE  Tw!Spec => []TwInv
<1>1. Tw!Init => TwInv
  BY TwInit
<1>2. TwInv /\ [Tw!Next]_Tw!vars => TwInv'
  <2>1. TwInv /\ Tw!Next => TwInv'
    BY TwTypeStep, TwLockStep, TwAddStep, TwExitStep, TwSplitStep DEF TwInv, TwBase
  <2>2. ASSUME TwInv, UNCHANGED Tw!vars PROVE TwInv'
    <3>1. UNCHANGED <<task_works, next, notify, exiting, pi_lock, pc, arg, want, pprev, lnext,
                      run, work, head, queued>>
      BY <2>2 DEF Tw!vars, Tw!listVars, Tw!callVars, Tw!runVars
    <3>2. Tw!TypeOK' /\ LockInv' /\ AddInv' /\ ExitInv'
      BY <2>2, <3>1 DEF TwInv, TwBase, Tw!TypeOK, LockInv, Holding, AddInv, Adding, ExitInv
    <3>3. PICK k \in 0 .. Len(queued) : SplitInv(k)
      BY <2>2 DEF TwInv
    <3>4. SplitInv(k)'
      BY <3>1, <3>3 DEF SplitInv, TakenInv, CancelInv, Stable, Holding
    <3> QED
      BY <3>1, <3>2, <3>3, <3>4 DEF TwInv, TwBase
  <2> QED
    BY <2>1, <2>2
<1> QED
  BY <1>1, <1>2, PTL DEF Tw!Spec

\* Every accepted work is on the list once and in order, and the list is closed only when
\* it is empty, for any number of works and callers.
THEOREM TaskWorkList ==
    ASSUME Tw!TaskWorkAssumption
    PROVE  Tw!Spec => []Tw!ListInv
<1>1. ASSUME TwInv PROVE Tw!ListInv
  <2>1. PICK k \in 0 .. Len(queued) : SplitInv(k)
    BY <1>1 DEF TwInv
  <2>2. /\ \A p, m, n : LinkedIn(next, queued, p, m, n) <=> Tw!Linked(p, m, n)
        /\ \A p, m, n : ReversedIn(next, queued, p, m, n) <=> Tw!Reversed(p, m, n)
    BY DEF LinkedIn, Tw!Linked, ReversedIn, Tw!Reversed
  <2>3. Tw!Taken(k)
    <3>1. TakenInv(k) /\ k \in Nat
      BY <1>1, <2>1, QueuedWorks DEF SplitInv, TwInv, TwBase
    <3>2. CASE run = "wait"
      BY <2>2, <3>1, <3>2 DEF TakenInv, Tw!Taken
    <3>3. CASE run = "reverse"
      <4>1. PICK j \in 1 .. k : Tw!Linked(work, 1, j) /\ Tw!Reversed(head, j + 1, k)
        BY <2>2, <3>1, <3>3 DEF TakenInv
      <4>2. j \in 0 .. k
        BY <3>1
      <4> QED
        BY <3>3, <4>1, <4>2 DEF Tw!Taken
    <3>4. CASE run = "call"
      BY <2>2, <3>1, <3>4 DEF TakenInv, Tw!Taken
    <3>5. CASE run \in {"user", "resume", "take"}
      BY <3>1, <3>5 DEF TakenInv, Tw!Taken
    <3> QED
      BY <1>1, <3>2, <3>3, <3>4, <3>5 DEF TwInv, TwBase, Tw!TypeOK
  <2>4. Tw!Linked(task_works, k + 1, Len(queued))
    BY <2>1, <2>2 DEF SplitInv
  <2>5. Tw!IsInjective(queued)
    BY <1>1 DEF TwInv, TwBase, AddInv, DupFree, Tw!IsInjective
  <2> QED
    BY <1>1, <2>1, <2>3, <2>4, <2>5
       DEF Tw!ListInv, Tw!FifoExactlyOnce, Tw!NothingAfterExit, TwInv, TwBase, ExitInv
<1> QED
  BY <1>1, TwInvariant, PTL

\* task_work_cancel() follows and changes links of queued works only.
THEOREM TaskWorkCancel ==
    ASSUME Tw!TaskWorkAssumption
    PROVE  Tw!Spec => []Tw!CancelOnStableList
<1>1. ASSUME TwInv PROVE Tw!CancelOnStableList
  BY <1>1 DEF TwInv, SplitInv, CancelInv, Holding, Stable, Tw!CancelOnStableList, Tw!Contains
<1> QED
  BY <1>1, TwInvariant, PTL
=============================================================================

--------------------------- MODULE PercpuProofs ---------------------------
(***************************************************************************)
(* Proofs about the per-CPU reference count, for any set of users and any  *)
(* set of CPUs: what the RCU-sched grace period of percpu_ref_kill() buys. *)
(* Then proofs about the per-CPU reader/writer semaphore.                  *)
(***************************************************************************)
EXTENDS PercpuRef, CollectionLemmas

\* A section under way whose pointer had no PCPU_REF_DEAD.
LiveSection(t) == call[t] # "none" /\ ~ptr_dead[t]

\* Users are in sections only while the structure is in use; a section counts
\* what its caller may take or give.
SectionInv ==
    /\ \A t \in Tasks : call[t] # "none" => phase = "used"
    /\ \A t \in Tasks : call[t] \in {"get", "tryget"} => refs[t] < MaxRefs
    /\ \A t \in Tasks : call[t] = "put" => refs[t] > 0

\* The grace period: it waits for every live section, and when it is over there
\* is none and, the pointer being dead, there will be none.
GraceInv ==
    /\ rcu # "idle" => dead
    /\ dead => phase = "used"
    /\ rcu = "pending" => \A t \in Tasks : LiveSection(t) => t \in gpwait
    /\ rcu \in {"sum", "put", "done"} => \A t \in Tasks : ~LiveSection(t)
    /\ freed => phase \in {"nomem", "cancelled"} \/ rcu \in {"put", "done"}
    /\ confirmed => rcu \in {"put", "done"}

RInv == TypeOK /\ SectionInv /\ GraceInv

\* Counter arithmetic stays in range.
LEMMA WrapType == \A x \in Int : Wrap(x) \in Counter
BY PercpuRefAssumption DEF Wrap, Counter

LEMMA InitRInv == Init => RInv
<1> SUFFICES ASSUME Init PROVE RInv
  OBVIOUS
<1>1. TypeOK
  <2>1. 0 \in Counter /\ 0 \in 0..MaxRefs
    BY PercpuRefAssumption DEF Counter
  <2> QED BY <2>1 DEF Init, TypeOK, Phases, Calls
<1>2. SectionInv /\ GraceInv
  BY DEF Init, SectionInv, GraceInv, LiveSection
<1> QED BY <1>1, <1>2 DEF RInv

\* The end of a section, whatever it did to the counters.
LEMMA LeaveStep ==
    ASSUME RInv, NEW t \in Tasks, NEW n \in 0..MaxRefs, Leave(t, n),
           count' \in Counter, pcpu_count' \in [CPUs -> Counter], released' \in Nat
    PROVE  RInv'
<1>0. TypeOK /\ SectionInv /\ GraceInv
  BY DEF RInv
<1>1. TypeOK'
  BY <1>0 DEF TypeOK, Leave, Calls
<1>2. SectionInv'
  BY <1>0 DEF TypeOK, SectionInv, Leave
<1>3. GraceInv'
  BY <1>0 DEF TypeOK, GraceInv, LiveSection, Leave
<1> QED BY <1>1, <1>2, <1>3 DEF RInv

LEMMA NextRInv == RInv /\ [Next]_vars => RInv'
<1> SUFFICES ASSUME RInv, [Next]_vars PROVE RInv'
  OBVIOUS
<1> USE PercpuRefAssumption
<1>0. TypeOK /\ SectionInv /\ GraceInv
  BY DEF RInv
<1>1. CASE PercpuRefInit
  <2>1. Wrap(1 + PCPU_COUNT_BIAS) \in Counter
    BY WrapType DEF PCPU_COUNT_BIAS
  <2>2. TypeOK'
    BY <1>0, <1>1, <2>1 DEF PercpuRefInit, TypeOK, Phases, rcuVars, taskVars
  <2>3. SectionInv'
    BY <1>0, <1>1 DEF PercpuRefInit, SectionInv, taskVars
  <2>4. GraceInv'
    BY <1>0, <1>1 DEF PercpuRefInit, SectionInv, GraceInv, LiveSection, rcuVars, taskVars
  <2> QED BY <2>2, <2>3, <2>4 DEF RInv
<1>2. CASE PercpuRefCancelInit
  <2>1. TypeOK'
    BY <1>0, <1>2 DEF PercpuRefCancelInit, TypeOK, Phases, rcuVars, taskVars
  <2>2. SectionInv'
    BY <1>0, <1>2 DEF PercpuRefCancelInit, SectionInv, taskVars
  <2>3. GraceInv'
    BY <1>0, <1>2 DEF PercpuRefCancelInit, SectionInv, GraceInv, LiveSection, rcuVars, taskVars
  <2> QED BY <2>1, <2>2, <2>3 DEF RInv
<1>3. CASE Kill
  <2>1. TypeOK'
    BY <1>0, <1>3 DEF Kill, TypeOK, Phases, taskVars
  <2>2. SectionInv'
    BY <1>0, <1>3 DEF Kill, SectionInv, taskVars
  <2>3. GraceInv'
    BY <1>0, <1>3 DEF Kill, GraceInv, LiveSection, taskVars
  <2> QED BY <2>1, <2>2, <2>3 DEF RInv
<1>4. CASE RcuCallback
  <2>1. CASE KillRcu
    BY <1>0, <2>1 DEF KillRcu, RInv, TypeOK, SectionInv, GraceInv, LiveSection, Counter,
                      refVars, taskVars
  <2>2. ASSUME NEW c \in CPUs, KillRcuSum(c) PROVE RInv'
    <3>1. Wrap(sum + pcpu_count[c]) \in Counter
      BY <1>0, WrapType DEF TypeOK, Counter
    <3> QED BY <1>0, <2>2, <3>1 DEF KillRcuSum, RInv, TypeOK, SectionInv, GraceInv, LiveSection,
                                    refVars, taskVars
  <2>3. CASE KillRcuMerge
    <3>1. Wrap(count + sum - PCPU_COUNT_BIAS) \in Counter
      BY <1>0, WrapType DEF TypeOK, Counter, PCPU_COUNT_BIAS
    <3> QED BY <1>0, <2>3, <3>1 DEF KillRcuMerge, RInv, TypeOK, SectionInv, GraceInv,
                                    LiveSection, taskVars
  <2>4. CASE KillRcuPut
    <3>1. Wrap(count - 1) \in Counter
      BY <1>0, WrapType DEF TypeOK, Counter
    <3> QED BY <1>0, <2>4, <3>1 DEF KillRcuPut, DecAndTest, RInv, TypeOK, SectionInv, GraceInv,
                                    LiveSection, taskVars
  <2> QED BY <1>4, <2>1, <2>2, <2>3, <2>4 DEF RcuCallback
<1>5. ASSUME NEW t \in Tasks, EnterCall(t) PROVE RInv'
  <2>1. PICK c \in CPUs, what \in Calls \ {"none"} : MayCall(t, what) /\ Enter(t, c, what)
    BY <1>5 DEF EnterCall
  <2>2. /\ what \in {"get", "tryget"} => refs[t] < MaxRefs
        /\ what = "put" => refs[t] > 0
    BY <2>1 DEF MayCall, Calls
  <2>3. TypeOK'
    BY <1>0, <2>1 DEF Enter, TypeOK, Phases, Calls, refVars, rcuVars
  <2>4. SectionInv'
    BY <1>0, <2>1, <2>2 DEF Enter, TypeOK, SectionInv
  <2>5. GraceInv'
    BY <1>0, <2>1 DEF Enter, TypeOK, GraceInv, LiveSection, refVars, rcuVars
  <2> QED BY <2>3, <2>4, <2>5 DEF RInv
<1>6. ASSUME NEW t \in Tasks, Section(t) PROVE RInv'
  <2>1. ASSUME NEW d \in Int, AddLocal(t, d) PROVE pcpu_count' \in [CPUs -> Counter]
    <3>1. pcpu_count \in [CPUs -> Counter] /\ \A c \in CPUs : pcpu_count[c] + d \in Int
      BY <1>0 DEF TypeOK, Counter
    <3>2. \A c \in CPUs : Wrap(pcpu_count[c] + d) \in Counter
      BY <3>1, WrapType
    <3> HIDE DEF Wrap, Counter
    <3> QED BY <2>1, <3>1, <3>2 DEF AddLocal
  <2>2. count + 1 \in Int /\ count - 1 \in Int /\ Wrap(count + 1) \in Counter
        /\ Wrap(count - 1) \in Counter
    BY <1>0, WrapType DEF TypeOK, Counter
  <2>3. refs[t] \in 0..MaxRefs
    BY <1>0 DEF TypeOK
  <2>4. CASE GetPercpu(t)
    <3>1. refs[t] + 1 \in 0..MaxRefs
      BY <1>0, <2>3, <2>4 DEF GetPercpu, SectionInv
    <3> QED BY <1>0, <2>1, <2>4, <3>1, LeaveStep DEF GetPercpu, TypeOK
  <2>5. CASE GetAtomic(t)
    <3>1. refs[t] + 1 \in 0..MaxRefs
      BY <1>0, <2>3, <2>5 DEF GetAtomic, SectionInv
    <3> QED BY <1>0, <2>2, <2>5, <3>1, LeaveStep DEF GetAtomic, TypeOK
  <2>6. CASE TrygetFails(t)
    BY <1>0, <2>3, <2>6, LeaveStep DEF TrygetFails, TypeOK
  <2>7. CASE PutPercpu(t)
    <3>1. refs[t] - 1 \in 0..MaxRefs
      BY <1>0, <2>3, <2>7 DEF PutPercpu, SectionInv
    <3> QED BY <1>0, <2>1, <2>7, <3>1, LeaveStep DEF PutPercpu, TypeOK
  <2>8. CASE PutAtomic(t)
    <3>1. refs[t] - 1 \in 0..MaxRefs
      BY <1>0, <2>3, <2>8 DEF PutAtomic, SectionInv
    <3>2. released' \in Nat
      BY <1>0, <2>8 DEF PutAtomic, DecAndTest, TypeOK
    <3> QED BY <1>0, <2>2, <2>8, <3>1, <3>2, LeaveStep DEF PutAtomic, DecAndTest, TypeOK
  <2> QED BY <1>6, <2>4, <2>5, <2>6, <2>7, <2>8 DEF Section
<1>7. CASE UNCHANGED vars
  BY <1>0, <1>7 DEF vars, RInv, TypeOK, SectionInv, GraceInv, LiveSection
<1> QED BY <1>1, <1>2, <1>3, <1>4, <1>5, <1>6, <1>7 DEF Next

LEMMA RInvInvariant == Spec => []RInv
BY InitRInv, NextRInv, PTL DEF Spec

\* Type correctness; in particular a put never takes a user below zero.
THEOREM TypeCorrect == Spec => []TypeOK
BY RInvInvariant, PTL DEF RInv

\* Nobody writes to the per-CPU counters once percpu_ref_kill_rcu() or
\* percpu_ref_cancel_init() has freed them.
THEOREM CountersNotUsedAfterFree == Spec => []NoUseAfterFree
<1>1. RInv => NoUseAfterFree
  BY DEF RInv, SectionInv, GraceInv, LiveSection, NoUseAfterFree
<1> QED BY <1>1, RInvInvariant, PTL

\* After confirm_kill() no percpu_ref_tryget() hands out a reference.
THEOREM ConfirmIsFinal == Spec => NoTrygetAfterConfirm
<1>1. RInv /\ [Next]_vars =>
        (confirmed => \A t \in Tasks : call[t] = "tryget" => refs'[t] = refs[t])
  <2> SUFFICES ASSUME RInv, [Next]_vars, confirmed, NEW t \in Tasks, call[t] = "tryget"
               PROVE  refs'[t] = refs[t]
    OBVIOUS
  <2>1. TypeOK /\ ptr_dead[t]
    BY DEF RInv, GraceInv, LiveSection
  <2>2. ASSUME NEW u \in Tasks, Section(u) PROVE refs'[t] = refs[t]
    <3>1. u = t => TrygetFails(u)
      BY <2>1, <2>2 DEF Section, GetPercpu, GetAtomic, PutPercpu, PutAtomic
    <3>2. CASE u = t
      BY <2>1, <3>1, <3>2 DEF TrygetFails, Leave, TypeOK
    <3>3. CASE u # t
      BY <2>1, <2>2, <3>3 DEF Section, GetPercpu, GetAtomic, TrygetFails, PutPercpu, PutAtomic,
                              Leave, TypeOK
    <3> QED BY <3>2, <3>3
  <2>3. ASSUME NEW u \in Tasks, EnterCall(u) PROVE refs' = refs
    BY <2>3 DEF EnterCall, Enter
  <2>4. CASE PercpuRefInit \/ PercpuRefCancelInit \/ Kill \/ RcuCallback \/ UNCHANGED vars
    BY <2>4 DEF PercpuRefInit, PercpuRefCancelInit, Kill, RcuCallback, KillRcu, KillRcuSum,
                KillRcuMerge, KillRcuPut, taskVars, vars
  <2> QED BY <2>2, <2>3, <2>4 DEF Next
<1> QED BY <1>1, RInvInvariant, PTL DEF Spec, NoTrygetAfterConfirm

\* The sections of get and put, and the callback percpu_ref_kill_rcu() that frees the
\* counters under them: types, and no write after the free.
THEOREM CountersSafe == Spec => []CounterSafety
BY TypeCorrect, CountersNotUsedAfterFree, PTL DEF CounterSafety

-----------------------------------------------------------------------------
(* The switch from per-CPU counters to the atomic one.                     *)
(*                                                                         *)
(* Until percpu_ref_kill_rcu() merges them, count is the bias plus what    *)
(* went through the atomic counter alone, so that what it may be depends   *)
(* on which references went where.  The split that the invariant asks for  *)
(* says so: p[t] are the references of t that are in the per-CPU counters, *)
(* all of them until t enters its first section after the kill, which is   *)
(* why no p[t] leaves 0..MaxRefs although a CPU's counter may be anything. *)

Accounting(p) ==
    /\ p \in [Tasks -> 0..MaxRefs]
    /\ Wrap(Sum(pcpu_count, CPUs)) = Wrap(Sum(p, Tasks))
    /\ count = PCPU_COUNT_BIAS + 1 + Sum(refs, Tasks) - Sum(p, Tasks)
    /\ \A t \in Tasks : LiveSection(t) \/ ~dead => p[t] = refs[t]

SplitInv ==
    phase \in {"ready", "used"} /\ rcu \in {"idle", "pending", "sum"} => \E p : Accounting(p)

SumInv ==
    rcu = "sum" => Wrap(sum + Sum(pcpu_count, tosum)) = Wrap(Sum(pcpu_count, CPUs))

MergedInv ==
    rcu \in {"put", "done"} => count = Sum(refs, Tasks) + (IF rcu = "put" THEN 1 ELSE 0)

ReleaseInv == released > 0 => released = 1 /\ rcu = "done" /\ count = 0

\* A get that goes to the atomic counter stands on a reference of its caller.
CallerInv ==
    /\ \A t \in Tasks : call[t] = "get" /\ ptr_dead[t] => refs[t] > 0
    /\ \A t \in Tasks : call[t] # "none" => cpu[t] \in CPUs
    /\ \A t \in Tasks : ptr_dead[t] => dead

UnusedInv ==
    phase \in {"raw", "nomem"} =>
        (\A t \in Tasks : refs[t] = 0) /\ (\A c \in CPUs : pcpu_count[c] = 0)

MInv == SplitInv /\ SumInv /\ MergedInv /\ ReleaseInv /\ CallerInv /\ UnusedInv

MaxTotal == Cardinality(Tasks) * MaxRefs

\* Wrap is a congruence, and the identity on what fits.
LEMMA WrapFacts ==
    /\ \A x \in Counter : Wrap(x) = x
    /\ \A x \in Int : Wrap(Wrap(x)) = Wrap(x)
    /\ \A a, b, c \in Int : Wrap(a) = Wrap(b) => Wrap(a + c) = Wrap(b + c)
<1>1. 2 * HalfRange \in Nat \ {0}
  BY PercpuRefAssumption
<1> QED BY <1>1, ModIdentity, ModIdem, ModShift DEF Wrap, Counter

LEMMA RangeFacts ==
    /\ MaxTotal \in Nat /\ MaxTotal + 1 < HalfRange /\ HalfRange \in Nat
    /\ PCPU_COUNT_BIAS = HalfRange /\ Counter = 0 .. 2 * HalfRange - 1
    /\ IsFiniteSet(Tasks) /\ IsFiniteSet(CPUs) /\ MaxRefs \in Nat
<1>1. Cardinality(Tasks) \in Nat /\ MaxRefs \in Nat
  BY PercpuRefAssumption, FS_CardinalityType
<1>2. MaxTotal \in Nat
  BY <1>1 DEF MaxTotal
<1> QED BY <1>2, PercpuRefAssumption DEF MaxTotal, PCPU_COUNT_BIAS, Counter

\* What users may hold altogether.
LEMMA TotalBound ==
    ASSUME NEW f \in [Tasks -> 0..MaxRefs]
    PROVE  /\ Sum(f, Tasks) \in 0..MaxTotal
           /\ \A t \in Tasks : f[t] <= Sum(f, Tasks)
BY RangeFacts, SumBounds DEF MaxTotal

LEMMA TotalChange ==
    ASSUME NEW f \in [Tasks -> 0..MaxRefs], NEW t \in Tasks, NEW n \in 0..MaxRefs
    PROVE  Sum([f EXCEPT ![t] = n], Tasks) = Sum(f, Tasks) + n - f[t]
<1> DEFINE e == [f EXCEPT ![t] = n]
<1>1. /\ \A y \in Tasks : f[y] \in Int
      /\ e[t] = n /\ n \in Int
      /\ \A y \in Tasks \ {t} : e[y] = f[y]
  BY RangeFacts
<1> HIDE DEF e
<1>2. Sum(e, Tasks) = Sum(f, Tasks) + e[t] - f[t]
  BY <1>1, RangeFacts, SumUpdate
<1> QED BY <1>1, <1>2 DEF e

\* A counter that is updated modulo the range changes the sum it is part of by d, modulo
\* the range.
LEMMA WrapCarry ==
    ASSUME NEW s \in Int, NEW a \in Int, NEW d \in Int
    PROVE  Wrap(a + d) \in Int /\ Wrap(s + Wrap(a + d) - a) = Wrap(s + d)
<1>1. 2 * HalfRange \in Nat \ {0}
  BY PercpuRefAssumption
<1> QED BY <1>1, ModCarry DEF Wrap

\* __this_cpu_inc() and __this_cpu_dec() change the sum of the counters by one, modulo
\* the range of unsigned, whatever the counter of that CPU was.
LEMMA LocalChange ==
    ASSUME TypeOK, NEW t \in Tasks, cpu[t] \in CPUs, NEW d \in Int, AddLocal(t, d)
    PROVE  /\ Sum(pcpu_count, CPUs) \in Int /\ Sum(pcpu_count', CPUs) \in Int
           /\ Wrap(Sum(pcpu_count', CPUs)) = Wrap(Sum(pcpu_count, CPUs) + d)
<1> DEFINE c == cpu[t]
           old == pcpu_count[c]
           e == pcpu_count'
           total == Sum(pcpu_count, CPUs)
<1>1. c \in CPUs /\ old \in Int /\ \A y \in CPUs : pcpu_count[y] \in Int
  BY RangeFacts DEF TypeOK
<1>2. e[c] = Wrap(old + d) /\ \A y \in CPUs \ {c} : e[y] = pcpu_count[y]
  BY <1>1 DEF AddLocal, TypeOK
<1>3. total \in Int
  BY <1>1, RangeFacts, SumType
<1>4. e[c] \in Int /\ Wrap(total + e[c] - old) = Wrap(total + d)
  BY <1>1, <1>2, <1>3, WrapCarry
<1>5. Sum(e, CPUs) = total + e[c] - old
  <2>1. e[c] \in Int /\ IsFiniteSet(CPUs)
    BY <1>4, RangeFacts
  <2> HIDE DEF c, e
  <2> QED BY <1>1, <1>2, <2>1, SumUpdate
<1> HIDE DEF total, e, old
<1>6. Sum(e, CPUs) \in Int
  <2>1. old \in Int
    BY <1>1 DEF old
  <2> QED BY <1>3, <1>4, <1>5, <2>1
<1> QED BY <1>3, <1>4, <1>5, <1>6 DEF total, e, old

LEMMA InitMInv == Init => MInv
BY DEF Init, MInv, SplitInv, SumInv, MergedInv, ReleaseInv, CallerInv, UnusedInv

\* percpu_ref_init() starts with the initial reference and the bias in the count.
LEMMA InitRefMInv == ASSUME RInv, MInv, PercpuRefInit PROVE MInv'
<1>0. TypeOK /\ GraceInv /\ UnusedInv /\ ReleaseInv /\ CallerInv
  BY DEF RInv, MInv
<1>1. /\ phase = "raw" /\ phase' \in {"ready", "nomem"} /\ rcu = "idle"
      /\ count' = Wrap(1 + PCPU_COUNT_BIAS)
      /\ UNCHANGED <<pcpu_count, dead, released, rcu, sum, tosum, call, cpu, ptr_dead, refs>>
  BY <1>0 DEF PercpuRefInit, GraceInv, rcuVars, taskVars
<1>2. (\A t \in Tasks : refs[t] = 0) /\ (\A c \in CPUs : pcpu_count[c] = 0)
  BY <1>0, <1>1 DEF UnusedInv
<1>3. Sum(refs, Tasks) = 0 /\ Sum(pcpu_count, CPUs) = 0
  BY <1>2, RangeFacts, SumZero
<1>4. Wrap(1 + PCPU_COUNT_BIAS) = 1 + PCPU_COUNT_BIAS
  BY RangeFacts, WrapFacts
<1>5. Accounting(refs)'
  <2>1. (refs \in [Tasks -> 0..MaxRefs])'
    BY <1>0, <1>1 DEF TypeOK
  <2>2. (count = PCPU_COUNT_BIAS + 1 + Sum(refs, Tasks) - Sum(refs, Tasks))'
    BY <1>1, <1>3, <1>4, RangeFacts
  <2> QED BY <1>1, <1>3, <2>1, <2>2 DEF Accounting
<1>6. SplitInv'
  BY <1>5 DEF SplitInv
<1>7. SumInv' /\ MergedInv' /\ CallerInv' /\ UnusedInv'
  BY <1>0, <1>1, <1>2 DEF SumInv, MergedInv, CallerInv, UnusedInv
<1>8. ReleaseInv'
  BY <1>0, <1>1 DEF ReleaseInv
<1> QED BY <1>6, <1>7, <1>8 DEF MInv

\* A section that saw the pointer alive: the reference moves with its per-CPU counter.
LEMMA LocalMInv ==
    ASSUME RInv, MInv, NEW t \in Tasks, NEW d \in Int, LiveSection(t),
           refs[t] + d \in 0..MaxRefs,
           AddLocal(t, d), Leave(t, refs[t] + d), UNCHANGED <<count, released>>
    PROVE  MInv'
<1>0. TypeOK /\ SectionInv /\ GraceInv /\ SplitInv /\ ReleaseInv /\ CallerInv
  BY DEF RInv, MInv
<1>1. /\ phase = "used" /\ rcu \in {"idle", "pending"}
      /\ UNCHANGED <<phase, rcu, dead, count, released>>
  BY <1>0 DEF TypeOK, SectionInv, GraceInv, LiveSection, Leave
<1>2. PICK p : Accounting(p)
  BY <1>0, <1>1 DEF SplitInv
<1> DEFINE n == refs[t] + d
<1>q. PICK q : q = [p EXCEPT ![t] = n]
  OBVIOUS
<1>3. p \in [Tasks -> 0..MaxRefs] /\ p[t] = refs[t] /\ refs \in [Tasks -> 0..MaxRefs]
      /\ refs' = [refs EXCEPT ![t] = n] /\ n \in 0..MaxRefs /\ refs[t] \in Int
  BY <1>0, <1>2, RangeFacts DEF Accounting, TypeOK, Leave
<1>4. /\ Sum(refs', Tasks) = Sum(refs, Tasks) + d
      /\ Sum(q, Tasks) = Sum(p, Tasks) + d
      /\ Sum(refs, Tasks) \in Int /\ Sum(p, Tasks) \in Int
  <2>1. /\ Sum(refs', Tasks) = Sum(refs, Tasks) + n - refs[t]
        /\ Sum(q, Tasks) = Sum(p, Tasks) + n - refs[t]
    BY <1>3, <1>q, TotalChange
  <2>2. Sum(refs, Tasks) \in Int /\ Sum(p, Tasks) \in Int
    BY <1>3, TotalBound
  <2> QED BY <1>3, <2>1, <2>2
<1>5. /\ Sum(pcpu_count, CPUs) \in Int
      /\ Wrap(Sum(pcpu_count', CPUs)) = Wrap(Sum(pcpu_count, CPUs) + d)
  BY <1>0, LocalChange DEF CallerInv, LiveSection
<1>6. Accounting(q)'
  <2>1. q \in [Tasks -> 0..MaxRefs]
    BY <1>3, <1>q
  <2>2. Wrap(Sum(pcpu_count', CPUs)) = Wrap(Sum(q, Tasks))
    <3>1. Wrap(Sum(pcpu_count, CPUs)) = Wrap(Sum(p, Tasks))
      BY <1>2 DEF Accounting
    <3> QED BY <1>4, <1>5, <3>1, WrapFacts
  <2>3. count' = PCPU_COUNT_BIAS + 1 + Sum(refs', Tasks) - Sum(q, Tasks)
    <3>1. count = PCPU_COUNT_BIAS + 1 + Sum(refs, Tasks) - Sum(p, Tasks)
      BY <1>2 DEF Accounting
    <3> QED BY <1>1, <1>4, <3>1, RangeFacts
  <2>4. ASSUME NEW u \in Tasks, LiveSection(u)' \/ ~dead' PROVE q[u] = refs'[u]
    <3>1. CASE u = t
      BY <1>3, <1>q, <3>1
    <3>2. CASE u # t
      <4>1. LiveSection(u) \/ ~dead
        BY <1>0, <1>1, <2>4, <3>2 DEF LiveSection, Leave, TypeOK
      <4>2. p[u] = refs[u]
        BY <1>2, <4>1 DEF Accounting
      <4> QED BY <1>3, <1>q, <3>2, <4>2
    <3> QED BY <3>1, <3>2
  <2> QED BY <2>1, <2>2, <2>3, <2>4 DEF Accounting
<1>7. SplitInv'
  BY <1>6 DEF SplitInv
<1>8. CallerInv'
  BY <1>0, <1>1 DEF CallerInv, Leave, TypeOK
<1>9. SumInv' /\ MergedInv' /\ UnusedInv' /\ ReleaseInv'
  BY <1>0, <1>1 DEF SumInv, MergedInv, UnusedInv, ReleaseInv
<1> QED BY <1>7, <1>8, <1>9 DEF MInv

\* A section that saw the pointer dead changes the atomic counter by as much as its
\* caller's references; it is released by the last put alone.
LEMMA AtomicMInv ==
    ASSUME RInv, MInv, NEW t \in Tasks, NEW d \in {-1, 0, 1}, call[t] # "none", ptr_dead[t],
           refs[t] + d \in 0..MaxRefs, d # 0 => refs[t] > 0,
           count' = Wrap(count + d), Leave(t, refs[t] + d), UNCHANGED pcpu_count,
           released' = IF d = -1 /\ count' = 0 THEN released + 1 ELSE released
    PROVE  MInv'
<1>0. /\ TypeOK /\ SectionInv /\ GraceInv
      /\ SplitInv /\ SumInv /\ MergedInv /\ ReleaseInv /\ CallerInv /\ UnusedInv
  BY DEF RInv, MInv
<1>1. /\ phase = "used" /\ dead
      /\ UNCHANGED <<phase, rcu, dead, sum, tosum, pcpu_count>>
  BY <1>0 DEF SectionInv, CallerInv, Leave
<1> DEFINE n == refs[t] + d
           total == Sum(refs, Tasks)
<1>2. /\ refs \in [Tasks -> 0..MaxRefs] /\ refs' = [refs EXCEPT ![t] = n] /\ n \in 0..MaxRefs
      /\ refs' \in [Tasks -> 0..MaxRefs] /\ refs[t] \in Int
  BY <1>0, RangeFacts DEF TypeOK, Leave
<1>3. /\ total \in 0..MaxTotal /\ Sum(refs', Tasks) = total + d /\ total + d \in 0..MaxTotal
      /\ d # 0 => total > 0
  <2>1. total \in 0..MaxTotal /\ Sum(refs', Tasks) \in 0..MaxTotal /\ refs[t] <= total
    BY <1>2, TotalBound
  <2>2. Sum(refs', Tasks) = total + n - refs[t]
    BY <1>2, TotalChange
  <2> QED BY <1>2, <2>1, <2>2, RangeFacts
<1> HIDE DEF total
<1>4. CallerInv'
  BY <1>0, <1>1 DEF CallerInv, Leave, TypeOK
<1>5. SumInv' /\ UnusedInv'
  BY <1>0, <1>1 DEF SumInv, UnusedInv
<1>6. CASE rcu \in {"idle", "pending", "sum"}
  <2>1. PICK p : Accounting(p)
    BY <1>0, <1>1, <1>6 DEF SplitInv
  <2>2. /\ p \in [Tasks -> 0..MaxRefs] /\ Sum(p, Tasks) \in 0..MaxTotal
        /\ count = PCPU_COUNT_BIAS + 1 + total - Sum(p, Tasks)
    BY <2>1, TotalBound DEF Accounting, total
  <2>3. count + d = PCPU_COUNT_BIAS + 1 + (total + d) - Sum(p, Tasks)
    <3>1. d \in Int /\ total \in Int /\ Sum(p, Tasks) \in Int /\ PCPU_COUNT_BIAS \in Int
      BY <1>3, <2>2, RangeFacts
    <3> QED BY <2>2, <3>1
  <2>4. count + d \in Counter /\ count + d > 0
    BY <1>3, <2>2, <2>3, RangeFacts, SMTT(30)
  <2>5. count' = count + d /\ released' = released
    BY <2>4, WrapFacts
  <2>6. Accounting(p)'
    <3>1. ASSUME NEW u \in Tasks, LiveSection(u)' \/ ~dead' PROVE p[u] = refs'[u]
      <4>1. u # t /\ LiveSection(u)
        BY <1>0, <1>1, <3>1 DEF LiveSection, Leave, TypeOK
      <4>2. p[u] = refs[u]
        BY <2>1, <4>1 DEF Accounting
      <4> QED BY <1>2, <4>1, <4>2
    <3>2. count' = PCPU_COUNT_BIAS + 1 + Sum(refs', Tasks) - Sum(p, Tasks)
      BY <1>3, <2>3, <2>5
    <3>3. Wrap(Sum(pcpu_count', CPUs)) = Wrap(Sum(p, Tasks))
      BY <1>1, <2>1 DEF Accounting
    <3> QED BY <2>2, <3>1, <3>2, <3>3 DEF Accounting
  <2>7. SplitInv'
    BY <2>6 DEF SplitInv
  <2>8. MergedInv' /\ ReleaseInv'
    BY <1>0, <1>1, <1>6, <2>5 DEF MergedInv, ReleaseInv
  <2> QED BY <1>4, <1>5, <2>7, <2>8 DEF MInv
<1>7. CASE rcu \in {"put", "done"}
  <2> DEFINE k == IF rcu = "put" THEN 1 ELSE 0
  <2>1. count = total + k /\ k \in 0..1 /\ (k = 0 <=> rcu = "done")
    BY <1>0, <1>7 DEF MergedInv, total
  <2> HIDE DEF k
  <2>2. count + d \in Counter /\ count + d = (total + d) + k
    BY <1>3, <2>1, RangeFacts
  <2>3. count' = (total + d) + k
    BY <2>2, WrapFacts
  <2>4. MergedInv'
    BY <1>1, <1>3, <2>3 DEF MergedInv, k
  <2>5. ReleaseInv'
    <3>1. CASE d = 0
      BY <1>0, <1>1, <1>3, <2>1, <2>3, <3>1, RangeFacts DEF ReleaseInv
    <3>2. CASE d # 0
      <4>1. count > 0
        BY <1>3, <2>1, <3>2, RangeFacts
      <4>2. released = 0
        BY <1>0, <4>1 DEF ReleaseInv, TypeOK
      <4>3. count' = 0 => rcu = "done"
        BY <1>3, <2>1, <2>3, RangeFacts
      <4> QED BY <1>1, <4>2, <4>3 DEF ReleaseInv
    <3> QED BY <3>1, <3>2
  <2>6. SplitInv'
    BY <1>1, <1>7 DEF SplitInv
  <2> QED BY <1>4, <1>5, <2>4, <2>5, <2>6 DEF MInv
<1> QED BY <1>0, <1>6, <1>7 DEF TypeOK

\* The turns of percpu_ref_kill_rcu() over the CPUs, once nobody writes to their
\* counters any more.
LEMMA CallbackMInv == ASSUME RInv, MInv, RcuCallback PROVE MInv'
<1>0. /\ TypeOK /\ GraceInv
      /\ SplitInv /\ SumInv /\ MergedInv /\ ReleaseInv /\ CallerInv /\ UnusedInv
  BY DEF RInv, MInv
<1> DEFINE total == Sum(refs, Tasks)
           local == Sum(pcpu_count, CPUs)
<1>1. /\ total \in 0..MaxTotal /\ local \in Int
      /\ \A c \in CPUs : pcpu_count[c] \in Int
  <2>1. \A c \in CPUs : pcpu_count[c] \in Int
    BY <1>0, RangeFacts DEF TypeOK
  <2> QED BY <1>0, <2>1, RangeFacts, TotalBound, SumType DEF TypeOK
<1>2. CASE KillRcu
  <2>1. /\ rcu = "pending" /\ rcu' = "sum" /\ tosum' = CPUs /\ sum' = 0
        /\ UNCHANGED <<phase, count, pcpu_count, dead, released, call, cpu, ptr_dead, refs>>
    BY <1>2 DEF KillRcu, refVars, taskVars
  <2>2. SumInv'
    BY <1>1, <2>1 DEF SumInv
  <2>3. SplitInv'
    BY <1>0, <2>1 DEF SplitInv, Accounting, LiveSection
  <2>4. MergedInv' /\ ReleaseInv' /\ CallerInv' /\ UnusedInv'
    BY <1>0, <2>1 DEF MergedInv, ReleaseInv, CallerInv, UnusedInv
  <2> QED BY <2>2, <2>3, <2>4 DEF MInv
<1>3. ASSUME NEW c \in CPUs, KillRcuSum(c) PROVE MInv'
  <2>1. /\ rcu = "sum" /\ c \in tosum /\ sum' = Wrap(sum + pcpu_count[c]) /\ tosum' = tosum \ {c}
        /\ UNCHANGED <<rcu, phase, count, pcpu_count, dead, released, call, cpu, ptr_dead, refs>>
    BY <1>3 DEF KillRcuSum, refVars, taskVars
  <2> DEFINE x == pcpu_count[c]
             rest == Sum(pcpu_count, tosum \ {c})
  <2>2. x \in Int /\ sum \in Int
    BY <1>0, <1>1, RangeFacts DEF TypeOK
  <2>3. /\ IsFiniteSet(tosum) /\ \A y \in tosum : pcpu_count[y] \in Int
        /\ IsFiniteSet(tosum \ {c})
    <3>1. tosum \in SUBSET CPUs /\ tosum \ {c} \in SUBSET CPUs
      BY <1>0 DEF TypeOK
    <3> QED BY <1>1, <3>1, RangeFacts, FS_Subset
  <2>4. rest \in Int /\ Sum(pcpu_count, tosum) = x + rest
    BY <2>1, <2>3, SumType, SumRemove
  <2> HIDE DEF x, rest
  <2>5. Wrap(sum + x) \in Int /\ Wrap((sum + rest) + Wrap(sum + x) - sum) = Wrap((sum + rest) + x)
    <3>1. sum + rest \in Int
      BY <2>2, <2>4
    <3> QED BY <2>2, <3>1, WrapCarry
  <2>6. Wrap(sum' + rest) = Wrap(sum + (x + rest))
    <3>1. /\ (sum + rest) + Wrap(sum + x) - sum = Wrap(sum + x) + rest
          /\ (sum + rest) + x = sum + (x + rest)
      BY <2>2, <2>4, <2>5
    <3> QED BY <2>1, <2>5, <3>1 DEF x
  <2>7. SumInv'
    <3>1. Wrap(sum + Sum(pcpu_count, tosum)) = Wrap(local)
      BY <1>0, <2>1 DEF SumInv
    <3>2. Sum(pcpu_count', tosum') = rest /\ Sum(pcpu_count', CPUs) = local
      BY <2>1 DEF rest
    <3> QED BY <2>4, <2>6, <3>1, <3>2 DEF SumInv
  <2>8. SplitInv'
    BY <1>0, <2>1 DEF SplitInv, Accounting, LiveSection
  <2>9. MergedInv' /\ ReleaseInv' /\ CallerInv' /\ UnusedInv'
    BY <1>0, <2>1 DEF MergedInv, ReleaseInv, CallerInv, UnusedInv
  <2> QED BY <2>7, <2>8, <2>9 DEF MInv
<1>4. CASE KillRcuMerge
  <2>1. /\ rcu = "sum" /\ rcu' = "put" /\ tosum = {} /\ count' = Wrap(count + sum - PCPU_COUNT_BIAS)
        /\ UNCHANGED <<phase, pcpu_count, dead, released, call, cpu, ptr_dead, refs>>
    BY <1>4 DEF KillRcuMerge, taskVars
  <2>2. phase = "used" /\ sum \in Int /\ released = 0
    BY <1>0, <2>1, RangeFacts DEF GraceInv, TypeOK, ReleaseInv
  <2>3. PICK p : Accounting(p)
    BY <1>0, <2>1, <2>2 DEF SplitInv
  <2>4. /\ Sum(p, Tasks) \in 0..MaxTotal /\ Wrap(local) = Wrap(Sum(p, Tasks))
        /\ count = PCPU_COUNT_BIAS + 1 + total - Sum(p, Tasks)
    BY <2>3, TotalBound DEF Accounting
  <2>5. Wrap(sum) = Wrap(Sum(p, Tasks))
    <3>1. Sum(pcpu_count, tosum) = 0
      BY <2>1, FS_EmptySet, SumZero
    <3> QED BY <1>0, <2>1, <2>2, <2>4, <3>1 DEF SumInv
  <2> HIDE DEF total, local
  <2> DEFINE a == count - PCPU_COUNT_BIAS
             b == Sum(p, Tasks)
  <2>6. a \in Int /\ b \in Int /\ sum + a = count + sum - PCPU_COUNT_BIAS /\ b + a = total + 1
    BY <1>1, <2>2, <2>4, RangeFacts, SMTT(30)
  <2>7. Wrap(sum + a) = Wrap(b + a)
    <3> HIDE DEF a, b
    <3>1. Wrap(sum) = Wrap(b)
      BY <2>5 DEF b
    <3> QED BY <2>2, <2>6, <3>1, WrapFacts
  <2>8. Wrap(total + 1) = total + 1
    <3>1. total + 1 \in Counter
      BY <1>1, RangeFacts
    <3> QED BY <3>1, WrapFacts
  <2>9. count' = total + 1
    <3> HIDE DEF a, b
    <3> QED BY <2>1, <2>6, <2>7, <2>8
  <2>10. MergedInv'
    BY <2>1, <2>9 DEF MergedInv, total
  <2>11. SplitInv' /\ SumInv' /\ ReleaseInv' /\ CallerInv' /\ UnusedInv'
    BY <1>0, <2>1, <2>2 DEF SplitInv, SumInv, ReleaseInv, CallerInv, UnusedInv
  <2> QED BY <2>10, <2>11 DEF MInv
<1>5. CASE KillRcuPut
  <2>1. /\ rcu = "put" /\ rcu' = "done" /\ count' = Wrap(count - 1)
        /\ released' = IF count' = 0 THEN released + 1 ELSE released
        /\ UNCHANGED <<phase, pcpu_count, dead, call, cpu, ptr_dead, refs>>
    BY <1>5 DEF KillRcuPut, DecAndTest, taskVars
  <2>2. released = 0 /\ count = total + 1
    BY <1>0, <2>1 DEF ReleaseInv, TypeOK, MergedInv
  <2>3. count' = total
    <3>1. count - 1 = total /\ total \in Counter
      BY <1>1, <2>2, RangeFacts
    <3> QED BY <2>1, <3>1, WrapFacts
  <2>4. MergedInv'
    <3>1. Sum(refs', Tasks) + 0 = total
      BY <1>1, <2>1, RangeFacts
    <3> QED BY <2>1, <2>3, <3>1 DEF MergedInv
  <2>5. SplitInv' /\ SumInv' /\ ReleaseInv' /\ CallerInv' /\ UnusedInv'
    BY <1>0, <2>1, <2>2 DEF SplitInv, SumInv, ReleaseInv, CallerInv, UnusedInv
  <2> QED BY <2>4, <2>5 DEF MInv
<1> QED BY <1>2, <1>3, <1>4, <1>5 DEF RcuCallback

LEMMA NextMInv == RInv /\ MInv /\ [Next]_vars => MInv'
<1> SUFFICES ASSUME RInv, MInv, [Next]_vars PROVE MInv'
  OBVIOUS
<1>0. /\ TypeOK /\ SectionInv /\ GraceInv
      /\ SplitInv /\ SumInv /\ MergedInv /\ ReleaseInv /\ CallerInv /\ UnusedInv
  BY DEF RInv, MInv
<1>1. CASE PercpuRefCancelInit
  <2>1. /\ phase' = "cancelled" /\ rcu = "idle"
        /\ UNCHANGED <<count, pcpu_count, dead, released, rcu, sum, tosum, call, cpu, ptr_dead, refs>>
    BY <1>0, <1>1 DEF PercpuRefCancelInit, GraceInv, rcuVars, taskVars
  <2> QED BY <1>0, <2>1 DEF MInv, SplitInv, SumInv, MergedInv, ReleaseInv, CallerInv, UnusedInv
<1>2. CASE Kill
  <2>1. /\ phase \in {"ready", "used"} /\ phase' = "used" /\ ~dead /\ dead' /\ rcu = "idle"
        /\ rcu' = "pending"
        /\ UNCHANGED <<count, pcpu_count, released, sum, tosum, call, cpu, ptr_dead, refs>>
    BY <1>0, <1>2 DEF Kill, GraceInv, TypeOK, taskVars
  <2>2. PICK p : Accounting(p)
    BY <1>0, <2>1 DEF SplitInv
  <2>3. Accounting(p)'
    BY <2>1, <2>2 DEF Accounting, LiveSection
  <2> QED BY <1>0, <2>1, <2>3
             DEF MInv, SplitInv, SumInv, MergedInv, ReleaseInv, CallerInv, UnusedInv
<1>3. ASSUME NEW t \in Tasks, EnterCall(t) PROVE MInv'
  <2>1. PICK c \in CPUs, what \in Calls \ {"none"} : MayCall(t, what) /\ Enter(t, c, what)
    BY <1>3 DEF EnterCall
  <2>2. /\ phase \in {"ready", "used"} /\ phase' = "used"
        /\ call' = [call EXCEPT ![t] = what] /\ cpu' = [cpu EXCEPT ![t] = c]
        /\ ptr_dead' = [ptr_dead EXCEPT ![t] = dead]
        /\ UNCHANGED <<count, pcpu_count, dead, released, rcu, sum, tosum, refs>>
    BY <2>1 DEF Enter, refVars, rcuVars
  <2>3. CallerInv'
    <3>1. what = "get" /\ dead => refs[t] > 0
      BY <2>1 DEF MayCall
    <3> QED BY <1>0, <2>2, <3>1 DEF CallerInv, TypeOK
  <2>4. SplitInv'
    <3> SUFFICES ASSUME rcu \in {"idle", "pending", "sum"} PROVE \E p : Accounting(p)'
      BY <2>2 DEF SplitInv
    <3>1. PICK p : Accounting(p)
      BY <1>0, <2>2 DEF SplitInv
    <3>2. \A u \in Tasks : LiveSection(u)' => LiveSection(u) \/ ~dead
      BY <1>0, <2>2 DEF LiveSection, TypeOK
    <3>3. Accounting(p)'
      BY <2>2, <3>1, <3>2 DEF Accounting
    <3> QED BY <3>3
  <2>5. SumInv' /\ MergedInv' /\ ReleaseInv' /\ UnusedInv'
    BY <1>0, <2>2 DEF SumInv, MergedInv, ReleaseInv, UnusedInv
  <2> QED BY <2>3, <2>4, <2>5 DEF MInv
<1>4. ASSUME NEW t \in Tasks, Section(t) PROVE MInv'
  <2>1. refs[t] \in 0..MaxRefs /\ count \in Int /\ count + 0 = count /\ Wrap(count) = count
    BY <1>0, WrapFacts, RangeFacts DEF TypeOK
  <2>2. CASE GetPercpu(t)
    <3>1. refs[t] + 1 \in 0..MaxRefs
      BY <1>0, <2>1, <2>2, RangeFacts DEF GetPercpu, SectionInv
    <3> QED BY <2>2, <3>1, LocalMInv DEF GetPercpu, LiveSection
  <2>3. CASE PutPercpu(t)
    <3>1. refs[t] + (-1) \in 0..MaxRefs /\ refs[t] + (-1) = refs[t] - 1
      BY <1>0, <2>1, <2>3, RangeFacts DEF PutPercpu, SectionInv
    <3> QED BY <2>3, <3>1, LocalMInv DEF PutPercpu, LiveSection
  <2>4. CASE GetAtomic(t)
    <3>1. refs[t] + 1 \in 0..MaxRefs /\ refs[t] > 0
      BY <1>0, <2>1, <2>4, RangeFacts DEF GetAtomic, SectionInv, CallerInv
    <3> QED BY <2>4, <3>1, AtomicMInv DEF GetAtomic
  <2>5. CASE PutAtomic(t)
    <3>1. /\ refs[t] + (-1) \in 0..MaxRefs /\ refs[t] + (-1) = refs[t] - 1 /\ refs[t] > 0
          /\ count + (-1) = count - 1
      BY <1>0, <2>1, <2>5, RangeFacts DEF PutAtomic, SectionInv
    <3> QED BY <2>5, <3>1, AtomicMInv DEF PutAtomic, DecAndTest
  <2>6. CASE TrygetFails(t)
    <3>1. refs[t] + 0 = refs[t]
      BY <2>1, RangeFacts
    <3> QED BY <2>1, <2>6, <3>1, AtomicMInv DEF TrygetFails
  <2> QED BY <1>4, <2>2, <2>3, <2>4, <2>5, <2>6 DEF Section
<1>5. CASE UNCHANGED vars
  BY <1>0, <1>5 DEF vars, MInv, SplitInv, Accounting, LiveSection, SumInv, MergedInv, ReleaseInv,
                    CallerInv, UnusedInv
<1> QED BY <1>1, <1>2, <1>3, <1>4, <1>5, InitRefMInv, CallbackMInv DEF Next

LEMMA MInvInvariant == Spec => []MInv
BY InitMInv, NextMInv, RInvInvariant, PTL DEF Spec

\* No reference is lost or counted twice by the switch from per-CPU counters to the
\* atomic one, for any number of users and CPUs and although counters wrap.
THEOREM CountIsExact == Spec => []ExactCount
<1>1. RInv /\ MInv => ExactCount
  <2> SUFFICES ASSUME RInv, MInv, phase = "used"
               PROVE  IF rcu \in {"put", "done"}
                      THEN count = TotalRefs + (IF rcu = "put" THEN 1 ELSE 0)
                      ELSE Wrap(count + PercpuSum) = Wrap(TotalRefs + 1 + PCPU_COUNT_BIAS)
    BY DEF ExactCount
  <2>1. TotalRefs = Sum(refs, Tasks) /\ PercpuSum = Sum(pcpu_count, CPUs)
    BY DEF TotalRefs, PercpuSum, Sum
  <2>2. CASE rcu \in {"put", "done"}
    BY <2>1, <2>2 DEF MInv, MergedInv
  <2>3. CASE rcu \notin {"put", "done"}
    <3>1. PICK p : Accounting(p)
      BY <2>3 DEF RInv, TypeOK, MInv, SplitInv
    <3> DEFINE total == Sum(refs, Tasks)
               local == Sum(pcpu_count, CPUs)
               held == Sum(p, Tasks)
    <3>2. total \in Int /\ local \in Int /\ held \in Int
      <4>1. \A c \in CPUs : pcpu_count[c] \in Int
        BY RangeFacts DEF RInv, TypeOK
      <4> QED BY <3>1, <4>1, RangeFacts, TotalBound, SumType DEF Accounting, RInv, TypeOK
    <3>3. Wrap(local) = Wrap(held) /\ count = PCPU_COUNT_BIAS + 1 + total - held
      BY <3>1 DEF Accounting
    <3> HIDE DEF total, local, held
    <3>4. count \in Int /\ count + local = local + count
          /\ held + count = total + 1 + PCPU_COUNT_BIAS
      BY <3>2, <3>3, RangeFacts
    <3>5. Wrap(local + count) = Wrap(held + count)
      BY <3>2, <3>3, <3>4, WrapFacts
    <3>6. Wrap(count + local) = Wrap(total + 1 + PCPU_COUNT_BIAS)
      BY <3>4, <3>5
    <3> QED BY <2>1, <2>3, <3>6 DEF total, local
  <2> QED BY <2>2, <2>3
<1> QED BY <1>1, RInvInvariant, MInvInvariant, PTL

\* ref->release() runs at most once, after the initial reference was dropped, and when
\* nobody holds a reference or is about to take or put one.
THEOREM ReleasedOnce == Spec => []NoEarlyRelease
<1>1. RInv /\ MInv => NoEarlyRelease
  <2> SUFFICES ASSUME RInv, MInv, released > 0, NEW t \in Tasks
               PROVE  released = 1 /\ rcu = "done" /\ refs[t] = 0 /\ call[t] \in {"none", "tryget"}
    BY DEF NoEarlyRelease, MInv, ReleaseInv
  <2>1. released = 1 /\ rcu = "done" /\ count = 0
    BY DEF MInv, ReleaseInv
  <2>2. count = Sum(refs, Tasks) + 0
    BY <2>1 DEF MInv, MergedInv
  <2>3. Sum(refs, Tasks) \in 0..MaxTotal /\ refs[t] <= Sum(refs, Tasks) /\ refs[t] \in 0..MaxRefs
    BY TotalBound DEF RInv, TypeOK
  <2>4. refs[t] = 0
    BY <2>1, <2>2, <2>3, RangeFacts
  <2>5. call[t] # "none" => ptr_dead[t]
    BY <2>1 DEF RInv, GraceInv, LiveSection
  <2>6. call[t] \in Calls /\ call[t] # "put" /\ call[t] # "get"
    BY <2>4, <2>5 DEF RInv, TypeOK, SectionInv, MInv, CallerInv
  <2> QED BY <2>1, <2>4, <2>6 DEF Calls
<1> QED BY <1>1, RInvInvariant, MInvInvariant, PTL

-----------------------------------------------------------------------------
(***************************************************************************)
(* The per-CPU reader/writer semaphore, for any set of tasks and any set   *)
(* of CPUs.  What it shares with the reference count (Tasks, CPUs, NoCPU   *)
(* and the variables of the same name) is shared notation: nothing relates *)
(* a state of one to a state of the other.  The assumption on the          *)
(* constants of PercpuRwSem is a hypothesis of each result.                *)
(***************************************************************************)
CONSTANT Modulus

VARIABLES fast_read_ctr, write_ctr, slow_read_ctr, rw_readers, rw_writers, pc, asleep

Rw == INSTANCE PercpuRwSem

\* The library's operators as PercpuRwSem sees them are the library's.
LEMMA RwSets ==
    /\ \A S : Rw!Cardinality(S) = Cardinality(S)
    /\ \A S : Rw!IsFiniteSet(S) <=> IsFiniteSet(S)
BY DEF Rw!Cardinality, Cardinality, Rw!IsFiniteSet, IsFiniteSet

-----------------------------------------------------------------------------
(* The inductive invariant.                                                *)

Holding == {"w_clear", "w_check", "w_prepare", "w_retest", "w_sleep", "writing"}
Queued == Holding \cup {"w_lock", "w_gp2"}

Writers == {t \in Tasks : pc[t] \in Queued \cup {"w_gp"}}

\* ->write_ctr counts the writers, from their announcement to the end.
WriteCtrInv == write_ctr = Cardinality(Writers)

\* Who owns ->rw_sem.
RwSemInv ==
    /\ rw_readers = {t \in Tasks : pc[t] \in {"down_count", "down_unlock"}}
    /\ rw_writers = {t \in Tasks : pc[t] \in Holding}
    /\ \A t, u \in rw_writers : t = u
    /\ rw_writers # {} => rw_readers = {}

\* The grace period: a writer past it has no fast section beside it.
RwGraceInv ==
    /\ \A t \in Tasks : cpu[t] # NoCPU <=> pc[t] \in {"down_fast", "up_fast"}
    /\ \A t \in Tasks : pc[t] = "w_gp" => Rw!InFastSection \subseteq gpwait[t]
    /\ \A t \in Tasks : pc[t] \in Queued => Rw!InFastSection = {}

\* What clear_fast_ctr() has moved stays moved while the writer owns ->rw_sem.
ClearedInv ==
    /\ (\A t \in Tasks : pc[t] # "w_clear") => sum = 0
    /\ \A t \in Tasks : pc[t] = "w_clear" => \A c \in CPUs \ tosum : fast_read_ctr[c] = 0
    /\ \A t \in Tasks : pc[t] \in Holding \ {"w_clear"} => \A c \in CPUs : fast_read_ctr[c] = 0
    /\ Rw!WriteOwners # {} => Rw!ReadOwners = {}

Inv == Rw!CounterInv /\ WriteCtrInv /\ RwSemInv /\ RwGraceInv /\ ClearedInv

-----------------------------------------------------------------------------
(* Counting.                                                               *)

Counted == Sum(fast_read_ctr, CPUs) + sum + slow_read_ctr

LEMMA CountedDef == Rw!ReadersCounted <=> Rw!Wrap(Counted) = Cardinality(Rw!ReadOwners)
BY RwSets DEF Rw!ReadersCounted, Counted, Sum, MapThenSumSet, MapThenFoldSet,
              Rw!MapThenSumSet, Rw!MapThenFoldSet

LEMMA RwRangeFacts ==
    ASSUME Rw!PercpuRwSemAssumption
    PROVE  /\ Modulus \in Nat \ {0} /\ IsFiniteSet(Tasks) /\ IsFiniteSet(CPUs)
           /\ Cardinality(Tasks) \in Nat /\ Cardinality(Tasks) < Modulus
           /\ Rw!Counter \subseteq Int /\ 0 \in Rw!Counter
           /\ \A x \in Int : Rw!Wrap(x) \in Rw!Counter
<1>1. Cardinality(Tasks) \in Nat /\ Modulus \in Nat \ {0}
  BY FS_CardinalityType, RwSets DEF Rw!PercpuRwSemAssumption
<1>2. \A x \in Int : Rw!Wrap(x) \in Rw!Counter
  BY <1>1, DivMod DEF Rw!Wrap, Rw!Counter
<1> QED BY <1>1, <1>2, RwSets DEF Rw!PercpuRwSemAssumption, Rw!Counter

\* A change that stays in range changes the remainder by as much.
LEMMA WrapCount ==
    ASSUME Rw!PercpuRwSemAssumption, NEW x \in Int, NEW d \in Int, Rw!Wrap(x) + d \in Rw!Counter
    PROVE  Rw!Wrap(x + d) = Rw!Wrap(x) + d
<1>1. Modulus \in Nat \ {0} /\ (x % Modulus) + d \in 0..Modulus-1
  BY RwRangeFacts DEF Rw!Wrap, Rw!Counter
<1> QED BY <1>1, ModCount, Zenon DEF Rw!Wrap

LEMMA RwWrapCarry ==
    ASSUME Rw!PercpuRwSemAssumption, NEW s \in Int, NEW a \in Int, NEW d \in Int
    PROVE  Rw!Wrap(a + d) \in Int /\ Rw!Wrap(s + Rw!Wrap(a + d) - a) = Rw!Wrap(s + d)
<1>1. Modulus \in Nat \ {0}
  BY RwRangeFacts
<1> QED BY <1>1, ModCarry, Zenon DEF Rw!Wrap

LEMMA TaskSets ==
    ASSUME Rw!PercpuRwSemAssumption, NEW S \in SUBSET Tasks
    PROVE  IsFiniteSet(S) /\ Cardinality(S) \in Nat /\ Cardinality(S) < Modulus
BY RwRangeFacts, FS_Subset, FS_CardinalityType

LEMMA CountedInt ==
    ASSUME Rw!PercpuRwSemAssumption
    PROVE  Rw!TypeOK => Counted \in Int /\ Sum(fast_read_ctr, CPUs) \in Int
<1> SUFFICES ASSUME Rw!TypeOK PROVE Counted \in Int /\ Sum(fast_read_ctr, CPUs) \in Int
  OBVIOUS
<1>1. \A c \in CPUs : fast_read_ctr[c] \in Int
  BY RwRangeFacts DEF Rw!TypeOK
<1>2. Sum(fast_read_ctr, CPUs) \in Int
  BY <1>1, RwRangeFacts, SumType
<1>3. sum \in Int /\ slow_read_ctr \in Int
  BY RwRangeFacts DEF Rw!TypeOK
<1> QED BY <1>2, <1>3 DEF Counted

LEMMA CountedSame ==
    ASSUME Rw!ReadersCounted, UNCHANGED <<fast_read_ctr, sum, slow_read_ctr>>, Rw!ReadOwners' = Rw!ReadOwners
    PROVE  Rw!ReadersCounted'
<1>1. (Rw!ReadersCounted <=> Rw!Wrap(Counted) = Cardinality(Rw!ReadOwners))'
  BY CountedDef, PTL
<1>2. Counted' = Counted
  BY DEF Counted
<1> QED BY <1>1, <1>2, CountedDef

\* The counters change by d, modulo the range, and so do the readers.
LEMMA CountedStep ==
    ASSUME Rw!PercpuRwSemAssumption,
           Rw!TypeOK, Rw!TypeOK', Rw!ReadersCounted, NEW d \in Int, Rw!Wrap(Counted') = Rw!Wrap(Counted + d),
           Cardinality(Rw!ReadOwners') = Cardinality(Rw!ReadOwners) + d
    PROVE  Rw!ReadersCounted'
<1> DEFINE n == Cardinality(Rw!ReadOwners)
<1>1. n \in Int /\ Rw!Wrap(Counted) = n
  BY CountedDef, TaskSets DEF Rw!ReadOwners
<1>2. n + d \in Rw!Counter
  <2>1. Rw!ReadOwners' \in SUBSET Tasks
    BY DEF Rw!ReadOwners
  <2> QED BY <2>1, TaskSets, RwRangeFacts DEF Rw!Counter
<1>3. Counted \in Int /\ Counted' \in Int
  <2>1. Counted \in Int
    BY CountedInt
  <2>2. (Rw!TypeOK => Counted \in Int)'
    BY CountedInt, PTL
  <2> QED BY <2>1, <2>2
<1> HIDE DEF n
<1>4. Rw!Wrap(Counted + d) = n + d
  BY <1>1, <1>2, <1>3, WrapCount
<1>5. Rw!Wrap(Counted') = Cardinality(Rw!ReadOwners')
  BY <1>4 DEF n
<1>6. (Rw!ReadersCounted <=> Rw!Wrap(Counted) = Cardinality(Rw!ReadOwners))'
  BY CountedDef, PTL
<1> QED BY <1>5, <1>6

\* atomic_inc() and atomic_dec() of ->slow_read_ctr.
LEMMA SlowChange ==
    ASSUME Rw!PercpuRwSemAssumption, Rw!TypeOK, NEW t \in Tasks
    PROVE  /\ Rw!Wrap(slow_read_ctr + 1) \in Rw!Counter /\ Rw!Wrap(slow_read_ctr - 1) \in Rw!Counter
           /\ Rw!Wrap(slow_read_ctr - 1) = 0 => slow_read_ctr = 1
           /\ slow_read_ctr' = Rw!Wrap(slow_read_ctr + 1) /\ UNCHANGED <<fast_read_ctr, sum>>
                => Rw!Wrap(Counted') = Rw!Wrap(Counted + 1)
           /\ slow_read_ctr' = Rw!Wrap(slow_read_ctr - 1) /\ UNCHANGED <<fast_read_ctr, sum>>
                => Rw!Wrap(Counted') = Rw!Wrap(Counted + (-1))
<1> DEFINE s == slow_read_ctr
           total == Sum(fast_read_ctr, CPUs) + sum
<1>1. s \in Rw!Counter /\ s \in Int /\ Counted \in Int /\ total \in Int
  BY CountedInt, RwRangeFacts DEF Rw!TypeOK
<1>2. s + 1 \in Int /\ s - 1 \in Int /\ s - 1 = s + (-1)
  BY <1>1
<1>3. Rw!Wrap(s + 1) \in Rw!Counter /\ Rw!Wrap(s - 1) \in Rw!Counter
  BY <1>2, RwRangeFacts
<1>4. ASSUME Rw!Wrap(s - 1) = 0 PROVE s = 1
  <2>1. Modulus > 1
    <3>1. Cardinality({t}) = 1 /\ {t} \in SUBSET Tasks
      BY FS_Singleton
    <3>2. Cardinality({t}) < Modulus
      BY <3>1, TaskSets
    <3> QED BY <3>1, <3>2, RwRangeFacts
  <2>2. Rw!Wrap(s - 1) + 1 \in Rw!Counter
    BY <1>4, <2>1, RwRangeFacts DEF Rw!Counter
  <2>3. Rw!Wrap((s - 1) + 1) = 1
    BY <1>2, <1>4, <2>2, WrapCount
  <2>4. (s - 1) + 1 = s /\ Rw!Wrap(s) = s
    <3>1. (s - 1) + 1 = s
      BY <1>1
    <3>2. Modulus \in Nat \ {0} /\ s \in 0..Modulus-1
      BY <1>1, RwRangeFacts DEF Rw!Counter
    <3> QED BY <3>1, <3>2, ModIdentity DEF Rw!Wrap
  <2> QED BY <2>3, <2>4
<1>5. ASSUME NEW d \in Int, s' = Rw!Wrap(s + d), UNCHANGED <<fast_read_ctr, sum>>
      PROVE  Rw!Wrap(Counted') = Rw!Wrap(Counted + d)
  <2>1. Rw!Wrap(s + d) \in Int /\ Rw!Wrap(Counted + Rw!Wrap(s + d) - s) = Rw!Wrap(Counted + d)
    BY <1>1, RwWrapCarry
  <2>2. Counted' = total + Rw!Wrap(s + d) /\ Counted = total + s
    BY <1>5 DEF Counted
  <2> HIDE DEF total
  <2>3. Counted' = Counted + Rw!Wrap(s + d) - s
    BY <1>1, <2>1, <2>2
  <2> QED BY <2>1, <2>3
<1>6. s' = Rw!Wrap(s - 1) => s' = Rw!Wrap(s + (-1))
  BY <1>2
<1> QED BY <1>3, <1>4, <1>5, <1>6

-----------------------------------------------------------------------------
(* Initially.                                                              *)

LEMMA InitInv ==
    ASSUME Rw!PercpuRwSemAssumption
    PROVE  Rw!Init => Inv
<1> SUFFICES ASSUME Rw!Init PROVE Inv
  OBVIOUS
<1>1. Rw!TypeOK
  BY RwRangeFacts DEF Rw!Init, Rw!Sem!Init, Rw!TypeOK, Rw!Locations
<1>2. Rw!ReadOwners = {} /\ Rw!WriteOwners = {} /\ Writers = {} /\ Rw!InFastSection = {}
  BY DEF Rw!Init, Rw!ReadOwners, Rw!WriteOwners, Writers, Queued, Holding, Rw!InFastSection
<1>3. Rw!ReadersCounted
  <2>1. Sum(fast_read_ctr, CPUs) = 0
    BY RwRangeFacts, SumZero DEF Rw!Init
  <2>2. Counted = 0 /\ Rw!Wrap(0) = 0
    BY <2>1, RwRangeFacts, ModIdentity DEF Rw!Init, Counted, Rw!Wrap
  <2> QED BY <1>2, <2>2, CountedDef, FS_EmptySet
<1>4. Rw!WriterWillWake /\ RwSemInv
  BY DEF Rw!Init, Rw!Sem!Init, Rw!WriterWillWake, RwSemInv, Holding
<1>5. WriteCtrInv
  BY <1>2, FS_EmptySet DEF Rw!Init, WriteCtrInv
<1>6. RwGraceInv /\ ClearedInv
  BY <1>2 DEF Rw!Init, RwGraceInv, ClearedInv, Queued, Holding
<1> QED BY <1>1, <1>3, <1>4, <1>5, <1>6 DEF Inv, Rw!CounterInv

-----------------------------------------------------------------------------
(* Every step of percpu_down_read() and percpu_up_read() keeps the         *)
(* invariant.                                                              *)

LEMMA EnterStep ==
    ASSUME Rw!PercpuRwSemAssumption,
           Inv, NEW t \in Tasks, NEW c \in CPUs, Rw!DownReadBegin(t, c) \/ Rw!UpReadBegin(t, c)
    PROVE  Inv'
<1>0. /\ Rw!TypeOK /\ Rw!ReadersCounted /\ Rw!WriterWillWake
      /\ WriteCtrInv /\ RwSemInv /\ RwGraceInv /\ ClearedInv
  BY DEF Inv, Rw!CounterInv
<1>1. /\ UNCHANGED <<Rw!counters, Rw!rwsem, gpwait, asleep, tosum, sum>>
      /\ \/ pc[t] = "idle" /\ pc' = [pc EXCEPT ![t] = "down_fast"]
         \/ pc[t] = "idle" /\ pc' = [pc EXCEPT ![t] = "down_slow"]
         \/ pc[t] = "reading" /\ pc' = [pc EXCEPT ![t] = "up_fast"]
         \/ pc[t] = "reading" /\ pc' = [pc EXCEPT ![t] = "up_slow"]
      /\ \/ pc'[t] \in {"down_fast", "up_fast"} /\ cpu' = [cpu EXCEPT ![t] = c] /\ write_ctr = 0
         \/ pc'[t] \in {"down_slow", "up_slow"} /\ cpu' = cpu
  BY <1>0 DEF Rw!DownReadBegin, Rw!UpReadBegin, Rw!EnterFast, Rw!Goto, Rw!TypeOK
<1>2. Rw!TypeOK'
  BY <1>0, <1>1 DEF Rw!TypeOK, Rw!Locations, Rw!counters, Rw!rwsem
<1>3. Rw!ReadOwners' = Rw!ReadOwners /\ Rw!WriteOwners' = Rw!WriteOwners /\ Writers' = Writers
  BY <1>0, <1>1 DEF Rw!ReadOwners, Rw!WriteOwners, Writers, Queued, Holding, Rw!TypeOK
<1>4. Rw!ReadersCounted' /\ WriteCtrInv'
  BY <1>0, <1>1, <1>3, CountedSame DEF WriteCtrInv, Rw!counters
<1>5. Rw!WriterWillWake'
  BY <1>0, <1>1 DEF Rw!WriterWillWake, Rw!TypeOK, Rw!counters
<1>6. RwSemInv'
  BY <1>0, <1>1 DEF RwSemInv, Holding, Rw!TypeOK, Rw!rwsem
<1>7. write_ctr = 0 => Writers = {}
  BY <1>0, TaskSets, FS_EmptySet DEF WriteCtrInv, Writers
<1>8. RwGraceInv'
  <2>1. CASE pc'[t] \in {"down_slow", "up_slow"} /\ cpu' = cpu
    BY <1>0, <1>1, <2>1 DEF RwGraceInv, Rw!InFastSection, Queued, Holding, Rw!TypeOK
  <2>2. CASE Writers = {}
    <3>1. \A u \in Tasks : pc'[u] # "w_gp" /\ pc'[u] \notin Queued
      BY <1>3, <2>2 DEF Writers
    <3>2. \A u \in Tasks : cpu'[u] # NoCPU <=> pc'[u] \in {"down_fast", "up_fast"}
      BY <1>0, <1>1 DEF Rw!PercpuRwSemAssumption, RwGraceInv, Rw!TypeOK
    <3> QED BY <3>1, <3>2 DEF RwGraceInv
  <2> QED BY <1>1, <1>7, <2>1, <2>2
<1>9. ClearedInv'
  BY <1>0, <1>1, <1>3 DEF ClearedInv, Holding, Rw!TypeOK, Rw!counters
<1> QED BY <1>2, <1>4, <1>5, <1>6, <1>8, <1>9 DEF Inv, Rw!CounterInv

\* The update of a per-CPU counter: modulo the range it is one reader more or less.
LEMMA RwLeaveStep ==
    ASSUME Rw!PercpuRwSemAssumption, Inv, NEW t \in Tasks, Rw!DownReadFast(t) \/ Rw!UpReadFast(t)
    PROVE  Inv'
<1>0. /\ Rw!TypeOK /\ Rw!ReadersCounted /\ Rw!WriterWillWake
      /\ WriteCtrInv /\ RwSemInv /\ RwGraceInv /\ ClearedInv
  BY DEF Inv, Rw!CounterInv
<1>1. PICK d \in {-1, 1} :
        /\ d = 1 => pc[t] = "down_fast" /\ pc' = [pc EXCEPT ![t] = "reading"]
        /\ d = -1 => pc[t] = "up_fast" /\ pc' = [pc EXCEPT ![t] = "idle"]
        /\ fast_read_ctr' = [fast_read_ctr EXCEPT ![cpu[t]] = Rw!Wrap(@ + d)]
        /\ cpu' = [cpu EXCEPT ![t] = NoCPU]
        /\ gpwait' = [w \in Tasks |-> gpwait[w] \ {t}]
        /\ UNCHANGED <<write_ctr, slow_read_ctr, Rw!rwsem, asleep, tosum, sum>>
  <2>1. CASE Rw!DownReadFast(t)
    BY <2>1 DEF Rw!DownReadFast, Rw!LeaveFast, Rw!Goto
  <2>2. CASE Rw!UpReadFast(t)
    BY <2>2 DEF Rw!UpReadFast, Rw!LeaveFast, Rw!Goto
  <2> QED BY <2>1, <2>2
<1>2. cpu[t] \in CPUs /\ t \in Rw!InFastSection /\ pc[t] \in {"down_fast", "up_fast"} /\ d \in Int
      /\ pc'[t] \in {"reading", "idle"} /\ \A u \in Tasks : u # t => pc'[u] = pc[u]
  BY <1>0, <1>1 DEF RwGraceInv, Rw!TypeOK, Rw!InFastSection
<1>3. \A u \in Tasks : pc[u] \notin Queued /\ pc'[u] \notin Queued
  BY <1>0, <1>2 DEF RwGraceInv, Queued, Holding
<1>4. Rw!TypeOK'
  <2>1. fast_read_ctr' \in [CPUs -> Rw!Counter]
    <3>1. \A c \in CPUs : Rw!Wrap(fast_read_ctr[c] + d) \in Rw!Counter
      <4>1. \A c \in CPUs : fast_read_ctr[c] \in Int
        BY <1>0, RwRangeFacts DEF Rw!TypeOK
      <4> QED BY <1>2, <4>1, RwRangeFacts
    <3> QED BY <1>0, <1>1, <1>2, <3>1 DEF Rw!TypeOK
  <2> QED BY <1>0, <1>1, <2>1 DEF Rw!TypeOK, Rw!Locations, Rw!rwsem
<1>5. Rw!WriteOwners' = {} /\ Rw!WriteOwners = {} /\ Writers' = Writers
  BY <1>0, <1>1, <1>2, <1>3 DEF Rw!WriteOwners, Writers, Queued, Holding, Rw!TypeOK
<1>6. Cardinality(Rw!ReadOwners') = Cardinality(Rw!ReadOwners) + d
  <2>1. IsFiniteSet(Rw!ReadOwners) /\ Cardinality(Rw!ReadOwners) \in Nat
    BY TaskSets DEF Rw!ReadOwners
  <2>2. CASE d = 1
    <3>1. Rw!ReadOwners' = Rw!ReadOwners \cup {t} /\ t \notin Rw!ReadOwners
      BY <1>0, <1>1, <2>2 DEF Rw!ReadOwners, Rw!TypeOK
    <3> QED BY <2>1, <2>2, <3>1, FS_AddElement
  <2>3. CASE d = -1
    <3>1. Rw!ReadOwners' = Rw!ReadOwners \ {t} /\ t \in Rw!ReadOwners
      BY <1>0, <1>1, <2>3 DEF Rw!ReadOwners, Rw!TypeOK
    <3> QED BY <2>1, <2>3, <3>1, FS_RemoveElement
  <2> QED BY <2>2, <2>3
<1>7. Rw!Wrap(Counted') = Rw!Wrap(Counted + d)
  <2> DEFINE c == cpu[t]
             old == fast_read_ctr[c]
             e == fast_read_ctr'
             total == Sum(fast_read_ctr, CPUs)
  <2>1. c \in CPUs /\ old \in Int /\ \A y \in CPUs : fast_read_ctr[y] \in Int
    BY <1>0, <1>2, RwRangeFacts DEF Rw!TypeOK
  <2>2. e[c] = Rw!Wrap(old + d) /\ \A y \in CPUs \ {c} : e[y] = fast_read_ctr[y]
    BY <1>0, <1>1, <2>1 DEF Rw!TypeOK
  <2>3. total \in Int /\ Counted \in Int /\ sum \in Int /\ slow_read_ctr \in Int
    BY <1>0, CountedInt, RwRangeFacts DEF Rw!TypeOK
  <2>4. e[c] \in Int /\ Rw!Wrap(Counted + e[c] - old) = Rw!Wrap(Counted + d)
    BY <1>2, <2>1, <2>2, <2>3, RwWrapCarry
  <2>5. Sum(e, CPUs) = total + e[c] - old
    <3>1. e[c] \in Int /\ IsFiniteSet(CPUs)
      BY <2>4, RwRangeFacts
    <3> HIDE DEF c, e
    <3> QED BY <2>1, <2>2, <3>1, SumUpdate
  <2>6. Counted' = Sum(e, CPUs) + sum + slow_read_ctr /\ Counted = total + sum + slow_read_ctr
    BY <1>1 DEF Counted
  <2> HIDE DEF total, e, old
  <2>7. Counted' = Counted + e[c] - old
    <3>1. old \in Int
      BY <2>1 DEF old
    <3> QED BY <2>3, <2>4, <2>5, <2>6, <3>1
  <2> QED BY <2>4, <2>7
<1>8. Rw!ReadersCounted'
  BY <1>0, <1>2, <1>4, <1>6, <1>7, CountedStep
<1>9. WriteCtrInv' /\ Rw!WriterWillWake'
  BY <1>0, <1>1, <1>3, <1>5 DEF WriteCtrInv, Rw!WriterWillWake, Queued, Holding
<1>10. RwSemInv'
  BY <1>0, <1>1, <1>2 DEF RwSemInv, Holding, Rw!TypeOK, Rw!rwsem
<1>11. RwGraceInv'
  <2>1. Rw!InFastSection' = Rw!InFastSection \ {t}
    BY <1>0, <1>1 DEF Rw!InFastSection, Rw!TypeOK
  <2>2. \A u \in Tasks : cpu'[u] # NoCPU <=> pc'[u] \in {"down_fast", "up_fast"}
    BY <1>0, <1>1, <1>2 DEF RwGraceInv, Rw!TypeOK
  <2>3. ASSUME NEW u \in Tasks, pc'[u] = "w_gp" PROVE Rw!InFastSection' \subseteq gpwait'[u]
    BY <1>0, <1>1, <1>2, <2>1, <2>3 DEF RwGraceInv
  <2> QED BY <1>3, <2>2, <2>3 DEF RwGraceInv
<1>12. ClearedInv'
  BY <1>0, <1>1, <1>2, <1>3, <1>5 DEF ClearedInv, Queued, Holding
<1> QED BY <1>4, <1>8, <1>9, <1>10, <1>11, <1>12 DEF Inv, Rw!CounterInv

\* The slow paths: ->rw_sem keeps a writer away while a reader counts itself.
LEMMA SlowReadStep ==
    ASSUME Rw!PercpuRwSemAssumption, Inv, NEW t \in Tasks,
           Rw!DownReadLock(t) \/ Rw!DownReadCount(t) \/ Rw!DownReadUnlock(t) \/ Rw!UpReadSlow(t) \/ Rw!UpReadWake(t)
    PROVE  Inv'
<1>0. /\ Rw!TypeOK /\ Rw!ReadersCounted /\ Rw!WriterWillWake
      /\ WriteCtrInv /\ RwSemInv /\ RwGraceInv /\ ClearedInv
  BY DEF Inv, Rw!CounterInv
<1>1. CASE Rw!DownReadLock(t)
  <2>1. /\ pc[t] = "down_slow" /\ pc' = [pc EXCEPT ![t] = "down_count"]
        /\ rw_writers = {} /\ rw_readers' = rw_readers \cup {t} /\ rw_writers' = rw_writers
        /\ UNCHANGED <<Rw!counters, cpu, gpwait, asleep, tosum, sum>>
    BY <1>1 DEF Rw!DownReadLock, Rw!Goto, Rw!Sem!AcquireRead
  <2>2. Rw!TypeOK'
    BY <1>0, <2>1 DEF Rw!TypeOK, Rw!Locations, Rw!counters
  <2>3. Rw!ReadOwners' = Rw!ReadOwners /\ Rw!WriteOwners' = Rw!WriteOwners /\ Writers' = Writers
    BY <1>0, <2>1 DEF Rw!ReadOwners, Rw!WriteOwners, Writers, Queued, Holding, Rw!TypeOK
  <2>4. Rw!ReadersCounted' /\ WriteCtrInv'
    BY <1>0, <2>1, <2>3, CountedSame DEF WriteCtrInv, Rw!counters
  <2>5. Rw!WriterWillWake' /\ RwSemInv'
    BY <1>0, <2>1 DEF Rw!WriterWillWake, RwSemInv, Holding, Rw!TypeOK, Rw!counters
  <2>6. RwGraceInv' /\ ClearedInv'
    BY <1>0, <2>1, <2>3
       DEF RwGraceInv, Rw!InFastSection, ClearedInv, Queued, Holding, Rw!TypeOK, Rw!counters
  <2> QED BY <2>2, <2>4, <2>5, <2>6 DEF Inv, Rw!CounterInv
<1>2. CASE Rw!DownReadCount(t)
  <2>1. /\ pc[t] = "down_count" /\ pc' = [pc EXCEPT ![t] = "down_unlock"]
        /\ slow_read_ctr' = Rw!Wrap(slow_read_ctr + 1)
        /\ UNCHANGED <<fast_read_ctr, write_ctr, Rw!rwsem, cpu, gpwait, asleep, tosum, sum>>
    BY <1>2 DEF Rw!DownReadCount, Rw!Goto
  <2>2. Rw!TypeOK'
    BY <1>0, <2>1, SlowChange DEF Rw!TypeOK, Rw!Locations, Rw!rwsem
  <2>3. /\ Rw!ReadOwners' = Rw!ReadOwners \cup {t} /\ t \notin Rw!ReadOwners
        /\ Rw!WriteOwners' = Rw!WriteOwners /\ Writers' = Writers
    BY <1>0, <2>1 DEF Rw!ReadOwners, Rw!WriteOwners, Writers, Queued, Holding, Rw!TypeOK
  <2>4. Rw!ReadersCounted'
    <3>1. Cardinality(Rw!ReadOwners') = Cardinality(Rw!ReadOwners) + 1
      BY <2>3, TaskSets, FS_AddElement DEF Rw!ReadOwners
    <3>2. Rw!Wrap(Counted') = Rw!Wrap(Counted + 1)
      BY <1>0, <2>1, SlowChange
    <3> QED BY <1>0, <2>2, <3>1, <3>2, CountedStep
  <2>5. rw_writers = {} /\ \A u \in Tasks : pc[u] \notin Holding
    BY <1>0, <2>1 DEF RwSemInv
  <2>6. WriteCtrInv' /\ Rw!WriterWillWake' /\ RwSemInv'
    BY <1>0, <2>1, <2>3, <2>5
       DEF WriteCtrInv, Rw!WriterWillWake, RwSemInv, Holding, Rw!TypeOK, Rw!rwsem
  <2>7. RwGraceInv' /\ ClearedInv'
    BY <1>0, <2>1, <2>3, <2>5
       DEF RwGraceInv, Rw!InFastSection, ClearedInv, Rw!WriteOwners, Queued, Holding, Rw!TypeOK
  <2> QED BY <2>2, <2>4, <2>6, <2>7 DEF Inv, Rw!CounterInv
<1>3. CASE Rw!DownReadUnlock(t)
  <2>1. /\ pc[t] = "down_unlock" /\ pc' = [pc EXCEPT ![t] = "reading"]
        /\ rw_readers' = rw_readers \ {t} /\ rw_writers' = rw_writers
        /\ UNCHANGED <<Rw!counters, cpu, gpwait, asleep, tosum, sum>>
    BY <1>3 DEF Rw!DownReadUnlock, Rw!Goto, Rw!Sem!ReleaseRead
  <2>2. Rw!TypeOK'
    BY <1>0, <2>1 DEF Rw!TypeOK, Rw!Locations, Rw!counters
  <2>3. Rw!ReadOwners' = Rw!ReadOwners /\ Rw!WriteOwners' = Rw!WriteOwners /\ Writers' = Writers
    BY <1>0, <2>1 DEF Rw!ReadOwners, Rw!WriteOwners, Writers, Queued, Holding, Rw!TypeOK
  <2>4. Rw!ReadersCounted' /\ WriteCtrInv'
    BY <1>0, <2>1, <2>3, CountedSame DEF WriteCtrInv, Rw!counters
  <2>5. Rw!WriterWillWake' /\ RwSemInv'
    BY <1>0, <2>1 DEF Rw!WriterWillWake, RwSemInv, Holding, Rw!TypeOK, Rw!counters
  <2>6. RwGraceInv' /\ ClearedInv'
    BY <1>0, <2>1, <2>3
       DEF RwGraceInv, Rw!InFastSection, ClearedInv, Queued, Holding, Rw!TypeOK, Rw!counters
  <2> QED BY <2>2, <2>4, <2>5, <2>6 DEF Inv, Rw!CounterInv
<1>4. CASE Rw!UpReadSlow(t)
  <2>1. /\ pc[t] = "up_slow" /\ slow_read_ctr' = Rw!Wrap(slow_read_ctr - 1)
        /\ \/ slow_read_ctr = 1 /\ pc' = [pc EXCEPT ![t] = "up_wake"]
           \/ slow_read_ctr # 1 /\ pc' = [pc EXCEPT ![t] = "idle"]
        /\ UNCHANGED <<fast_read_ctr, write_ctr, Rw!rwsem, cpu, gpwait, asleep, tosum, sum>>
    BY <1>4 DEF Rw!UpReadSlow, Rw!Goto, Rw!LastSlowReader
  <2>2. Rw!TypeOK'
    BY <1>0, <2>1, SlowChange DEF Rw!TypeOK, Rw!Locations, Rw!rwsem
  <2>3. /\ Rw!ReadOwners' = Rw!ReadOwners \ {t} /\ t \in Rw!ReadOwners
        /\ Rw!WriteOwners' = Rw!WriteOwners /\ Writers' = Writers
    BY <1>0, <2>1 DEF Rw!ReadOwners, Rw!WriteOwners, Writers, Queued, Holding, Rw!TypeOK
  <2>4. Rw!ReadersCounted'
    <3>1. Cardinality(Rw!ReadOwners') = Cardinality(Rw!ReadOwners) + (-1)
      BY <2>3, TaskSets, FS_RemoveElement DEF Rw!ReadOwners
    <3>2. Rw!Wrap(Counted') = Rw!Wrap(Counted + (-1))
      BY <1>0, <2>1, SlowChange
    <3> QED BY <1>0, <2>2, <3>1, <3>2, CountedStep
  <2>5. Rw!WriterWillWake'
    <3>1. slow_read_ctr' = 0 => slow_read_ctr = 1
      BY <1>0, <2>1, SlowChange
    <3> QED BY <1>0, <2>1, <3>1 DEF Rw!WriterWillWake, Rw!TypeOK
  <2>6. WriteCtrInv' /\ RwSemInv'
    BY <1>0, <2>1, <2>3 DEF WriteCtrInv, RwSemInv, Holding, Rw!TypeOK, Rw!rwsem
  <2>7. RwGraceInv' /\ ClearedInv'
    BY <1>0, <2>1, <2>3 DEF RwGraceInv, Rw!InFastSection, ClearedInv, Queued, Holding, Rw!TypeOK
  <2> QED BY <2>2, <2>4, <2>5, <2>6, <2>7 DEF Inv, Rw!CounterInv
<1>5. CASE Rw!UpReadWake(t)
  <2>1. /\ pc[t] = "up_wake" /\ pc' = [pc EXCEPT ![t] = "idle"] /\ asleep' = {}
        /\ UNCHANGED <<Rw!counters, Rw!rwsem, cpu, gpwait, tosum, sum>>
    BY <1>5 DEF Rw!UpReadWake, Rw!Goto
  <2>2. Rw!TypeOK'
    BY <1>0, <2>1 DEF Rw!TypeOK, Rw!Locations, Rw!counters, Rw!rwsem
  <2>3. Rw!ReadOwners' = Rw!ReadOwners /\ Rw!WriteOwners' = Rw!WriteOwners /\ Writers' = Writers
    BY <1>0, <2>1 DEF Rw!ReadOwners, Rw!WriteOwners, Writers, Queued, Holding, Rw!TypeOK
  <2>4. Rw!ReadersCounted' /\ WriteCtrInv'
    BY <1>0, <2>1, <2>3, CountedSame DEF WriteCtrInv, Rw!counters
  <2>5. Rw!WriterWillWake' /\ RwSemInv'
    BY <1>0, <2>1 DEF Rw!WriterWillWake, RwSemInv, Holding, Rw!TypeOK, Rw!rwsem
  <2>6. RwGraceInv' /\ ClearedInv'
    BY <1>0, <2>1, <2>3
       DEF RwGraceInv, Rw!InFastSection, ClearedInv, Queued, Holding, Rw!TypeOK, Rw!counters
  <2> QED BY <2>2, <2>4, <2>5, <2>6 DEF Inv, Rw!CounterInv
<1> QED BY <1>1, <1>2, <1>3, <1>4, <1>5

-----------------------------------------------------------------------------
(* So does every step of percpu_down_write() and percpu_up_write().        *)

\* The announcement, the grace period and ->rw_sem.
LEMMA WriteLockStep ==
    ASSUME Rw!PercpuRwSemAssumption, Inv, NEW t \in Tasks,
           Rw!DownWriteAnnounce(t) \/ Rw!DownWriteQueue(t) \/ Rw!DownWriteLock(t)
    PROVE  Inv'
<1>0. /\ Rw!TypeOK /\ Rw!ReadersCounted /\ Rw!WriterWillWake
      /\ WriteCtrInv /\ RwSemInv /\ RwGraceInv /\ ClearedInv
  BY DEF Inv, Rw!CounterInv
<1>1. CASE Rw!DownWriteAnnounce(t)
  <2>1. /\ pc[t] = "idle" /\ pc' = [pc EXCEPT ![t] = "w_gp"] /\ write_ctr' = write_ctr + 1
        /\ gpwait' = [gpwait EXCEPT ![t] = Rw!InFastSection]
        /\ UNCHANGED <<fast_read_ctr, slow_read_ctr, Rw!rwsem, cpu, asleep, tosum, sum>>
    BY <1>1 DEF Rw!DownWriteAnnounce, Rw!Goto
  <2>2. Rw!TypeOK'
    BY <1>0, <2>1 DEF Rw!TypeOK, Rw!Locations, Rw!InFastSection, Rw!rwsem
  <2>3. /\ Rw!ReadOwners' = Rw!ReadOwners /\ Rw!WriteOwners' = Rw!WriteOwners
        /\ Writers' = Writers \cup {t} /\ t \notin Writers /\ Rw!InFastSection' = Rw!InFastSection
    BY <1>0, <2>1
       DEF Rw!ReadOwners, Rw!WriteOwners, Writers, Queued, Holding, Rw!InFastSection, Rw!TypeOK
  <2>4. Rw!ReadersCounted'
    BY <1>0, <2>1, <2>3, CountedSame
  <2>5. WriteCtrInv'
    <3>1. Cardinality(Writers') = Cardinality(Writers) + 1
      BY <2>3, TaskSets, FS_AddElement DEF Writers
    <3> QED BY <1>0, <2>1, <3>1 DEF WriteCtrInv
  <2>6. Rw!WriterWillWake' /\ RwSemInv'
    BY <1>0, <2>1 DEF Rw!WriterWillWake, RwSemInv, Holding, Rw!TypeOK, Rw!rwsem
  <2>7. RwGraceInv' /\ ClearedInv'
    BY <1>0, <2>1, <2>3 DEF RwGraceInv, ClearedInv, Queued, Holding, Rw!TypeOK
  <2> QED BY <2>2, <2>4, <2>5, <2>6, <2>7 DEF Inv, Rw!CounterInv
<1>2. CASE Rw!DownWriteQueue(t)
  <2>1. /\ pc[t] = "w_gp" /\ pc' = [pc EXCEPT ![t] = "w_lock"] /\ gpwait[t] = {}
        /\ UNCHANGED <<Rw!counters, Rw!rwsem, cpu, gpwait, asleep, tosum, sum>>
    BY <1>2 DEF Rw!DownWriteQueue, Rw!Goto
  <2>2. Rw!TypeOK'
    BY <1>0, <2>1 DEF Rw!TypeOK, Rw!Locations, Rw!counters, Rw!rwsem
  <2>3. /\ Rw!ReadOwners' = Rw!ReadOwners /\ Rw!WriteOwners' = Rw!WriteOwners /\ Writers' = Writers
        /\ Rw!InFastSection' = Rw!InFastSection /\ Rw!InFastSection = {}
    BY <1>0, <2>1
       DEF Rw!ReadOwners, Rw!WriteOwners, Writers, Queued, Holding, Rw!InFastSection, RwGraceInv, Rw!TypeOK
  <2>4. Rw!ReadersCounted' /\ WriteCtrInv'
    BY <1>0, <2>1, <2>3, CountedSame DEF WriteCtrInv, Rw!counters
  <2>5. Rw!WriterWillWake' /\ RwSemInv'
    BY <1>0, <2>1 DEF Rw!WriterWillWake, RwSemInv, Holding, Rw!TypeOK, Rw!counters, Rw!rwsem
  <2>6. RwGraceInv' /\ ClearedInv'
    BY <1>0, <2>1, <2>3 DEF RwGraceInv, ClearedInv, Queued, Holding, Rw!TypeOK, Rw!counters
  <2> QED BY <2>2, <2>4, <2>5, <2>6 DEF Inv, Rw!CounterInv
<1>3. CASE Rw!DownWriteLock(t)
  <2>1. /\ pc[t] = "w_lock" /\ pc' = [pc EXCEPT ![t] = "w_clear"] /\ tosum' = CPUs /\ sum' = 0
        /\ rw_readers = {} /\ rw_writers = {} /\ rw_writers' = {t} /\ rw_readers' = rw_readers
        /\ UNCHANGED <<Rw!counters, cpu, gpwait, asleep>>
    BY <1>3 DEF Rw!DownWriteLock, Rw!Goto, Rw!Sem!AcquireWrite
  <2>2. Rw!TypeOK'
    BY <1>0, <2>1, RwRangeFacts DEF Rw!TypeOK, Rw!Locations, Rw!counters
  <2>3. \A u \in Tasks : pc[u] \notin Holding
    BY <1>0, <2>1 DEF RwSemInv
  <2>4. sum = 0
    BY <1>0, <2>3 DEF ClearedInv, Holding
  <2>5. /\ Rw!ReadOwners' = Rw!ReadOwners /\ Rw!WriteOwners' = Rw!WriteOwners /\ Writers' = Writers
        /\ Rw!InFastSection' = Rw!InFastSection /\ Rw!InFastSection = {}
    BY <1>0, <2>1
       DEF Rw!ReadOwners, Rw!WriteOwners, Writers, Queued, Holding, Rw!InFastSection, RwGraceInv, Rw!TypeOK
  <2>6. Rw!ReadersCounted' /\ WriteCtrInv'
    BY <1>0, <2>1, <2>4, <2>5, CountedSame DEF WriteCtrInv, Rw!counters
  <2>7. Rw!WriterWillWake' /\ RwSemInv'
    BY <1>0, <2>1, <2>3 DEF Rw!WriterWillWake, RwSemInv, Holding, Rw!TypeOK, Rw!counters
  <2>8. RwGraceInv' /\ ClearedInv'
    BY <1>0, <2>1, <2>3, <2>5 DEF RwGraceInv, ClearedInv, Queued, Holding, Rw!TypeOK, Rw!counters
  <2> QED BY <2>2, <2>6, <2>7, <2>8 DEF Inv, Rw!CounterInv
<1> QED BY <1>1, <1>2, <1>3

\* clear_fast_ctr() and the addition to ->slow_read_ctr move readers, one CPU at a time,
\* and lose none.
LEMMA ClearStep ==
    ASSUME Rw!PercpuRwSemAssumption,
           Inv, NEW t \in Tasks, (\E c \in CPUs : Rw!ClearFastCtr(t, c)) \/ Rw!MergeCtr(t)
    PROVE  Inv'
<1>0. /\ Rw!TypeOK /\ Rw!ReadersCounted /\ Rw!WriterWillWake
      /\ WriteCtrInv /\ RwSemInv /\ RwGraceInv /\ ClearedInv
  BY DEF Inv, Rw!CounterInv
<1>1. /\ pc[t] = "w_clear"
      /\ \A u \in Tasks : pc[u] \in Holding => u = t
  <2>1. pc[t] = "w_clear"
    BY DEF Rw!ClearFastCtr, Rw!MergeCtr, Rw!Goto
  <2> QED BY <1>0, <2>1 DEF RwSemInv, Holding
<1>2. /\ Sum(fast_read_ctr, CPUs) \in Int /\ Counted \in Int /\ sum \in Int /\ slow_read_ctr \in Int
      /\ \A y \in CPUs : fast_read_ctr[y] \in Int
  BY <1>0, CountedInt, RwRangeFacts DEF Rw!TypeOK
<1>3. ASSUME NEW c \in CPUs, Rw!ClearFastCtr(t, c) PROVE Inv'
  <2>1. /\ c \in tosum /\ sum' = Rw!Wrap(sum + fast_read_ctr[c])
        /\ fast_read_ctr' = [fast_read_ctr EXCEPT ![c] = 0] /\ tosum' = tosum \ {c}
        /\ UNCHANGED <<write_ctr, slow_read_ctr, Rw!rwsem, pc, cpu, gpwait, asleep>>
    BY <1>3 DEF Rw!ClearFastCtr, Rw!Cleared
  <2> DEFINE x == fast_read_ctr[c]
             e == fast_read_ctr'
             total == Sum(fast_read_ctr, CPUs)
  <2>2. x \in Int /\ sum + x \in Int /\ Rw!Wrap(sum + x) \in Rw!Counter
    BY <1>2, RwRangeFacts
  <2>3. Rw!TypeOK'
    BY <1>0, <2>1, <2>2, RwRangeFacts DEF Rw!TypeOK, Rw!rwsem
  <2>4. Rw!ReadOwners' = Rw!ReadOwners /\ Rw!WriteOwners' = Rw!WriteOwners /\ Writers' = Writers
    BY <2>1 DEF Rw!ReadOwners, Rw!WriteOwners, Writers
  <2>5. Rw!Wrap(Counted') = Rw!Wrap(Counted + 0)
    <3>1. e[c] = 0 /\ \A y \in CPUs \ {c} : e[y] = fast_read_ctr[y]
      BY <1>0, <2>1 DEF Rw!TypeOK
    <3>2. Sum(e, CPUs) = total + e[c] - x
      <4>1. e[c] \in Int /\ IsFiniteSet(CPUs)
        BY <3>1, RwRangeFacts
      <4> HIDE DEF e
      <4> QED BY <1>2, <3>1, <4>1, SumUpdate
    <3>3. /\ Counted' = Sum(e, CPUs) + Rw!Wrap(sum + x) + slow_read_ctr
          /\ Counted = total + sum + slow_read_ctr
      BY <2>1 DEF Counted
    <3>4. /\ Rw!Wrap(sum + x) \in Int
          /\ Rw!Wrap((Counted - x) + Rw!Wrap(sum + x) - sum) = Rw!Wrap((Counted - x) + x)
      <4>1. Counted - x \in Int
        BY <1>2, <2>2
      <4>2. x \in Int /\ sum \in Int
        BY <1>2, <2>2
      <4> HIDE DEF x
      <4> QED BY <4>1, <4>2, RwWrapCarry, Zenon
    <3> HIDE DEF x, e
    <3>5. Counted' = (Counted - x) + Rw!Wrap(sum + x) - sum /\ (Counted - x) + x = Counted + 0
      <4> DEFINE w == Rw!Wrap(sum + x)
      <4>1. w \in Int
        BY <3>4
      <4>2. Sum(e, CPUs) = total - x
        BY <1>2, <2>2, <3>1, <3>2
      <4> HIDE DEF w, total
      <4>3. total \in Int
        BY <1>2 DEF total
      <4>4. Counted' = (total - x) + w + slow_read_ctr
        BY <3>3, <4>2 DEF w
      <4>5. Counted' = (Counted - x) + w - sum /\ (Counted - x) + x = Counted + 0
        BY <1>2, <2>2, <3>3, <4>1, <4>3, <4>4
      <4> QED BY <4>5 DEF w
    <3> QED BY <3>4, <3>5
  <2>6. Rw!ReadersCounted'
    <3>1. Cardinality(Rw!ReadOwners') = Cardinality(Rw!ReadOwners) + 0
      BY <2>4, TaskSets DEF Rw!ReadOwners
    <3> QED BY <1>0, <2>3, <2>5, <3>1, CountedStep
  <2>7. WriteCtrInv' /\ Rw!WriterWillWake' /\ RwSemInv' /\ RwGraceInv'
    BY <1>0, <2>1, <2>4
       DEF WriteCtrInv, Rw!WriterWillWake, RwSemInv, RwGraceInv, Rw!InFastSection, Rw!rwsem
  <2>8. ClearedInv'
    BY <1>0, <1>1, <2>1, <2>4 DEF ClearedInv, Holding, Rw!TypeOK
  <2> QED BY <2>3, <2>6, <2>7, <2>8 DEF Inv, Rw!CounterInv
<1>4. CASE Rw!MergeCtr(t)
  <2>1. /\ pc' = [pc EXCEPT ![t] = "w_check"] /\ tosum = {}
        /\ slow_read_ctr' = Rw!Wrap(slow_read_ctr + sum) /\ sum' = 0
        /\ UNCHANGED <<fast_read_ctr, write_ctr, Rw!rwsem, cpu, gpwait, asleep, tosum>>
    BY <1>4 DEF Rw!MergeCtr, Rw!Goto
  <2>2. slow_read_ctr + sum \in Int /\ Rw!Wrap(slow_read_ctr + sum) \in Rw!Counter
    BY <1>2, RwRangeFacts
  <2>3. Rw!TypeOK'
    BY <1>0, <2>1, <2>2, RwRangeFacts DEF Rw!TypeOK, Rw!Locations, Rw!rwsem
  <2>4. Rw!ReadOwners' = Rw!ReadOwners /\ Rw!WriteOwners' = Rw!WriteOwners /\ Writers' = Writers
    BY <1>0, <1>1, <2>1 DEF Rw!ReadOwners, Rw!WriteOwners, Writers, Queued, Holding, Rw!TypeOK
  <2>5. Rw!Wrap(Counted') = Rw!Wrap(Counted + 0)
    <3> DEFINE total == Sum(fast_read_ctr, CPUs)
               w == Rw!Wrap(slow_read_ctr + sum)
    <3>1. Counted' = total + 0 + w /\ Counted = total + sum + slow_read_ctr
      BY <2>1 DEF Counted
    <3>2. w \in Int /\ Rw!Wrap((Counted - sum) + w - slow_read_ctr) = Rw!Wrap((Counted - sum) + sum)
      <4>1. Counted - sum \in Int
        BY <1>2
      <4> QED BY <1>2, <4>1, RwWrapCarry
    <3>3. total \in Int
      BY <1>2
    <3> HIDE DEF total, w
    <3>4. Counted' = (Counted - sum) + w - slow_read_ctr /\ (Counted - sum) + sum = Counted + 0
      BY <1>2, <3>1, <3>2, <3>3
    <3> QED BY <3>2, <3>4
  <2>6. Rw!ReadersCounted'
    <3>1. Cardinality(Rw!ReadOwners') = Cardinality(Rw!ReadOwners) + 0
      BY <2>4, TaskSets DEF Rw!ReadOwners
    <3> QED BY <1>0, <2>3, <2>5, <3>1, CountedStep
  <2>7. WriteCtrInv' /\ Rw!WriterWillWake' /\ RwSemInv'
    BY <1>0, <1>1, <2>1, <2>4
       DEF WriteCtrInv, Rw!WriterWillWake, RwSemInv, Holding, Rw!TypeOK, Rw!rwsem
  <2>8. RwGraceInv' /\ ClearedInv'
    BY <1>0, <1>1, <2>1, <2>4
       DEF RwGraceInv, Rw!InFastSection, ClearedInv, Queued, Holding, Rw!TypeOK
  <2> QED BY <2>3, <2>6, <2>7, <2>8 DEF Inv, Rw!CounterInv
<1> QED BY <1>3, <1>4

\* Once ->slow_read_ctr is zero after clear_fast_ctr(), there is no reader.
LEMMA NoReaders ==
    ASSUME Rw!PercpuRwSemAssumption,
           Inv, NEW t \in Tasks, pc[t] \in Holding \ {"w_clear"}, slow_read_ctr = 0
    PROVE  Rw!ReadOwners = {}
<1>0. Rw!TypeOK /\ Rw!ReadersCounted /\ RwSemInv /\ ClearedInv
  BY DEF Inv, Rw!CounterInv
<1>1. \A u \in Tasks : pc[u] # "w_clear"
  BY <1>0 DEF RwSemInv, Holding
<1>2. sum = 0 /\ \A c \in CPUs : fast_read_ctr[c] = 0
  BY <1>0, <1>1 DEF ClearedInv
<1>3. Sum(fast_read_ctr, CPUs) = 0
  BY <1>2, RwRangeFacts, SumZero
<1>4. Counted = 0 /\ Rw!Wrap(0) = 0
  BY <1>2, <1>3, RwRangeFacts, ModIdentity DEF Counted, Rw!Wrap
<1>5. Cardinality(Rw!ReadOwners) = 0 /\ IsFiniteSet(Rw!ReadOwners)
  BY <1>0, <1>4, CountedDef, TaskSets DEF Rw!ReadOwners
<1> QED BY <1>5, FS_EmptySet

\* wait_event(), up_write() and the end.
LEMMA WriteWaitStep ==
    ASSUME Rw!PercpuRwSemAssumption, Inv, NEW t \in Tasks,
           \/ Rw!WaitCheck(t) \/ Rw!PrepareToWait(t) \/ Rw!WaitRetest(t) \/ Rw!WaitSchedule(t)
           \/ Rw!UpWriteUnlock(t) \/ Rw!UpWriteEnd(t)
    PROVE  Inv'
<1>0. /\ Rw!TypeOK /\ Rw!ReadersCounted /\ Rw!WriterWillWake
      /\ WriteCtrInv /\ RwSemInv /\ RwGraceInv /\ ClearedInv
  BY DEF Inv, Rw!CounterInv
<1>1. CASE Rw!WaitCheck(t) \/ Rw!WaitRetest(t)
  <2>1. /\ pc[t] \in {"w_check", "w_retest"}
        /\ \/ slow_read_ctr = 0 /\ pc' = [pc EXCEPT ![t] = "writing"]
           \/ slow_read_ctr # 0 /\ pc' = [pc EXCEPT ![t] = "w_prepare"]
           \/ slow_read_ctr # 0 /\ pc' = [pc EXCEPT ![t] = "w_sleep"]
        /\ asleep' \subseteq asleep
        /\ UNCHANGED <<Rw!counters, Rw!rwsem, cpu, gpwait, tosum, sum>>
    BY <1>1 DEF Rw!WaitCheck, Rw!WaitRetest, Rw!Goto
  <2>2. Rw!TypeOK'
    BY <1>0, <2>1 DEF Rw!TypeOK, Rw!Locations, Rw!counters, Rw!rwsem
  <2>3. Rw!ReadOwners' = Rw!ReadOwners /\ Writers' = Writers /\ Rw!InFastSection' = Rw!InFastSection
    BY <1>0, <2>1 DEF Rw!ReadOwners, Writers, Queued, Holding, Rw!InFastSection, Rw!TypeOK
  <2>4. Rw!ReadersCounted' /\ WriteCtrInv'
    BY <1>0, <2>1, <2>3, CountedSame DEF WriteCtrInv, Rw!counters
  <2>5. \A u \in Tasks : pc[u] \in Holding => u = t
    BY <1>0, <2>1 DEF RwSemInv, Holding
  <2>6. Rw!WriterWillWake'
    BY <1>0, <2>1, <2>5 DEF Rw!WriterWillWake, Holding, Rw!TypeOK, Rw!counters
  <2>7. RwSemInv' /\ RwGraceInv'
    BY <1>0, <2>1, <2>3 DEF RwSemInv, RwGraceInv, Queued, Holding, Rw!TypeOK, Rw!rwsem
  <2>8. ClearedInv'
    <3>1. Rw!WriteOwners' # {} => Rw!ReadOwners' = {}
      <4>1. slow_read_ctr = 0 => Rw!ReadOwners = {}
        BY <2>1, NoReaders DEF Holding
      <4>2. slow_read_ctr # 0 => Rw!WriteOwners' = {}
        BY <1>0, <2>1, <2>5 DEF Rw!WriteOwners, Holding, Rw!TypeOK
      <4> QED BY <2>3, <4>1, <4>2
    <3> QED BY <1>0, <2>1, <3>1 DEF ClearedInv, Holding, Rw!TypeOK, Rw!counters
  <2> QED BY <2>2, <2>4, <2>6, <2>7, <2>8 DEF Inv, Rw!CounterInv
<1>2. CASE Rw!PrepareToWait(t) \/ Rw!WaitSchedule(t)
  <2>1. /\ \/ pc[t] = "w_prepare" /\ pc' = [pc EXCEPT ![t] = "w_retest"] /\ asleep' = asleep \cup {t}
           \/ pc[t] = "w_sleep" /\ pc' = [pc EXCEPT ![t] = "w_prepare"] /\ asleep' = asleep
        /\ UNCHANGED <<Rw!counters, Rw!rwsem, cpu, gpwait, tosum, sum>>
    BY <1>2 DEF Rw!PrepareToWait, Rw!WaitSchedule, Rw!Goto
  <2>2. Rw!TypeOK'
    BY <1>0, <2>1 DEF Rw!TypeOK, Rw!Locations, Rw!counters, Rw!rwsem
  <2>3. /\ Rw!ReadOwners' = Rw!ReadOwners /\ Writers' = Writers /\ Rw!WriteOwners' = Rw!WriteOwners
        /\ Rw!InFastSection' = Rw!InFastSection
    BY <1>0, <2>1
       DEF Rw!ReadOwners, Rw!WriteOwners, Writers, Queued, Holding, Rw!InFastSection, Rw!TypeOK
  <2>4. Rw!ReadersCounted' /\ WriteCtrInv'
    BY <1>0, <2>1, <2>3, CountedSame DEF WriteCtrInv, Rw!counters
  <2>5. Rw!WriterWillWake'
    BY <1>0, <2>1 DEF Rw!WriterWillWake, Rw!TypeOK, Rw!counters
  <2>6. RwSemInv' /\ RwGraceInv'
    BY <1>0, <2>1, <2>3 DEF RwSemInv, RwGraceInv, Queued, Holding, Rw!TypeOK, Rw!rwsem
  <2>7. ClearedInv'
    BY <1>0, <2>1, <2>3 DEF ClearedInv, Holding, Rw!TypeOK, Rw!counters
  <2> QED BY <2>2, <2>4, <2>5, <2>6, <2>7 DEF Inv, Rw!CounterInv
<1>3. CASE Rw!UpWriteUnlock(t)
  <2>1. /\ pc[t] = "writing" /\ pc' = [pc EXCEPT ![t] = "w_gp2"]
        /\ rw_writers = {t} /\ rw_writers' = {} /\ rw_readers' = rw_readers
        /\ gpwait' = [gpwait EXCEPT ![t] = Rw!InFastSection]
        /\ UNCHANGED <<Rw!counters, cpu, asleep, tosum, sum>>
    BY <1>3 DEF Rw!UpWriteUnlock, Rw!Goto, Rw!Sem!ReleaseWrite
  <2>2. Rw!TypeOK'
    BY <1>0, <2>1 DEF Rw!TypeOK, Rw!Locations, Rw!InFastSection, Rw!counters
  <2>3. Rw!ReadOwners' = Rw!ReadOwners /\ Writers' = Writers /\ Rw!InFastSection' = Rw!InFastSection
    BY <1>0, <2>1 DEF Rw!ReadOwners, Writers, Queued, Holding, Rw!InFastSection, Rw!TypeOK
  <2>4. Rw!ReadersCounted' /\ WriteCtrInv'
    BY <1>0, <2>1, <2>3, CountedSame DEF WriteCtrInv, Rw!counters
  <2>5. Rw!WriterWillWake' /\ RwSemInv'
    BY <1>0, <2>1 DEF Rw!WriterWillWake, RwSemInv, Holding, Rw!TypeOK, Rw!counters
  <2>6. RwGraceInv'
    BY <1>0, <2>1, <2>3 DEF RwGraceInv, Queued, Holding, Rw!TypeOK
  <2>7. ClearedInv'
    <3>1. Rw!ReadOwners' = {}
      BY <1>0, <2>1, <2>3 DEF ClearedInv, Rw!WriteOwners
    <3> QED BY <1>0, <2>1, <3>1 DEF ClearedInv, Holding, Rw!TypeOK, Rw!counters
  <2> QED BY <2>2, <2>4, <2>5, <2>6, <2>7 DEF Inv, Rw!CounterInv
<1>4. CASE Rw!UpWriteEnd(t)
  <2>1. /\ pc[t] = "w_gp2" /\ pc' = [pc EXCEPT ![t] = "idle"] /\ write_ctr' = write_ctr - 1
        /\ UNCHANGED <<fast_read_ctr, slow_read_ctr, Rw!rwsem, cpu, gpwait, asleep, tosum, sum>>
    BY <1>4 DEF Rw!UpWriteEnd, Rw!Goto
  <2>2. /\ Rw!ReadOwners' = Rw!ReadOwners /\ Rw!WriteOwners' = Rw!WriteOwners
        /\ Writers' = Writers \ {t} /\ t \in Writers /\ Rw!InFastSection' = Rw!InFastSection
    BY <1>0, <2>1
       DEF Rw!ReadOwners, Rw!WriteOwners, Writers, Queued, Holding, Rw!InFastSection, Rw!TypeOK
  <2>3. /\ Cardinality(Writers') = Cardinality(Writers) - 1
        /\ Cardinality(Writers') \in Nat
    <3>1. IsFiniteSet(Writers) /\ Writers' \in SUBSET Tasks
      BY TaskSets DEF Writers
    <3> QED BY <2>2, <3>1, TaskSets, FS_RemoveElement
  <2>4. WriteCtrInv' /\ write_ctr' \in Nat
    BY <1>0, <2>1, <2>3 DEF WriteCtrInv
  <2>5. Rw!TypeOK'
    BY <1>0, <2>1, <2>4 DEF Rw!TypeOK, Rw!Locations, Rw!rwsem
  <2>6. Rw!ReadersCounted'
    BY <1>0, <2>1, <2>2, CountedSame
  <2>7. Rw!WriterWillWake' /\ RwSemInv'
    BY <1>0, <2>1 DEF Rw!WriterWillWake, RwSemInv, Holding, Rw!TypeOK, Rw!rwsem
  <2>8. RwGraceInv' /\ ClearedInv'
    BY <1>0, <2>1, <2>2 DEF RwGraceInv, ClearedInv, Queued, Holding, Rw!TypeOK
  <2> QED BY <2>4, <2>5, <2>6, <2>7, <2>8 DEF Inv, Rw!CounterInv
<1> QED BY <1>1, <1>2, <1>3, <1>4

LEMMA NextInv ==
    ASSUME Rw!PercpuRwSemAssumption
    PROVE  Inv /\ [Rw!Next]_Rw!vars => Inv'
<1> SUFFICES ASSUME Inv, [Rw!Next]_Rw!vars PROVE Inv'
  OBVIOUS
<1>1. ASSUME NEW t \in Tasks, Rw!StartCall(t) PROVE Inv'
  BY <1>1, EnterStep, WriteLockStep DEF Rw!StartCall
<1>2. ASSUME NEW t \in Tasks, Rw!ReadStep(t) PROVE Inv'
  BY <1>2, EnterStep, RwLeaveStep, SlowReadStep DEF Rw!ReadStep
<1>3. ASSUME NEW t \in Tasks, Rw!WriteStep(t) PROVE Inv'
  BY <1>3, WriteLockStep, ClearStep, WriteWaitStep DEF Rw!WriteStep
<1>4. ASSUME NEW t \in Tasks, Rw!DownReadLock(t) \/ Rw!DownWriteLock(t) PROVE Inv'
  BY <1>4, SlowReadStep, WriteLockStep
<1>5. CASE UNCHANGED Rw!vars
  <2>1. /\ UNCHANGED <<fast_read_ctr, write_ctr, slow_read_ctr, rw_readers, rw_writers>>
        /\ UNCHANGED <<pc, cpu, gpwait, asleep, tosum, sum>>
    BY <1>5 DEF Rw!vars, Rw!counters, Rw!rwsem
  <2>2. Rw!ReadOwners' = Rw!ReadOwners /\ Rw!WriteOwners' = Rw!WriteOwners /\ Writers' = Writers
    BY <2>1 DEF Rw!ReadOwners, Rw!WriteOwners, Writers
  <2>3. Rw!ReadersCounted'
    BY <2>1, <2>2, CountedSame DEF Inv, Rw!CounterInv
  <2> QED BY <2>1, <2>2, <2>3
             DEF Inv, Rw!CounterInv, Rw!TypeOK, Rw!WriterWillWake, WriteCtrInv, RwSemInv,
                 RwGraceInv, Rw!InFastSection, ClearedInv
<1> QED BY <1>1, <1>2, <1>3, <1>4, <1>5 DEF Rw!Next

LEMMA InvInvariant ==
    ASSUME Rw!PercpuRwSemAssumption
    PROVE  Rw!Spec => []Inv
BY InitInv, NextInv, PTL DEF Rw!Spec

-----------------------------------------------------------------------------
\* percpu_down_read() and percpu_up_read() lose no reader and count none twice when
\* clear_fast_ctr() moves the per-CPU counters, and the last percpu_up_read() wakes a
\* writer asleep on ->write_waitq, for any number of tasks and CPUs.
THEOREM CountersExact ==
    ASSUME Rw!PercpuRwSemAssumption
    PROVE  Rw!Spec => []Rw!CounterInv
BY InvInvariant, PTL DEF Inv

\* The steps of the code as steps of a reader/writer lock.
LEMMA LockStep ==
    ASSUME Rw!PercpuRwSemAssumption
    PROVE  Inv /\ [Rw!Next]_Rw!vars => [Rw!Abstract!Next]_(Rw!Abstract!vars)
<1> SUFFICES ASSUME Inv, [Rw!Next]_Rw!vars
             PROVE  Rw!Abstract!Next \/ UNCHANGED <<Rw!ReadOwners, Rw!WriteOwners>>
  BY DEF Rw!Abstract!vars
<1>0. Rw!TypeOK /\ RwSemInv /\ RwGraceInv /\ ClearedInv
  BY DEF Inv, Rw!CounterInv
<1> DEFINE Same == UNCHANGED <<Rw!ReadOwners, Rw!WriteOwners>>
<1>1. ASSUME NEW t \in Tasks, NEW c \in CPUs, Rw!DownReadBegin(t, c) \/ Rw!UpReadBegin(t, c)
      PROVE  Same
  BY <1>0, <1>1
     DEF Rw!DownReadBegin, Rw!UpReadBegin, Rw!EnterFast, Rw!Goto, Rw!ReadOwners, Rw!WriteOwners, Rw!TypeOK
<1>2. ASSUME NEW t \in Tasks, Rw!DownReadFast(t) PROVE Rw!Abstract!Next
  <2>1. pc[t] = "down_fast" /\ pc' = [pc EXCEPT ![t] = "reading"]
    BY <1>2 DEF Rw!DownReadFast, Rw!LeaveFast, Rw!Goto
  <2>2. Rw!WriteOwners = {}
    BY <1>0, <2>1 DEF RwGraceInv, Rw!InFastSection, Rw!WriteOwners, Queued, Holding
  <2>3. Rw!ReadOwners' = Rw!ReadOwners \cup {t} /\ t \notin Rw!ReadOwners /\ Rw!WriteOwners' = Rw!WriteOwners
    BY <1>0, <2>1 DEF Rw!ReadOwners, Rw!WriteOwners, Rw!TypeOK
  <2>4. Rw!Abstract!AcquireRead({t})
    BY <2>2, <2>3 DEF Rw!Abstract!AcquireRead
  <2>5. {t} \in SUBSET Tasks
    OBVIOUS
  <2> QED BY <2>4, <2>5 DEF Rw!Abstract!Next
<1>3. ASSUME NEW t \in Tasks, Rw!DownReadCount(t) PROVE Rw!Abstract!Next
  <2>1. pc[t] = "down_count" /\ pc' = [pc EXCEPT ![t] = "down_unlock"]
    BY <1>3 DEF Rw!DownReadCount, Rw!Goto
  <2>2. Rw!WriteOwners = {}
    BY <1>0, <2>1 DEF RwSemInv, Rw!WriteOwners, Holding
  <2>3. Rw!ReadOwners' = Rw!ReadOwners \cup {t} /\ t \notin Rw!ReadOwners /\ Rw!WriteOwners' = Rw!WriteOwners
    BY <1>0, <2>1 DEF Rw!ReadOwners, Rw!WriteOwners, Rw!TypeOK
  <2>4. Rw!Abstract!AcquireRead({t})
    BY <2>2, <2>3 DEF Rw!Abstract!AcquireRead
  <2>5. {t} \in SUBSET Tasks
    OBVIOUS
  <2> QED BY <2>4, <2>5 DEF Rw!Abstract!Next
<1>4. ASSUME NEW t \in Tasks, Rw!UpReadFast(t) \/ Rw!UpReadSlow(t) PROVE Rw!Abstract!Next
  <2>1. /\ pc[t] \in {"up_fast", "up_slow"}
        /\ pc' = [pc EXCEPT ![t] = "idle"] \/ pc' = [pc EXCEPT ![t] = "up_wake"]
    BY <1>4 DEF Rw!UpReadFast, Rw!UpReadSlow, Rw!LeaveFast, Rw!Goto
  <2>2. Rw!ReadOwners' = Rw!ReadOwners \ {t} /\ t \in Rw!ReadOwners /\ Rw!WriteOwners' = Rw!WriteOwners
    BY <1>0, <2>1 DEF Rw!ReadOwners, Rw!WriteOwners, Rw!TypeOK
  <2>3. Rw!Abstract!ReleaseRead(t)
    BY <2>2 DEF Rw!Abstract!ReleaseRead
  <2> QED BY <2>3 DEF Rw!Abstract!Next
<1>5. ASSUME NEW t \in Tasks,
             \/ Rw!DownReadLock(t) \/ Rw!DownReadUnlock(t) \/ Rw!UpReadWake(t)
             \/ Rw!DownWriteAnnounce(t) \/ Rw!DownWriteQueue(t) \/ Rw!DownWriteLock(t)
             \/ (\E c \in CPUs : Rw!ClearFastCtr(t, c)) \/ Rw!MergeCtr(t) \/ Rw!PrepareToWait(t)
             \/ Rw!WaitSchedule(t) \/ Rw!UpWriteEnd(t)
      PROVE  Same
  <2>1. pc' = pc \/ \E l, m : /\ pc[t] = l /\ pc' = [pc EXCEPT ![t] = m] /\ l # "writing"
                              /\ m # "writing"
                              /\ \/ l = "down_unlock" /\ m = "reading"
                                 \/ /\ l \notin {"down_unlock", "reading", "up_fast", "up_slow"}
                                    /\ m \notin {"down_unlock", "reading", "up_fast", "up_slow"}
    BY <1>5
       DEF Rw!DownReadLock, Rw!DownReadUnlock, Rw!UpReadWake, Rw!DownWriteAnnounce,
           Rw!DownWriteQueue, Rw!DownWriteLock, Rw!ClearFastCtr, Rw!MergeCtr, Rw!PrepareToWait,
           Rw!WaitSchedule, Rw!UpWriteEnd, Rw!Goto
  <2> QED BY <1>0, <2>1 DEF Rw!ReadOwners, Rw!WriteOwners, Rw!TypeOK
<1>6. ASSUME NEW t \in Tasks, Rw!WaitCheck(t) \/ Rw!WaitRetest(t) PROVE Rw!Abstract!Next \/ Same
  <2>1. /\ pc[t] \in {"w_check", "w_retest"}
        /\ \/ slow_read_ctr = 0 /\ pc' = [pc EXCEPT ![t] = "writing"]
           \/ pc' = [pc EXCEPT ![t] = "w_prepare"]
           \/ pc' = [pc EXCEPT ![t] = "w_sleep"]
    BY <1>6 DEF Rw!WaitCheck, Rw!WaitRetest, Rw!Goto
  <2>2. CASE pc'[t] = "writing"
    <3>1. Rw!ReadOwners = {}
      BY <1>0, <2>1, <2>2, NoReaders DEF Holding, Rw!TypeOK
    <3>2. Rw!WriteOwners = {}
      BY <1>0, <2>1 DEF RwSemInv, Rw!WriteOwners, Holding
    <3>3. Rw!ReadOwners' = Rw!ReadOwners /\ Rw!WriteOwners' = {t}
      BY <1>0, <2>1, <2>2, <3>2 DEF Rw!ReadOwners, Rw!WriteOwners, Rw!TypeOK
    <3>4. Rw!Abstract!AcquireWrite(t)
      BY <3>1, <3>2, <3>3 DEF Rw!Abstract!AcquireWrite
    <3> QED BY <3>4 DEF Rw!Abstract!Next
  <2>3. CASE pc'[t] # "writing"
    <3>1. Same
      BY <1>0, <2>1, <2>3 DEF Rw!ReadOwners, Rw!WriteOwners, Rw!TypeOK
    <3> QED BY <3>1
  <2> QED BY <2>2, <2>3
<1>7. ASSUME NEW t \in Tasks, Rw!UpWriteUnlock(t) PROVE Rw!Abstract!Next
  <2>1. pc[t] = "writing" /\ pc' = [pc EXCEPT ![t] = "w_gp2"] /\ rw_writers = {t}
    BY <1>7 DEF Rw!UpWriteUnlock, Rw!Goto, Rw!Sem!ReleaseWrite
  <2>2. Rw!WriteOwners = {t}
    BY <1>0, <2>1 DEF RwSemInv, Rw!WriteOwners, Holding
  <2>3. Rw!WriteOwners' = {} /\ Rw!ReadOwners' = Rw!ReadOwners
    BY <1>0, <2>1, <2>2 DEF Rw!WriteOwners, Rw!ReadOwners, Rw!TypeOK
  <2>4. Rw!Abstract!ReleaseWrite(t)
    BY <2>2, <2>3 DEF Rw!Abstract!ReleaseWrite
  <2> QED BY <2>4 DEF Rw!Abstract!Next
<1>8. CASE UNCHANGED Rw!vars
  BY <1>8 DEF Rw!vars, Rw!ReadOwners, Rw!WriteOwners
<1> QED BY <1>1, <1>2, <1>3, <1>4, <1>5, <1>6, <1>7, <1>8
           DEF Rw!Next, Rw!StartCall, Rw!ReadStep, Rw!WriteStep

\* lib/percpu-rwsem.c implements a reader/writer lock: readers on per-CPU counters, readers
\* on the slow counter and writers exclude each other as they should.
THEOREM PercpuRwSemIsLock ==
    ASSUME Rw!PercpuRwSemAssumption
    PROVE  Rw!Spec => Rw!ImplementsRWLock
<1>1. Rw!Init => Rw!Abstract!Init
  BY DEF Rw!Init, Rw!Abstract!Init, Rw!ReadOwners, Rw!WriteOwners
<1> QED BY <1>1, LockStep, InvInvariant, PTL DEF Rw!Spec, Rw!ImplementsRWLock, Rw!Abstract!Spec
=============================================================================

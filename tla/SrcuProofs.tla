----------------------------- MODULE SrcuProofs -----------------------------
(***************************************************************************)
(* Proofs about sleepable RCU, for any readers, updaters and CPUs, as long *)
(* as there are fewer readers than values of an unsigned long.             *)
(***************************************************************************)
EXTENDS Srcu, CollectionLemmas

-----------------------------------------------------------------------------
(* The inductive invariant.                                                *)

Advancing == {"advance", "check", "drained"}

ExecState ==
    [pc : {"off", "wait", "advance", "check", "drained", "invoke", "harvest", "reschedule",
           "recheck"},
     trycount : Nat, idx : 0..1, check : 0..2, pass : {"seq", "active", "validate"}, at : CPUs,
     sum : Counter, seq : Counter, left : Nat, n : Nat, done : BOOLEAN]

Types == TypeOK /\ exec \in [Executors -> ExecState]

\* What an executor is doing, and what its head is in flight for.
CallInv ==
    /\ \A e \in Executors : exec[e].pc = "off" => exec[e] = Off
    /\ \A e \in Executors : exec[e].done => e # Work /\ exec[e].pc \in {"reschedule", "recheck"}
    /\ exec[Work].pc \notin {"wait", "harvest"}
    /\ \A u \in Updaters : exec[u].pc # "invoke"
    /\ \A u \in Updaters : use[u] = "sync" <=> exec[u].pc # "off"
    /\ \A u \in Updaters : completion[u] => exec[u].pc = "wait"

\* ->running: one task processes the batches, or the work is queued to do so.
OwnerInv ==
    /\ \A e, f \in Processing : e = f
    /\ Processing # {} => running /\ ~pending
    /\ pending => running
    /\ running => pending \/ Processing # {}
    /\ ~running => AllEmpty

\* The heads in flight, in the order in which their callbacks are invoked.
All == batch_done \o batch_check1 \o batch_check0 \o batch_queue

ListInv ==
    /\ DupFree(All)
    /\ \A u \in Updaters :
        InList(All, u) <=> use[u] # "none" /\ ~completion[u] /\ ~exec[u].done
    /\ \A u \in Updaters : exec[u].pc \in Advancing \cup {"harvest"} =>
        batch_done \o batch_check1 \o batch_check0 = <<u>>
    /\ \A e \in Executors : exec[e].pc \in {"check", "drained"} =>
        batch_check0 # <<>> \/ batch_check1 # <<>>

Before(list, v, u) == \E i, j \in DOMAIN list : i < j /\ list[i] = v /\ list[j] = u

\* Heads in flight earlier are in front.
OrderInv == \A u \in Updaters : \A v \in earlier[u] : use[v] = "call" /\ Before(All, v, u)

\* A head waits for no reader of the rank that has been checked for it.
WaitInv ==
    \A u \in Updaters : \A r \in waitfor[u] :
        /\ reader[r].pc = "in"
        /\ InList(batch_check1, u) \/ InList(batch_check0, u) \/ InList(batch_queue, u)
        /\ InList(batch_check1, u) => reader[r].idx = 1 - completed

\* No head that is being checked waits for a reader of rank i.
Cleared(i) ==
    \A u \in Updaters : InList(batch_check0, u) \/ InList(batch_check1, u) =>
        \A r \in waitfor[u] : reader[r].idx # i

InRank(i, S) == {r \in Readers : reader[r].idx = i /\ reader[r].pc \in S}

\* The counters of rank i of the CPUs in T, added to k.
Part(f, i, T, k) == Wrap(Sum(Rank(f, i), T) + k)

\* ReadersCounted, in these terms.
Counted == \A i \in 0..1 : Part(c, i, CPUs, 0) = Cardinality(InRank(i, {"locking", "in"}))

\* Increments of ->seq that srcu_readers_active_idx_check() will notice in the end, as far as
\* they have happened: the CPUs whose counters matter, and what has been read of them.
Window(x) ==
    CASE x.pass = "seq" -> 0 .. x.at - 1
      [] x.pass = "active" -> CPUs
      [] x.pass = "validate" -> x.at .. NCPU - 1

Offset(x) ==
    CASE x.pass = "seq" -> 0 - x.sum
      [] x.pass = "active" -> 0 - x.seq
      [] x.pass = "validate" -> x.sum - x.seq

Gap(x) == Part(seq, x.idx, Window(x), Offset(x))

\* What the sum of ->c will be if no reader comes or goes any more.
Total(x) == Part(c, x.idx, x.at .. NCPU - 1, x.sum)

CheckOK(x) ==
    /\ Gap(x) + Cardinality(InRank(x.idx, {"index", "locking"})) <= Cardinality(Readers)
    /\ x.pass = "active" /\ Gap(x) = 0 =>
        /\ Cardinality(InRank(x.idx, {"in"})) <= Total(x)
        /\ Total(x) + Cardinality(InRank(x.idx, {"index"})) <= Cardinality(Readers)
    /\ x.pass = "validate" /\ Gap(x) = 0 => Cleared(x.idx)

CheckInv ==
    \A e \in Executors :
        /\ exec[e].pc \in {"check", "drained"} =>
            exec[e].idx = 1 - completed /\ exec[e].check \in {1, 2}
        /\ exec[e].pc = "check" => CheckOK(exec[e])
        /\ exec[e].pc = "drained" => Cleared(exec[e].idx)

\* Nothing is queued once the counters are freed.
FreedInv == freed => AllEmpty

Inv ==
    /\ Types /\ Counted /\ CallInv /\ OwnerInv /\ ListInv /\ OrderInv /\ WaitInv /\ CheckInv
    /\ FreedInv

-----------------------------------------------------------------------------
(* Constants and counters.                                                 *)

LEMMA Constants ==
    /\ IsFiniteSet(Readers) /\ Cardinality(Readers) \in Nat
    /\ NCPU \in Nat /\ NCPU > 0 /\ IsFiniteSet(CPUs) /\ CPUs \subseteq Int /\ 0 \in CPUs
    /\ Modulus \in Nat \ {0} /\ Cardinality(Readers) < Modulus
    /\ Counter \subseteq Int /\ 0 \in Counter /\ \A x \in Int : Wrap(x) \in Counter
    /\ Work \notin Updaters /\ Work \in Executors /\ Updaters \subseteq Executors
<1>1. Cardinality(Readers) \in Nat /\ Modulus \in Nat \ {0} /\ NCPU \in Nat /\ NCPU > 0
  BY SrcuAssumption, FS_CardinalityType
<1>2. \A x \in Int : Wrap(x) \in Counter
  BY <1>1, DivMod DEF Wrap, Counter
<1>3. IsFiniteSet(CPUs)
  BY <1>1, FS_Interval DEF CPUs
<1> QED BY <1>1, <1>2, <1>3, SrcuAssumption DEF CPUs, Counter, Executors

\* A change that stays in range changes the remainder by as much.
LEMMA WrapCount ==
    ASSUME NEW x \in Int, NEW d \in Int, Wrap(x) + d \in Counter
    PROVE  Wrap(x + d) = Wrap(x) + d
<1>1. Modulus \in Nat \ {0} /\ (x % Modulus) + d \in 0..Modulus-1
  BY Constants DEF Wrap, Counter
<1> QED BY <1>1, ModCount, Zenon DEF Wrap

LEMMA WrapCarry ==
    ASSUME NEW s \in Int, NEW a \in Int, NEW d \in Int
    PROVE  Wrap(a + d) \in Int /\ Wrap(s + Wrap(a + d) - a) = Wrap(s + d)
<1>1. Modulus \in Nat \ {0}
  BY Constants
<1> QED BY <1>1, ModCarry, Zenon DEF Wrap

\* Wrapping a part of a sum first makes no difference.
LEMMA WrapPart ==
    ASSUME NEW s \in Int, NEW a \in Int
    PROVE  Wrap(a) \in Int /\ Wrap(s + Wrap(a)) = Wrap(s + a) /\ Wrap(s - Wrap(a)) = Wrap(s - a)
<1>1. a + 0 = a /\ s + a \in Int /\ s - a \in Int /\ a \in Int /\ 0 \in Int
  OBVIOUS
<1>2. Wrap(a) \in Int
  BY Constants
<1>3. Wrap((s + a) + Wrap(a + 0) - a) = Wrap((s + a) + 0)
  BY <1>1, WrapCarry, ZenonT(60)
<1>4. (s + a) + Wrap(a) - a = s + Wrap(a) /\ (s + a) + 0 = s + a
  BY <1>2
<1>5. Wrap(s + Wrap(a)) = Wrap(s + a)
  BY <1>1, <1>3, <1>4
<1> DEFINE w == Wrap(a)
<1>6. Wrap(w) = w
  <2>1. Modulus \in Nat \ {0} /\ w \in 0..Modulus-1
    BY Constants DEF Counter
  <2> QED BY <2>1, ModIdentity DEF Wrap
<1>7. w \in Int
  BY <1>2
<1> HIDE DEF w
<1>8. Wrap((s - w) + w) = Wrap(s) /\ Wrap((s - a) + a) = Wrap(s)
  BY <1>7
<1>9. (s - w) % Modulus = (s - a) % Modulus
  <2>1. Modulus \in Nat \ {0} /\ w % Modulus = a % Modulus
    BY <1>6, Constants DEF Wrap, w
  <2> DEFINE k == s - w - a
  <2>2. k \in Int /\ w + k = s - a /\ a + k = s - w
    BY <1>7
  <2> HIDE DEF k
  <2>3. (w + k) % Modulus = (a + k) % Modulus
    BY <1>7, <2>1, <2>2, ModShift
  <2> QED BY <2>2, <2>3
<1> QED BY <1>2, <1>5, <1>9 DEF Wrap, w

LEMMA WrapSmall == \A x \in Counter : Wrap(x) = x
<1> SUFFICES ASSUME NEW x \in Counter PROVE Wrap(x) = x
  OBVIOUS
<1>1. Modulus \in Nat \ {0} /\ x \in 0..Modulus-1
  BY Constants DEF Counter
<1> QED BY <1>1, ModIdentity DEF Wrap

-----------------------------------------------------------------------------
(* Sums of per-CPU counters.                                               *)

\* The counter of CPU p changes by d, and a counter of rank j does.
Moved(f, g, p, d) == g[p] = Wrap(f[p] + d) /\ \A x \in CPUs \ {p} : g[x] = f[x]

Counters == [CPUs -> [0..1 -> Counter]]

Bumped(f, g, p, j, d) == g = [f EXCEPT ![p][j] = Wrap(@ + d)]

LEMMA SumStep ==
    ASSUME NEW f \in [CPUs -> Counter], NEW g, NEW T \in SUBSET CPUs, NEW k \in Int, NEW p \in CPUs,
           NEW d \in Int, Moved(f, g, p, d)
    PROVE  /\ Sum(f, T) \in Int /\ Sum(g, T) \in Int
           /\ p \notin T => Sum(g, T) = Sum(f, T)
           /\ p \in T => Wrap(Sum(g, T) + k) = Wrap((Sum(f, T) + k) + d)
<1>0. g[p] = Wrap(f[p] + d) /\ \A x \in CPUs \ {p} : g[x] = f[x]
  BY DEF Moved
<1>1. IsFiniteSet(T) /\ \A x \in T : f[x] \in Int
  BY Constants, FS_Subset
<1>2. Wrap(f[p] + d) \in Int /\ f[p] \in Int
  <2>1. f[p] \in Counter
    OBVIOUS
  <2>2. f[p] \in Int
    BY <2>1, Constants
  <2>3. f[p] + d \in Int
    BY <2>2
  <2> QED BY <2>2, <2>3, Constants
<1>3. \A x \in T : g[x] \in Int
  BY <1>0, <1>1, <1>2
<1>4. Sum(f, T) \in Int /\ Sum(g, T) \in Int
  BY <1>1, <1>3, SumType
<1>5. ASSUME p \notin T PROVE Sum(g, T) = Sum(f, T)
  <2>1. \A x \in T : f[x] \in Int /\ g[x] = f[x]
    BY <1>0, <1>1, <1>5
  <2> QED BY <1>1, <2>1, SumSame
<1>6. ASSUME p \in T PROVE Wrap(Sum(g, T) + k) = Wrap((Sum(f, T) + k) + d)
  <2>1. g[p] = Wrap(f[p] + d) /\ \A x \in T \ {p} : g[x] = f[x]
    BY <1>0
  <2>2. Sum(g, T) = Sum(f, T) + g[p] - f[p]
    <3>1. g[p] \in Int
      BY <1>2, <2>1
    <3> QED BY <1>1, <1>6, <2>1, <3>1, SumUpdate
  <2> DEFINE s == Sum(f, T)
             a == f[p]
             w == Wrap(a + d)
  <2>3. s \in Int /\ a \in Int /\ w \in Int
    BY <1>2, <1>4
  <2>4. Sum(g, T) = s + w - a
    BY <2>1, <2>2
  <2>5. Wrap((s + k) + w - a) = Wrap((s + k) + d)
    <3> HIDE DEF s, a
    <3>1. s + k \in Int
      BY <2>3
    <3> QED BY <2>3, <3>1, WrapCarry
  <2>6. (s + w - a) + k = (s + k) + w - a
    <3> HIDE DEF s, a, w
    <3> QED BY <2>3
  <2> QED BY <2>4, <2>5, <2>6
<1> QED BY <1>4, <1>5, <1>6

\* The next CPU is read.
LEMMA SumNext ==
    ASSUME NEW f \in [CPUs -> Counter], NEW a \in CPUs
    PROVE  /\ Sum(f, 0 .. a) = Sum(f, 0 .. a - 1) + f[a]
           /\ Sum(f, a .. NCPU - 1) = Sum(f, (a + 1) .. NCPU - 1) + f[a]
           /\ Sum(f, 0 .. 0 - 1) = 0 /\ Sum(f, 0 .. a - 1) \in Int
           /\ Sum(f, a .. NCPU - 1) \in Int /\ Sum(f, (a + 1) .. NCPU - 1) \in Int
           /\ a = NCPU - 1 => Sum(f, 0 .. a) = Sum(f, CPUs) /\ Sum(f, (a + 1) .. NCPU - 1) = 0
<1>1. a \in Int /\ a >= 0 /\ a < NCPU
  BY Constants DEF CPUs
<1>2. ASSUME NEW T \in SUBSET CPUs
      PROVE  IsFiniteSet(T) /\ (\A x \in T : f[x] \in Int) /\ Sum(f, T) \in Int
  <2>1. IsFiniteSet(T) /\ \A x \in T : f[x] \in Int
    BY <1>2, Constants, FS_Subset
  <2> QED BY <2>1, SumType
<1>3. /\ 0 .. a \in SUBSET CPUs /\ 0 .. a - 1 \in SUBSET CPUs
      /\ a .. NCPU - 1 \in SUBSET CPUs /\ (a + 1) .. NCPU - 1 \in SUBSET CPUs
      /\ a \in 0 .. a /\ a \in a .. NCPU - 1
      /\ (0 .. a) \ {a} = 0 .. a - 1 /\ (a .. NCPU - 1) \ {a} = (a + 1) .. NCPU - 1
      /\ 0 .. 0 - 1 = {} /\ {} \in SUBSET CPUs
  BY <1>1, Constants DEF CPUs
<1>4. Sum(f, 0 .. a) = f[a] + Sum(f, 0 .. a - 1)
  BY <1>2, <1>3, SumRemove, SMTT(30)
<1>5. Sum(f, a .. NCPU - 1) = f[a] + Sum(f, (a + 1) .. NCPU - 1)
  <2> DEFINE T == a .. NCPU - 1
  <2>1. IsFiniteSet(T) /\ (\A x \in T : f[x] \in Int) /\ a \in T
    BY <1>2, <1>3
  <2>2. Sum(f, T) = f[a] + Sum(f, T \ {a})
    <3> HIDE DEF T
    <3> QED BY <2>1, SumRemove
  <2> QED BY <1>3, <2>2
<1>6. Sum(f, {}) = 0
  BY <1>2, <1>3, SumZero
<1>7. f[a] \in Int /\ Sum(f, 0 .. a - 1) \in Int /\ Sum(f, (a + 1) .. NCPU - 1) \in Int
      /\ Sum(f, a .. NCPU - 1) \in Int
  BY <1>2, <1>3, Constants
<1>8. a = NCPU - 1 => 0 .. a = CPUs /\ (a + 1) .. NCPU - 1 = {}
  BY <1>1, Constants DEF CPUs
<1> QED BY <1>3, <1>4, <1>5, <1>6, <1>7, <1>8

-----------------------------------------------------------------------------
(* Readers.                                                                *)

\* One reader moves between sets of readers.
LEMMA SetMove ==
    ASSUME NEW S \in SUBSET Readers, NEW T \in SUBSET Readers, NEW r \in Readers,
           \A q \in Readers \ {r} : q \in T <=> q \in S
    PROVE  /\ Cardinality(S) \in 0 .. Cardinality(Readers)
           /\ Cardinality(T) \in 0 .. Cardinality(Readers)
           /\ r \in S /\ r \notin T => Cardinality(T) = Cardinality(S) - 1
           /\ r \notin S /\ r \in T => Cardinality(T) = Cardinality(S) + 1
           /\ (r \in S <=> r \in T) => T = S
<1>1. /\ IsFiniteSet(S) /\ Cardinality(S) \in Nat /\ Cardinality(S) <= Cardinality(Readers)
      /\ IsFiniteSet(T) /\ Cardinality(T) \in Nat /\ Cardinality(T) <= Cardinality(Readers)
  BY Constants, FS_Subset, FS_CardinalityType
<1>2. r \in S /\ r \notin T => T = S \ {r}
  OBVIOUS
<1>3. r \notin S /\ r \in T => T = S \cup {r}
  OBVIOUS
<1>4. r \in S /\ r \notin T => Cardinality(T) = Cardinality(S) - 1
  BY <1>1, <1>2, FS_RemoveElement
<1>5. r \notin S /\ r \in T => Cardinality(T) = Cardinality(S) + 1
  BY <1>1, <1>3, FS_AddElement
<1> QED BY <1>1, <1>4, <1>5, Constants

\* One reader changes one counter.
LEMMA RankMove ==
    ASSUME NEW f \in Counters, NEW g, NEW p \in CPUs, NEW j \in 0..1, NEW i \in 0..1,
           NEW d \in Int, Bumped(f, g, p, j, d)
    PROVE  /\ g \in Counters
           /\ Rank(f, i) \in [CPUs -> Counter] /\ Rank(g, i) \in [CPUs -> Counter]
           /\ i = j => Moved(Rank(f, i), Rank(g, i), p, d)
           /\ i # j => Rank(g, i) = Rank(f, i)
<1>1. f[p] \in [0..1 -> Counter] /\ f[p][j] \in Counter
  BY DEF Counters
<1>2. f[p][j] \in Int
  BY <1>1, Constants
<1>3. Wrap(f[p][j] + d) \in Counter
  <2>1. f[p][j] + d \in Int
    BY <1>2
  <2> QED BY <2>1, Constants
<1>4. g \in Counters
  BY <1>1, <1>3 DEF Bumped, Counters
<1>5. Rank(f, i) \in [CPUs -> Counter] /\ Rank(g, i) \in [CPUs -> Counter]
  BY <1>4 DEF Counters, Rank
<1>6. i = j => Rank(g, i)[p] = Wrap(Rank(f, i)[p] + d)
  BY <1>1 DEF Counters, Rank, Bumped
<1>7. \A x \in CPUs \ {p} : Rank(g, i)[x] = Rank(f, i)[x]
  BY DEF Counters, Rank, Bumped
<1>8. i # j => Rank(g, i) = Rank(f, i)
  BY <1>1 DEF Counters, Rank, Bumped
<1> QED BY <1>4, <1>5, <1>6, <1>7, <1>8 DEF Moved

\* What that does to the partial sums of a rank.
Shifted(f, g, p, j, d) ==
    \A i \in 0..1, T \in SUBSET CPUs, k \in Int :
        /\ Part(f, i, T, k) \in Counter /\ Part(g, i, T, k) \in Counter
        /\ i # j \/ p \notin T => Part(g, i, T, k) = Part(f, i, T, k)
        /\ i = j /\ p \in T /\ Part(f, i, T, k) + d \in Counter =>
            Part(g, i, T, k) = Part(f, i, T, k) + d

LEMMA RankStep ==
    ASSUME NEW f \in Counters, NEW g, NEW p \in CPUs, NEW j \in 0..1,
           NEW d \in Int, Bumped(f, g, p, j, d)
    PROVE  g \in Counters /\ Shifted(f, g, p, j, d)
<1>0. g \in Counters
  <2>1. ASSUME NEW i \in 0..1 PROVE g \in Counters
    BY RankMove
  <2> QED BY <2>1
<1> SUFFICES ASSUME NEW i \in 0..1, NEW T \in SUBSET CPUs, NEW k \in Int
    PROVE  /\ Part(f, i, T, k) \in Counter /\ Part(g, i, T, k) \in Counter
           /\ i # j \/ p \notin T => Part(g, i, T, k) = Part(f, i, T, k)
           /\ i = j /\ p \in T /\ Part(f, i, T, k) + d \in Counter =>
                Part(g, i, T, k) = Part(f, i, T, k) + d
  BY <1>0 DEF Shifted
<1> DEFINE a == Rank(f, i)
           b == Rank(g, i)
<1>1. /\ a \in [CPUs -> Counter] /\ b \in [CPUs -> Counter]
      /\ i = j => Moved(a, b, p, d)
      /\ i # j => b = a
  BY RankMove
<1> HIDE DEF a, b
<1>2. Sum(a, T) \in Int
  <2>1. IsFiniteSet(T) /\ \A x \in T : a[x] \in Int
    BY <1>1, Constants, FS_Subset
  <2> QED BY <2>1, SumType
<1>3. ASSUME i = j
      PROVE  /\ Sum(b, T) \in Int
             /\ p \notin T => Sum(b, T) = Sum(a, T)
             /\ p \in T => Wrap(Sum(b, T) + k) = Wrap((Sum(a, T) + k) + d)
  BY <1>1, <1>3, SumStep
<1> DEFINE v == Sum(a, T) + k
           w == Sum(b, T) + k
<1>4. v \in Int /\ w \in Int
  BY <1>1, <1>2, <1>3
<1>5. Wrap(v) \in Counter /\ Wrap(w) \in Counter
  <2> HIDE DEF v, w
  <2> QED BY <1>4, Constants
<1>6. i # j \/ p \notin T => w = v
  BY <1>1, <1>3
<1>7. ASSUME i = j, p \in T, Wrap(v) + d \in Counter PROVE Wrap(w) = Wrap(v) + d
  <2>1. Wrap(w) = Wrap(v + d)
    BY <1>3, <1>7
  <2> HIDE DEF v, w
  <2>2. Wrap(v + d) = Wrap(v) + d
    BY <1>4, <1>7, WrapCount
  <2> QED BY <2>1, <2>2
<1> QED BY <1>5, <1>6, <1>7 DEF a, b, Part

LEMMA PartType ==
    ASSUME NEW f \in Counters, NEW i \in 0..1, NEW T \in SUBSET CPUs, NEW k \in Int
    PROVE  /\ Rank(f, i) \in [CPUs -> Counter] /\ Sum(Rank(f, i), T) \in Int
           /\ Part(f, i, T, k) \in Counter
<1>1. Rank(f, i) \in [CPUs -> Counter]
  BY DEF Counters, Rank
<1>2. IsFiniteSet(T) /\ \A p \in T : Rank(f, i)[p] \in Int
  BY <1>1, Constants, FS_Subset
<1>3. Sum(Rank(f, i), T) \in Int
  BY <1>2, SumType
<1>4. Sum(Rank(f, i), T) + k \in Int
  BY <1>3
<1> QED BY <1>1, <1>3, <1>4, Constants DEF Part

LEMMA ReaderType ==
    ASSUME TypeOK, NEW r \in Readers
    PROVE  /\ reader[r].pc \in {"out", "index", "locking", "in"}
           /\ reader[r].idx \in 0..1 /\ reader[r].cpu \in CPUs
BY DEF TypeOK

ReaderState == [pc : {"out", "index", "locking", "in"}, idx : 0..1, cpu : CPUs]

\* The steps of one reader, field by field.
LEMMA ReaderMoves ==
    ASSUME Types, NEW r \in Readers, ReaderStep(r)
    PROVE  /\ UNCHANGED updateSide
           /\ reader' \in [Readers -> ReaderState]
           /\ \A q \in Readers \ {r} : reader'[q] = reader[q]
           /\ \/ /\ reader[r].pc = "out" /\ reader'[r].pc = "index" /\ reader'[r].idx = completed
                 /\ UNCHANGED <<c, seq, waitfor>> /\ ~freed
              \/ /\ reader[r].pc = "index" /\ reader'[r].pc = "locking"
                 /\ reader'[r].idx = reader[r].idx /\ UNCHANGED <<seq, waitfor>>
                 /\ \E p \in CPUs : Bumped(c, c', p, reader[r].idx, 1)
              \/ /\ reader[r].pc = "locking" /\ reader'[r].pc = "in"
                 /\ reader'[r].idx = reader[r].idx /\ UNCHANGED <<c, waitfor>>
                 /\ Bumped(seq, seq', reader[r].cpu, reader[r].idx, 1)
              \/ /\ reader[r].pc = "in" /\ reader'[r].pc = "out" /\ UNCHANGED seq
                 /\ waitfor' = [u \in Updaters |-> waitfor[u] \ {r}]
                 /\ \E p \in CPUs : Bumped(c, c', p, reader[r].idx, -1)
<1>0. /\ TypeOK /\ reader \in [Readers -> ReaderState] /\ completed \in 0..1 /\ 0 \in CPUs
  BY Constants DEF Types, TypeOK, ReaderState
<1>f. reader[r].idx \in 0..1 /\ reader[r].cpu \in CPUs
  BY <1>0, ReaderType
<1>1. CASE ReadIndex(r)
  <2>1. reader' = [reader EXCEPT ![r].pc = "index", ![r].idx = completed]
    BY <1>1 DEF ReadIndex
  <2>2. /\ reader' \in [Readers -> ReaderState] /\ \A q \in Readers \ {r} : reader'[q] = reader[q]
        /\ reader'[r].pc = "index" /\ reader'[r].idx = completed
    BY <1>0, <1>f, <2>1 DEF ReaderState
  <2> QED BY <1>1, <2>2 DEF ReadIndex
<1>2. ASSUME NEW p \in CPUs, IncrementC(r, p)
      PROVE  /\ reader' \in [Readers -> ReaderState] /\ \A q \in Readers \ {r} : reader'[q] = reader[q]
             /\ reader'[r].pc = "locking" /\ reader'[r].idx = reader[r].idx
             /\ reader[r].pc = "index" /\ UNCHANGED <<updateSide, seq, waitfor>>
             /\ Bumped(c, c', p, reader[r].idx, 1)
  <2>1. reader' = [reader EXCEPT ![r].pc = "locking", ![r].cpu = p]
    BY <1>2 DEF IncrementC
  <2>2. /\ reader' \in [Readers -> ReaderState] /\ \A q \in Readers \ {r} : reader'[q] = reader[q]
        /\ reader'[r].pc = "locking" /\ reader'[r].idx = reader[r].idx
    BY <1>0, <1>f, <2>1 DEF ReaderState
  <2> QED BY <1>2, <2>2 DEF IncrementC, Bumped
<1>3. CASE IncrementSeq(r)
  <2>1. reader' = [reader EXCEPT ![r].pc = "in", ![r].cpu = 0]
    BY <1>3 DEF IncrementSeq
  <2>2. /\ reader' \in [Readers -> ReaderState] /\ \A q \in Readers \ {r} : reader'[q] = reader[q]
        /\ reader'[r].pc = "in" /\ reader'[r].idx = reader[r].idx
    BY <1>0, <1>f, <2>1 DEF ReaderState
  <2> QED BY <1>3, <2>2 DEF IncrementSeq, Bumped
<1>4. ASSUME NEW p \in CPUs, ReadUnlock(r, p)
      PROVE  /\ reader' \in [Readers -> ReaderState] /\ \A q \in Readers \ {r} : reader'[q] = reader[q]
             /\ reader'[r].pc = "out" /\ reader[r].pc = "in" /\ UNCHANGED <<updateSide, seq>>
             /\ waitfor' = [u \in Updaters |-> waitfor[u] \ {r}]
             /\ Bumped(c, c', p, reader[r].idx, -1)
  <2>1. Outside \in ReaderState /\ Outside.pc = "out" /\ reader' = [reader EXCEPT ![r] = Outside]
    BY <1>0, <1>4 DEF ReadUnlock, Outside, ReaderState
  <2>2. /\ reader' \in [Readers -> ReaderState] /\ \A q \in Readers \ {r} : reader'[q] = reader[q]
        /\ reader'[r].pc = "out"
    BY <1>0, <2>1
  <2>3. c[p][reader[r].idx] \in Int
    <3>1. c[p][reader[r].idx] \in Counter
      BY <1>0, <1>f DEF TypeOK
    <3> QED BY <3>1, Constants
  <2>4. c[p][reader[r].idx] - 1 = c[p][reader[r].idx] + (-1)
    BY <2>3
  <2>5. c' = [c EXCEPT ![p][reader[r].idx] = Wrap(@ - 1)]
    BY <1>4 DEF ReadUnlock
  <2>6. Bumped(c, c', p, reader[r].idx, -1)
    BY <2>4, <2>5 DEF Bumped
  <2> QED BY <1>4, <2>2, <2>6 DEF ReadUnlock
<1>5. CASE \E p \in CPUs : IncrementC(r, p)
  <2>1. PICK p \in CPUs : IncrementC(r, p)
    BY <1>5
  <2> QED BY <1>0, <1>2, <2>1
<1>6. CASE \E p \in CPUs : ReadUnlock(r, p)
  <2>1. PICK p \in CPUs : ReadUnlock(r, p)
    BY <1>6
  <2> QED BY <1>0, <1>4, <2>1
<1> QED BY <1>1, <1>3, <1>5, <1>6 DEF ReaderStep

\* Where one reader is counted.
LEMMA RankSets ==
    ASSUME Types, NEW r \in Readers, ReaderStep(r), NEW i, NEW S
    PROVE  /\ InRank(i, S) \in SUBSET Readers /\ InRank(i, S)' \in SUBSET Readers
           /\ \A q \in Readers \ {r} : q \in InRank(i, S)' <=> q \in InRank(i, S)
           /\ r \in InRank(i, S) <=> reader[r].idx = i /\ reader[r].pc \in S
           /\ r \in InRank(i, S)' <=> reader'[r].idx = i /\ reader'[r].pc \in S
<1>1. \A q \in Readers \ {r} : reader'[q] = reader[q]
  BY ReaderMoves
<1> QED BY <1>1 DEF InRank

LEMMA RankCount ==
    ASSUME Types, NEW r \in Readers, ReaderStep(r), NEW i, NEW S
    PROVE  /\ Cardinality(InRank(i, S)) \in 0 .. Cardinality(Readers)
           /\ Cardinality(InRank(i, S)') \in 0 .. Cardinality(Readers)
           /\ (reader[r].idx = i /\ reader[r].pc \in S <=> reader'[r].idx = i /\ reader'[r].pc \in S) =>
                Cardinality(InRank(i, S)') = Cardinality(InRank(i, S))
           /\ reader[r].idx = i /\ reader[r].pc \in S /\ ~(reader'[r].idx = i /\ reader'[r].pc \in S) =>
                Cardinality(InRank(i, S)') = Cardinality(InRank(i, S)) - 1
           /\ ~(reader[r].idx = i /\ reader[r].pc \in S) /\ reader'[r].idx = i /\ reader'[r].pc \in S =>
                Cardinality(InRank(i, S)') = Cardinality(InRank(i, S)) + 1
<1> DEFINE A == InRank(i, S)
           B == InRank(i, S)'
<1>1. /\ A \in SUBSET Readers /\ B \in SUBSET Readers
      /\ \A q \in Readers \ {r} : q \in B <=> q \in A
      /\ r \in A <=> reader[r].idx = i /\ reader[r].pc \in S
      /\ r \in B <=> reader'[r].idx = i /\ reader'[r].pc \in S
  BY RankSets
<1> HIDE DEF A, B
<1>2. /\ Cardinality(A) \in 0 .. Cardinality(Readers)
      /\ Cardinality(B) \in 0 .. Cardinality(Readers)
      /\ r \in A /\ r \notin B => Cardinality(B) = Cardinality(A) - 1
      /\ r \notin A /\ r \in B => Cardinality(B) = Cardinality(A) + 1
      /\ (r \in A <=> r \in B) => B = A
  BY <1>1, SetMove
<1> QED BY <1>1, <1>2 DEF A, B

LEMMA CountedDef == TypeOK => (ReadersCounted <=> Counted)
<1>1. ASSUME NEW i
      PROVE {q \in Readers : reader[q].pc \in {"locking", "in"} /\ reader[q].idx = i}
                = InRank(i, {"locking", "in"})
  BY DEF InRank
<1>2. ASSUME TypeOK, NEW i \in 0..1 PROVE RankSum(c, i) = Part(c, i, CPUs, 0)
  <2>1. Rank(c, i) \in [CPUs -> Counter]
    BY <1>2 DEF TypeOK, Rank
  <2>2. Sum(Rank(c, i), CPUs) + 0 = Sum(Rank(c, i), CPUs)
    <3>1. \A p \in CPUs : Rank(c, i)[p] \in Int
      BY <2>1, Constants
    <3>2. Sum(Rank(c, i), CPUs) \in Int
      BY <3>1, Constants, SumType
    <3> QED BY <3>2
  <2>3. RankSum(c, i) = Wrap(Sum(Rank(c, i), CPUs))
    BY DEF RankSum, Sum
  <2> QED BY <2>2, <2>3 DEF Part
<1> QED BY <1>1, <1>2 DEF ReadersCounted, Counted

LEMMA CountedReader ==
    ASSUME Types, Counted, NEW r \in Readers, ReaderStep(r)
    PROVE  Counted'
<1>0. TypeOK
  BY DEF Types
<1> SUFFICES ASSUME NEW i \in 0..1
             PROVE  Part(c', i, CPUs, 0) = Cardinality(InRank(i, {"locking", "in"})')
  BY DEF Counted, Part, Wrap, Rank
<1> DEFINE A == InRank(i, {"locking", "in"})
           B == InRank(i, {"locking", "in"})'
           x == Part(c, i, CPUs, 0)
<1>1. x = Cardinality(A)
  BY DEF Counted
<1>2. /\ A \in SUBSET Readers /\ B \in SUBSET Readers
      /\ \A q \in Readers \ {r} : q \in B <=> q \in A
      /\ r \in A <=> reader[r].idx = i /\ reader[r].pc \in {"locking", "in"}
      /\ r \in B <=> reader'[r].idx = i /\ reader'[r].pc \in {"locking", "in"}
  BY RankSets
<1> HIDE DEF A, B
<1>3. /\ Cardinality(A) \in 0 .. Cardinality(Readers)
      /\ Cardinality(B) \in 0 .. Cardinality(Readers)
      /\ r \in A /\ r \notin B => Cardinality(B) = Cardinality(A) - 1
      /\ r \notin A /\ r \in B => Cardinality(B) = Cardinality(A) + 1
      /\ (r \in A <=> r \in B) => B = A
  BY <1>2, SetMove
<1>f. c \in [CPUs -> [0..1 -> Counter]] /\ reader[r].idx \in 0..1 /\ CPUs \in SUBSET CPUs
      /\ 1 \in Int /\ -1 \in Int /\ 0 \in Int
  BY <1>0, ReaderType DEF TypeOK
<1>4. ASSUME UNCHANGED c, r \in A <=> r \in B
      PROVE  Part(c', i, CPUs, 0) = Cardinality(B)
  <2>1. B = A
    BY <1>3, <1>4
  <2> QED BY <1>1, <1>4, <2>1
<1>5. ASSUME NEW p \in CPUs, NEW d \in {1, -1}, Bumped(c, c', p, reader[r].idx, d),
             r \in A <=> reader[r].idx = i /\ d = -1, r \in B <=> reader[r].idx = i /\ d = 1
      PROVE  Part(c', i, CPUs, 0) = Cardinality(B)
  <2> DEFINE y == Part(c', i, CPUs, 0)
             j == reader[r].idx
  <2>0. d \in Int /\ j \in 0..1
    BY <1>f
  <2>1. /\ x \in Counter /\ y \in Counter
        /\ i # j => y = x
        /\ i = j /\ x + d \in Counter => y = x + d
    <3> HIDE DEF j
    <3>1. Bumped(c, c', p, j, d)
      BY <1>5 DEF j
    <3>2. CPUs \in SUBSET CPUs /\ c \in Counters /\ 0 \in Int
      BY <1>f DEF Counters
    <3>3. Shifted(c, c', p, j, d)
      BY <2>0, <3>1, <3>2, RankStep
    <3> QED BY <3>2, <3>3 DEF Shifted
  <2>2. CASE i # j
    <3>1. B = A
      BY <1>3, <1>5, <2>2
    <3> QED BY <1>1, <2>1, <2>2, <3>1
  <2>3. CASE i = j
    <3> HIDE DEF x, y
    <3>1. Cardinality(B) = Cardinality(A) + d
      BY <1>3, <1>5, <2>3
    <3>2. x + d \in Counter
      BY <1>1, <1>3, <3>1, Constants DEF Counter
    <3> QED BY <1>1, <2>1, <2>3, <3>1, <3>2 DEF y
  <2> QED BY <2>2, <2>3
<1>6. CASE reader[r].pc = "out" /\ reader'[r].pc = "index" /\ UNCHANGED c
  BY <1>2, <1>4, <1>6 DEF B
<1>7. CASE /\ reader[r].pc = "index" /\ reader'[r].pc = "locking" /\ reader'[r].idx = reader[r].idx
           /\ \E p \in CPUs : Bumped(c, c', p, reader[r].idx, 1)
  <2>1. PICK p \in CPUs : Bumped(c, c', p, reader[r].idx, 1)
    BY <1>7
  <2>2. (r \in A <=> reader[r].idx = i /\ 1 = -1) /\ (r \in B <=> reader[r].idx = i /\ 1 = 1)
    BY <1>2, <1>7
  <2> QED BY <1>5, <2>1, <2>2 DEF B
<1>8. CASE /\ reader[r].pc = "locking" /\ reader'[r].pc = "in" /\ reader'[r].idx = reader[r].idx
           /\ UNCHANGED c
  BY <1>2, <1>4, <1>8 DEF B
<1>9. CASE /\ reader[r].pc = "in" /\ reader'[r].pc = "out"
           /\ \E p \in CPUs : Bumped(c, c', p, reader[r].idx, -1)
  <2>1. PICK p \in CPUs : Bumped(c, c', p, reader[r].idx, -1)
    BY <1>9
  <2>2. (r \in A <=> reader[r].idx = i /\ -1 = -1) /\ (r \in B <=> reader[r].idx = i /\ -1 = 1)
    BY <1>2, <1>9
  <2> QED BY <1>5, <2>1, <2>2 DEF B
<1> QED BY <1>6, <1>7, <1>8, <1>9, ReaderMoves

LEMMA ClearedReader ==
    ASSUME Types, WaitInv, NEW r \in Readers, ReaderStep(r), NEW i, Cleared(i)
    PROVE  Cleared(i)'
<1>0. /\ \A q \in Readers \ {r} : reader'[q] = reader[q]
      /\ UNCHANGED <<batch_check0, batch_check1>> /\ waitfor \in [Updaters -> SUBSET Readers]
  BY ReaderMoves DEF updateSide, batches, Types, TypeOK
<1>1. ASSUME NEW u \in Updaters, NEW q \in waitfor'[u]
      PROVE  q \in waitfor[u] /\ reader'[q].idx = reader[q].idx
  <2>1. CASE UNCHANGED waitfor /\ reader[r].pc # "in"
    <3>1. q \in waitfor[u] /\ reader[q].pc = "in" /\ q \in Readers
      BY <1>0, <1>1, <2>1 DEF WaitInv
    <3> QED BY <1>0, <2>1, <3>1
  <2>2. CASE waitfor' = [v \in Updaters |-> waitfor[v] \ {r}]
    BY <1>0, <1>1, <2>2
  <2> QED BY <2>1, <2>2, ReaderMoves
<1> QED BY <1>0, <1>1 DEF Cleared, InList

\* The terms of CheckOK.
LEMMA CheckTypes ==
    ASSUME NEW x \in ExecState
    PROVE  /\ x.idx \in 0..1 /\ x.pass \in {"seq", "active", "validate"}
           /\ x.at \in CPUs /\ x.sum \in Counter /\ x.seq \in Counter
           /\ Window(x) \in SUBSET CPUs /\ x.at .. NCPU - 1 \in SUBSET CPUs
           /\ x.pass = "active" => Window(x) = CPUs
           /\ Offset(x) \in Int /\ x.sum \in Int
<1>1. /\ x.idx \in 0..1 /\ x.pass \in {"seq", "active", "validate"}
      /\ x.at \in CPUs /\ x.sum \in Counter /\ x.seq \in Counter
  BY DEF ExecState
<1>2. x.at \in Int /\ x.at >= 0 /\ x.at < NCPU /\ x.sum \in Int /\ x.seq \in Int
  <2>1. x.sum \in Int /\ x.seq \in Int
    BY <1>1, Constants
  <2>2. \A a \in CPUs : a \in Int /\ a >= 0 /\ a < NCPU
    BY Constants DEF CPUs
  <2> QED BY <1>1, <2>1, <2>2
<1>3. 0 .. x.at - 1 \in SUBSET CPUs /\ x.at .. NCPU - 1 \in SUBSET CPUs
  BY <1>2, Constants DEF CPUs
<1>4. Window(x) \in SUBSET CPUs /\ (x.pass = "active" => Window(x) = CPUs)
  BY <1>1, <1>3 DEF Window
<1>5. Offset(x) \in Int
  BY <1>1, <1>2 DEF Offset
<1> QED BY <1>1, <1>2, <1>3, <1>4, <1>5

\* A reader comes or goes while a rank is being summed.
LEMMA CheckReader ==
    ASSUME Types, WaitInv, NEW r \in Readers, ReaderStep(r), NEW x \in ExecState,
           x.idx = 1 - completed, CheckOK(x)
    PROVE  CheckOK(x)'
<1> DEFINE i == x.idx
           N == Cardinality(Readers)
           l == Cardinality(InRank(i, {"index", "locking"}))
           n == Cardinality(InRank(i, {"in"}))
           m == Cardinality(InRank(i, {"index"}))
           g == Gap(x)
           t == Total(x)
<1>1. /\ g + l <= N
      /\ x.pass = "active" /\ g = 0 => n <= t /\ t + m <= N
      /\ x.pass = "validate" /\ g = 0 => Cleared(i)
  BY DEF CheckOK
<1>2. Cleared(i) => Cleared(i)'
  BY ClearedReader
<1> SUFFICES /\ g' + l' <= N
             /\ x.pass = "active" /\ g' = 0 => n' <= t' /\ t' + m' <= N
             /\ x.pass = "validate" /\ g' = 0 => Cleared(i)'
  BY DEF CheckOK
<1>f. /\ completed \in 0..1 /\ c \in Counters /\ seq \in Counters
      /\ reader[r].idx \in 0..1 /\ reader[r].cpu \in CPUs
  BY ReaderType DEF Types, TypeOK, Counters
<1>3. \A y \in Counter : y \in Int /\ y >= 0 /\ y < Modulus
  BY Constants DEF Counter
<1>4. /\ i \in 0..1 /\ Window(x) \in SUBSET CPUs /\ x.at .. NCPU - 1 \in SUBSET CPUs
      /\ x.pass = "active" => Window(x) = CPUs
      /\ Offset(x) \in Int /\ x.sum \in Int
  BY CheckTypes
<1>5. N \in Nat /\ N < Modulus /\ Modulus \in Nat /\ \A y \in 0..N : y \in Counter
  BY Constants DEF Counter
<1>6. /\ l \in 0..N /\ l' \in 0..N /\ n \in 0..N /\ n' \in 0..N /\ m \in 0..N /\ m' \in 0..N
  BY RankCount
<1>7. CASE reader[r].pc = "out" /\ reader'[r].pc = "index" /\ reader'[r].idx = completed
           /\ UNCHANGED <<c, seq>>
  <2>1. l' = l /\ n' = n /\ m' = m
    BY <1>7, <1>f, RankCount
  <2>2. g' = g /\ t' = t
    BY <1>7 DEF Gap, Total, Part, Wrap, Rank
  <2> QED BY <1>1, <1>2, <2>1, <2>2
<1>t. g \in Counter /\ t \in Counter
  BY <1>f, <1>4, PartType DEF Gap, Total
<1>8. CASE /\ reader[r].pc = "index" /\ reader'[r].pc = "locking" /\ reader'[r].idx = reader[r].idx
           /\ UNCHANGED seq /\ \E p \in CPUs : Bumped(c, c', p, reader[r].idx, 1)
  <2>1. PICK p \in CPUs : Bumped(c, c', p, reader[r].idx, 1)
    BY <1>8
  <2>2. Shifted(c, c', p, reader[r].idx, 1)
    <3>1. 1 \in Int
      OBVIOUS
    <3> QED BY <1>f, <2>1, <3>1, RankStep
  <2>3. /\ t' \in Counter /\ (i # reader[r].idx => t' = t) /\ (t' = t \/ (t + 1 \in Counter => t' = t + 1))
    BY <1>f, <1>4, <2>2 DEF Shifted, Total
  <2>4. g' = g
    BY <1>8 DEF Gap, Part, Wrap, Rank
  <2>5. l' = l /\ n' = n /\ m' \in {m, m - 1} /\ (i = reader[r].idx => m' = m - 1)
    BY <1>8, RankCount
  <2>6. ASSUME t + m <= N PROVE t' + m' <= N /\ t' >= t
    BY <1>3, <1>5, <1>6, <1>t, <2>3, <2>5, <2>6
  <2> QED BY <1>1, <1>2, <2>4, <2>5, <2>6, <1>3, <1>6, <1>t, <2>3
<1>9. CASE /\ reader[r].pc = "locking" /\ reader'[r].pc = "in" /\ reader'[r].idx = reader[r].idx
           /\ UNCHANGED c /\ Bumped(seq, seq', reader[r].cpu, reader[r].idx, 1)
  <2>2. Shifted(seq, seq', reader[r].cpu, reader[r].idx, 1)
    <3>1. 1 \in Int /\ Bumped(seq, seq', reader[r].cpu, reader[r].idx, 1)
      BY <1>9
    <3> QED BY <1>f, <3>1, RankStep
  <2>3. /\ g' \in Counter /\ (i # reader[r].idx => g' = g)
        /\ (g' = g /\ (i = reader[r].idx => x.pass # "active"))
            \/ (i = reader[r].idx /\ (g + 1 \in Counter => g' = g + 1))
    BY <1>f, <1>4, <2>2 DEF Shifted, Gap
  <2>4. t' = t
    BY <1>9 DEF Total, Part, Wrap, Rank
  <2>5. /\ m' = m /\ (i = reader[r].idx => l' = l - 1) /\ (i # reader[r].idx => l' = l /\ n' = n)
    BY <1>9, RankCount
  <2>6. CASE i # reader[r].idx
    BY <1>1, <1>2, <2>3, <2>4, <2>5, <2>6
  <2>7. CASE g' = g /\ i = reader[r].idx /\ x.pass # "active"
    BY <1>1, <1>2, <1>3, <1>5, <1>6, <1>t, <2>5, <2>7
  <2>8. CASE i = reader[r].idx /\ (g + 1 \in Counter => g' = g + 1)
    <3>1. g + 1 \in Counter
      BY <1>1, <1>3, <1>5, <1>6, <1>t, <2>5, <2>8
    <3>2. g' = g + 1 /\ l' = l - 1
      BY <2>5, <2>8, <3>1
    <3>3. g' + l' <= N /\ g' # 0
      BY <1>1, <1>3, <1>5, <1>6, <1>t, <3>2
    <3> QED BY <3>3
  <2> QED BY <2>3, <2>6, <2>7, <2>8
<1>10. CASE /\ reader[r].pc = "in" /\ reader'[r].pc = "out" /\ UNCHANGED seq
            /\ \E p \in CPUs : Bumped(c, c', p, reader[r].idx, -1)
  <2>1. PICK p \in CPUs : Bumped(c, c', p, reader[r].idx, -1)
    BY <1>10
  <2>2. Shifted(c, c', p, reader[r].idx, -1)
    <3>1. -1 \in Int
      OBVIOUS
    <3> QED BY <1>f, <2>1, <3>1, RankStep
  <2>3. /\ t' \in Counter /\ (i # reader[r].idx => t' = t)
        /\ (t' = t \/ (t + (-1) \in Counter => t' = t + (-1)))
    BY <1>f, <1>4, <2>2 DEF Shifted, Total
  <2>4. g' = g
    BY <1>10 DEF Gap, Part, Wrap, Rank
  <2>5. l' = l /\ m' = m /\ n' \in {n, n - 1} /\ (i = reader[r].idx => n' = n - 1)
    BY <1>10, RankCount
  <2>6. ASSUME t + m <= N, n <= t PROVE t' + m' <= N /\ n' <= t'
    <3>1. i = reader[r].idx => t + (-1) \in Counter
      BY <1>3, <1>5, <1>6, <1>t, <2>5, <2>6 DEF Counter
    <3> QED BY <1>3, <1>5, <1>6, <1>t, <2>3, <2>5, <2>6, <3>1
  <2> QED BY <1>1, <1>2, <2>4, <2>5, <2>6
<1> QED BY <1>7, <1>8, <1>9, <1>10, ReaderMoves

LEMMA ReaderTypes ==
    ASSUME Types, NEW r \in Readers, ReaderStep(r)
    PROVE  Types'
<1>1. /\ completed \in 0..1 /\ {running, pending, freed} \subseteq BOOLEAN
      /\ {batch_queue, batch_check0, batch_check1, batch_done} \subseteq Seq(Updaters)
      /\ exec \in [Executors -> ExecState] /\ DOMAIN exec = Executors
      /\ use \in [Updaters -> {"none", "call", "sync"}]
      /\ completion \in [Updaters -> BOOLEAN] /\ sections \in 0..MaxSections
      /\ waitfor \in [Updaters -> SUBSET Readers]
      /\ earlier \in [Updaters -> SUBSET Updaters] /\ c \in Counters /\ seq \in Counters
  BY DEF Types, TypeOK, Counters
<1>2. UNCHANGED updateSide /\ reader' \in [Readers -> ReaderState]
  BY ReaderMoves
<1>3. /\ UNCHANGED <<completed, running, pending, freed, exec, use, completion, earlier>>
      /\ UNCHANGED <<batch_queue, batch_check0, batch_check1, batch_done>>
  BY <1>2 DEF updateSide, batches
<1>4. waitfor' \in [Updaters -> SUBSET Readers]
  <2>1. CASE UNCHANGED waitfor
    BY <1>1, <2>1
  <2>2. CASE waitfor' = [u \in Updaters |-> waitfor[u] \ {r}]
    BY <1>1, <2>2
  <2> QED BY <2>1, <2>2, ReaderMoves
<1>5. reader[r].idx \in 0..1 /\ reader[r].cpu \in CPUs /\ 1 \in Int /\ -1 \in Int
  BY ReaderType DEF Types
<1>6. ASSUME NEW d \in Int, \E p \in CPUs : Bumped(c, c', p, reader[r].idx, d) PROVE c' \in Counters
  BY <1>1, <1>5, <1>6, RankStep
<1>7. ASSUME Bumped(seq, seq', reader[r].cpu, reader[r].idx, 1) PROVE seq' \in Counters
  BY <1>1, <1>5, <1>7, RankStep
<1>8. c' \in Counters
  <2>1. UNCHANGED c \/ (\E p \in CPUs : Bumped(c, c', p, reader[r].idx, 1))
                     \/ (\E p \in CPUs : Bumped(c, c', p, reader[r].idx, -1))
    BY ReaderMoves
  <2> QED BY <1>1, <1>5, <1>6, <2>1
<1>9. seq' \in Counters
  BY <1>1, <1>7, ReaderMoves
<1>10. sections' \in 0..MaxSections
  BY <1>1, SrcuAssumption DEF ReaderStep, ReadIndex, IncrementC, IncrementSeq, ReadUnlock
<1> QED BY <1>1, <1>2, <1>3, <1>4, <1>8, <1>9, <1>10 DEF Types, TypeOK, Counters, ReaderState

LEMMA ReaderInvStep ==
    ASSUME Inv, NEW r \in Readers, ReaderStep(r)
    PROVE  Inv'
<1>0. /\ Types /\ Counted /\ CallInv /\ OwnerInv /\ ListInv /\ OrderInv /\ WaitInv /\ CheckInv
      /\ FreedInv
  BY DEF Inv
<1>1. /\ UNCHANGED <<completed, running, pending, freed, exec, use, completion, earlier>>
      /\ UNCHANGED <<batch_queue, batch_check0, batch_check1, batch_done>>
  <2>1. UNCHANGED updateSide
    BY <1>0, ReaderMoves
  <2> QED BY <2>1 DEF updateSide, batches
<1>2. All' = All
  BY <1>1 DEF All
<1>3. Types' /\ Counted'
  BY <1>0, ReaderTypes, CountedReader
<1>4. CallInv' /\ OwnerInv' /\ OrderInv' /\ FreedInv'
  BY <1>0, <1>1, <1>2 DEF CallInv, OwnerInv, OrderInv, FreedInv, Processing, AllEmpty,
        Before
<1>5. ListInv'
  BY <1>0, <1>1, <1>2 DEF ListInv
<1>6. WaitInv'
  <2>0. /\ \A q \in Readers \ {r} : reader'[q] = reader[q]
        /\ waitfor \in [Updaters -> SUBSET Readers]
    BY <1>0, ReaderMoves DEF Types, TypeOK
  <2> SUFFICES ASSUME NEW u \in Updaters, NEW q \in waitfor'[u]
               PROVE  q \in waitfor[u] /\ reader'[q] = reader[q]
    BY <1>0, <1>1 DEF WaitInv
  <2>1. CASE UNCHANGED waitfor /\ reader[r].pc # "in"
    <3>1. q \in waitfor[u] /\ reader[q].pc = "in" /\ q \in Readers
      BY <1>0, <2>0, <2>1 DEF WaitInv
    <3> QED BY <2>0, <2>1, <3>1
  <2>2. CASE waitfor' = [v \in Updaters |-> waitfor[v] \ {r}]
    BY <2>0, <2>2
  <2> QED BY <1>0, <2>1, <2>2, ReaderMoves
<1>7. CheckInv'
  <2>1. ASSUME NEW e \in Executors, exec[e].pc = "check" PROVE CheckOK(exec[e])'
    <3>1. PICK x \in ExecState : x = exec[e]
      BY <1>0, <2>1 DEF Types
    <3>2. x.idx = 1 - completed /\ CheckOK(x)
      BY <1>0, <2>1, <3>1 DEF CheckInv
    <3>3. CheckOK(x)'
      BY <1>0, <3>2, CheckReader
    <3>4. exec'[e] = x
      BY <1>1, <3>1
    <3> QED BY <3>3, <3>4
  <2>2. ASSUME NEW e \in Executors, Cleared(exec[e].idx) PROVE Cleared(exec[e].idx)'
    <3>1. PICK i : i = exec[e].idx
      OBVIOUS
    <3>2. Cleared(i)'
      BY <1>0, <2>2, <3>1, ClearedReader
    <3> QED BY <1>1, <3>1, <3>2
  <2> QED BY <1>0, <1>1, <2>1, <2>2 DEF CheckInv
<1> QED BY <1>3, <1>4, <1>5, <1>6, <1>7 DEF Inv

-----------------------------------------------------------------------------
(* Steps of the processing owner that change nothing else.                 *)

\* Executor e goes on to state x, and nobody else does anything.
Goes(e, x) ==
    /\ exec' \in [Executors -> ExecState]
    /\ exec'[e] = x /\ \A f \in Executors \ {e} : exec'[f] = exec[f]

restOfState == <<readSide, completed, queueSide, batch_check0, batch_check1, batch_done>>

LEMMA RestOfState ==
    UNCHANGED restOfState =>
        /\ UNCHANGED <<c, seq, completed, running, batch_queue, batch_check0, batch_check1, batch_done>>
        /\ UNCHANGED <<pending, freed, reader, use, completion, sections, waitfor, earlier>>
        /\ All' = All
BY DEF restOfState, readSide, queueSide, All

\* Gap, Total and CheckOK depend on nothing else.
LEMMA CheckSame ==
    ASSUME UNCHANGED <<c, seq, reader, waitfor, batch_check0, batch_check1>>, NEW x
    PROVE  /\ CheckOK(x) => CheckOK(x)'
           /\ \A i : Cleared(i) => Cleared(i)'
<1>1. \A i : Cleared(i) => Cleared(i)'
  BY DEF Cleared, InList
<1>2. Gap(x)' = Gap(x) /\ Total(x)' = Total(x)
  BY DEF Gap, Total, Part, Rank, Wrap
<1>3. ASSUME NEW i, NEW S PROVE InRank(i, S)' = InRank(i, S)
  BY DEF InRank
<1> QED BY <1>1, <1>2, <1>3 DEF CheckOK

LEMMA OwnerGoesOn ==
    ASSUME Inv, NEW e \in Executors, NEW x \in ExecState, Goes(e, x), UNCHANGED restOfState,
           exec[e].pc \notin {"off", "wait"}, x.pc \notin {"off", "wait"},
           x.done = exec[e].done, x.done => x.pc \in {"reschedule", "recheck"},
           e = Work => x.pc # "harvest", e # Work => x.pc # "invoke",
           x.pc \in Advancing \cup {"harvest"} => exec[e].pc \in Advancing,
           x.pc \in {"check", "drained"} =>
                x.idx = 1 - completed /\ x.check \in {1, 2} /\ (batch_check0 # <<>> \/ batch_check1 # <<>>),
           x.pc = "check" => CheckOK(x), x.pc = "drained" => Cleared(x.idx)
    PROVE  Inv'
<1>0. /\ Types /\ Counted /\ CallInv /\ OwnerInv /\ ListInv /\ OrderInv /\ WaitInv /\ CheckInv
      /\ FreedInv
  BY DEF Inv
<1>1. /\ UNCHANGED <<c, seq, completed, running, batch_queue, batch_check0, batch_check1, batch_done>>
      /\ UNCHANGED <<pending, freed, reader, use, completion, sections, waitfor, earlier>>
      /\ All' = All
  BY RestOfState
<1>2. /\ exec' \in [Executors -> ExecState] /\ DOMAIN exec' = Executors
      /\ exec'[e] = x /\ \A f \in Executors \ {e} : exec'[f] = exec[f]
  BY <1>0 DEF Types, Goes
<1>3. Types'
  BY <1>0, <1>1, <1>2 DEF Types, TypeOK
<1>4. Counted' /\ FreedInv' /\ OrderInv' /\ WaitInv'
  <2>1. Counted'
    BY <1>0, <1>1 DEF Counted, Part, Wrap, Rank, InRank
  <2> QED BY <1>0, <1>1, <2>1 DEF FreedInv, AllEmpty, OrderInv, WaitInv, Before, InList
<1>5. CallInv'
  BY <1>0, <1>1, <1>2, Constants DEF CallInv
<1>6. OwnerInv'
  <2>1. Processing' = Processing
    BY <1>2 DEF Processing
  <2> QED BY <1>0, <1>1, <2>1 DEF OwnerInv, AllEmpty
<1>7. ListInv'
  BY <1>0, <1>1, <1>2, Constants DEF ListInv
<1>8. CheckInv'
  <2>1. CheckOK(x) => CheckOK(x)'
    BY <1>1, CheckSame
  <2>2. \A i : Cleared(i) => Cleared(i)'
    BY <1>1, CheckSame
  <2>3. ASSUME NEW f \in Executors, f # e, CheckOK(exec[f]) PROVE CheckOK(exec[f])'
    <3>1. PICK y : y = exec[f]
      OBVIOUS
    <3>2. CheckOK(y)'
      BY <1>1, <2>3, <3>1, CheckSame
    <3> QED BY <1>2, <2>3, <3>1, <3>2
  <2>4. (exec'[e].pc = "check" => CheckOK(exec[e])') /\ (exec'[e].pc = "drained" => Cleared(exec[e].idx)')
    BY <1>2, <2>1, <2>2
  <2>5. ASSUME NEW f \in Executors, f # e, Cleared(exec[f].idx) PROVE Cleared(exec[f].idx)'
    BY <1>2, <2>2, <2>5
  <2> QED BY <1>0, <1>1, <1>2, <2>3, <2>4, <2>5 DEF CheckInv
<1> QED BY <1>3, <1>4, <1>5, <1>6, <1>7, <1>8 DEF Inv

-----------------------------------------------------------------------------
(* Summing a rank.                                                         *)

\* What the sums become when the counter of CPU a is read.
LEMMA PartNext ==
    ASSUME NEW f \in Counters, NEW i \in 0..1, NEW a \in CPUs, NEW k \in Int
    PROVE  /\ k + f[a][i] \in Int /\ Wrap(k + f[a][i]) \in Counter
           /\ Part(f, i, 0 .. a, 0 - Wrap(k + f[a][i])) = Part(f, i, 0 .. a - 1, 0 - k)
           /\ \A q \in Int :
                Part(f, i, (a + 1) .. NCPU - 1, Wrap(k + f[a][i]) - q) = Part(f, i, a .. NCPU - 1, k - q)
           /\ a = NCPU - 1 =>
                \A q \in Int : Part(f, i, a .. NCPU - 1, k - q) = Wrap(Wrap(k + f[a][i]) - q)
           /\ Part(f, i, 0 .. 0 - 1, 0) = 0
<1> DEFINE h == Rank(f, i)
           v == f[a][i]
           s == Sum(h, 0 .. a - 1)
           t == Sum(h, (a + 1) .. NCPU - 1)
           w == Wrap(k + v)
<1>1. h \in [CPUs -> Counter] /\ h[a] = v
  BY DEF Counters, Rank
<1>2. v \in Int
  BY <1>1, Constants
<1>3. /\ Sum(h, 0 .. a) = s + v
      /\ Sum(h, a .. NCPU - 1) = t + v
      /\ Sum(h, 0 .. 0 - 1) = 0 /\ s \in Int /\ t \in Int
      /\ a = NCPU - 1 => t = 0
  <2> HIDE DEF h
  <2> QED BY <1>1, SumNext
<1>5. k + v \in Int /\ w \in Counter /\ w \in Int
  <2>1. k + v \in Int
    BY <1>2
  <2>2. w \in Counter
    BY <2>1, Constants
  <2> QED BY <2>1, <2>2, Constants
<1>6. Part(f, i, 0 .. a, 0 - w) = Part(f, i, 0 .. a - 1, 0 - k)
  <2>1. Wrap((s + v) - w) = Wrap((s + v) - (k + v))
    <3>1. s + v \in Int /\ k + v \in Int
      BY <1>2, <1>3
    <3> QED BY <3>1, WrapPart
  <2>2. (s + v) - w = (s + v) + (0 - w) /\ (s + v) - (k + v) = s + (0 - k)
    <3> HIDE DEF s, v, w
    <3> QED BY <1>2, <1>3, <1>5
  <2> QED BY <1>3, <2>1, <2>2 DEF Part
<1>7. ASSUME NEW q \in Int
      PROVE  Part(f, i, (a + 1) .. NCPU - 1, w - q) = Part(f, i, a .. NCPU - 1, k - q)
  <2>1. Wrap((t - q) + w) = Wrap((t - q) + (k + v))
    <3>1. t - q \in Int /\ k + v \in Int
      BY <1>2, <1>3
    <3> QED BY <3>1, WrapPart
  <2>2. (t - q) + w = t + (w - q) /\ (t - q) + (k + v) = (t + v) + (k - q)
    <3> HIDE DEF t, v, w
    <3> QED BY <1>2, <1>3, <1>5
  <2> QED BY <1>3, <2>1, <2>2 DEF Part
<1>8. ASSUME a = NCPU - 1, NEW q \in Int
      PROVE  Part(f, i, a .. NCPU - 1, k - q) = Wrap(w - q)
  <2>1. t = 0 /\ t + (w - q) = w - q
    <3> HIDE DEF t, w
    <3> QED BY <1>3, <1>5, <1>8
  <2>2. Part(f, i, (a + 1) .. NCPU - 1, w - q) = Wrap(t + (w - q))
    BY DEF Part
  <2> QED BY <1>7, <2>1, <2>2
<1>9. Part(f, i, 0 .. 0 - 1, 0) = 0
  <2>1. Wrap(0) = 0 /\ 0 + 0 = 0
    BY WrapSmall, Constants
  <2> QED BY <1>3, <2>1 DEF Part
<1> QED BY <1>5, <1>6, <1>7, <1>8, <1>9

LEMMA PartOffset ==
    ASSUME NEW f \in Counters, NEW i \in 0..1, NEW a \in CPUs, NEW k \in Int, NEW q \in Int
    PROVE  Part(f, i, (a + 1) .. NCPU - 1, Wrap(k + f[a][i]) - q) = Part(f, i, a .. NCPU - 1, k - q)
BY PartNext, ZenonT(60)

LEMMA PartReads ==
    ASSUME NEW f \in Counters, NEW i \in 0..1, NEW a \in CPUs, NEW k \in Int
    PROVE  /\ Wrap(k + f[a][i]) \in Counter
           /\ Part(f, i, 0 .. a, 0 - Wrap(k + f[a][i])) = Part(f, i, 0 .. a - 1, 0 - k)
           /\ Part(f, i, (a + 1) .. NCPU - 1, Wrap(k + f[a][i])) = Part(f, i, a .. NCPU - 1, k)
           /\ a = NCPU - 1 => Part(f, i, a .. NCPU - 1, k) = Wrap(k + f[a][i])
           /\ Part(f, i, 0 .. 0 - 1, 0) = 0
<1>1. PICK q \in Int : q = 0
  OBVIOUS
<1> DEFINE w == Wrap(k + f[a][i])
<1>2. /\ w \in Counter
      /\ Part(f, i, 0 .. a, 0 - w) = Part(f, i, 0 .. a - 1, 0 - k)
      /\ Part(f, i, (a + 1) .. NCPU - 1, w - q) = Part(f, i, a .. NCPU - 1, k - q)
      /\ a = NCPU - 1 => Part(f, i, a .. NCPU - 1, k - q) = Wrap(w - q)
      /\ Part(f, i, 0 .. 0 - 1, 0) = 0
  <2>1. /\ w \in Counter
        /\ Part(f, i, (a + 1) .. NCPU - 1, w - q) = Part(f, i, a .. NCPU - 1, k - q)
        /\ a = NCPU - 1 => Part(f, i, a .. NCPU - 1, k - q) = Wrap(w - q)
    BY PartNext, ZenonT(60)
  <2>2. Part(f, i, 0 .. a, 0 - w) = Part(f, i, 0 .. a - 1, 0 - k)
    BY PartNext
  <2>3. Part(f, i, 0 .. 0 - 1, 0) = 0
    BY PartNext
  <2> QED BY <2>1, <2>2, <2>3
<1>3. w \in Int /\ Wrap(w) = w
  BY <1>2, WrapSmall, Constants
<1> HIDE DEF w
<1>4. w - q = w /\ k - q = k
  BY <1>1, <1>3
<1> QED BY <1>2, <1>3, <1>4 DEF w

\* The readers of a rank, by how far they are.
LEMMA RankSizes ==
    ASSUME NEW i
    PROVE  /\ Cardinality(InRank(i, {"index", "locking"})) \in 0 .. Cardinality(Readers)
           /\ Cardinality(InRank(i, {"in"})) \in Nat /\ Cardinality(InRank(i, {"index"})) \in Nat
           /\ Cardinality(InRank(i, {"locking", "in"})) \in Nat
           /\ Cardinality(InRank(i, {"in"})) <= Cardinality(InRank(i, {"locking", "in"}))
           /\ Cardinality(InRank(i, {"locking", "in"})) + Cardinality(InRank(i, {"index"}))
                <= Cardinality(Readers)
           /\ Cardinality(InRank(i, {"in"})) = 0 => InRank(i, {"in"}) = {}
<1>1. \A S \in SUBSET Readers :
        IsFiniteSet(S) /\ Cardinality(S) \in Nat /\ Cardinality(S) <= Cardinality(Readers)
  BY Constants, FS_Subset, FS_CardinalityType
<1> DEFINE A == InRank(i, {"locking", "in"})
           B == InRank(i, {"index"})
           I == InRank(i, {"in"})
           L == InRank(i, {"index", "locking"})
<1>2. /\ A \in SUBSET Readers /\ B \in SUBSET Readers /\ I \in SUBSET Readers /\ L \in SUBSET Readers
      /\ A \cap B = {} /\ I \subseteq A
  BY DEF InRank
<1> HIDE DEF A, B, I, L
<1>3. Cardinality(A \cup B) = Cardinality(A) + Cardinality(B) - Cardinality(A \cap B)
  BY <1>1, <1>2, FS_Union
<1>4. Cardinality(A \cap B) = 0
  BY <1>2, FS_EmptySet
<1>5. Cardinality(A \cup B) <= Cardinality(Readers)
  <2>1. A \cup B \in SUBSET Readers
    BY <1>2
  <2> QED BY <1>1, <2>1
<1>6. Cardinality(I) <= Cardinality(A)
  BY <1>1, <1>2, FS_Subset
<1>7. Cardinality(I) = 0 => I = {}
  BY <1>1, <1>2, FS_EmptySet
<1>8. /\ Cardinality(A) \in Nat /\ Cardinality(B) \in Nat /\ Cardinality(I) \in Nat
      /\ Cardinality(L) \in 0 .. Cardinality(Readers)
  BY <1>1, <1>2, Constants
<1>9. Cardinality(A) + Cardinality(B) <= Cardinality(Readers)
  BY <1>3, <1>4, <1>5, <1>8
<1> QED BY <1>6, <1>7, <1>8, <1>9 DEF A, B, I, L

\* srcu_readers_active_idx_check() begins.
LEMMA CheckStart ==
    ASSUME NEW y \in ExecState, Types, y.pass = "seq", y.at = 0, y.sum = 0
    PROVE  CheckOK(y)
<1>1. Gap(y) = Part(seq, y.idx, 0 .. 0 - 1, 0)
  <2>0. Window(y) = 0 .. y.at - 1 /\ Offset(y) = 0 - y.sum
    BY DEF Window, Offset
  <2>1. Window(y) = 0 .. 0 - 1 /\ Offset(y) = 0
    BY <2>0
  <2> QED BY <2>1 DEF Gap
<1>2. Gap(y) = 0
  <2>1. seq \in Counters /\ y.idx \in 0..1
    BY CheckTypes DEF Types, TypeOK, Counters
  <2>2. PICK a \in CPUs, k \in Int : TRUE
    BY Constants
  <2>3. Part(seq, y.idx, 0 .. 0 - 1, 0) = 0
    BY <2>1, <2>2, PartReads
  <2> QED BY <1>1, <2>3
<1>3. Cardinality(InRank(y.idx, {"index", "locking"})) \in 0 .. Cardinality(Readers)
      /\ Cardinality(Readers) \in Nat
  BY RankSizes, Constants
<1> QED BY <1>2, <1>3 DEF CheckOK

\* The next CPU is read.
LEMMA CheckRead ==
    ASSUME NEW x \in ExecState, NEW y \in ExecState, Types, CheckOK(x), x.at < NCPU - 1,
           y.idx = x.idx, y.pass = x.pass, y.at = x.at + 1, y.seq = x.seq,
           y.sum = Wrap(x.sum + (IF x.pass = "active" THEN c ELSE seq)[x.at][x.idx])
    PROVE  CheckOK(y)
<1> DEFINE i == x.idx
           a == x.at
           k == x.sum
           q == x.seq
<1>0. c \in Counters /\ seq \in Counters /\ i \in 0..1 /\ a \in CPUs /\ k \in Int /\ q \in Int
      /\ x.pass \in {"seq", "active", "validate"} /\ 0 \in Int
  BY CheckTypes, Constants DEF Types, TypeOK, Counters
<1>1. /\ Part(seq, i, 0 .. a, 0 - Wrap(k + seq[a][i])) = Part(seq, i, 0 .. a - 1, 0 - k)
      /\ Part(seq, i, (a + 1) .. NCPU - 1, Wrap(k + seq[a][i]) - q) = Part(seq, i, a .. NCPU - 1, k - q)
      /\ Part(c, i, (a + 1) .. NCPU - 1, Wrap(k + c[a][i])) = Part(c, i, a .. NCPU - 1, k)
  <2> HIDE DEF i, a, k, q
  <2>1. Part(seq, i, 0 .. a, 0 - Wrap(k + seq[a][i])) = Part(seq, i, 0 .. a - 1, 0 - k)
    BY <1>0, PartReads
  <2>2. Part(seq, i, (a + 1) .. NCPU - 1, Wrap(k + seq[a][i]) - q) = Part(seq, i, a .. NCPU - 1, k - q)
    BY <1>0, PartOffset
  <2>3. Part(c, i, (a + 1) .. NCPU - 1, Wrap(k + c[a][i])) = Part(c, i, a .. NCPU - 1, k)
    BY <1>0, PartReads
  <2> QED BY <2>1, <2>2, <2>3
<1>2. a \in Int /\ (a + 1) - 1 = a
  <2>1. a \in Int
    BY <1>0, Constants
  <2> HIDE DEF a
  <2> QED BY <2>1
<1>3. CASE x.pass = "seq"
  <2>1. Gap(y) = Gap(x)
    BY <1>1, <1>2, <1>3 DEF Gap, Window, Offset
  <2> QED BY <1>3, <2>1 DEF CheckOK
<1>4. CASE x.pass = "active"
  <2>1. Gap(y) = Gap(x)
    BY <1>4 DEF Gap, Window, Offset
  <2>3. Total(y) = Total(x)
    BY <1>1, <1>4 DEF Total
  <2> QED BY <1>4, <2>1, <2>3 DEF CheckOK
<1>5. CASE x.pass = "validate"
  <2>1. Gap(y) = Gap(x)
    BY <1>1, <1>2, <1>5 DEF Gap, Window, Offset
  <2> QED BY <1>5, <2>1 DEF CheckOK
<1> QED BY <1>0, <1>3, <1>4, <1>5

\* The first sum of ->seq is complete: the sum of ->c starts out as the number of readers.
LEMMA CheckActive ==
    ASSUME NEW x \in ExecState, NEW y \in ExecState, Types, Counted, CheckOK(x), x.at = NCPU - 1,
           x.pass = "seq", y.idx = x.idx, y.pass = "active", y.at = 0, y.sum = 0,
           y.seq = Wrap(x.sum + seq[x.at][x.idx])
    PROVE  CheckOK(y)
<1> DEFINE i == x.idx
           a == x.at
           k == x.sum
<1>0. seq \in Counters /\ i \in 0..1 /\ a \in CPUs /\ k \in Int /\ 0 \in Int
  BY CheckTypes, Constants DEF Types, TypeOK, Counters
<1>1. /\ Part(seq, i, 0 .. a, 0 - Wrap(k + seq[a][i])) = Part(seq, i, 0 .. a - 1, 0 - k)
      /\ a = NCPU - 1 => 0 .. a = CPUs
  <2> HIDE DEF i, a, k
  <2>1. Part(seq, i, 0 .. a, 0 - Wrap(k + seq[a][i])) = Part(seq, i, 0 .. a - 1, 0 - k)
    BY <1>0, PartReads
  <2> QED BY <2>1 DEF CPUs
<1>2. Gap(y) = Gap(x)
  BY <1>1 DEF Gap, Window, Offset
<1>3. Total(y) = Cardinality(InRank(i, {"locking", "in"}))
  BY <1>0 DEF Total, Counted, CPUs
<1> QED BY <1>2, <1>3, RankSizes DEF CheckOK

\* It came to zero: if no increment of ->seq is missing from the first sum, no reader of the
\* rank is in its section.
LEMMA CheckValidate ==
    ASSUME NEW x \in ExecState, NEW y \in ExecState, Types, WaitInv, CheckOK(x), x.at = NCPU - 1,
           x.pass = "active", Wrap(x.sum + c[x.at][x.idx]) = 0,
           y.idx = x.idx, y.pass = "validate", y.at = 0, y.sum = 0, y.seq = x.seq
    PROVE  CheckOK(y)
<1> DEFINE i == x.idx
           a == x.at
           k == x.sum
<1>0. c \in Counters /\ i \in 0..1 /\ a \in CPUs /\ k \in Int /\ 0 \in Int /\ x.seq \in Int
      /\ waitfor \in [Updaters -> SUBSET Readers]
  BY CheckTypes, Constants DEF Types, TypeOK, Counters
<1>1. a = NCPU - 1 => Part(c, i, a .. NCPU - 1, k) = Wrap(k + c[a][i])
  <2> HIDE DEF i, a, k
  <2> QED BY <1>0, PartReads
<1>2. Total(x) = 0
  BY <1>1 DEF Total
<1>3. Gap(y) = Gap(x)
  <2>1. 0 .. NCPU - 1 = CPUs
    BY <1>0 DEF CPUs
  <2> QED BY <2>1 DEF Gap, Window, Offset
<1>4. ASSUME Gap(x) = 0 PROVE Cleared(i)
  <2>1. Cardinality(InRank(i, {"in"})) = 0
    BY <1>2, <1>4, RankSizes DEF CheckOK
  <2>2. InRank(i, {"in"}) = {}
    BY <2>1, RankSizes
  <2> QED BY <1>0, <2>2 DEF Cleared, WaitInv, InRank
<1> QED BY <1>3, <1>4 DEF CheckOK

\* None is missing: the rank is drained.
LEMMA CheckDrained ==
    ASSUME NEW x \in ExecState, Types, CheckOK(x), x.at = NCPU - 1, x.pass = "validate",
           Wrap(x.sum + seq[x.at][x.idx]) = x.seq
    PROVE  Cleared(x.idx)
<1> DEFINE i == x.idx
           a == x.at
           k == x.sum
           q == x.seq
<1>0. seq \in Counters /\ i \in 0..1 /\ a \in CPUs /\ k \in Int /\ q \in Int
  BY CheckTypes, Constants DEF Types, TypeOK, Counters
<1>1. a = NCPU - 1 => Part(seq, i, a .. NCPU - 1, k - q) = Wrap(Wrap(k + seq[a][i]) - q)
  <2> HIDE DEF i, a, k, q
  <2> QED BY <1>0, PartNext, ZenonT(60)
<1>2. Gap(x) = 0
  <2>1. q - q = 0 /\ Wrap(0) = 0
    BY <1>0, WrapSmall, Constants
  <2> QED BY <1>1, <2>1 DEF Gap, Window, Offset
<1> QED BY <1>2 DEF CheckOK

-----------------------------------------------------------------------------
(* Steps of an executor, field by field.                                   *)

States == {"off", "wait", "advance", "check", "drained", "invoke", "harvest", "reschedule", "recheck"}

LEMMA OffTypes ==
    /\ Off \in ExecState /\ Off.pc = "off" /\ Off.done = FALSE
    /\ \A s \in States : /\ [Off EXCEPT !.pc = s] \in ExecState
                         /\ [Off EXCEPT !.pc = s].pc = s /\ [Off EXCEPT !.pc = s].done = FALSE
<1>1. Off \in ExecState /\ Off.pc = "off" /\ Off.done = FALSE
  BY Constants DEF Off, ExecState
<1>2. ASSUME NEW s \in States PROVE [Off EXCEPT !.pc = s] \in ExecState
  BY <1>1, <1>2 DEF ExecState, States
<1>3. ASSUME NEW s \in States PROVE [Off EXCEPT !.pc = s].pc = s /\ [Off EXCEPT !.pc = s].done = FALSE
  BY <1>1 DEF ExecState
<1> QED BY <1>1, <1>2, <1>3

LEMMA ExecType ==
    ASSUME Types, NEW e \in Executors
    PROVE  exec[e] \in ExecState /\ exec[e].trycount \in Nat /\ exec[e].left \in Nat /\ exec[e].n \in Nat
BY DEF Types, ExecState

LEMMA GoesTo ==
    ASSUME Types, NEW e \in Executors, NEW x \in ExecState, exec' = [exec EXCEPT ![e] = x]
    PROVE  Goes(e, x)
BY DEF Types, Goes

LEMMA AfterAdvanceGoes ==
    ASSUME Types, NEW e \in Executors, AfterAdvance(e)
    PROVE  \E x \in ExecState : Goes(e, x) /\ x.pc = (IF e = Work THEN "invoke" ELSE "harvest")
                                            /\ x.done = FALSE
<1> DEFINE s == IF e = Work THEN "invoke" ELSE "harvest"
           x == [Off EXCEPT !.pc = s]
<1>1. s \in States
  BY DEF States
<1>2. x \in ExecState /\ x.pc = s /\ x.done = FALSE
  <2> HIDE DEF s
  <2> QED BY <1>1, OffTypes
<1>3. exec' = [exec EXCEPT ![e] = x]
  BY DEF AfterAdvance
<1> HIDE DEF x
<1>4. Goes(e, x)
  BY <1>2, <1>3, GoesTo
<1> QED BY <1>2, <1>4

LEMMA FromTheStartIs ==
    ASSUME NEW y \in ExecState
    PROVE  LET x == FromTheStart(y) IN
           /\ x \in ExecState /\ x.pc = y.pc /\ x.idx = y.idx /\ x.check = y.check /\ x.done = y.done
           /\ x.pass = "seq" /\ x.at = 0 /\ x.sum = 0
BY Constants DEF ExecState, FromTheStart

LEMMA StartCheckGoes ==
    ASSUME Types, NEW e \in Executors, NEW idx \in 0..1, NEW check \in 0..2, NEW tries \in Nat,
           StartCheck(e, idx, check, tries)
    PROVE  \E x \in ExecState : /\ Goes(e, x) /\ x.pc = "check" /\ x.idx = idx /\ x.check = check
                                /\ x.pass = "seq" /\ x.at = 0 /\ x.sum = 0 /\ x.done = exec[e].done
<1> DEFINE y == [exec[e] EXCEPT !.pc = "check", !.idx = idx, !.check = check, !.left = tries]
<1>1. y \in ExecState /\ y.pc = "check" /\ y.idx = idx /\ y.check = check /\ y.done = exec[e].done
  BY ExecType DEF ExecState
<1>2. exec' = [exec EXCEPT ![e] = FromTheStart(y)]
  BY DEF StartCheck, Types
<1> HIDE DEF y
<1>3. PICK x : x = FromTheStart(y)
  OBVIOUS
<1>4. /\ x \in ExecState /\ x.pc = y.pc /\ x.idx = y.idx /\ x.check = y.check /\ x.done = y.done
      /\ x.pass = "seq" /\ x.at = 0 /\ x.sum = 0
  BY <1>1, <1>3, FromTheStartIs
<1>5. Goes(e, x)
  BY <1>2, <1>3, <1>4, GoesTo
<1> QED BY <1>1, <1>4, <1>5

LEMMA CheckFailsGoes ==
    ASSUME Types, NEW e \in Executors, CheckFails(e)
    PROVE  \E x \in ExecState :
              /\ Goes(e, x)
              /\ \/ x.pc = (IF e = Work THEN "invoke" ELSE "harvest") /\ x.done = FALSE
                 \/ /\ x.pc = exec[e].pc /\ x.idx = exec[e].idx /\ x.check = exec[e].check
                    /\ x.pass = "seq" /\ x.at = 0 /\ x.sum = 0 /\ x.done = exec[e].done
<1>1. CASE exec[e].left - 1 <= 0
  <2>1. AfterAdvance(e)
    BY <1>1 DEF CheckFails
  <2> QED BY <2>1, AfterAdvanceGoes
<1>2. CASE ~(exec[e].left - 1 <= 0)
  <2> DEFINE y == [exec[e] EXCEPT !.left = @ - 1]
  <2>0. exec[e].left - 1 \in Nat
    <3>1. exec[e].left \in Nat
      BY ExecType
    <3> QED BY <1>2, <3>1
  <2>1. /\ y \in ExecState /\ y.pc = exec[e].pc /\ y.idx = exec[e].idx /\ y.check = exec[e].check
        /\ y.done = exec[e].done
    BY <2>0, ExecType DEF ExecState
  <2>2. exec' = [exec EXCEPT ![e] = FromTheStart(y)]
    BY <1>2 DEF CheckFails, Types
  <2> HIDE DEF y
  <2>3. PICK x : x = FromTheStart(y)
    OBVIOUS
  <2>4. /\ x \in ExecState /\ x.pc = y.pc /\ x.idx = y.idx /\ x.check = y.check /\ x.done = y.done
        /\ x.pass = "seq" /\ x.at = 0 /\ x.sum = 0
    BY <2>1, <2>3, FromTheStartIs
  <2>5. Goes(e, x)
    BY <2>2, <2>3, <2>4, GoesTo
  <2> QED BY <2>1, <2>4, <2>5
<1> QED BY <1>1, <1>2

LEMMA NextPassGoes ==
    ASSUME Types, NEW e \in Executors, NEW pass \in {"seq", "active", "validate"}, NEW first \in Counter,
           NextPass(e, pass, first)
    PROVE  \E x \in ExecState :
              /\ Goes(e, x)
              /\ x.pc = exec[e].pc /\ x.idx = exec[e].idx /\ x.check = exec[e].check
              /\ x.pass = pass /\ x.at = 0 /\ x.sum = 0 /\ x.seq = first /\ x.done = exec[e].done
<1> DEFINE x == [exec[e] EXCEPT !.pass = pass, !.at = 0, !.sum = 0, !.seq = first]
<1>1. /\ x \in ExecState /\ x.pc = exec[e].pc /\ x.idx = exec[e].idx /\ x.check = exec[e].check
      /\ x.pass = pass /\ x.at = 0 /\ x.sum = 0 /\ x.seq = first /\ x.done = exec[e].done
  BY ExecType, Constants, ZenonT(60) DEF ExecState
<1>2. exec' = [exec EXCEPT ![e] = x]
  BY DEF NextPass, Types
<1> HIDE DEF x
<1>3. Goes(e, x)
  BY <1>1, <1>2, GoesTo
<1> QED BY <1>1, <1>3

LEMMA NotDone ==
    ASSUME Inv, NEW e \in Executors, exec[e].pc \notin {"reschedule", "recheck"}
    PROVE  exec[e].done = FALSE
<1>1. exec[e].done \in BOOLEAN
  BY DEF Inv, Types, ExecState
<1> QED BY <1>1 DEF Inv, CallInv

LEMMA AdvanceStep ==
    ASSUME Inv, NEW e \in Executors, AdvanceBatches(e)
    PROVE  Inv'
<1>0. /\ Types /\ exec[e].pc = "advance" /\ UNCHANGED restOfState /\ completed \in 0..1
      /\ exec[e].done = FALSE
  BY NotDone DEF AdvanceBatches, Inv, Types, TypeOK, restOfState
<1>1. CASE batch_check0 = <<>> /\ batch_check1 = <<>>
  <2>1. AfterAdvance(e)
    BY <1>1 DEF AdvanceBatches
  <2>2. PICK x \in ExecState : Goes(e, x) /\ x.pc = (IF e = Work THEN "invoke" ELSE "harvest")
                                          /\ x.done = FALSE
    BY <1>0, <2>1, AfterAdvanceGoes
  <2> QED BY <1>0, <2>2, OwnerGoesOn DEF Advancing
<1>2. CASE ~(batch_check0 = <<>> /\ batch_check1 = <<>>)
  <2>1. StartCheck(e, 1 - completed, 1, exec[e].trycount)
    BY <1>2 DEF AdvanceBatches
  <2>2. 1 - completed \in 0..1 /\ 1 \in 0..2 /\ exec[e].trycount \in Nat
    BY <1>0, ExecType
  <2>3. PICK x \in ExecState : /\ Goes(e, x) /\ x.pc = "check" /\ x.idx = 1 - completed /\ x.check = 1
                               /\ x.pass = "seq" /\ x.at = 0 /\ x.sum = 0 /\ x.done = exec[e].done
    BY <1>0, <2>1, <2>2, StartCheckGoes
  <2>4. CheckOK(x)
    BY <1>0, <2>3, CheckStart
  <2> QED BY <1>0, <1>2, <2>3, <2>4, OwnerGoesOn DEF Advancing
<1> QED BY <1>1, <1>2

LEMMA CheckStep ==
    ASSUME Inv, NEW e \in Executors, CheckCPU(e)
    PROVE  Inv'
<1> DEFINE y == exec[e]
           f == IF y.pass = "active" THEN c ELSE seq
           v == Wrap(y.sum + f[y.at][y.idx])
<1>0. /\ Types /\ Counted /\ WaitInv /\ y.pc = "check" /\ UNCHANGED restOfState /\ y.done = FALSE
      /\ y \in ExecState /\ y.idx = 1 - completed /\ y.check \in {1, 2} /\ CheckOK(y)
      /\ batch_check0 # <<>> \/ batch_check1 # <<>>
  BY NotDone, ExecType DEF CheckCPU, Inv, restOfState, CheckInv, ListInv
<1>1. /\ y.pass \in {"seq", "active", "validate"} /\ y.at \in CPUs /\ y.at \in Int /\ NCPU \in Int
      /\ y.at < NCPU - 1 \/ y.at = NCPU - 1
  <2>1. \A a \in CPUs : a \in Int /\ (a < NCPU - 1 \/ a = NCPU - 1) /\ ~(a < NCPU - 1 /\ a = NCPU - 1)
    BY Constants DEF CPUs
  <2>2. y.pass \in {"seq", "active", "validate"} /\ y.at \in CPUs
    BY <1>0, CheckTypes
  <2>3. NCPU \in Int
    BY Constants
  <2> HIDE DEF y
  <2> QED BY <2>1, <2>2, <2>3, Zenon
<1>2. v \in Counter
  <2>1. f \in Counters /\ y.idx \in 0..1 /\ y.sum \in Int
    BY <1>0, CheckTypes DEF Types, TypeOK, Counters
  <2> HIDE DEF f, y
  <2> QED BY <1>1, <2>1, PartReads
<1>3. ASSUME NEW x \in ExecState, Goes(e, x), x.pc = "check", x.idx = y.idx, x.check = y.check,
             x.done = y.done, CheckOK(x)
      PROVE  Inv'
  BY <1>0, <1>3, OwnerGoesOn DEF Advancing
<1>4. CASE CheckFails(e)
  <2>1. PICK x \in ExecState :
              /\ Goes(e, x)
              /\ \/ x.pc = (IF e = Work THEN "invoke" ELSE "harvest") /\ x.done = FALSE
                 \/ /\ x.pc = y.pc /\ x.idx = y.idx /\ x.check = y.check
                    /\ x.pass = "seq" /\ x.at = 0 /\ x.sum = 0 /\ x.done = y.done
    BY <1>0, <1>4, CheckFailsGoes
  <2>2. CASE x.pc = (IF e = Work THEN "invoke" ELSE "harvest") /\ x.done = FALSE
    BY <1>0, <2>1, <2>2, OwnerGoesOn DEF Advancing
  <2>3. CASE /\ x.pc = y.pc /\ x.idx = y.idx /\ x.check = y.check
             /\ x.pass = "seq" /\ x.at = 0 /\ x.sum = 0 /\ x.done = y.done
    <3>1. CheckOK(x)
      BY <1>0, <2>3, CheckStart
    <3> QED BY <1>0, <1>3, <2>1, <2>3, <3>1
  <2> QED BY <2>1, <2>2, <2>3
<1>5. CASE y.at < NCPU - 1
  <2> DEFINE x == [y EXCEPT !.at = y.at + 1, !.sum = v]
  <2>0. y.at + 1 \in CPUs
    <3>1. \A a \in CPUs : a < NCPU - 1 => a + 1 \in CPUs
      BY Constants DEF CPUs
    <3> HIDE DEF y
    <3> QED BY <1>1, <1>5, <3>1
  <2>1. /\ x \in ExecState /\ x.pc = y.pc /\ x.idx = y.idx /\ x.check = y.check /\ x.pass = y.pass
        /\ x.at = y.at + 1 /\ x.sum = v /\ x.seq = y.seq /\ x.done = y.done
    <3> HIDE DEF v, y
    <3> QED BY <1>0, <1>2, <2>0 DEF ExecState
  <2>2. exec' = [exec EXCEPT ![e] = x]
    BY <1>0, <1>5 DEF CheckCPU, Types
  <2> HIDE DEF x
  <2>3. Goes(e, x)
    BY <1>0, <2>1, <2>2, GoesTo
  <2>4. CheckOK(x)
    <3> HIDE DEF y
    <3> QED BY <1>0, <1>5, <2>1, CheckRead
  <2> QED BY <1>0, <1>3, <2>1, <2>3, <2>4
<1>6. CASE y.at = NCPU - 1 /\ y.pass = "seq"
  <2>1. NextPass(e, "active", v)
    BY <1>1, <1>6 DEF CheckCPU
  <2>2. PICK x \in ExecState :
              /\ Goes(e, x)
              /\ x.pc = y.pc /\ x.idx = y.idx /\ x.check = y.check
              /\ x.pass = "active" /\ x.at = 0 /\ x.sum = 0 /\ x.seq = v /\ x.done = y.done
    <3> HIDE DEF v
    <3> QED BY <1>0, <1>2, <2>1, NextPassGoes
  <2>3. CheckOK(x)
    <3>1. x.seq = Wrap(y.sum + seq[y.at][y.idx])
      BY <1>6, <2>2
    <3> HIDE DEF y, v
    <3> QED BY <1>0, <1>6, <2>2, <3>1, CheckActive
  <2> QED BY <1>0, <1>3, <2>2, <2>3
<1>7. CASE y.at = NCPU - 1 /\ y.pass = "active" /\ v = 0
  <2>1. NextPass(e, "validate", y.seq) /\ y.seq \in Counter
    BY <1>0, <1>1, <1>7, CheckTypes DEF CheckCPU
  <2>2. PICK x \in ExecState :
              /\ Goes(e, x)
              /\ x.pc = y.pc /\ x.idx = y.idx /\ x.check = y.check
              /\ x.pass = "validate" /\ x.at = 0 /\ x.sum = 0 /\ x.seq = y.seq /\ x.done = y.done
    BY <1>0, <2>1, NextPassGoes
  <2>3. CheckOK(x)
    <3>1. Wrap(y.sum + c[y.at][y.idx]) = 0
      BY <1>7
    <3> HIDE DEF y, v
    <3> QED BY <1>0, <1>7, <2>2, <3>1, CheckValidate
  <2> QED BY <1>0, <1>3, <2>2, <2>3
<1>8. CASE y.at = NCPU - 1 /\ y.pass = "validate" /\ v = y.seq
  <2> DEFINE x == [y EXCEPT !.pc = "drained", !.at = 0]
  <2>1. x \in ExecState /\ x.pc = "drained" /\ x.idx = y.idx /\ x.check = y.check /\ x.done = y.done
    <3> HIDE DEF y
    <3> QED BY <1>0, Constants DEF ExecState
  <2>2. exec' = [exec EXCEPT ![e] = x]
    <3>1. exec' = [exec EXCEPT ![e].pc = "drained", ![e].at = 0]
      BY <1>1, <1>8 DEF CheckCPU
    <3> QED BY <1>0, <3>1 DEF Types
  <2> HIDE DEF x
  <2>3. Goes(e, x)
    BY <1>0, <2>1, <2>2, GoesTo
  <2>4. Cleared(x.idx)
    <3>1. Wrap(y.sum + seq[y.at][y.idx]) = y.seq
      BY <1>8
    <3>2. Cleared(y.idx)
      BY <1>0, <1>8, <3>1, CheckDrained
    <3> QED BY <2>1, <3>2
  <2> QED BY <1>0, <2>1, <2>3, <2>4, OwnerGoesOn DEF Advancing
<1>9. \/ y.at < NCPU - 1 \/ (y.at = NCPU - 1 /\ y.pass = "seq")
      \/ (y.at = NCPU - 1 /\ y.pass = "active" /\ v = 0)
      \/ (y.at = NCPU - 1 /\ y.pass = "validate" /\ v = y.seq)
      \/ CheckFails(e)
  <2>1. CASE y.at = NCPU - 1 /\ y.pass = "active" /\ v # 0
    BY <1>1, <2>1 DEF CheckCPU
  <2>2. CASE y.at = NCPU - 1 /\ y.pass = "validate" /\ v # y.seq
    BY <1>1, <2>2 DEF CheckCPU
  <2> QED BY <1>1, <2>1, <2>2
<1> QED BY <1>4, <1>5, <1>6, <1>7, <1>8, <1>9

LEMMA InvokeEndsStep ==
    ASSUME Inv, InvokeEnds
    PROVE  Inv'
<1> DEFINE x == [Off EXCEPT !.pc = "reschedule"]
<1>0. /\ Types /\ Work \in Executors /\ exec[Work].pc = "invoke" /\ UNCHANGED restOfState
      /\ exec[Work].done = FALSE
  BY NotDone, Constants DEF InvokeEnds, Inv, restOfState
<1>1. x \in ExecState /\ x.pc = "reschedule" /\ x.done = FALSE
  BY OffTypes DEF States
<1>2. exec' = [exec EXCEPT ![Work] = x]
  BY DEF InvokeEnds
<1> HIDE DEF x
<1>3. Goes(Work, x)
  BY <1>0, <1>1, <1>2, GoesTo
<1> QED BY <1>0, <1>1, <1>3, OwnerGoesOn DEF Advancing

\* A field of the state of an executor changes.
LEMMA PcGoes ==
    ASSUME Types, NEW e \in Executors, NEW s \in States, exec' = [exec EXCEPT ![e].pc = s]
    PROVE  \E x \in ExecState : Goes(e, x) /\ x.pc = s /\ x.done = exec[e].done
<1> DEFINE x == [exec[e] EXCEPT !.pc = s]
<1>1. x \in ExecState /\ x.pc = s /\ x.done = exec[e].done
  BY ExecType DEF ExecState, States
<1>2. exec' = [exec EXCEPT ![e] = x]
  OBVIOUS
<1> HIDE DEF x
<1>3. Goes(e, x)
  BY <1>1, <1>2, GoesTo
<1> QED BY <1>1, <1>3

\* The owner leaves: it has handed the batches to the work item, or found them empty.
LEMMA LeaveStep ==
    ASSUME Inv, NEW e \in Executors, exec[e].pc \in {"reschedule", "recheck"}, AfterReschedule(e),
           UNCHANGED <<readSide, completed, batches, freed, completion, earlier>>,
           \/ pending' = TRUE /\ UNCHANGED running
           \/ AllEmpty /\ running' = FALSE /\ UNCHANGED pending
    PROVE  Inv'
<1>0. /\ Types /\ Counted /\ CallInv /\ OwnerInv /\ ListInv /\ OrderInv /\ WaitInv /\ CheckInv
      /\ FreedInv
  BY DEF Inv
<1>1. /\ UNCHANGED <<c, seq, completed, batch_queue, batch_check0, batch_check1, batch_done>>
      /\ UNCHANGED <<freed, reader, completion, sections, waitfor, earlier>>
      /\ All' = All
  BY DEF readSide, batches, All
<1> DEFINE x == IF e = Work \/ exec[e].done THEN Off ELSE [Off EXCEPT !.pc = "wait"]
<1>2. /\ x \in ExecState /\ x.done = FALSE
      /\ e = Work \/ exec[e].done => x = Off /\ x.pc = "off"
      /\ ~(e = Work \/ exec[e].done) => x.pc = "wait"
  BY OffTypes DEF States
<1>3. exec' = [exec EXCEPT ![e] = x]
  BY DEF AfterReschedule
<1> HIDE DEF x
<1>4. /\ exec' \in [Executors -> ExecState] /\ DOMAIN exec' = Executors
      /\ exec'[e] = x /\ \A f \in Executors \ {e} : exec'[f] = exec[f]
  BY <1>0, <1>2, <1>3 DEF Types
<1>5. /\ use \in [Updaters -> {"none", "call", "sync"}]
      /\ use' \in [Updaters -> {"none", "call", "sync"}]
      /\ \A u \in Updaters : use'[u] = IF u = e /\ exec[e].done THEN "none" ELSE use[u]
      /\ \A u \in Updaters : u = e => use[u] = "sync"
      /\ \A u \in Updaters : u = e => ~completion[u]
      /\ exec[e].done \in BOOLEAN /\ (e = Work => ~exec[e].done)
  BY <1>0 DEF AfterReschedule, Types, TypeOK, CallInv, ExecState
<1>6. Types'
  <2>1. pending' \in BOOLEAN /\ running' \in BOOLEAN
    BY <1>0 DEF Types, TypeOK
  <2> QED BY <1>0, <1>1, <1>4, <1>5, <2>1 DEF Types, TypeOK
<1>7. Counted' /\ FreedInv' /\ OrderInv' /\ WaitInv'
  <2>1. Counted'
    BY <1>0, <1>1 DEF Counted, Part, Wrap, Rank, InRank
  <2>2. OrderInv'
    <3>1. earlier \in [Updaters -> SUBSET Updaters]
      BY <1>0 DEF Types, TypeOK
    <3>2. ASSUME NEW u \in Updaters, NEW v \in earlier[u] PROVE use'[v] = "call"
      BY <1>0, <1>5, <3>1, <3>2 DEF OrderInv
    <3> QED BY <1>0, <1>1, <3>2 DEF OrderInv, Before
  <2> QED BY <1>0, <1>1, <2>1, <2>2 DEF FreedInv, AllEmpty, WaitInv, InList
<1>8. CallInv'
  <2>1. \A f \in Executors : exec'[f].pc = "off" => exec'[f] = Off
    BY <1>0, <1>2, <1>4 DEF CallInv
  <2>2. \A f \in Executors :
            exec'[f].done => f # Work /\ exec'[f].pc \in {"reschedule", "recheck"}
    BY <1>0, <1>2, <1>4 DEF CallInv
  <2>3. exec'[Work].pc \notin {"wait", "harvest"} /\ \A u \in Updaters : exec'[u].pc # "invoke"
    BY <1>0, <1>2, <1>4, Constants DEF CallInv
  <2>4. \A u \in Updaters : use'[u] = "sync" <=> exec'[u].pc # "off"
    BY <1>0, <1>2, <1>4, <1>5, Constants DEF CallInv
  <2>5. \A u \in Updaters : completion'[u] => exec'[u].pc = "wait"
    BY <1>0, <1>1, <1>4, <1>5, Constants DEF CallInv
  <2> QED BY <2>1, <2>2, <2>3, <2>4, <2>5 DEF CallInv
<1>9. OwnerInv'
  <2>1. e \in Processing
    BY DEF Processing
  <2>2. Processing' = {}
    <3>1. \A f \in Executors \ {e} : f \notin Processing
      BY <1>0, <2>1 DEF OwnerInv
    <3> QED BY <1>2, <1>4, <3>1 DEF Processing
  <2>3. running /\ ~pending
    BY <1>0, <2>1 DEF OwnerInv
  <2>4. CASE pending' = TRUE /\ UNCHANGED running
    <3>1. running' /\ pending'
      BY <2>3, <2>4
    <3> QED BY <2>2, <3>1, Zenon DEF OwnerInv
  <2>5. CASE AllEmpty /\ running' = FALSE /\ UNCHANGED pending
    <3>1. ~running' /\ ~pending' /\ AllEmpty'
      BY <1>1, <2>3, <2>5 DEF AllEmpty
    <3> QED BY <2>2, <3>1, Zenon DEF OwnerInv
  <2> QED BY <2>4, <2>5
<1>10. ListInv'
  <2>1. \A u \in Updaters :
            InList(All', u) <=> use'[u] # "none" /\ ~completion'[u] /\ ~exec'[u].done
    <3>1. ASSUME NEW u \in Updaters, u # e
          PROVE  InList(All', u) <=> use'[u] # "none" /\ ~completion'[u] /\ ~exec'[u].done
      BY <1>0, <1>1, <1>4, <1>5, <3>1, Constants DEF ListInv
    <3>2. ASSUME e \in Updaters
          PROVE  InList(All', e) <=> use'[e] # "none" /\ ~completion'[e] /\ ~exec'[e].done
      BY <1>0, <1>1, <1>2, <1>4, <1>5, <3>2 DEF ListInv
    <3> QED BY <3>1, <3>2
  <2>2. \A f \in Executors : exec'[f].pc \in Advancing \cup {"harvest"} =>
            exec[f].pc \in Advancing \cup {"harvest"} /\ exec'[f].pc = exec[f].pc
    BY <1>2, <1>4 DEF Advancing
  <2> QED BY <1>0, <1>1, <2>1, <2>2, Constants DEF ListInv, Advancing
<1>11. CheckInv'
  <2>1. \A i : Cleared(i) => Cleared(i)'
    BY <1>1, CheckSame
  <2>2. ASSUME NEW f \in Executors, f # e, CheckOK(exec[f]) PROVE CheckOK(exec[f])'
    <3>1. PICK y : y = exec[f]
      OBVIOUS
    <3>2. CheckOK(y)'
      BY <1>1, <2>2, <3>1, CheckSame
    <3> QED BY <1>4, <2>2, <3>1, <3>2
  <2>3. ASSUME NEW f \in Executors, f # e, Cleared(exec[f].idx) PROVE Cleared(exec[f].idx)'
    BY <1>4, <2>1, <2>3
  <2>4. exec'[e].pc \notin {"check", "drained"}
    BY <1>2, <1>4
  <2> QED BY <1>0, <1>1, <1>4, <2>2, <2>3, <2>4 DEF CheckInv
<1> QED BY <1>6, <1>7, <1>8, <1>9, <1>10, <1>11 DEF Inv

LEMMA RescheduleStep ==
    ASSUME Inv, NEW e \in Executors, Reschedule(e) \/ RescheduleLocked(e)
    PROVE  Inv'
<1>0. Types
  BY DEF Inv
<1>1. CASE Reschedule(e) /\ AllEmpty
  <2>1. /\ exec[e].pc = "reschedule" /\ UNCHANGED restOfState
        /\ exec' = [exec EXCEPT ![e].pc = "recheck"]
    BY <1>1 DEF Reschedule, restOfState, queueSide, batches
  <2>2. PICK x \in ExecState : Goes(e, x) /\ x.pc = "recheck" /\ x.done = exec[e].done
    BY <1>0, <2>1, PcGoes DEF States
  <2> QED BY <2>1, <2>2, OwnerGoesOn DEF Advancing
<1>2. CASE Reschedule(e) /\ ~AllEmpty
  BY <1>2, LeaveStep DEF Reschedule
<1>3. CASE RescheduleLocked(e)
  BY <1>3, LeaveStep DEF RescheduleLocked
<1> QED BY <1>1, <1>2, <1>3

-----------------------------------------------------------------------------
(* The four batches as one list.                                           *)

Join(d, k, l, q) == d \o k \o l \o q

LEMMA JoinIs ==
    ASSUME NEW S, NEW d \in Seq(S), NEW k \in Seq(S), NEW l \in Seq(S), NEW q \in Seq(S)
    PROVE  /\ Join(d, k, l, q) \in Seq(S) /\ d \o k \in Seq(S) /\ l \o q \in Seq(S)
           /\ \A u : InList(Join(d, k, l, q), u) <=>
                InList(d, u) \/ InList(k, u) \/ InList(l, u) \/ InList(q, u)
<1>1. d \o k \in Seq(S) /\ l \o q \in Seq(S)
  BY ConcatProperties
<1>2. d \o k \o l \in Seq(S)
  BY <1>1, ConcatProperties
<1>3. Join(d, k, l, q) \in Seq(S)
  BY <1>2, ConcatProperties DEF Join
<1>4. ASSUME NEW u PROVE InList(d \o k, u) <=> InList(d, u) \/ InList(k, u)
  BY InConcat
<1>5. ASSUME NEW u PROVE InList(d \o k \o l, u) <=> InList(d \o k, u) \/ InList(l, u)
  BY <1>1, InConcat
<1>6. ASSUME NEW u PROVE InList(Join(d, k, l, q), u) <=> InList(d \o k \o l, u) \/ InList(q, u)
  BY <1>2, InConcat DEF Join
<1> QED BY <1>1, <1>3, <1>4, <1>5, <1>6

\* rcu_batch_move() between neighbours leaves the order as it is.
LEMMA JoinMoves ==
    ASSUME NEW S, NEW d \in Seq(S), NEW k \in Seq(S), NEW l \in Seq(S), NEW q \in Seq(S)
    PROVE  /\ Join(d \o k, l, <<>>, q) = Join(d, k, l, q)
           /\ Join(d \o k, <<>>, l, q) = Join(d, k, l, q)
           /\ Join(d, k, l \o q, <<>>) = Join(d, k, l, q)
           /\ (d \o k) \o l \o <<>> = d \o k \o l
           /\ (d \o k) \o <<>> \o l = d \o k \o l
<1> DEFINE b == d \o k
           a == b \o l
<1>1. b \in Seq(S) /\ l \o q \in Seq(S)
  BY ConcatProperties
<1>2. a \in Seq(S)
  BY <1>1, ConcatProperties
<1>3. a \o <<>> = a /\ b \o <<>> = b
  BY <1>1, <1>2, ConcatEmptySeq
<1>4. a \o q = b \o (l \o q)
  BY <1>1, ConcatAssociative, SMTT(30)
<1>5. (b \o (l \o q)) \o <<>> = b \o (l \o q)
  <2>1. b \o (l \o q) \in Seq(S)
    BY <1>1, ConcatProperties
  <2> QED BY <2>1, ConcatEmptySeq
<1> QED BY <1>3, <1>4, <1>5 DEF Join

LEMMA NonEmpty ==
    ASSUME NEW S, NEW l \in Seq(S), l # <<>>
    PROVE  \E u \in S : InList(l, u)
<1>1. Len(l) \in Nat \ {0} /\ DOMAIN l = 1..Len(l)
  BY EmptySeq, LenProperties
<1>2. 1 \in DOMAIN l /\ l[1] \in S
  BY <1>1, ElementOfSeq
<1> QED BY <1>2 DEF InList

\* Before() under the two changes a list sees.
LEMMA BeforeAppend ==
    ASSUME NEW S, NEW l \in Seq(S), NEW u \in S, NEW v, NEW w
    PROVE  /\ Before(l, v, w) => Before(Append(l, u), v, w)
           /\ InList(l, v) => Before(Append(l, u), v, u)
<1> DEFINE a == Append(l, u)
<1>1. /\ Len(l) \in Nat /\ DOMAIN l = 1..Len(l) /\ DOMAIN a = 1 .. Len(l) + 1
      /\ a[Len(l) + 1] = u /\ \A i \in 1..Len(l) : a[i] = l[i]
  BY AppendProperties, LenProperties
<1> HIDE DEF a
<1>2. ASSUME Before(l, v, w) PROVE Before(a, v, w)
  <2>1. PICK i \in DOMAIN l, j \in DOMAIN l : i < j /\ l[i] = v /\ l[j] = w
    BY <1>2 DEF Before
  <2>2. i \in DOMAIN a /\ j \in DOMAIN a /\ a[i] = v /\ a[j] = w
    BY <1>1, <2>1
  <2> QED BY <2>1, <2>2 DEF Before
<1>3. ASSUME InList(l, v) PROVE Before(a, v, u)
  <2>1. PICK i \in DOMAIN l : l[i] = v
    BY <1>3 DEF InList
  <2>2. i \in DOMAIN a /\ Len(l) + 1 \in DOMAIN a /\ i < Len(l) + 1 /\ a[i] = v /\ a[Len(l) + 1] = u
    BY <1>1, <2>1
  <2> QED BY <2>2 DEF Before
<1> QED BY <1>2, <1>3 DEF a

LEMMA BeforeTail ==
    ASSUME NEW S, NEW l \in Seq(S), l # <<>>, NEW v, NEW w, Before(l, v, w), v # Head(l)
    PROVE  Before(Tail(l), v, w)
<1>1. /\ Tail(l) \in Seq(S)
      /\ Len(l) \in Nat \ {0} /\ Len(Tail(l)) = Len(l) - 1
      /\ Head(l) = l[1]
      /\ \A i \in 1..Len(Tail(l)) : Tail(l)[i] = l[i + 1]
      /\ DOMAIN l = 1..Len(l) /\ DOMAIN Tail(l) = 1..Len(l) - 1
  BY HeadTailProperties, EmptySeq, LenProperties
<1>2. PICK i \in DOMAIN l, j \in DOMAIN l : i < j /\ l[i] = v /\ l[j] = w
  BY DEF Before
<1>3. i # 1 /\ i - 1 \in DOMAIN Tail(l) /\ j - 1 \in DOMAIN Tail(l) /\ i - 1 < j - 1
  BY <1>1, <1>2
<1>4. Tail(l)[i - 1] = l[i] /\ Tail(l)[j - 1] = l[j]
  BY <1>1, <1>3
<1> QED BY <1>2, <1>3, <1>4 DEF Before

-----------------------------------------------------------------------------
(* Callbacks move from batch to batch.                                     *)

LEMMA BatchTypes ==
    ASSUME Types
    PROVE  /\ batch_done \in Seq(Updaters) /\ batch_check1 \in Seq(Updaters)
           /\ batch_check0 \in Seq(Updaters) /\ batch_queue \in Seq(Updaters)
           /\ All = Join(batch_done, batch_check1, batch_check0, batch_queue)
           /\ All \in Seq(Updaters)
<1>1. /\ batch_done \in Seq(Updaters) /\ batch_check1 \in Seq(Updaters)
      /\ batch_check0 \in Seq(Updaters) /\ batch_queue \in Seq(Updaters)
  BY DEF Types, TypeOK
<1>2. All = Join(batch_done, batch_check1, batch_check0, batch_queue)
  BY DEF All, Join
<1> QED BY <1>1, <1>2, JoinIs

\* The only owner moves batches and goes on.
LEMMA MoveStep ==
    ASSUME Inv, NEW e \in Executors, NEW x \in ExecState, Goes(e, x),
           UNCHANGED <<c, seq, reader, sections, waitfor, running, freed, use, completion, earlier>>,
           All' = All, running, pending' = FALSE, completed' \in 0..1,
           {batch_queue', batch_check0', batch_check1', batch_done'} \subseteq Seq(Updaters),
           \A f \in Processing : f = e,
           x.pc \notin {"off", "wait", "drained"}, x.done = FALSE, exec[e].done = FALSE,
           e = Work => x.pc # "harvest", e # Work => x.pc # "invoke" /\ exec[e].pc \in Advancing,
           e # Work => (batch_done \o batch_check1 \o batch_check0)' = batch_done \o batch_check1 \o batch_check0,
           x.pc = "check" => /\ x.idx = 1 - completed' /\ x.check \in {1, 2} /\ CheckOK(x)'
                             /\ batch_check0' # <<>> \/ batch_check1' # <<>>,
           WaitInv', FreedInv'
    PROVE  Inv'
<1>0. /\ Types /\ Counted /\ CallInv /\ OwnerInv /\ ListInv /\ OrderInv
  BY DEF Inv
<1>2. /\ exec' \in [Executors -> ExecState] /\ DOMAIN exec' = Executors
      /\ exec'[e] = x /\ \A f \in Executors \ {e} : exec'[f] = exec[f]
  BY <1>0 DEF Types, Goes
<1>3. \A f \in Executors \ {e} : exec'[f].pc = exec[f].pc /\ exec[f].pc \in {"off", "wait"}
  BY <1>2 DEF Processing
<1>4. Types'
  BY <1>0, <1>2 DEF Types, TypeOK
<1>5. Counted'
  BY <1>0 DEF Counted, Part, Wrap, Rank, InRank
<1>6. OrderInv'
  BY <1>0 DEF OrderInv, Before
<1>7. CallInv'
  <2>1. \A u \in Updaters : use'[u] = "sync" <=> exec'[u].pc # "off"
    BY <1>0, <1>2, <1>3, Constants DEF CallInv, Advancing
  <2>2. \A f \in Executors : exec'[f].pc = "off" => exec'[f] = Off
    BY <1>0, <1>2 DEF CallInv
  <2>3. \A f \in Executors : ~exec'[f].done
    BY <1>0, <1>2, <1>3 DEF CallInv
  <2>4. exec'[Work].pc \notin {"wait", "harvest"} /\ \A u \in Updaters : exec'[u].pc # "invoke"
    BY <1>0, <1>2, Constants DEF CallInv
  <2>5. \A u \in Updaters : completion'[u] => exec'[u].pc = "wait"
    BY <1>0, <1>2, Constants DEF CallInv, Advancing
  <2> QED BY <2>1, <2>2, <2>3, <2>4, <2>5 DEF CallInv
<1>8. OwnerInv'
  <2>1. Processing' = {e}
    BY <1>2, <1>3 DEF Processing
  <2>2. running' /\ ~pending'
    OBVIOUS
  <2> QED BY <2>1, <2>2, Zenon DEF OwnerInv
<1>9. ListInv'
  <2>1. \A u \in Updaters :
            InList(All', u) <=> use'[u] # "none" /\ ~completion'[u] /\ ~exec'[u].done
    <3>1. \A u \in Updaters : exec'[u].done = exec[u].done
      BY <1>2, Constants
    <3> QED BY <1>0, <3>1 DEF ListInv
  <2>2. ASSUME NEW u \in Updaters, exec'[u].pc \in Advancing \cup {"harvest"}
        PROVE (batch_done \o batch_check1 \o batch_check0)' = <<u>>
    <3>1. u = e /\ e # Work
      BY <1>3, <2>2, Constants DEF Advancing
    <3> QED BY <1>0, <3>1 DEF ListInv
  <2>3. ASSUME NEW f \in Executors, exec'[f].pc \in {"check", "drained"}
        PROVE batch_check0' # <<>> \/ batch_check1' # <<>>
    BY <1>2, <1>3, <2>3
  <2>4. DupFree(All')
    BY <1>0 DEF ListInv
  <2> QED BY <2>1, <2>2, <2>3, <2>4 DEF ListInv
<1>10. CheckInv'
  <2>1. ASSUME exec'[e].pc = "check" PROVE CheckOK(exec[e])'
    BY <1>2, <2>1
  <2> QED BY <1>2, <1>3, <2>1 DEF CheckInv
<1> QED BY <1>4, <1>5, <1>6, <1>7, <1>8, <1>9, <1>10 DEF Inv

LEMMA CheckStartNext ==
    ASSUME NEW x \in ExecState, Types, UNCHANGED <<c, seq, reader>>,
           x.pass = "seq", x.at = 0, x.sum = 0
    PROVE  CheckOK(x)'
<1>1. CheckOK(x)
  BY CheckStart
<1>2. Gap(x)' = Gap(x)
  BY DEF Gap, Part, Rank, Wrap
<1>3. InRank(x.idx, {"index", "locking"})' = InRank(x.idx, {"index", "locking"})
  BY DEF InRank
<1> QED BY <1>1, <1>2, <1>3 DEF CheckOK

\* Who drained a rank owns the batches, and no head that has been through both ranks, or is
\* through with this one, waits for a reader of it.
LEMMA Drained ==
    ASSUME Inv, NEW e \in Executors, exec[e].pc = "drained"
    PROVE  /\ running /\ pending = FALSE /\ exec[e].done = FALSE
           /\ \A f \in Processing : f = e
           /\ exec[e].idx = 1 - completed
           /\ \A u \in Updaters, r \in Readers : r \in waitfor[u] =>
                /\ reader[r].pc = "in"
                /\ ~InList(batch_check1, u) /\ (InList(batch_check0, u) \/ InList(batch_queue, u))
                /\ InList(batch_check0, u) => reader[r].idx = completed
<1>0. Types /\ OwnerInv /\ WaitInv /\ CheckInv /\ e \in Processing
  BY DEF Inv, Processing
<1>1. running /\ ~pending /\ \A f \in Processing : f = e
  BY <1>0 DEF OwnerInv
<1>2. pending \in BOOLEAN /\ completed \in 0..1
  BY <1>0 DEF Types, TypeOK
<1>3. exec[e].done = FALSE
  BY NotDone
<1>4. exec[e].idx = 1 - completed /\ Cleared(1 - completed)
  BY <1>0 DEF CheckInv
<1>5. ASSUME NEW u \in Updaters, NEW r \in Readers, r \in waitfor[u]
      PROVE  /\ reader[r].pc = "in"
             /\ ~InList(batch_check1, u) /\ (InList(batch_check0, u) \/ InList(batch_queue, u))
             /\ InList(batch_check0, u) => reader[r].idx = completed
  <2>1. reader[r].idx \in 0..1
    BY <1>0, ReaderType DEF Types
  <2>2. InList(batch_check0, u) \/ InList(batch_check1, u) => reader[r].idx # 1 - completed
    BY <1>4, <1>5 DEF Cleared
  <2>3. /\ reader[r].pc = "in"
        /\ InList(batch_check1, u) \/ InList(batch_check0, u) \/ InList(batch_queue, u)
        /\ InList(batch_check1, u) => reader[r].idx = 1 - completed
    BY <1>0, <1>5 DEF WaitInv
  <2>4. reader[r].idx # 1 - completed => reader[r].idx = completed
    BY <1>2, <2>1
  <2> QED BY <2>2, <2>3, <2>4
<1> QED BY <1>1, <1>2, <1>3, <1>4, <1>5

LEMMA FlipStep ==
    ASSUME Inv, NEW e \in Executors, FlipRank(e)
    PROVE  Inv'
<1>0. /\ Types /\ exec[e].pc = "drained" /\ completed \in 0..1 /\ FreedInv
      /\ waitfor \in [Updaters -> SUBSET Readers]
  BY DEF FlipRank, Inv, Types, TypeOK
<1>1. /\ UNCHANGED <<c, seq, reader, sections, waitfor, running, freed, use, completion, earlier>>
      /\ UNCHANGED <<batch_queue, pending>>
      /\ batch_done' = batch_done \o batch_check1 /\ batch_check1' = batch_check0
      /\ batch_check0' = <<>>
  BY DEF FlipRank, readSide, queueSide
<1>2. /\ running /\ pending = FALSE /\ exec[e].done = FALSE
      /\ \A f \in Processing : f = e
      /\ exec[e].idx = 1 - completed
      /\ \A u \in Updaters, r \in Readers : r \in waitfor[u] =>
            /\ reader[r].pc = "in"
            /\ ~InList(batch_check1, u) /\ (InList(batch_check0, u) \/ InList(batch_queue, u))
            /\ InList(batch_check0, u) => reader[r].idx = completed
  BY <1>0, Drained
<1>3. /\ batch_done \in Seq(Updaters) /\ batch_check1 \in Seq(Updaters)
      /\ batch_check0 \in Seq(Updaters) /\ batch_queue \in Seq(Updaters)
      /\ All = Join(batch_done, batch_check1, batch_check0, batch_queue)
      /\ batch_done \o batch_check1 \in Seq(Updaters) /\ <<>> \in Seq(Updaters)
  BY <1>0, BatchTypes, JoinIs, EmptySeq
<1>4. All' = All /\ (batch_done \o batch_check1 \o batch_check0)' = batch_done \o batch_check1 \o batch_check0
  <2>1. /\ Join(batch_done \o batch_check1, batch_check0, <<>>, batch_queue) = All
        /\ (batch_done \o batch_check1) \o batch_check0 \o <<>> = batch_done \o batch_check1 \o batch_check0
    BY <1>3, JoinMoves
  <2>2. All' = Join(batch_done', batch_check1', batch_check0', batch_queue')
    BY DEF All, Join
  <2> QED BY <1>1, <2>1, <2>2
<1>5. {batch_queue', batch_check0', batch_check1', batch_done'} \subseteq Seq(Updaters)
  BY <1>1, <1>3
<1>6. FreedInv'
  <2>1. <<>> \o <<>> = <<>>
    BY <1>3, ConcatEmptySeq
  <2> QED BY <1>0, <1>1, <2>1 DEF FreedInv, AllEmpty
<1>7. \A u : ~InList(batch_check0', u)
  BY <1>1 DEF InList
<1>8. CASE batch_check0 = <<>>
  <2>1. AfterAdvance(e) /\ completed' = completed
    BY <1>8 DEF FlipRank
  <2>2. PICK x \in ExecState : Goes(e, x) /\ x.pc = (IF e = Work THEN "invoke" ELSE "harvest")
                                          /\ x.done = FALSE
    BY <1>0, <2>1, AfterAdvanceGoes
  <2>3. \A u : ~InList(batch_check0, u)
    BY <1>8 DEF InList
  <2>4. WaitInv'
    BY <1>0, <1>1, <1>2, <2>1, <2>3 DEF WaitInv
  <2> QED BY <1>0, <1>1, <1>2, <1>4, <1>5, <1>6, <2>1, <2>2, <2>4, MoveStep DEF Advancing
<1>9. CASE batch_check0 # <<>>
  <2> DEFINE tries == IF exec[e].trycount < 2 THEN 2 ELSE exec[e].trycount
  <2>1. completed' = 1 - completed /\ StartCheck(e, 1 - exec[e].idx, 2, tries)
    BY <1>9 DEF FlipRank
  <2>2. 1 - exec[e].idx = completed /\ completed = 1 - completed' /\ completed' \in 0..1
    BY <1>0, <1>2, <2>1
  <2>3. 2 \in 0..2 /\ tries \in Nat
    BY <1>0, ExecType
  <2>4. PICK x \in ExecState : /\ Goes(e, x) /\ x.pc = "check" /\ x.idx = completed /\ x.check = 2
                               /\ x.pass = "seq" /\ x.at = 0 /\ x.sum = 0 /\ x.done = exec[e].done
    <3>1. StartCheck(e, completed, 2, tries)
      BY <2>1, <2>2
    <3> HIDE DEF tries
    <3> QED BY <1>0, <2>3, <3>1, StartCheckGoes
  <2>5. CheckOK(x)'
    BY <1>0, <1>1, <2>4, CheckStartNext
  <2>6. WaitInv'
    <3>1. ASSUME NEW u \in Updaters, NEW r \in waitfor[u]
          PROVE  /\ reader[r].pc = "in" /\ (InList(batch_check0, u) \/ InList(batch_queue, u))
                 /\ InList(batch_check0, u) => reader[r].idx = 1 - completed'
      <4>1. r \in Readers
        BY <1>0, <3>1
      <4> QED BY <1>2, <2>2, <3>1, <4>1
    <3> QED BY <1>1, <3>1 DEF WaitInv
  <2> QED BY <1>0, <1>1, <1>2, <1>4, <1>5, <1>6, <1>9, <2>2, <2>4, <2>5, <2>6, MoveStep DEF Advancing
<1> QED BY <1>8, <1>9

LEMMA FinishStep ==
    ASSUME Inv, NEW e \in Executors, FinishCheck1(e)
    PROVE  Inv'
<1>0. /\ Types /\ exec[e].pc = "drained" /\ completed \in 0..1 /\ FreedInv
      /\ waitfor \in [Updaters -> SUBSET Readers]
  BY DEF FinishCheck1, Inv, Types, TypeOK
<1>1. /\ UNCHANGED <<c, seq, reader, sections, waitfor, running, freed, use, completion, earlier>>
      /\ UNCHANGED <<batch_queue, pending, completed, batch_check0>>
      /\ batch_done' = batch_done \o batch_check1 /\ batch_check1' = <<>> /\ AfterAdvance(e)
  BY DEF FinishCheck1, readSide, queueSide
<1>2. /\ running /\ pending = FALSE /\ exec[e].done = FALSE
      /\ \A f \in Processing : f = e
      /\ \A u \in Updaters, r \in Readers : r \in waitfor[u] =>
            /\ reader[r].pc = "in"
            /\ ~InList(batch_check1, u) /\ (InList(batch_check0, u) \/ InList(batch_queue, u))
  BY <1>0, Drained
<1>3. /\ batch_done \in Seq(Updaters) /\ batch_check1 \in Seq(Updaters)
      /\ batch_check0 \in Seq(Updaters) /\ batch_queue \in Seq(Updaters)
      /\ All = Join(batch_done, batch_check1, batch_check0, batch_queue)
      /\ batch_done \o batch_check1 \in Seq(Updaters) /\ <<>> \in Seq(Updaters)
  BY <1>0, BatchTypes, JoinIs, EmptySeq
<1>4. All' = All /\ (batch_done \o batch_check1 \o batch_check0)' = batch_done \o batch_check1 \o batch_check0
  <2>1. /\ Join(batch_done \o batch_check1, <<>>, batch_check0, batch_queue) = All
        /\ (batch_done \o batch_check1) \o <<>> \o batch_check0 = batch_done \o batch_check1 \o batch_check0
    BY <1>3, JoinMoves
  <2>2. All' = Join(batch_done', batch_check1', batch_check0', batch_queue')
    BY DEF All, Join
  <2> QED BY <1>1, <2>1, <2>2
<1>5. {batch_queue', batch_check0', batch_check1', batch_done'} \subseteq Seq(Updaters)
  BY <1>1, <1>3
<1>6. FreedInv'
  <2>1. <<>> \o <<>> = <<>>
    BY <1>3, ConcatEmptySeq
  <2> QED BY <1>0, <1>1, <2>1 DEF FreedInv, AllEmpty
<1>7. PICK x \in ExecState : Goes(e, x) /\ x.pc = (IF e = Work THEN "invoke" ELSE "harvest")
                                        /\ x.done = FALSE
  BY <1>0, <1>1, AfterAdvanceGoes
<1>8. WaitInv'
  <2>1. \A u : ~InList(batch_check1', u)
    BY <1>1 DEF InList
  <2> QED BY <1>0, <1>1, <1>2, <2>1 DEF WaitInv
<1> QED BY <1>0, <1>1, <1>2, <1>4, <1>5, <1>6, <1>7, <1>8, MoveStep DEF Advancing

LEMMA ProcessStep ==
    ASSUME Inv, ProcessSrcu
    PROVE  Inv'
<1>0. /\ Types /\ CallInv /\ OwnerInv /\ WaitInv /\ FreedInv /\ exec[Work] = Off /\ pending
      /\ Work \in Executors /\ completed \in 0..1 /\ waitfor \in [Updaters -> SUBSET Readers]
  BY Constants DEF ProcessSrcu, Inv, Types, TypeOK
<1>1. /\ UNCHANGED <<c, seq, reader, sections, waitfor, running, freed, use, completion, earlier>>
      /\ UNCHANGED <<completed, batch_check1, batch_done>>
      /\ batch_check0' = batch_check0 \o batch_queue /\ batch_queue' = <<>> /\ pending' = FALSE
      /\ exec' = [exec EXCEPT ![Work].pc = "advance", ![Work].trycount = 1]
  BY DEF ProcessSrcu, readSide
<1>2. running /\ Processing = {}
  BY <1>0 DEF OwnerInv
<1>3. /\ batch_done \in Seq(Updaters) /\ batch_check1 \in Seq(Updaters)
      /\ batch_check0 \in Seq(Updaters) /\ batch_queue \in Seq(Updaters)
      /\ All = Join(batch_done, batch_check1, batch_check0, batch_queue)
      /\ batch_check0 \o batch_queue \in Seq(Updaters) /\ <<>> \in Seq(Updaters)
  BY <1>0, BatchTypes, JoinIs, EmptySeq
<1>4. All' = All
  <2>1. Join(batch_done, batch_check1, batch_check0 \o batch_queue, <<>>) = All
    BY <1>3, JoinMoves
  <2>2. All' = Join(batch_done', batch_check1', batch_check0', batch_queue')
    BY DEF All, Join
  <2> QED BY <1>1, <2>1, <2>2
<1>5. {batch_queue', batch_check0', batch_check1', batch_done'} \subseteq Seq(Updaters)
  BY <1>1, <1>3
<1>6. FreedInv'
  <2>1. <<>> \o <<>> = <<>>
    BY <1>3, ConcatEmptySeq
  <2> QED BY <1>0, <1>1, <2>1 DEF FreedInv, AllEmpty
<1> DEFINE x == [Off EXCEPT !.pc = "advance", !.trycount = 1]
<1>7. x \in ExecState /\ x.pc = "advance" /\ x.done = FALSE /\ exec[Work].done = FALSE
  BY <1>0, OffTypes DEF ExecState
<1>8. exec' = [exec EXCEPT ![Work] = x]
  BY <1>0, <1>1
<1> HIDE DEF x
<1>9. Goes(Work, x)
  BY <1>0, <1>7, <1>8, GoesTo
<1>10. WaitInv'
  <2>1. \A u : InList(batch_check0', u) <=> InList(batch_check0, u) \/ InList(batch_queue, u)
    BY <1>1, <1>3, InConcat
  <2> QED BY <1>0, <1>1, <2>1 DEF WaitInv
<1> QED BY <1>0, <1>1, <1>2, <1>4, <1>5, <1>6, <1>7, <1>9, <1>10, MoveStep DEF Advancing

-----------------------------------------------------------------------------
(* Callbacks are queued.                                                   *)

\* What is known of a head that is free, and of the heads given to call_srcu().
LEMMA IdleHead ==
    ASSUME Inv, NEW u \in Updaters, Idle(u)
    PROVE  /\ use[u] = "none" /\ exec[u] = Off /\ exec[u].pc = "off" /\ exec[u].done = FALSE /\ freed = FALSE
           /\ ~completion[u] /\ ~InList(All, u) /\ ~InList(batch_check1, u) /\ ~InList(batch_check0, u)
           /\ \A v \in Updaters : use[v] = "call" => v # u /\ InList(All, v)
<1>0. Types /\ CallInv /\ ListInv
  BY DEF Inv
<1>1. use[u] = "none" /\ exec[u] = Off /\ freed = FALSE
  BY <1>0 DEF Idle, Types, TypeOK
<1>2. exec[u].pc = "off" /\ exec[u].done = FALSE
  BY <1>1, OffTypes
<1>3. ~completion[u] /\ ~InList(All, u)
  BY <1>0, <1>1, <1>2 DEF CallInv, ListInv
<1>4. ~InList(batch_check1, u) /\ ~InList(batch_check0, u)
  BY <1>0, <1>3, BatchTypes, JoinIs
<1>5. ASSUME NEW v \in Updaters, use[v] = "call" PROVE v # u /\ InList(All, v)
  <2>1. exec[v].pc = "off" /\ ~completion[v]
    BY <1>0, <1>5 DEF CallInv
  <2>2. ~exec[v].done
    BY <1>0, <1>5, <2>1, Constants DEF CallInv
  <2> QED BY <1>0, <1>1, <1>5, <2>1, <2>2 DEF ListInv
<1> QED BY <1>1, <1>2, <1>3, <1>4, <1>5

\* A head is queued behind all others.
LEMMA QueueStep ==
    ASSUME Inv, NEW u \in Updaters, Idle(u), NEW k \in {"call", "sync"}, NEW x \in ExecState, Goes(u, x),
           use' = [use EXCEPT ![u] = k], RecordHistory(u), x.done = FALSE,
           UNCHANGED <<c, seq, completed, batch_check1, batch_done, freed, reader, completion, sections>>,
           {batch_queue', batch_check0'} \subseteq Seq(Updaters),
           All' = Append(All, u), running', pending' \in BOOLEAN,
           \A v \in Updaters : /\ InList(batch_queue, v) => InList(batch_queue', v)
                               /\ InList(batch_check0, v) => InList(batch_check0', v)
                               /\ InList(batch_check0', v) => InList(batch_check0, v) \/ ~running,
           InList(batch_queue', u) \/ InList(batch_check0', u),
           k = "sync" => x.pc \in {"wait", "advance"}, k = "call" => x = Off,
           x.pc \in {"off", "wait"} => UNCHANGED batch_check0,
           x.pc = "advance" =>
                ~running /\ pending' = FALSE /\ (batch_done \o batch_check1 \o batch_check0)' = <<u>>,
           x.pc # "advance" => (running /\ UNCHANGED pending) \/ (~running /\ pending' = TRUE)
    PROVE  Inv'
<1>0. /\ Types /\ Counted /\ CallInv /\ OwnerInv /\ ListInv /\ OrderInv /\ WaitInv /\ CheckInv
      /\ FreedInv /\ u \in Executors
  BY Constants DEF Inv
<1>1. /\ use[u] = "none" /\ exec[u] = Off /\ exec[u].pc = "off" /\ exec[u].done = FALSE /\ freed = FALSE
      /\ ~completion[u] /\ ~InList(All, u) /\ ~InList(batch_check1, u) /\ ~InList(batch_check0, u)
      /\ \A v \in Updaters : use[v] = "call" => v # u /\ InList(All, v)
  BY IdleHead
<1>2. /\ exec' \in [Executors -> ExecState] /\ DOMAIN exec' = Executors
      /\ exec'[u] = x /\ \A f \in Executors \ {u} : exec'[f] = exec[f]
  BY <1>0 DEF Types, Goes
<1>3. /\ use' \in [Updaters -> {"none", "call", "sync"}]
      /\ use'[u] = k /\ \A v \in Updaters \ {u} : use'[v] = use[v]
  BY <1>0 DEF Types, TypeOK
<1>4. /\ waitfor \in [Updaters -> SUBSET Readers] /\ earlier \in [Updaters -> SUBSET Updaters]
      /\ waitfor' \in [Updaters -> SUBSET Readers] /\ earlier' \in [Updaters -> SUBSET Updaters]
      /\ waitfor'[u] = {r \in Readers : reader[r].pc = "in"}
      /\ earlier'[u] = {v \in Updaters : use[v] = "call"}
      /\ \A v \in Updaters \ {u} : waitfor'[v] = waitfor[v] /\ earlier'[v] = earlier[v]
  BY <1>0 DEF Types, TypeOK, RecordHistory
<1>5. Types'
  <2>1. running' \in BOOLEAN
    OBVIOUS
  <2> QED BY <1>0, <1>2, <1>3, <1>4, <2>1 DEF Types, TypeOK
<1>6. Counted' /\ FreedInv'
  <2>1. Counted'
    BY <1>0 DEF Counted, Part, Wrap, Rank, InRank
  <2> QED BY <1>1, <2>1 DEF FreedInv
<1>7. CallInv'
  <2>0. /\ k = "sync" <=> x.pc # "off"
        /\ x.pc \in {"off", "wait", "advance"} /\ Updaters \subseteq Executors /\ Work \notin Updaters
    BY OffTypes, Constants
  <2>1. \A v \in Updaters : use'[v] = "sync" <=> exec'[v].pc # "off"
    <3>1. ASSUME NEW v \in Updaters, v # u PROVE use'[v] = "sync" <=> exec'[v].pc # "off"
      <4>1. use'[v] = use[v] /\ exec'[v] = exec[v]
        BY <1>2, <1>3, <2>0, <3>1
      <4> QED BY <1>0, <4>1 DEF CallInv
    <3> QED BY <1>2, <1>3, <2>0, <3>1
  <2>2. \A f \in Executors : exec'[f].pc = "off" => exec'[f] = Off
    BY <1>0, <1>2 DEF CallInv
  <2>3. \A f \in Executors :
            exec'[f].done => f # Work /\ exec'[f].pc \in {"reschedule", "recheck"}
    BY <1>0, <1>2 DEF CallInv
  <2>4. exec'[Work].pc \notin {"wait", "harvest"} /\ \A v \in Updaters : exec'[v].pc # "invoke"
    <3>1. exec'[Work] = exec[Work]
      BY <1>2, <2>0, Constants
    <3>2. \A v \in Updaters : v # u => exec'[v] = exec[v]
      BY <1>2, <2>0
    <3>3. exec'[u].pc # "invoke"
      BY <1>2, <2>0
    <3> QED BY <1>0, <3>1, <3>2, <3>3 DEF CallInv
  <2>5. \A v \in Updaters : completion'[v] => exec'[v].pc = "wait"
    BY <1>0, <1>1, <1>2, Constants DEF CallInv
  <2> QED BY <2>1, <2>2, <2>3, <2>4, <2>5 DEF CallInv
<1>8. OwnerInv'
  <2>1. CASE x.pc = "advance"
    <3>0. ~running
      BY <2>1
    <3>1. Processing = {}
      BY <1>0, <3>0, Zenon DEF OwnerInv
    <3>2. Processing' = {u}
      <4>1. \A f \in Executors \ {u} : exec'[f].pc \in {"off", "wait"}
        BY <1>2, <3>1 DEF Processing
      <4>2. exec'[u].pc = "advance"
        BY <1>2, <2>1
      <4> QED BY <1>0, <4>1, <4>2 DEF Processing
    <3>3. running' /\ ~pending'
      BY <2>1
    <3> QED BY <3>2, <3>3, Zenon DEF OwnerInv
  <2>2. CASE x.pc # "advance"
    <3>1. Processing' = Processing
      BY <1>1, <1>2, <2>2, OffTypes DEF Processing
    <3>2. CASE running /\ UNCHANGED pending
      <4>1. /\ \A e, f \in Processing : e = f
            /\ Processing # {} => ~pending
            /\ pending \/ Processing # {}
        BY <1>0, <3>2 DEF OwnerInv
      <4> QED BY <3>1, <3>2, <4>1, Zenon DEF OwnerInv
    <3>3. CASE ~running /\ pending' = TRUE
      <4>1. Processing = {}
        BY <1>0, <3>3 DEF OwnerInv
      <4> QED BY <3>1, <3>3, <4>1, Zenon DEF OwnerInv
    <3> QED BY <2>2, <3>2, <3>3
  <2> QED BY <2>1, <2>2
<1>9. ListInv'
  <2>0. All \in Seq(Updaters) /\ DupFree(All)
    BY <1>0, BatchTypes DEF ListInv
  <2>1. DupFree(All') /\ \A v \in Updaters : InList(All', v) <=> InList(All, v) \/ v = u
    BY <1>1, <2>0, AppendList
  <2>2. \A v \in Updaters :
            InList(All', v) <=> use'[v] # "none" /\ ~completion'[v] /\ ~exec'[v].done
    BY <1>0, <1>1, <1>2, <1>3, <2>1, Constants DEF ListInv
  <2>3. ASSUME NEW v \in Updaters, exec'[v].pc \in Advancing \cup {"harvest"}
        PROVE (batch_done \o batch_check1 \o batch_check0)' = <<v>>
    <3>1. CASE v = u
      BY <1>2, <2>3, <3>1, OffTypes DEF Advancing
    <3>2. CASE v # u
      <4>1. v \in Processing /\ exec[v].pc \in Advancing \cup {"harvest"}
        BY <1>2, <2>3, <3>2, Constants DEF Processing, Advancing
      <4>2. running
        BY <1>0, <4>1 DEF OwnerInv
      <4>3. UNCHANGED batch_check0
        BY <4>2, OffTypes
      <4> QED BY <1>0, <4>1, <4>3 DEF ListInv
    <3> QED BY <3>1, <3>2
  <2>4. ASSUME NEW f \in Executors, exec'[f].pc \in {"check", "drained"}
        PROVE batch_check0' # <<>> \/ batch_check1' # <<>>
    <3>1. f # u /\ exec[f].pc \in {"check", "drained"}
      BY <1>2, <2>4, OffTypes
    <3>2. f \in Processing
      BY <3>1 DEF Processing
    <3>3. running
      BY <1>0, <3>2 DEF OwnerInv
    <3>4. UNCHANGED batch_check0
      BY <3>3, OffTypes
    <3> QED BY <1>0, <3>1, <3>4 DEF ListInv
  <2> QED BY <2>1, <2>2, <2>3, <2>4 DEF ListInv
<1>10. OrderInv'
  <2>0. All \in Seq(Updaters)
    BY <1>0, BatchTypes
  <2>1. ASSUME NEW v \in earlier'[u] PROVE use'[v] = "call" /\ Before(All', v, u)
    <3>1. v \in Updaters /\ use[v] = "call" /\ v # u /\ InList(All, v)
      BY <1>1, <1>4, <2>1
    <3> QED BY <1>3, <2>0, <3>1, BeforeAppend
  <2>2. ASSUME NEW w \in Updaters, w # u, NEW v \in earlier'[w] PROVE use'[v] = "call" /\ Before(All', v, w)
    <3>1. v \in Updaters /\ v \in earlier[w]
      BY <1>4, <2>2
    <3>2. use[v] = "call" /\ Before(All, v, w) /\ v # u
      BY <1>0, <1>1, <3>1 DEF OrderInv
    <3> QED BY <1>3, <2>0, <3>1, <3>2, BeforeAppend
  <2>3. ASSUME NEW w \in Updaters, NEW v \in earlier'[w] PROVE use'[v] = "call" /\ Before(All', v, w)
    BY <2>1, <2>2, <2>3
  <2>4. ASSUME NEW v, NEW w PROVE Before(All', v, w) <=> Before(All, v, w)'
    BY DEF Before
  <2> QED BY <2>3, <2>4 DEF OrderInv
<1>11. WaitInv'
  <2>1. ASSUME NEW r \in waitfor'[u] PROVE reader'[r].pc = "in"
    BY <1>4, <2>1
  <2>2. ASSUME NEW w \in Updaters, w # u, NEW r \in waitfor'[w]
        PROVE  /\ reader[r].pc = "in"
               /\ InList(batch_check1, w) \/ InList(batch_check0', w) \/ InList(batch_queue', w)
               /\ InList(batch_check1, w) => reader[r].idx = 1 - completed
    <3>1. r \in waitfor[w]
      BY <1>4, <2>2
    <3> QED BY <1>0, <3>1 DEF WaitInv
  <2> QED BY <1>1, <2>1, <2>2 DEF WaitInv
<1>12. CheckInv'
  <2>1. ASSUME NEW f \in Executors, exec'[f].pc \in {"check", "drained"}
        PROVE  exec'[f] = exec[f] /\ UNCHANGED batch_check0
    <3>1. f # u /\ exec[f].pc \in {"check", "drained"} /\ exec'[f] = exec[f]
      BY <1>2, <2>1, OffTypes
    <3>2. f \in Processing
      BY <3>1 DEF Processing
    <3>3. running
      BY <1>0, <3>2 DEF OwnerInv
    <3> QED BY <3>1, <3>3, OffTypes
  <2>2. ASSUME NEW i, UNCHANGED batch_check0, Cleared(i) PROVE Cleared(i)'
    <3>1. ASSUME NEW w \in Updaters, InList(batch_check0, w) \/ InList(batch_check1, w), NEW r \in waitfor'[w]
          PROVE  reader[r].idx # i
      <4>1. w # u
        BY <1>1, <3>1
      <4> QED BY <1>4, <2>2, <3>1, <4>1 DEF Cleared
    <3> QED BY <2>2, <3>1 DEF Cleared, InList
  <2>3. ASSUME NEW y, UNCHANGED batch_check0, CheckOK(y) PROVE CheckOK(y)'
    <3>1. Gap(y)' = Gap(y) /\ Total(y)' = Total(y)
      BY DEF Gap, Total, Part, Rank, Wrap
    <3>2. ASSUME NEW i, NEW S PROVE InRank(i, S)' = InRank(i, S)
      BY DEF InRank
    <3> QED BY <2>2, <2>3, <3>1, <3>2 DEF CheckOK
  <2>4. ASSUME NEW f \in Executors, exec'[f].pc = "check" PROVE CheckOK(exec[f])'
    <3>1. PICK y : y = exec[f]
      OBVIOUS
    <3>2. exec'[f] = y /\ CheckOK(y) /\ UNCHANGED batch_check0
      BY <1>0, <2>1, <2>4, <3>1 DEF CheckInv
    <3>3. CheckOK(y)'
      BY <2>3, <3>2
    <3> QED BY <3>2, <3>3
  <2>5. ASSUME NEW f \in Executors, exec'[f].pc = "drained" PROVE Cleared(exec[f].idx)'
    <3>1. PICK i : i = exec[f].idx
      OBVIOUS
    <3>2. exec'[f].idx = i /\ Cleared(i) /\ UNCHANGED batch_check0
      BY <1>0, <2>1, <2>5, <3>1 DEF CheckInv
    <3>3. Cleared(i)'
      BY <2>2, <3>2
    <3> QED BY <3>2, <3>3
  <2> QED BY <1>0, <2>1, <2>4, <2>5 DEF CheckInv
<1> QED BY <1>5, <1>6, <1>7, <1>8, <1>9, <1>10, <1>11, <1>12 DEF Inv

LEMMA InAppend ==
    ASSUME NEW S, NEW l \in Seq(S), NEW u \in S, NEW v
    PROVE  Append(l, u) \in Seq(S) /\ (InList(Append(l, u), v) <=> InList(l, v) \/ v = u)
<1> DEFINE a == Append(l, u)
<1>1. /\ a \in Seq(S) /\ Len(l) \in Nat /\ DOMAIN l = 1..Len(l) /\ DOMAIN a = 1 .. Len(l) + 1
      /\ a[Len(l) + 1] = u /\ \A i \in 1..Len(l) : a[i] = l[i]
  BY AppendProperties, LenProperties
<1> HIDE DEF a
<1>2. ASSUME InList(a, v) PROVE InList(l, v) \/ v = u
  <2>1. PICK i \in DOMAIN a : a[i] = v
    BY <1>2 DEF InList
  <2> QED BY <1>1, <2>1 DEF InList
<1>3. ASSUME InList(l, v) PROVE InList(a, v)
  <2>1. PICK i \in DOMAIN l : l[i] = v
    BY <1>3 DEF InList
  <2> QED BY <1>1, <2>1 DEF InList
<1>4. InList(a, u)
  BY <1>1 DEF InList
<1> QED BY <1>1, <1>2, <1>3, <1>4 DEF a

\* A head is queued last, or first of all.
LEMMA AllAppend ==
    ASSUME Types, NEW u \in Updaters
    PROVE  /\ Join(batch_done, batch_check1, batch_check0, Append(batch_queue, u)) = Append(All, u)
           /\ AllEmpty => /\ batch_done \o batch_check1 \o Append(batch_check0, u) = <<u>>
                          /\ Join(batch_done, batch_check1, Append(batch_check0, u), batch_queue) = Append(All, u)
<1> DEFINE b == batch_done \o batch_check1
           a == b \o batch_check0
<1>0. /\ batch_done \in Seq(Updaters) /\ batch_check1 \in Seq(Updaters)
      /\ batch_check0 \in Seq(Updaters) /\ batch_queue \in Seq(Updaters)
  BY BatchTypes
<1>1. b \in Seq(Updaters) /\ <<u>> \in Seq(Updaters)
  BY <1>0, ConcatProperties
<1>2. a \in Seq(Updaters)
  BY <1>0, <1>1, ConcatProperties
<1>3. a \o batch_queue \in Seq(Updaters)
  BY <1>0, <1>2, ConcatProperties
<1>4. a \o Append(batch_queue, u) = Append(a \o batch_queue, u)
  <2>1. Append(batch_queue, u) = batch_queue \o <<u>> /\ Append(a \o batch_queue, u) = (a \o batch_queue) \o <<u>>
    BY <1>0, <1>3, AppendIsConcat
  <2> HIDE DEF a
  <2>2. (a \o batch_queue) \o <<u>> = a \o (batch_queue \o <<u>>)
    BY <1>0, <1>1, <1>2, ConcatAssociative, SMTT(30)
  <2> QED BY <1>0, <2>1, <2>2
<1>5. b \o Append(batch_check0, u) = Append(a, u)
  <2>1. Append(batch_check0, u) = batch_check0 \o <<u>> /\ Append(a, u) = a \o <<u>>
    BY <1>0, <1>2, AppendIsConcat
  <2> HIDE DEF b
  <2>2. (b \o batch_check0) \o <<u>> = b \o (batch_check0 \o <<u>>)
    BY <1>0, <1>1, ConcatAssociative, SMTT(30)
  <2> QED BY <1>0, <2>1, <2>2
<1>6. ASSUME batch_queue = <<>> PROVE Append(a, u) \o batch_queue = Append(a \o batch_queue, u)
  <2>1. Append(a, u) \in Seq(Updaters)
    BY <1>0, <1>2, AppendProperties
  <2>2. Append(a, u) \o <<>> = Append(a, u) /\ a \o <<>> = a
    BY <1>0, <1>2, <2>1, ConcatEmptySeq
  <2> QED BY <1>0, <1>6, <2>2
<1>7. ASSUME batch_done = <<>>, batch_check1 = <<>>, batch_check0 = <<>> PROVE b \o Append(batch_check0, u) = <<u>>
  <2>1. <<>> \in Seq(Updaters)
    BY <1>0, EmptySeq
  <2>2. b = <<>> /\ a = <<>>
    BY <1>0, <1>7, <2>1, ConcatEmptySeq
  <2>3. <<>> \o <<u>> = <<u>> /\ Append(<<>>, u) = <<>> \o <<u>>
    BY <1>0, <1>1, <2>1, ConcatEmptySeq, AppendIsConcat
  <2> QED BY <1>0, <1>7, <2>2, <2>3
<1> QED BY <1>4, <1>5, <1>6, <1>7 DEF Join, All, AllEmpty

LEMMA CallStep ==
    ASSUME Inv, NEW u \in Updaters, CallSrcu(u)
    PROVE  Inv'
<1>0. Types /\ OwnerInv /\ u \in Executors /\ Idle(u) /\ RecordHistory(u)
  BY Constants DEF Inv, CallSrcu
<1>1. /\ use' = [use EXCEPT ![u] = "call"] /\ batch_queue' = Append(batch_queue, u) /\ running' = TRUE
      /\ pending' = (pending \/ ~running)
      /\ UNCHANGED <<c, seq, completed, batch_check1, batch_done, freed, reader, completion, sections>>
      /\ UNCHANGED <<batch_check0, exec>>
  BY DEF CallSrcu, counters
<1>2. /\ batch_done \in Seq(Updaters) /\ batch_check1 \in Seq(Updaters)
      /\ batch_check0 \in Seq(Updaters) /\ batch_queue \in Seq(Updaters)
      /\ All = Join(batch_done, batch_check1, batch_check0, batch_queue)
  BY <1>0, BatchTypes
<1>3. All' = Append(All, u)
  <2>1. All' = Join(batch_done', batch_check1', batch_check0', batch_queue')
    BY DEF All, Join
  <2> QED BY <1>0, <1>1, <2>1, AllAppend
<1>4. /\ {batch_queue', batch_check0'} \subseteq Seq(Updaters)
      /\ \A v : InList(batch_queue', v) <=> InList(batch_queue, v) \/ v = u
  BY <1>1, <1>2, InAppend
<1>5. Goes(u, Off) /\ Off \in ExecState /\ Off.pc = "off" /\ Off.done = FALSE
  <2>1. exec[u] = Off
    BY <1>0 DEF Idle
  <2> QED BY <1>0, <1>1, <2>1, OffTypes DEF Goes, Types
<1>6. /\ running \in BOOLEAN /\ pending \in BOOLEAN /\ running' /\ pending' \in BOOLEAN
      /\ (running /\ UNCHANGED pending) \/ (~running /\ pending' = TRUE)
  <2>1. running \in BOOLEAN /\ pending \in BOOLEAN
    BY <1>0 DEF Types, TypeOK
  <2> QED BY <1>1, <2>1, Zenon
<1> QED BY <1>0, <1>1, <1>3, <1>4, <1>5, <1>6, QueueStep

LEMMA SyncStep ==
    ASSUME Inv, NEW u \in Updaters, NEW n \in TryCounts, SynchronizeSrcu(u, n)
    PROVE  Inv'
<1>0. /\ Types /\ OwnerInv /\ u \in Executors /\ Idle(u) /\ RecordHistory(u) /\ exec[u] = Off
      /\ running \in BOOLEAN /\ pending \in BOOLEAN /\ n \in Nat
  BY Constants, SrcuAssumption DEF Inv, SynchronizeSrcu, Idle, Types, TypeOK
<1>1. /\ use' = [use EXCEPT ![u] = "sync"]
      /\ UNCHANGED <<c, seq, completed, batch_check1, batch_done, freed, reader, completion, sections>>
      /\ UNCHANGED pending
  BY DEF SynchronizeSrcu, counters
<1>2. /\ batch_done \in Seq(Updaters) /\ batch_check1 \in Seq(Updaters)
      /\ batch_check0 \in Seq(Updaters) /\ batch_queue \in Seq(Updaters)
      /\ All = Join(batch_done, batch_check1, batch_check0, batch_queue)
  BY <1>0, BatchTypes
<1>3. All' = Join(batch_done', batch_check1', batch_check0', batch_queue')
  BY DEF All, Join
<1>4. CASE running
  <2>1. /\ batch_queue' = Append(batch_queue, u) /\ exec' = [exec EXCEPT ![u].pc = "wait"]
        /\ UNCHANGED <<running, batch_check0>>
    BY <1>4 DEF SynchronizeSrcu
  <2>2. All' = Append(All, u)
    BY <1>0, <1>1, <1>3, <2>1, AllAppend
  <2>3. /\ {batch_queue', batch_check0'} \subseteq Seq(Updaters)
        /\ \A v : InList(batch_queue', v) <=> InList(batch_queue, v) \/ v = u
    BY <1>2, <2>1, InAppend
  <2>4. PICK x \in ExecState : Goes(u, x) /\ x.pc = "wait" /\ x.done = exec[u].done
    BY <1>0, <2>1, PcGoes DEF States
  <2>5. x.done = FALSE
    BY <1>0, <2>4, OffTypes
  <2>6. running' /\ pending' \in BOOLEAN
    BY <1>0, <1>1, <1>4, <2>1
  <2> QED BY <1>0, <1>1, <1>4, <2>1, <2>2, <2>3, <2>4, <2>5, <2>6, QueueStep
<1>5. CASE ~running
  <2>1. /\ running' = TRUE /\ batch_check0' = Append(batch_check0, u) /\ UNCHANGED batch_queue
        /\ exec' = [exec EXCEPT ![u].pc = "advance", ![u].trycount = n]
    BY <1>5 DEF SynchronizeSrcu
  <2>2. AllEmpty /\ pending = FALSE
    BY <1>0, <1>5 DEF OwnerInv
  <2>3. All' = Append(All, u) /\ (batch_done \o batch_check1 \o batch_check0)' = <<u>>
    <3>1. /\ Join(batch_done, batch_check1, Append(batch_check0, u), batch_queue) = Append(All, u)
          /\ batch_done \o batch_check1 \o Append(batch_check0, u) = <<u>>
      BY <1>0, <2>2, AllAppend
    <3> QED BY <1>1, <1>3, <2>1, <3>1
  <2>4. /\ {batch_queue', batch_check0'} \subseteq Seq(Updaters)
        /\ \A v : InList(batch_check0', v) <=> InList(batch_check0, v) \/ v = u
    BY <1>2, <2>1, InAppend
  <2> DEFINE x == [Off EXCEPT !.pc = "advance", !.trycount = n]
  <2>5. x \in ExecState /\ x.pc = "advance" /\ x.done = FALSE
    BY <1>0, OffTypes DEF ExecState
  <2>6. exec' = [exec EXCEPT ![u] = x]
    BY <1>0, <2>1
  <2> HIDE DEF x
  <2>7. Goes(u, x)
    BY <1>0, <2>5, <2>6, GoesTo
  <2>8. running' /\ pending' = FALSE
    BY <1>1, <2>1, <2>2
  <2> QED BY <1>0, <1>1, <1>5, <2>1, <2>3, <2>4, <2>5, <2>7, <2>8, QueueStep
<1> QED BY <1>4, <1>5

-----------------------------------------------------------------------------
(* Callbacks are taken from batch_done.                                    *)

LEMMA AllTail ==
    ASSUME Types, batch_done # <<>>
    PROVE  /\ All # <<>> /\ Head(All) = Head(batch_done)
           /\ Tail(All) = Join(Tail(batch_done), batch_check1, batch_check0, batch_queue)
           /\ Tail(batch_done) \in Seq(Updaters) /\ Head(batch_done) \in Updaters
           /\ Head(batch_done \o batch_check1 \o batch_check0) = Head(batch_done)
<1> DEFINE b == batch_done \o batch_check1
           a == b \o batch_check0
<1>0. /\ batch_done \in Seq(Updaters) /\ batch_check1 \in Seq(Updaters)
      /\ batch_check0 \in Seq(Updaters) /\ batch_queue \in Seq(Updaters)
  BY BatchTypes
<1>1. b \in Seq(Updaters)
  BY <1>0, ConcatProperties
<1>2. a \in Seq(Updaters)
  BY <1>0, <1>1, ConcatProperties
<1>3. b # <<>> /\ Head(b) = Head(batch_done) /\ Tail(b) = Tail(batch_done) \o batch_check1
  BY <1>0, TailConcat
<1>4. a # <<>> /\ Head(a) = Head(b) /\ Tail(a) = Tail(b) \o batch_check0
  <2> HIDE DEF b
  <2> QED BY <1>0, <1>1, <1>3, TailConcat, SMTT(30)
<1>5. a \o batch_queue # <<>> /\ Head(a \o batch_queue) = Head(a) /\ Tail(a \o batch_queue) = Tail(a) \o batch_queue
  <2> HIDE DEF a
  <2> QED BY <1>0, <1>2, <1>4, TailConcat
<1>6. Tail(batch_done) \in Seq(Updaters) /\ Head(batch_done) \in Updaters
  BY <1>0, HeadTailProperties
<1> QED BY <1>3, <1>4, <1>5, <1>6 DEF Join, All

\* The owner takes the first head, which is in flight no more.
LEMMA TakeStep ==
    ASSUME Inv, NEW e \in Executors, NEW x \in ExecState, Goes(e, x), NEW h, h = Head(batch_done),
           exec[e].pc \notin {"off", "wait"}, x.pc \in {"invoke", "reschedule"},
           batch_done # <<>>, batch_done' = Tail(batch_done),
           UNCHANGED <<c, seq, completed, running, batch_queue, batch_check0, batch_check1>>,
           UNCHANGED <<pending, freed, reader, sections, waitfor>>,
           use' \in [Updaters -> {"none", "call", "sync"}], completion' \in [Updaters -> BOOLEAN],
           earlier' \in [Updaters -> SUBSET Updaters],
           \A u \in Updaters : earlier'[u] \subseteq earlier[u] \ {h},
           \A u \in Updaters : u # h => use'[u] = use[u],
           \A u \in Updaters : use'[u] # "none" /\ ~completion'[u] /\ ~exec'[u].done
                                <=> use[u] # "none" /\ ~completion[u] /\ ~exec[u].done /\ u # h,
           CallInv'
    PROVE  Inv'
<1>0. Types /\ Counted /\ OwnerInv /\ ListInv /\ OrderInv /\ WaitInv /\ FreedInv
  BY DEF Inv
<1>1. /\ exec' \in [Executors -> ExecState] /\ DOMAIN exec' = Executors
      /\ exec'[e] = x /\ \A f \in Executors \ {e} : exec'[f] = exec[f]
  BY DEF Goes
<1>2. /\ e \in Processing /\ running /\ ~pending
      /\ \A f \in Executors \ {e} : exec'[f].pc = exec[f].pc /\ exec[f].pc \in {"off", "wait"}
  <2>1. e \in Processing
    BY DEF Processing
  <2>2. \A f \in Executors \ {e} : f \notin Processing
    BY <1>0, <2>1 DEF OwnerInv
  <2> QED BY <1>0, <1>1, <2>1, <2>2 DEF OwnerInv, Processing
<1>3. /\ batch_done \in Seq(Updaters) /\ batch_check1 \in Seq(Updaters)
      /\ batch_check0 \in Seq(Updaters) /\ batch_queue \in Seq(Updaters)
      /\ All = Join(batch_done, batch_check1, batch_check0, batch_queue) /\ All \in Seq(Updaters)
  BY <1>0, BatchTypes
<1>4. /\ All # <<>> /\ Head(All) = h /\ All' = Tail(All)
      /\ batch_done' \in Seq(Updaters) /\ h \in Updaters
  <2>1. All' = Join(batch_done', batch_check1', batch_check0', batch_queue')
    BY DEF All, Join
  <2> QED BY <1>0, <2>1, AllTail
<1>5. DupFree(All') /\ \A u \in Updaters : InList(All', u) <=> InList(All, u) /\ u # h
  <2>1. DupFree(All)
    BY <1>0 DEF ListInv
  <2> QED BY <1>3, <1>4, <2>1, TailList
<1>6. Types'
  BY <1>0, <1>1, <1>4 DEF Types, TypeOK
<1>7. Counted' /\ WaitInv' /\ FreedInv'
  <2>1. Counted'
    BY <1>0, ZenonT(60) DEF Counted, Part, Wrap, Rank, InRank
  <2>2. WaitInv'
    BY <1>0 DEF WaitInv, InList
  <2>3. ~freed
    BY <1>0 DEF FreedInv, AllEmpty
  <2> QED BY <2>1, <2>2, <2>3 DEF FreedInv
<1>8. OwnerInv'
  <2>1. Processing' = {e}
    BY <1>1, <1>2 DEF Processing
  <2>2. running' /\ ~pending'
    BY <1>2
  <2> QED BY <2>1, <2>2, Zenon DEF OwnerInv
<1>9. ListInv'
  <2>1. \A u \in Updaters :
            InList(All', u) <=> use'[u] # "none" /\ ~completion'[u] /\ ~exec'[u].done
    BY <1>0, <1>5 DEF ListInv
  <2>2. \A f \in Executors : exec'[f].pc \notin Advancing \cup {"harvest"}
    BY <1>1, <1>2 DEF Advancing
  <2> QED BY <1>5, <2>1, <2>2, Constants DEF ListInv, Advancing
<1>10. OrderInv'
  <2>1. ASSUME NEW u \in Updaters, NEW v \in earlier'[u] PROVE use'[v] = "call" /\ Before(All', v, u)
    <3>1. v \in earlier[u] /\ v # h /\ v \in Updaters
      BY <2>1
    <3>2. use[v] = "call" /\ Before(All, v, u)
      BY <1>0, <3>1 DEF OrderInv
    <3> QED BY <1>3, <1>4, <3>1, <3>2, BeforeTail
  <2>2. ASSUME NEW v, NEW w PROVE Before(All', v, w) <=> Before(All, v, w)'
    BY DEF Before
  <2> QED BY <2>1, <2>2 DEF OrderInv
<1>11. CheckInv'
  <2>1. \A f \in Executors : exec'[f].pc \notin {"check", "drained"}
    BY <1>1, <1>2
  <2> QED BY <2>1 DEF CheckInv
<1> QED BY <1>6, <1>7, <1>8, <1>9, <1>10, <1>11 DEF Inv

\* The first head of batch_done is in flight.
LEMMA FirstHead ==
    ASSUME Inv, batch_done # <<>>, NEW h, h = Head(batch_done)
    PROVE  /\ h \in Updaters /\ use[h] \in {"call", "sync"} /\ ~completion[h] /\ ~exec[h].done
           /\ Head(batch_done \o batch_check1 \o batch_check0) = h
<1>0. Types /\ ListInv
  BY DEF Inv
<1>1. /\ batch_done \in Seq(Updaters) /\ batch_check1 \in Seq(Updaters)
      /\ batch_check0 \in Seq(Updaters) /\ batch_queue \in Seq(Updaters)
      /\ All = Join(batch_done, batch_check1, batch_check0, batch_queue) /\ All \in Seq(Updaters)
  BY <1>0, BatchTypes
<1>2. /\ All # <<>> /\ Head(All) = h /\ h \in Updaters
      /\ Head(batch_done \o batch_check1 \o batch_check0) = h
  BY <1>0, AllTail
<1>3. InList(All, h)
  <2>1. DupFree(All)
    BY <1>0 DEF ListInv
  <2> QED BY <1>1, <1>2, <2>1, TailList
<1>4. use[h] \in {"none", "call", "sync"}
  BY <1>0, <1>2 DEF Types, TypeOK
<1> QED BY <1>0, <1>2, <1>3, <1>4 DEF ListInv

LEMMA InvokeStep ==
    ASSUME Inv, InvokeCallback
    PROVE  Inv'
<1> DEFINE h == Head(batch_done)
<1>0. /\ Types /\ CallInv /\ OwnerInv /\ OrderInv /\ Work \in Executors /\ Work \notin Updaters
      /\ Updaters \subseteq Executors /\ exec[Work].pc = "invoke" /\ batch_done # <<>>
      /\ use \in [Updaters -> {"none", "call", "sync"}] /\ completion \in [Updaters -> BOOLEAN]
      /\ earlier \in [Updaters -> SUBSET Updaters]
  BY Constants DEF Inv, InvokeCallback, Types, TypeOK
<1>1. /\ batch_done' = Tail(batch_done)
      /\ UNCHANGED <<c, seq, completed, running, batch_queue, batch_check0, batch_check1>>
      /\ UNCHANGED <<pending, freed, reader, sections, waitfor>>
      /\ exec' = [exec EXCEPT ![Work].n = @ + 1]
  BY DEF InvokeCallback, readSide
<1>2. h \in Updaters /\ use[h] \in {"call", "sync"} /\ ~completion[h] /\ ~exec[h].done
  BY <1>0, FirstHead
<1> DEFINE x == [exec[Work] EXCEPT !.n = exec[Work].n + 1]
<1>3. x \in ExecState /\ x.pc = "invoke" /\ x.done = exec[Work].done
  <2>1. PICK y : y = exec[Work]
    OBVIOUS
  <2>2. y \in ExecState /\ y.n \in Nat /\ y.pc = "invoke"
    BY <1>0, <2>1, ExecType
  <2>3. PICK m : m = y.n + 1 /\ m \in Nat
    BY <2>2
  <2>4. [y EXCEPT !.n = m] \in ExecState
    BY <2>2, <2>3 DEF ExecState
  <2> QED BY <2>1, <2>2, <2>3, <2>4 DEF ExecState
<1>4. Goes(Work, x)
  <2>1. exec' = [exec EXCEPT ![Work] = x]
    BY <1>1
  <2> HIDE DEF x
  <2> QED BY <1>0, <1>3, <2>1, GoesTo
<1> HIDE DEF x
<1>5. /\ exec'[Work] = x /\ \A f \in Executors \ {Work} : exec'[f] = exec[f]
      /\ \A u \in Updaters : exec'[u] = exec[u]
  BY <1>0, <1>4 DEF Goes
<1>6. exec[h].pc \in {"off", "wait"}
  <2>1. Work \in Processing
    BY <1>0 DEF Processing
  <2>2. h \notin Processing
    BY <1>0, <1>2, <2>1 DEF OwnerInv
  <2> QED BY <1>0, <1>2, <2>2 DEF Processing
<1>7. ASSUME \A u \in Updaters : use'[u] = "sync" <=> use[u] = "sync",
             \A u \in Updaters : completion'[u] => completion[u] \/ (u = h /\ use[h] = "sync")
      PROVE  CallInv'
  <2>1. \A u \in Updaters : completion'[u] => exec'[u].pc = "wait"
    BY <1>0, <1>2, <1>5, <1>6, <1>7 DEF CallInv
  <2>2. \A u \in Updaters : use'[u] = "sync" <=> exec'[u].pc # "off"
    BY <1>0, <1>5, <1>7 DEF CallInv
  <2>3. \A f \in Executors : /\ exec'[f].pc = "off" => exec'[f] = Off
                             /\ exec'[f].done => f # Work /\ exec'[f].pc \in {"reschedule", "recheck"}
    <3>1. exec'[Work].pc = "invoke" /\ ~exec'[Work].done
      BY <1>0, <1>3, <1>5 DEF CallInv
    <3> QED BY <1>0, <1>5, <3>1 DEF CallInv
  <2>4. exec'[Work].pc \notin {"wait", "harvest"} /\ \A u \in Updaters : exec'[u].pc # "invoke"
    BY <1>0, <1>3, <1>5 DEF CallInv
  <2> QED BY <2>1, <2>2, <2>3, <2>4 DEF CallInv
<1>8. CASE use[h] = "sync"
  <2>1. completion' = [completion EXCEPT ![h] = TRUE] /\ use' = use /\ earlier' = earlier
    BY <1>8 DEF InvokeCallback
  <2>2. completion' \in [Updaters -> BOOLEAN] /\ completion'[h]
        /\ \A u \in Updaters : u # h => completion'[u] = completion[u]
    BY <1>0, <1>2, <2>1
  <2>3. \A u \in Updaters : earlier'[u] \subseteq earlier[u] \ {h}
    <3>1. \A u \in Updaters : h \notin earlier[u]
      BY <1>0, <1>8 DEF OrderInv
    <3> QED BY <2>1, <3>1
  <2>4. CallInv'
    BY <1>7, <1>8, <2>1, <2>2
  <2>5. \A u \in Updaters : use'[u] # "none" /\ ~completion'[u] /\ ~exec'[u].done
                             <=> use[u] # "none" /\ ~completion[u] /\ ~exec[u].done /\ u # h
    BY <1>5, <2>1, <2>2
  <2>6. PICK g : g = h
    OBVIOUS
  <2> HIDE DEF h
  <2>7. g = Head(batch_done)
    BY <2>6 DEF h
  <2> QED BY <1>0, <1>1, <1>3, <1>4, <2>1, <2>2, <2>3, <2>4, <2>5, <2>6, <2>7, TakeStep
<1>9. CASE use[h] = "call"
  <2>1. /\ use' = [use EXCEPT ![h] = "none"] /\ completion' = completion
        /\ earlier' = [u \in Updaters |-> earlier[u] \ {h}]
    BY <1>9 DEF InvokeCallback
  <2>2. /\ use' \in [Updaters -> {"none", "call", "sync"}] /\ use'[h] = "none"
        /\ \A u \in Updaters : u # h => use'[u] = use[u]
    BY <1>0, <1>2, <2>1
  <2>3. /\ earlier' \in [Updaters -> SUBSET Updaters]
        /\ \A u \in Updaters : earlier'[u] \subseteq earlier[u] \ {h}
    BY <1>0, <2>1
  <2>4. CallInv'
    <3>1. \A u \in Updaters : use'[u] = "sync" <=> use[u] = "sync"
      BY <1>9, <2>2
    <3> QED BY <1>7, <2>1, <3>1
  <2>5. \A u \in Updaters : use'[u] # "none" /\ ~completion'[u] /\ ~exec'[u].done
                             <=> use[u] # "none" /\ ~completion[u] /\ ~exec[u].done /\ u # h
    BY <1>5, <2>1, <2>2
  <2>6. PICK g : g = h
    OBVIOUS
  <2> HIDE DEF h
  <2>7. g = Head(batch_done)
    BY <2>6 DEF h
  <2> QED BY <1>0, <1>1, <1>3, <1>4, <2>1, <2>2, <2>3, <2>4, <2>5, <2>6, <2>7, TakeStep
<1> QED BY <1>2, <1>8, <1>9

LEMMA HarvestStep ==
    ASSUME Inv, NEW u \in Updaters, Harvest(u)
    PROVE  Inv'
<1>0. /\ Types /\ CallInv /\ OwnerInv /\ ListInv /\ OrderInv /\ u \in Executors /\ u # Work
      /\ Updaters \subseteq Executors /\ Work \in Executors /\ exec[u].pc = "harvest"
      /\ use \in [Updaters -> {"none", "call", "sync"}] /\ completion \in [Updaters -> BOOLEAN]
      /\ earlier \in [Updaters -> SUBSET Updaters]
  BY Constants DEF Inv, Harvest, Types, TypeOK
<1> DEFINE d == batch_done # <<>>
           x == [exec[u] EXCEPT !.pc = "reschedule", !.done = d]
<1>1. x \in ExecState /\ x.pc = "reschedule" /\ x.done = d
  <2>1. exec[u] \in ExecState /\ d \in BOOLEAN
    BY <1>0, ExecType
  <2> QED BY <2>1 DEF ExecState
<1>2. Goes(u, x)
  <2>1. exec' = [exec EXCEPT ![u] = x]
    BY DEF Harvest
  <2> HIDE DEF x
  <2> QED BY <1>0, <1>1, <2>1, GoesTo
<1> HIDE DEF x
<1>3. exec[u].done = FALSE
  BY <1>0, NotDone
<1>4. CASE batch_done = <<>>
  <2>1. UNCHANGED restOfState
    BY <1>4 DEF Harvest, restOfState
  <2>2. x.done = FALSE
    BY <1>1, <1>4
  <2> QED BY <1>0, <1>1, <1>2, <1>3, <2>1, <2>2, OwnerGoesOn DEF Advancing
<1>5. CASE batch_done # <<>>
  <2>0. x.done = TRUE
    BY <1>1, <1>5
  <2>1. /\ batch_done' = Tail(batch_done) /\ UNCHANGED <<use, completion, earlier>>
        /\ UNCHANGED <<c, seq, completed, running, batch_queue, batch_check0, batch_check1>>
        /\ UNCHANGED <<pending, freed, reader, sections, waitfor>>
    BY <1>5 DEF Harvest, readSide, queueSide
  <2>2. Head(batch_done) = u
    <3>1. batch_done \o batch_check1 \o batch_check0 = <<u>>
      BY <1>0 DEF ListInv
    <3>2. Head(batch_done \o batch_check1 \o batch_check0) = Head(batch_done)
      BY <1>5, FirstHead
    <3> QED BY <3>1, <3>2
  <2>3. exec'[u] = x /\ \A f \in Executors \ {u} : exec'[f] = exec[f]
    BY <1>2 DEF Goes
  <2>4. CallInv'
    <3>1. \A v \in Updaters : completion'[v] => exec'[v].pc = "wait"
      BY <1>0, <2>1, <2>3 DEF CallInv
    <3>2. \A v \in Updaters : use'[v] = "sync" <=> exec'[v].pc # "off"
      BY <1>0, <1>1, <2>1, <2>3 DEF CallInv
    <3>3. \A f \in Executors : /\ exec'[f].pc = "off" => exec'[f] = Off
                               /\ exec'[f].done => f # Work /\ exec'[f].pc \in {"reschedule", "recheck"}
      BY <1>0, <1>1, <2>3 DEF CallInv
    <3>4. exec'[Work].pc \notin {"wait", "harvest"} /\ \A v \in Updaters : exec'[v].pc # "invoke"
      BY <1>0, <1>1, <2>3 DEF CallInv
    <3> QED BY <3>1, <3>2, <3>3, <3>4 DEF CallInv
  <2>5. \A v \in Updaters : earlier'[v] \subseteq earlier[v] \ {u}
    <3>1. use[u] = "sync"
      BY <1>0 DEF CallInv
    <3>2. \A v \in Updaters : u \notin earlier[v]
      BY <1>0, <3>1 DEF OrderInv
    <3> QED BY <2>1, <3>2
  <2>6. \A v \in Updaters : use'[v] # "none" /\ ~completion'[v] /\ ~exec'[v].done
                             <=> use[v] # "none" /\ ~completion[v] /\ ~exec[v].done /\ v # u
    BY <1>0, <2>0, <2>1, <2>3
  <2>7. /\ use' \in [Updaters -> {"none", "call", "sync"}] /\ completion' \in [Updaters -> BOOLEAN]
        /\ earlier' \in [Updaters -> SUBSET Updaters] /\ \A v \in Updaters : v # u => use'[v] = use[v]
    BY <1>0, <2>1
  <2> QED BY <1>0, <1>1, <1>2, <1>5, <2>1, <2>2, <2>4, <2>5, <2>6, <2>7, TakeStep
<1> QED BY <1>4, <1>5

LEMMA ReturnStep ==
    ASSUME Inv, NEW u \in Updaters, SynchronizeReturns(u)
    PROVE  Inv'
<1>0. /\ Types /\ Counted /\ CallInv /\ OwnerInv /\ ListInv /\ OrderInv /\ WaitInv /\ CheckInv
      /\ FreedInv /\ u \in Executors /\ u # Work /\ Updaters \subseteq Executors /\ Work \in Executors
      /\ exec[u].pc = "wait" /\ completion[u]
      /\ use \in [Updaters -> {"none", "call", "sync"}] /\ completion \in [Updaters -> BOOLEAN]
  BY Constants DEF Inv, SynchronizeReturns, Types, TypeOK
<1>1. /\ UNCHANGED <<c, seq, completed, running, batch_queue, batch_check0, batch_check1, batch_done>>
      /\ UNCHANGED <<pending, freed, reader, sections, waitfor, earlier>> /\ All' = All
  BY DEF SynchronizeReturns, counters, batches, history, All
<1>2. /\ use' \in [Updaters -> {"none", "call", "sync"}] /\ use'[u] = "none"
      /\ completion' \in [Updaters -> BOOLEAN] /\ completion'[u] = FALSE
      /\ \A v \in Updaters \ {u} : use'[v] = use[v] /\ completion'[v] = completion[v]
  BY <1>0 DEF SynchronizeReturns
<1>3. /\ exec' \in [Executors -> ExecState] /\ DOMAIN exec' = Executors
      /\ exec'[u] = Off /\ \A f \in Executors \ {u} : exec'[f] = exec[f]
  <2>1. exec' = [exec EXCEPT ![u] = Off]
    BY DEF SynchronizeReturns
  <2> QED BY <1>0, <2>1, OffTypes DEF Types
<1>4. Off.pc = "off" /\ Off.done = FALSE /\ use[u] = "sync"
  BY <1>0, OffTypes DEF CallInv
<1>5. Types'
  BY <1>0, <1>1, <1>2, <1>3 DEF Types, TypeOK
<1>6. Counted' /\ FreedInv' /\ OrderInv' /\ WaitInv'
  <2>1. Counted'
    BY <1>0, <1>1 DEF Counted, Part, Wrap, Rank, InRank
  <2>2. OrderInv'
    <3>1. earlier \in [Updaters -> SUBSET Updaters]
      BY <1>0 DEF Types, TypeOK
    <3>2. ASSUME NEW w \in Updaters, NEW v \in earlier[w] PROVE use'[v] = "call"
      <4>1. v \in Updaters /\ use[v] = "call"
        BY <1>0, <3>1, <3>2 DEF OrderInv
      <4> QED BY <1>2, <1>4, <4>1
    <3> QED BY <1>0, <1>1, <3>2 DEF OrderInv, Before
  <2> QED BY <1>0, <1>1, <2>1, <2>2 DEF FreedInv, AllEmpty, WaitInv, InList
<1>7. CallInv'
  <2>1. \A v \in Updaters : completion'[v] => exec'[v].pc = "wait"
    BY <1>0, <1>2, <1>3 DEF CallInv
  <2>2. \A v \in Updaters : use'[v] = "sync" <=> exec'[v].pc # "off"
    BY <1>0, <1>2, <1>3, <1>4 DEF CallInv
  <2>3. \A f \in Executors : /\ exec'[f].pc = "off" => exec'[f] = Off
                             /\ exec'[f].done => f # Work /\ exec'[f].pc \in {"reschedule", "recheck"}
    BY <1>0, <1>3, <1>4 DEF CallInv
  <2>4. exec'[Work].pc \notin {"wait", "harvest"} /\ \A v \in Updaters : exec'[v].pc # "invoke"
    BY <1>0, <1>3, <1>4 DEF CallInv
  <2> QED BY <2>1, <2>2, <2>3, <2>4 DEF CallInv
<1>8. OwnerInv'
  <2>1. Processing' = Processing
    BY <1>0, <1>3, <1>4 DEF Processing
  <2> QED BY <1>0, <1>1, <2>1 DEF OwnerInv, AllEmpty
<1>9. ListInv'
  <2>1. \A v \in Updaters :
            InList(All', v) <=> use'[v] # "none" /\ ~completion'[v] /\ ~exec'[v].done
    <3>1. ~InList(All, u)
      BY <1>0 DEF ListInv
    <3>2. ASSUME NEW v \in Updaters, v # u
          PROVE  InList(All, v) <=> use'[v] # "none" /\ ~completion'[v] /\ ~exec'[v].done
      BY <1>0, <1>2, <1>3, <3>2 DEF ListInv
    <3> QED BY <1>1, <1>2, <3>1, <3>2
  <2>2. \A f \in Executors : exec'[f].pc \in Advancing \cup {"harvest"} => exec'[f] = exec[f]
    BY <1>3, <1>4 DEF Advancing
  <2> QED BY <1>0, <1>1, <2>1, <2>2 DEF ListInv, Advancing
<1>10. CheckInv'
  <2>1. \A i : Cleared(i) => Cleared(i)'
    BY <1>1, CheckSame
  <2>2. ASSUME NEW f \in Executors, f # u, CheckOK(exec[f]) PROVE CheckOK(exec[f])'
    <3>1. PICK y : y = exec[f]
      OBVIOUS
    <3>2. CheckOK(y)'
      BY <1>1, <2>2, <3>1, CheckSame
    <3> QED BY <1>3, <2>2, <3>1, <3>2
  <2>3. ASSUME NEW f \in Executors, f # u, Cleared(exec[f].idx) PROVE Cleared(exec[f].idx)'
    BY <1>3, <2>1, <2>3
  <2>4. exec'[u].pc \notin {"check", "drained"}
    BY <1>3, <1>4
  <2> QED BY <1>0, <1>1, <1>3, <2>2, <2>3, <2>4 DEF CheckInv
<1> QED BY <1>5, <1>6, <1>7, <1>8, <1>9, <1>10 DEF Inv

-----------------------------------------------------------------------------
(* The invariant holds.                                                    *)

\* Nothing changes, except that the counters may be freed.
LEMMA StillStep ==
    ASSUME Inv, freed' \in BOOLEAN, FreedInv',
           UNCHANGED <<c, seq, completed, running, batch_queue, batch_check0, batch_check1, batch_done>>,
           UNCHANGED <<pending, reader, exec, use, completion, sections, waitfor, earlier>>
    PROVE  Inv'
<1>0. /\ Types /\ Counted /\ CallInv /\ OwnerInv /\ ListInv /\ OrderInv /\ WaitInv /\ CheckInv
  BY DEF Inv
<1>1. All' = All
  BY DEF All
<1>3. Types'
  BY <1>0 DEF Types, TypeOK
<1>4. Counted'
  BY <1>0 DEF Counted, Part, Wrap, Rank, InRank
<1>5. CallInv' /\ OwnerInv'
  BY <1>0 DEF CallInv, OwnerInv, Processing, AllEmpty
<1>6. ListInv' /\ OrderInv' /\ WaitInv'
  BY <1>0, <1>1 DEF ListInv, OrderInv, WaitInv, Before
<1>7. CheckInv'
  <2>1. \A i : Cleared(i) => Cleared(i)'
    BY CheckSame
  <2>2. ASSUME NEW f \in Executors, CheckOK(exec[f]) PROVE CheckOK(exec[f])'
    <3>1. PICK y : y = exec[f]
      OBVIOUS
    <3>2. CheckOK(y)'
      BY <2>2, <3>1, CheckSame
    <3> QED BY <3>1, <3>2
  <2>3. ASSUME NEW f \in Executors, Cleared(exec[f].idx) PROVE Cleared(exec[f].idx)'
    BY <2>1, <2>3
  <2> QED BY <1>0, <2>2, <2>3 DEF CheckInv
<1> QED BY <1>3, <1>4, <1>5, <1>6, <1>7 DEF Inv

LEMMA CleanupStep ==
    ASSUME Inv, Cleanup
    PROVE  Inv'
<1>0. Types /\ ListInv
  BY DEF Inv
<1>1. /\ UNCHANGED <<c, seq, completed, running, batch_queue, batch_check0, batch_check1, batch_done>>
      /\ UNCHANGED <<pending, reader, exec, use, completion, sections, waitfor, earlier>>
      /\ freed' = TRUE
  BY DEF Cleanup, counters, batches, history
<1>2. AllEmpty
  <2>1. \A u \in Updaters : ~InList(All, u)
    BY <1>0 DEF Cleanup, Idle, ListInv
  <2>2. /\ batch_done \in Seq(Updaters) /\ batch_check1 \in Seq(Updaters)
        /\ batch_check0 \in Seq(Updaters) /\ batch_queue \in Seq(Updaters)
        /\ All = Join(batch_done, batch_check1, batch_check0, batch_queue)
    BY <1>0, BatchTypes
  <2>3. \A u \in Updaters : /\ ~InList(batch_done, u) /\ ~InList(batch_check1, u)
                            /\ ~InList(batch_check0, u) /\ ~InList(batch_queue, u)
    BY <2>1, <2>2, JoinIs
  <2> QED BY <2>2, <2>3, NonEmpty DEF AllEmpty
<1>3. FreedInv'
  BY <1>1, <1>2 DEF FreedInv, AllEmpty
<1> QED BY <1>1, <1>3, StillStep

LEMMA InitInv == Init => Inv
<1> SUFFICES ASSUME Init PROVE Inv
  OBVIOUS
<1>1. /\ Off \in ExecState /\ Off.pc = "off" /\ Off.done = FALSE
      /\ Work \in Executors /\ Work \notin Updaters /\ Updaters \subseteq Executors
      /\ 0 \in Counter /\ 0 \in CPUs
  BY OffTypes, Constants
<1>2. \A e \in Executors : exec[e] = Off
  BY DEF Init
<1>3. Types
  <2>1. /\ c \in [CPUs -> [0..1 -> Counter]] /\ seq \in [CPUs -> [0..1 -> Counter]]
        /\ completed \in 0..1
    BY <1>1 DEF Init
  <2>2. {batch_queue, batch_check0, batch_check1, batch_done} \subseteq Seq(Updaters)
    BY EmptySeq DEF Init
  <2>3. reader \in [Readers -> [pc : {"out", "index", "locking", "in"}, idx : 0..1, cpu : CPUs]]
    BY <1>1 DEF Init, Outside
  <2>4. exec \in [Executors -> ExecState] /\ DOMAIN exec = Executors
    BY <1>1 DEF Init
  <2>5. /\ use \in [Updaters -> {"none", "call", "sync"}] /\ completion \in [Updaters -> BOOLEAN]
        /\ waitfor \in [Updaters -> SUBSET Readers] /\ earlier \in [Updaters -> SUBSET Updaters]
        /\ {running, pending, freed} \subseteq BOOLEAN
    BY DEF Init
  <2>6. sections \in 0..MaxSections
    BY SrcuAssumption DEF Init
  <2> QED BY <2>1, <2>2, <2>3, <2>4, <2>5, <2>6 DEF Types, TypeOK
<1>4. AllEmpty /\ FreedInv
  BY DEF Init, AllEmpty, FreedInv
<1>5. All = <<>> /\ \A u : ~InList(All, u)
  <2>1. <<>> \o <<>> = <<>>
    BY EmptySeq, ConcatEmptySeq
  <2>2. All = <<>>
    BY <1>4, <2>1 DEF All, AllEmpty
  <2> QED BY <2>2 DEF InList
<1>6. Counted
  <2>1. ASSUME NEW i \in 0..1 PROVE Part(c, i, CPUs, 0) = Cardinality(InRank(i, {"locking", "in"}))
    <3>1. InRank(i, {"locking", "in"}) = {}
      BY DEF InRank, Init, Outside
    <3>2. \A p \in CPUs : Rank(c, i)[p] = 0
      BY <2>1 DEF Rank, Init
    <3>3. Sum(Rank(c, i), CPUs) = 0
      BY <3>2, Constants, SumZero
    <3>4. Part(c, i, CPUs, 0) = 0
      <4>1. Wrap(0) = 0
        BY <1>1, WrapSmall
      <4> QED BY <3>3, <4>1 DEF Part
    <3> QED BY <3>1, <3>4, FS_EmptySet
  <2> QED BY <2>1 DEF Counted
<1>7. CallInv
  BY <1>1, <1>2 DEF CallInv, Init
<1>8. OwnerInv
  <2>1. Processing = {}
    BY <1>1, <1>2 DEF Processing
  <2>2. ~running /\ ~pending
    BY DEF Init
  <2> QED BY <1>4, <2>1, <2>2, Zenon DEF OwnerInv
<1>9. ListInv
  <2>1. DupFree(All)
    BY <1>5 DEF DupFree
  <2>2. \A e \in Executors : exec[e].pc \notin Advancing \cup {"harvest"}
    BY <1>1, <1>2 DEF Advancing
  <2>3. \A u \in Updaters : use[u] = "none"
    BY DEF Init
  <2> QED BY <1>1, <1>5, <2>1, <2>2, <2>3 DEF ListInv, Advancing
<1>10. OrderInv /\ WaitInv /\ CheckInv
  BY <1>1, <1>2 DEF OrderInv, WaitInv, CheckInv, Init
<1> QED BY <1>3, <1>4, <1>6, <1>7, <1>8, <1>9, <1>10 DEF Inv

LEMMA OwnerInvStep ==
    ASSUME Inv, NEW e \in Executors, OwnerStep(e)
    PROVE  Inv'
BY AdvanceStep, CheckStep, FlipStep, FinishStep, RescheduleStep DEF OwnerStep

LEMMA InvStep == Inv /\ [Next]_vars => Inv'
<1> SUFFICES ASSUME Inv, [Next]_vars PROVE Inv'
  OBVIOUS
<1>0. Work \in Executors /\ Updaters \subseteq Executors
  BY Constants
<1>1. CASE WorkStep
  BY <1>0, <1>1, ProcessStep, InvokeStep, InvokeEndsStep, OwnerInvStep DEF WorkStep
<1>2. CASE Cleanup
  BY <1>2, CleanupStep
<1>3. ASSUME NEW r \in Readers, ReaderStep(r) PROVE Inv'
  BY <1>3, ReaderInvStep
<1>4. ASSUME NEW u \in Updaters, StartUpdate(u) PROVE Inv'
  BY <1>4, CallStep, SyncStep DEF StartUpdate
<1>5. ASSUME NEW u \in Updaters, UpdaterStep(u) PROVE Inv'
  BY <1>0, <1>5, HarvestStep, ReturnStep, OwnerInvStep DEF UpdaterStep
<1>6. CASE UNCHANGED vars
  <2>1. /\ UNCHANGED <<c, seq, completed, running, batch_queue, batch_check0, batch_check1, batch_done>>
        /\ UNCHANGED <<pending, reader, exec, use, completion, sections, waitfor, earlier>>
        /\ UNCHANGED freed
    BY <1>6 DEF vars, counters, batches, history
  <2>2. FreedInv' /\ freed' \in BOOLEAN
    BY <2>1 DEF Inv, FreedInv, AllEmpty, Types, TypeOK
  <2> QED BY <2>1, <2>2, StillStep
<1> QED BY <1>1, <1>2, <1>3, <1>4, <1>5, <1>6 DEF Next

LEMMA InvHolds == Spec => []Inv
BY InitInv, InvStep, PTL DEF Spec

-----------------------------------------------------------------------------
(* What follows.                                                           *)

\* __srcu_read_lock() and __srcu_read_unlock(): for any number of readers and CPUs the counters
\* of a rank add up, modulo the width of unsigned long, to the readers of that rank, wherever
\* those were preempted, migrated to or unlocked; and every variable keeps its type.
THEOREM ReadersAreCounted == Spec => []ReaderInv
<1>1. Inv => ReaderInv
  BY CountedDef DEF Inv, Types, ReaderInv
<1> QED BY <1>1, InvHolds, PTL

LEMMA OneOwner == Inv => SingleOwner
<1> SUFFICES ASSUME Inv PROVE SingleOwner
  OBVIOUS
<1>1. OwnerInv /\ running \in BOOLEAN /\ pending \in BOOLEAN
  BY DEF Inv, Types, TypeOK
<1>2. CASE Processing = {}
  <2>1. Cardinality(Processing) = 0
    BY <1>2, FS_EmptySet
  <2>2. running = pending /\ (~running => AllEmpty)
    BY <1>1, <1>2, Zenon DEF OwnerInv
  <2> QED BY <1>1, <2>1, <2>2 DEF SingleOwner
<1>3. CASE Processing # {}
  <2>1. PICK e : Processing = {e}
    BY <1>1, <1>3 DEF OwnerInv
  <2>2. Cardinality(Processing) = 1
    BY <2>1, FS_Singleton
  <2>3. running /\ ~pending
    BY <1>1, <1>3 DEF OwnerInv
  <2> QED BY <2>2, <2>3 DEF SingleOwner
<1> QED BY <1>2, <1>3

LEMMA OnOneBatch == Inv => NoLostCallback
<1> SUFFICES ASSUME Inv, NEW u \in Updaters
             PROVE  Cardinality({i \in 1..Len(All) : All[i] = u})
                      = IF use[u] = "none" \/ completion[u] \/ exec[u].done THEN 0 ELSE 1
  BY DEF NoLostCallback, All
<1> DEFINE places == {i \in 1..Len(All) : All[i] = u}
<1>0. Types /\ ListInv
  BY DEF Inv
<1>1. All \in Seq(Updaters) /\ DupFree(All) /\ DOMAIN All = 1..Len(All)
  BY <1>0, BatchTypes, LenProperties DEF ListInv
<1>2. ASSUME InList(All, u) PROVE Cardinality(places) = 1
  <2>1. PICK i \in 1..Len(All) : All[i] = u
    BY <1>1, <1>2 DEF InList
  <2>2. places = {i}
    BY <1>1, <2>1 DEF DupFree
  <2> QED BY <2>2, FS_Singleton
<1>3. ASSUME ~InList(All, u) PROVE Cardinality(places) = 0
  <2>1. places = {}
    BY <1>1, <1>3 DEF InList
  <2> QED BY <2>1, FS_EmptySet
<1>4. InList(All, u) <=> ~(use[u] = "none" \/ completion[u] \/ exec[u].done)
  BY <1>0 DEF ListInv
<1> QED BY <1>2, <1>3, <1>4

LEMMA OwnHead == Inv => HarvestOwnHead
<1> SUFFICES ASSUME Inv, NEW u \in Updaters, exec[u].pc = "harvest", batch_done # <<>>
             PROVE  batch_done = <<u>>
  BY DEF HarvestOwnHead
<1> DEFINE b == batch_done \o batch_check1
<1>0. /\ batch_done \in Seq(Updaters) /\ batch_check1 \in Seq(Updaters)
      /\ batch_check0 \in Seq(Updaters)
  BY BatchTypes DEF Inv
<1>1. b \o batch_check0 = <<u>>
  BY DEF Inv, ListInv
<1>2. /\ b \in Seq(Updaters) /\ Len(b) = Len(batch_done) + Len(batch_check1)
      /\ Len(b \o batch_check0) = Len(b) + Len(batch_check0)
      /\ Len(batch_done) \in Nat /\ Len(batch_check1) \in Nat /\ Len(batch_check0) \in Nat
  <2>1. b \in Seq(Updaters) /\ Len(b) = Len(batch_done) + Len(batch_check1)
    BY <1>0, ConcatProperties
  <2> HIDE DEF b
  <2>2. Len(b \o batch_check0) = Len(b) + Len(batch_check0)
    BY <1>0, <2>1, ConcatProperties
  <2> QED BY <1>0, <2>1, <2>2, LenProperties
<1>3. Len(batch_done) # 0
  BY <1>0, EmptySeq
<1>4. Len(<<u>>) = 1
  OBVIOUS
<1>5. Len(batch_check1) = 0 /\ Len(batch_check0) = 0
  BY <1>1, <1>2, <1>3, <1>4
<1>6. batch_check1 = <<>> /\ batch_check0 = <<>>
  BY <1>0, <1>5, EmptySeq
<1>7. batch_done \o <<>> = batch_done
  BY <1>0, ConcatEmptySeq
<1> QED BY <1>1, <1>6, <1>7

\* ->running and the four batches: exactly one of the work item and the stealing callers is
\* responsible for them while ->running is set, no callback is lost or queued twice, and the
\* BUG_ON() of __synchronize_srcu() never fires.
THEOREM OneOwnerNothingLost == Spec => []BatchInv
<1>1. Inv => BatchInv
  BY OneOwner, OnOneBatch, OwnHead DEF BatchInv
<1> QED BY <1>1, InvHolds, PTL

\* The grace-period guarantee of synchronize_srcu() and call_srcu(): no head leaves before all
\* readers that were in their sections when it was queued, although the counters are summed
\* CPU by CPU while readers come, migrate and go.
THEOREM GracePeriodHolds == Spec => []GracePeriod
<1>1. ASSUME Inv, NEW u \in Updaters, use[u] = "none" \/ completion[u] PROVE waitfor[u] = {}
  <2>0. Types /\ ListInv /\ WaitInv
    BY <1>1 DEF Inv
  <2>1. ~InList(All, u)
    BY <1>1, <2>0 DEF ListInv
  <2>2. ~InList(batch_check1, u) /\ ~InList(batch_check0, u) /\ ~InList(batch_queue, u)
    BY <2>0, <2>1, BatchTypes, JoinIs
  <2> QED BY <2>0, <2>2 DEF WaitInv
<1>2. Inv => GracePeriod
  BY <1>1 DEF GracePeriod
<1> QED BY <1>2, InvHolds, PTL

\* srcu_barrier(): a head leaves after every call_srcu() callback that was in flight before it.
THEOREM BarrierHolds == Spec => []BarrierOrder
<1>1. ASSUME Inv, NEW u \in Updaters, use[u] = "none" \/ completion[u] PROVE earlier[u] = {}
  <2>0. ListInv /\ OrderInv
    BY <1>1 DEF Inv
  <2>1. ~InList(All, u)
    BY <1>1, <2>0 DEF ListInv
  <2>2. \A v : ~Before(All, v, u)
    BY <2>1 DEF Before, InList
  <2> QED BY <2>0, <2>2 DEF OrderInv
<1>2. Inv => BarrierOrder
  BY <1>1 DEF BarrierOrder
<1> QED BY <1>2, InvHolds, PTL

\* cleanup_srcu_struct(): the work item may still be running when the per-CPU counters are
\* freed, but neither it nor anybody else reads them any more.
THEOREM CleanupIsSafe == Spec => []NoReadAfterCleanup
<1>1. Inv => NoReadAfterCleanup
  BY DEF Inv, FreedInv, AllEmpty, ListInv, NoReadAfterCleanup
<1> QED BY <1>1, InvHolds, PTL

=============================================================================

-------------------------- MODULE CollectionLemmas --------------------------
(***************************************************************************)
(* Facts that the proofs share about the data the models are built from:   *)
(* wait lists in which a task occurs once, sums of per-CPU or per-task     *)
(* counters (MapThenSumSet), and counters that wrap.                       *)
(***************************************************************************)
EXTENDS Integers, FiniteSets, SequencesExt, TLAPS,
        SequenceTheorems, FiniteSetTheorems, WellFoundedInduction

-----------------------------------------------------------------------------
(* Lists without duplicates.                                               *)

DupFree(list) == \A i, j \in DOMAIN list : list[i] = list[j] => i = j

InList(list, t) == \E i \in DOMAIN list : list[i] = t

\* list_add_tail() of a task that is not queued.
LEMMA AppendList ==
    ASSUME NEW S, NEW list \in Seq(S), NEW t \in S, DupFree(list), ~InList(list, t)
    PROVE  /\ Append(list, t) \in Seq(S)
           /\ DupFree(Append(list, t))
           /\ \A u \in S : InList(Append(list, t), u) <=> InList(list, u) \/ u = t
<1> DEFINE n == Len(list)
           a == Append(list, t)
<1>1. n \in Nat /\ DOMAIN list = 1..n
  BY LenProperties
<1>2. /\ a \in Seq(S) /\ Len(a) = n + 1 /\ DOMAIN a = 1..n + 1
      /\ a[n + 1] = t /\ \A i \in 1..n : a[i] = list[i]
  BY AppendProperties, LenProperties
<1> HIDE DEF a, n
<1>3. \A i \in 1..n + 1 : i \in 1..n \/ i = n + 1
  BY <1>1
<1>4. \A i \in 1..n : i \in 1..n + 1 /\ list[i] # t
  BY <1>1 DEF InList
<1>5. n + 1 \in 1..n + 1
  BY <1>1
<1>6. DupFree(a)
  BY <1>1, <1>2, <1>3, <1>4 DEF DupFree
<1>7. \A u \in S : InList(a, u) <=> InList(list, u) \/ u = t
  BY <1>1, <1>2, <1>3, <1>4, <1>5 DEF InList
<1> QED BY <1>2, <1>6, <1>7 DEF a

\* list_del() of the first entry.
LEMMA TailList ==
    ASSUME NEW S, NEW list \in Seq(S), list # <<>>, DupFree(list)
    PROVE  /\ Head(list) \in S
           /\ InList(list, Head(list))
           /\ Tail(list) \in Seq(S)
           /\ DupFree(Tail(list))
           /\ \A u \in S : InList(Tail(list), u) <=> InList(list, u) /\ u # Head(list)
<1>1. /\ Head(list) \in S /\ Tail(list) \in Seq(S)
      /\ Len(list) \in Nat \ {0} /\ Len(Tail(list)) = Len(list) - 1
      /\ Head(list) = list[1]
      /\ \A i \in 1..Len(Tail(list)) : Tail(list)[i] = list[i + 1]
      /\ DOMAIN list = 1..Len(list) /\ DOMAIN Tail(list) = 1..Len(list) - 1
  BY HeadTailProperties, EmptySeq, LenProperties
<1>2. InList(list, Head(list))
  BY <1>1 DEF InList
<1>3. DupFree(Tail(list))
  BY <1>1 DEF DupFree
<1>4. ASSUME NEW u \in S
      PROVE  InList(Tail(list), u) <=> InList(list, u) /\ u # Head(list)
  <2>1. ASSUME InList(Tail(list), u) PROVE InList(list, u) /\ u # Head(list)
    <3>1. PICK i \in 1..Len(list) - 1 : list[i + 1] = u
      BY <1>1, <2>1 DEF InList
    <3>2. i + 1 \in 1..Len(list) /\ i + 1 # 1
      BY <1>1
    <3> QED BY <1>1, <3>1, <3>2 DEF InList, DupFree
  <2>2. ASSUME InList(list, u), u # Head(list) PROVE InList(Tail(list), u)
    <3>1. PICK i \in 1..Len(list) : list[i] = u
      BY <1>1, <2>2 DEF InList
    <3>2. i - 1 \in 1..Len(list) - 1 /\ (i - 1) + 1 = i
      BY <1>1, <2>2, <3>1
    <3> QED BY <1>1, <3>1, <3>2 DEF InList
  <2> QED BY <2>1, <2>2
<1> QED BY <1>1, <1>2, <1>3, <1>4

\* Where a task occurs once, RemoveFirst takes that entry out.
LEMMA RemoveFirstEntry ==
    ASSUME NEW S, NEW list \in Seq(S), DupFree(list), NEW k \in DOMAIN list
    PROVE  LET r == RemoveFirst(list, list[k])
           IN  /\ r \in Seq(S)
               /\ Len(r) = Len(list) - 1
               /\ \A i \in 1..Len(list) - 1 : r[i] = IF i < k THEN list[i] ELSE list[i + 1]
<1> DEFINE n == Len(list)
           front == SubSeq(list, 1, k - 1)
           back == SubSeq(list, k + 1, n)
<1>1. n \in Nat /\ DOMAIN list = 1..n /\ k \in 1..n /\ \A i \in 1..n : list[i] \in S
  BY LenProperties
<1>2. {i \in 1..n : list[i] = list[k]} = {k}
  BY <1>1 DEF DupFree
<1>3. Min({k}) = k
  BY <1>1 DEF Min
<1>4. SelectInSeq(list, LAMBDA v : v = list[k]) = k
  BY <1>2, <1>3 DEF SelectInSeq
<1>5. RemoveFirst(list, list[k]) = front \o back
  BY <1>1, <1>4 DEF RemoveFirst, RemoveAt
<1>6. front \in Seq(S) /\ Len(front) = k - 1 /\ \A i \in 1..k - 1 : front[i] = list[i]
  BY <1>1, SubSeqProperties
<1>7. /\ back \in Seq(S) /\ Len(back) = n - k
      /\ \A i \in 1..n - k : back[i] = list[k + i]
  BY <1>1, SubSeqProperties
<1> HIDE DEF front, back
<1>8. /\ front \o back \in Seq(S)
      /\ Len(front \o back) = n - 1
      /\ \A i \in 1..n - 1 : (front \o back)[i] =
                                IF i <= k - 1 THEN front[i] ELSE back[i - (k - 1)]
  <2>1. /\ front \o back \in Seq(S)
        /\ Len(front \o back) = Len(front) + Len(back)
        /\ \A i \in 1 .. Len(front) + Len(back) : (front \o back)[i] =
                     IF i <= Len(front) THEN front[i] ELSE back[i - Len(front)]
    BY <1>6, <1>7, ConcatProperties
  <2>2. Len(front) = k - 1 /\ Len(front) + Len(back) = n - 1
    BY <1>1, <1>6, <1>7
  <2> QED BY <2>1, <2>2
<1>9. ASSUME NEW i \in 1..n - 1
      PROVE  (front \o back)[i] = IF i < k THEN list[i] ELSE list[i + 1]
  <2>1. CASE i < k
    BY <1>1, <1>6, <1>8, <2>1
  <2>2. CASE i >= k
    <3>1. i - (k - 1) \in 1..n - k /\ k + (i - (k - 1)) = i + 1
      BY <1>1, <2>2
    <3>2. back[i - (k - 1)] = list[i + 1]
      BY <1>7, <3>1
    <3> QED BY <1>1, <1>8, <2>2, <3>2
  <2>3. i < k \/ i >= k
    BY <1>1
  <2> QED BY <2>1, <2>2, <2>3, Zenon
<1> QED BY <1>5, <1>8, <1>9, Zenon

\* list_del() of any entry.
LEMMA RemoveList ==
    ASSUME NEW S, NEW list \in Seq(S), NEW t \in S, DupFree(list), InList(list, t)
    PROVE  /\ RemoveFirst(list, t) \in Seq(S)
           /\ DupFree(RemoveFirst(list, t))
           /\ \A u \in S : InList(RemoveFirst(list, t), u) <=> InList(list, u) /\ u # t
<1> DEFINE r == RemoveFirst(list, t)
           n == Len(list)
<1>1. n \in Nat /\ DOMAIN list = 1..n
  BY LenProperties
<1>2. PICK k \in 1..n : list[k] = t
  BY <1>1 DEF InList
<1>3. /\ r \in Seq(S) /\ Len(r) = n - 1
      /\ \A i \in 1..n - 1 : r[i] = IF i < k THEN list[i] ELSE list[i + 1]
  BY <1>1, <1>2, RemoveFirstEntry
<1>4. DOMAIN r = 1..n - 1
  BY <1>3, LenProperties
<1> HIDE DEF r
<1>5. DupFree(r)
  <2> DEFINE old(i) == IF i < k THEN i ELSE i + 1
  <2>1. \A i \in 1..n - 1 : old(i) \in 1..n /\ r[i] = list[old(i)]
    BY <1>1, <1>2, <1>3
  <2>2. \A i, j \in 1..n - 1 : old(i) = old(j) => i = j
    BY <1>1, <1>2
  <2> HIDE DEF old
  <2> QED BY <1>1, <1>4, <2>1, <2>2 DEF DupFree
<1>6. ASSUME NEW u \in S, InList(r, u) PROVE InList(list, u) /\ u # t
  <2>1. PICK i \in 1..n - 1 : r[i] = u
    BY <1>4, <1>6 DEF InList
  <2>2. PICK j \in 1..n : j # k /\ list[j] = u
    BY <1>1, <1>2, <1>3, <2>1
  <2> QED BY <1>1, <1>2, <2>2 DEF InList, DupFree
<1>7. ASSUME NEW u \in S, InList(list, u), u # t PROVE InList(r, u)
  <2>1. PICK j \in 1..n : j # k /\ list[j] = u
    BY <1>1, <1>2, <1>7 DEF InList
  <2>2. CASE j < k
    <3>1. j \in 1..n - 1 /\ r[j] = u
      BY <1>1, <1>3, <2>1, <2>2
    <3> QED BY <3>1, <1>4 DEF InList
  <2>3. CASE j > k
    <3>1. j - 1 \in 1..n - 1 /\ r[j - 1] = u
      BY <1>1, <1>3, <2>1, <2>3
    <3> QED BY <3>1, <1>4 DEF InList
  <2> QED BY <1>1, <2>1, <2>2, <2>3
<1> QED BY <1>3, <1>5, <1>6, <1>7 DEF r

\* The first L entries are L tasks.
LEMMA PrefixSize ==
    ASSUME NEW S, NEW list \in Seq(S), DupFree(list), NEW L \in 0..Len(list)
    PROVE  LET P == {list[i] : i \in 1..L}
           IN  IsFiniteSet(P) /\ Cardinality(P) = L
<1> DEFINE P == {list[i] : i \in 1..L}
           f == [i \in 1..L |-> list[i]]
<1>1. Len(list) \in Nat /\ DOMAIN list = 1..Len(list) /\ L \in Nat /\ 1..L \subseteq DOMAIN list
  BY LenProperties
<1>2. f \in [1..L -> P] /\ \A i, j \in 1..L : f[i] = f[j] => i = j
  BY <1>1 DEF DupFree
<1>3. \A y \in P : \E i \in 1..L : f[i] = y
  OBVIOUS
<1>4. f \in Bijection(1..L, P)
  <2>1. DOMAIN f = 1..L
    OBVIOUS
  <2> HIDE DEF f, P
  <2> QED BY <1>2, <1>3, <2>1 DEF Bijection, Injection, Surjection, IsInjective
<1>5. IsFiniteSet(1..L) /\ Cardinality(1..L) = L
  <2>1. IsFiniteSet(1..L) /\ Cardinality(1..L) = IF 1 > L THEN 0 ELSE L - 1 + 1
    BY <1>1, FS_Interval
  <2> QED BY <1>1, <2>1
<1> QED BY <1>4, <1>5, FS_Bijection DEF ExistsBijection

\* Disjoint sets of tasks.
LEMMA DisjointSizes ==
    ASSUME NEW A, NEW B, IsFiniteSet(A), IsFiniteSet(B), A \cap B = {}
    PROVE  /\ IsFiniteSet(A \cup B)
           /\ Cardinality(A \cup B) = Cardinality(A) + Cardinality(B)
           /\ Cardinality(A) \in Nat /\ Cardinality(B) \in Nat
<1>1. Cardinality(A \cap B) = 0
  BY FS_EmptySet
<1>2. Cardinality(A) \in Nat /\ Cardinality(B) \in Nat
  BY FS_CardinalityType
<1>3. /\ IsFiniteSet(A \cup B)
      /\ Cardinality(A \cup B) = Cardinality(A) + Cardinality(B) - Cardinality(A \cap B)
  BY FS_Union, Zenon
<1> QED BY <1>1, <1>2, <1>3

\* Lists put together, as rcu_batch_move() does.
LEMMA InConcat ==
    ASSUME NEW S, NEW a \in Seq(S), NEW b \in Seq(S), NEW u
    PROVE  InList(a \o b, u) <=> InList(a, u) \/ InList(b, u)
<1>1. /\ Len(a) \in Nat /\ Len(b) \in Nat /\ a \o b \in Seq(S)
      /\ DOMAIN a = 1..Len(a) /\ DOMAIN b = 1..Len(b) /\ DOMAIN (a \o b) = 1 .. Len(a) + Len(b)
      /\ \A i \in 1 .. Len(a) + Len(b) :
            (a \o b)[i] = IF i <= Len(a) THEN a[i] ELSE b[i - Len(a)]
  BY ConcatProperties, LenProperties
<1>2. ASSUME InList(a \o b, u) PROVE InList(a, u) \/ InList(b, u)
  <2>1. PICK i \in 1 .. Len(a) + Len(b) : (a \o b)[i] = u
    BY <1>1, <1>2 DEF InList
  <2>2. CASE i <= Len(a)
    BY <1>1, <2>1, <2>2 DEF InList
  <2>3. CASE ~(i <= Len(a))
    <3>1. i - Len(a) \in 1..Len(b)
      BY <1>1, <2>3
    <3> QED BY <1>1, <2>1, <2>3, <3>1 DEF InList
  <2> QED BY <2>2, <2>3
<1>3. ASSUME InList(a, u) PROVE InList(a \o b, u)
  <2>1. PICK i \in 1..Len(a) : a[i] = u
    BY <1>1, <1>3 DEF InList
  <2>2. i \in 1 .. Len(a) + Len(b) /\ i <= Len(a)
    BY <1>1
  <2> QED BY <1>1, <2>1, <2>2 DEF InList
<1>4. ASSUME InList(b, u) PROVE InList(a \o b, u)
  <2>1. PICK i \in 1..Len(b) : b[i] = u
    BY <1>1, <1>4 DEF InList
  <2>2. i + Len(a) \in 1 .. Len(a) + Len(b) /\ ~(i + Len(a) <= Len(a)) /\ (i + Len(a)) - Len(a) = i
    BY <1>1
  <2> QED BY <1>1, <2>1, <2>2 DEF InList
<1> QED BY <1>2, <1>3, <1>4

LEMMA TailConcat ==
    ASSUME NEW S, NEW a \in Seq(S), NEW b \in Seq(S), a # <<>>
    PROVE  a \o b # <<>> /\ Head(a \o b) = Head(a) /\ Tail(a \o b) = Tail(a) \o b
<1>1. /\ Len(a) \in Nat /\ Len(a) > 0 /\ Len(b) \in Nat /\ a \o b \in Seq(S)
      /\ Len(a \o b) = Len(a) + Len(b)
      /\ \A i \in 1 .. Len(a) + Len(b) :
            (a \o b)[i] = IF i <= Len(a) THEN a[i] ELSE b[i - Len(a)]
  BY ConcatProperties, LenProperties, EmptySeq
<1>2. a \o b # <<>>
  BY <1>1, EmptySeq
<1>3. /\ Tail(a) \in Seq(S) /\ Len(Tail(a)) = Len(a) - 1
      /\ \A i \in 1 .. Len(a) - 1 : Tail(a)[i] = a[i + 1]
  BY HeadTailProperties
<1>4. /\ Tail(a \o b) \in Seq(S) /\ Len(Tail(a \o b)) = Len(a) + Len(b) - 1
      /\ \A i \in 1 .. Len(a) + Len(b) - 1 : Tail(a \o b)[i] = (a \o b)[i + 1]
  BY <1>1, <1>2, HeadTailProperties
<1>5. /\ Tail(a) \o b \in Seq(S) /\ Len(Tail(a) \o b) = Len(a) - 1 + Len(b)
      /\ \A i \in 1 .. Len(a) - 1 + Len(b) :
            (Tail(a) \o b)[i] = IF i <= Len(a) - 1 THEN Tail(a)[i] ELSE b[i - (Len(a) - 1)]
  BY <1>3, ConcatProperties
<1>6. Len(Tail(a \o b)) = Len(Tail(a) \o b)
  BY <1>1, <1>4, <1>5
<1>7. ASSUME NEW i \in 1 .. Len(a) + Len(b) - 1 PROVE Tail(a \o b)[i] = (Tail(a) \o b)[i]
  <2>1. i \in 1 .. Len(a) - 1 + Len(b) /\ i + 1 \in 1 .. Len(a) + Len(b)
    BY <1>1
  <2>2. CASE i <= Len(a) - 1
    <3>1. i \in 1 .. Len(a) - 1 /\ i + 1 <= Len(a)
      BY <1>1, <2>1, <2>2
    <3> QED BY <1>1, <1>3, <1>4, <1>5, <2>1, <2>2, <3>1
  <2>3. CASE ~(i <= Len(a) - 1)
    <3>1. ~(i + 1 <= Len(a)) /\ (i + 1) - Len(a) = i - (Len(a) - 1)
      BY <1>1, <2>3
    <3> QED BY <1>1, <1>4, <1>5, <2>1, <2>3, <3>1
  <2> QED BY <2>2, <2>3
<1>8. Tail(a \o b) = Tail(a) \o b
  BY <1>4, <1>5, <1>6, <1>7, SeqEqual
<1>9. Head(a \o b) = Head(a)
  BY <1>1, <1>2
<1> QED BY <1>2, <1>8, <1>9

-----------------------------------------------------------------------------
(* Induction.  The theorems of the library take the predicate as a         *)
(* parameter; its principle of the least element does not, and the set of  *)
(* counterexamples stands for the predicate.                               *)

\* Induction over the naturals, as the least element of a set of counterexamples.
LEMMA LeastNatural ==
    ASSUME NEW T, T \subseteq Nat, T # {}
    PROVE  \E n \in T : \A m \in T : n <= m
<1>1. \E x \in T : \A y \in T : ~(<<y, x>> \in OpToRel(<, Nat))
  BY WFMin, NatLessThanWellFounded
<1>2. PICK x \in T : \A y \in T : ~(<<y, x>> \in OpToRel(<, Nat))
  BY <1>1
<1>3. ASSUME NEW y \in T PROVE x <= y
  <2>1. ~(<<y, x>> \in {ss \in Nat \X Nat : ss[1] < ss[2]})
    BY <1>2 DEF OpToRel
  <2> QED BY <2>1
<1> QED BY <1>3

\* Induction over finite sets in the same form: a set of subsets that is not empty has a
\* member none of whose proper subsets belong to it.
LEMMA LeastSubset ==
    ASSUME NEW S, IsFiniteSet(S), NEW C \in SUBSET (SUBSET S), C # {}
    PROVE  \E s \in C : IsFiniteSet(s) /\ \A x \in s : s \ {x} \notin C
<1> DEFINE T == {n \in Nat : \E s \in C : Cardinality(s) = n}
<1>1. \A s \in C : IsFiniteSet(s) /\ Cardinality(s) \in Nat
  BY FS_Subset, FS_CardinalityType
<1>2. T \subseteq Nat /\ T # {}
  BY <1>1
<1>3. PICK n \in T : \A m \in T : n <= m
  BY <1>2, LeastNatural
<1>4. PICK s \in C : Cardinality(s) = n
  BY <1>3
<1>5. ASSUME NEW x \in s, s \ {x} \in C PROVE FALSE
  <2>1. Cardinality(s \ {x}) = n - 1
    BY <1>1, <1>4, FS_RemoveElement
  <2>2. n - 1 \in T
    BY <1>1, <1>5, <2>1
  <2> QED BY <1>3, <2>2
<1> QED BY <1>1, <1>5

Pick(s) == CHOOSE x \in s : TRUE

IsTable(g, f, S) ==
    g = [s \in SUBSET S |-> IF s = {} THEN 0 ELSE f[Pick(s)] + g[s \ {Pick(s)}]]

SumTable(f, S) == CHOOSE g : IsTable(g, f, S)

Sum(f, S) == MapThenSumSet(LAMBDA x : f[x], S)

LEMMA SumIsTable == ASSUME NEW f, NEW S PROVE Sum(f, S) = SumTable(f, S)[S]
BY DEF Sum, MapThenSumSet, MapThenFoldSet, SumTable, IsTable, Pick

\* g adds up f over every subset of S, in whichever order.
IsSum(g, f, S) ==
    /\ g \in [SUBSET S -> Int]
    /\ g[{}] = 0
    /\ \A s \in SUBSET S : \A x \in s : g[s] = f[x] + g[s \ {x}]

LEMMA PickIn == \A s : s # {} => Pick(s) \in s
BY DEF Pick

\* Small tables exist.
LEMMA TableExists ==
    ASSUME NEW S, IsFiniteSet(S), NEW f, \A x \in S : f[x] \in Int
    PROVE  \E g : IsTable(g, f, S)
<1> DEFINE Small(n) == {s \in SUBSET S : Cardinality(s) <= n}
           Table(g, n) == /\ g \in [SUBSET S -> Int]
                          /\ \A s \in Small(n) :
                               g[s] = IF s = {} THEN 0 ELSE f[Pick(s)] + g[s \ {Pick(s)}]
           Bad == {n \in Nat : ~ \E g : Table(g, n)}
<1>0. \A s \in SUBSET S : IsFiniteSet(s) /\ Cardinality(s) \in Nat /\ Cardinality(s) <= Cardinality(S)
  BY FS_Subset, FS_CardinalityType
<1>1. ASSUME NEW s \in SUBSET S, s # {}
      PROVE  /\ Pick(s) \in s /\ s \ {Pick(s)} \in SUBSET S /\ f[Pick(s)] \in Int
             /\ Cardinality(s \ {Pick(s)}) = Cardinality(s) - 1
  BY <1>0, <1>1, PickIn, FS_RemoveElement
<1>2. Bad = {}
  <2> SUFFICES ASSUME Bad # {} PROVE FALSE
    OBVIOUS
  <2>1. PICK n \in Bad : \A m \in Bad : n <= m
    BY LeastNatural
  <2>2. CASE n = 0
    <3> DEFINE z == [s \in SUBSET S |-> 0]
    <3>1. \A s \in Small(0) : s = {}
      BY <1>0, FS_EmptySet
    <3>2. z \in [SUBSET S -> Int] /\ \A s \in SUBSET S : z[s] = 0
      OBVIOUS
    <3> HIDE DEF z
    <3>3. \A s \in Small(0) : s \in SUBSET S
      OBVIOUS
    <3>4. Table(z, 0)
      BY <3>1, <3>2, <3>3
    <3> QED BY <2>1, <2>2, <3>4
  <2>3. CASE n # 0
    <3>1. n - 1 \in Nat /\ n - 1 \notin Bad
      <4>1. n \in Nat /\ n # 0
        BY <2>1, <2>3
      <4> HIDE DEF Bad
      <4> QED BY <2>1, <4>1
    <3>2. PICK h : Table(h, n - 1)
      BY <3>1
    <3> DEFINE g == [s \in SUBSET S |-> IF s \in Small(n - 1) THEN h[s] ELSE f[Pick(s)] + h[s \ {Pick(s)}]]
    <3>3. {} \in Small(n - 1)
      BY <3>1, FS_EmptySet
    <3>4. g \in [SUBSET S -> Int]
      <4>0. \A s \in SUBSET S : h[s] \in Int
        BY <3>2
      <4>1. ASSUME NEW s \in SUBSET S, s \notin Small(n - 1) PROVE f[Pick(s)] + h[s \ {Pick(s)}] \in Int
        <5>1. s # {}
          BY <3>3, <4>1
        <5>2. s \ {Pick(s)} \in SUBSET S /\ f[Pick(s)] \in Int
          BY <1>1, <5>1
        <5> QED BY <4>0, <5>2
      <4> QED BY <4>0, <4>1
    <3>5. ASSUME NEW s \in Small(n)
          PROVE  g[s] = IF s = {} THEN 0 ELSE f[Pick(s)] + g[s \ {Pick(s)}]
      <4>1. CASE s = {}
        BY <3>2, <3>3, <4>1
      <4>2. CASE s # {}
        <5>1. s \ {Pick(s)} \in Small(n - 1)
          BY <1>0, <1>1, <4>2, <2>1
        <5>2. g[s \ {Pick(s)}] = h[s \ {Pick(s)}]
          BY <5>1
        <5>3. g[s] = f[Pick(s)] + h[s \ {Pick(s)}]
          BY <3>2, <4>2
        <5> QED BY <4>2, <5>2, <5>3
      <4> QED BY <4>1, <4>2
    <3>6. Table(g, n)
      BY <3>4, <3>5
    <3> QED BY <2>1, <3>6
  <2> QED BY <2>2, <2>3
<1>3. PICK g : Table(g, Cardinality(S))
  BY <1>2, FS_CardinalityType
<1>4. Small(Cardinality(S)) = SUBSET S
  BY <1>0
<1>5. \A s \in SUBSET S : g[s] = IF s = {} THEN 0 ELSE f[Pick(s)] + g[s \ {Pick(s)}]
  BY <1>3, <1>4
<1>6. g \in [SUBSET S -> Int]
  BY <1>3
<1>7. IsTable(g, f, S)
  BY <1>5, <1>6 DEF IsTable
<1> QED BY <1>7

\* The recursive function inside MapThenSumSet is that table.
LEMMA SumTableEquation ==
    ASSUME NEW S, IsFiniteSet(S), NEW f, \A x \in S : f[x] \in Int
    PROVE  /\ SumTable(f, S) \in [SUBSET S -> Int]
           /\ SumTable(f, S)[{}] = 0
           /\ \A s \in SUBSET S : s # {} =>
                SumTable(f, S)[s] = f[Pick(s)] + SumTable(f, S)[s \ {Pick(s)}]
<1> DEFINE t == SumTable(f, S)
<1>1. IsTable(t, f, S)
  BY TableExists, Zenon DEF SumTable
<1>2. /\ t[{}] = 0
      /\ \A s \in SUBSET S : s # {} => t[s] = f[Pick(s)] + t[s \ {Pick(s)}]
  <2> HIDE DEF t
  <2> QED BY <1>1 DEF IsTable
<1> HIDE DEF t
<1> DEFINE Bad == {s \in SUBSET S : t[s] \notin Int}
<1>3. Bad = {}
  <2> SUFFICES ASSUME Bad # {} PROVE FALSE
    OBVIOUS
  <2>0. Bad \in SUBSET (SUBSET S)
    OBVIOUS
  <2>1. PICK s \in Bad : \A x \in s : s \ {x} \notin Bad
    <3> HIDE DEF Bad
    <3> QED BY <2>0, LeastSubset
  <2>2. s # {} /\ s \in SUBSET S /\ t[s] \notin Int
    <3>1. t[{}] \in Int
      BY <1>2
    <3> QED BY <2>1, <3>1, Zenon
  <2>3. Pick(s) \in s /\ s \ {Pick(s)} \in SUBSET S /\ f[Pick(s)] \in Int
    BY <2>2, PickIn
  <2>4. t[s \ {Pick(s)}] \in Int
    BY <2>1, <2>3
  <2>5. f[Pick(s)] + t[s \ {Pick(s)}] \in Int
    BY <2>3, <2>4
  <2> HIDE DEF Bad
  <2> QED BY <1>2, <2>2, <2>5, Zenon
<1>4. t \in [SUBSET S -> Int]
  <2>1. \A s \in SUBSET S : t[s] \in Int
    BY <1>3
  <2>2. t = [s \in SUBSET S |-> t[s]]
    BY <1>1 DEF IsTable
  <2> QED BY <2>1, <2>2
<1> QED BY <1>2, <1>4 DEF t

\* It does not matter which element is added first.
LEMMA SumTableIsSum ==
    ASSUME NEW S, IsFiniteSet(S), NEW f, \A x \in S : f[x] \in Int
    PROVE  IsSum(SumTable(f, S), f, S)
<1> DEFINE t == SumTable(f, S)
           Bad == {s \in SUBSET S : \E x \in s : t[s] # f[x] + t[s \ {x}]}
<1>1. /\ t \in [SUBSET S -> Int] /\ t[{}] = 0
      /\ \A s \in SUBSET S : s # {} => t[s] = f[Pick(s)] + t[s \ {Pick(s)}]
  BY SumTableEquation
<1> HIDE DEF t
<1>2. Bad = {}
  <2> SUFFICES ASSUME Bad # {} PROVE FALSE
    OBVIOUS
  <2>0. Bad \in SUBSET (SUBSET S)
    OBVIOUS
  <2>1. PICK s \in Bad : \A y \in s : s \ {y} \notin Bad
    <3> HIDE DEF Bad
    <3> QED BY <2>0, LeastSubset
  <2>2. PICK x \in s : t[s] # f[x] + t[s \ {x}]
    BY <2>1
  <2> DEFINE p == Pick(s)
             r == (s \ {p}) \ {x}
  <2>3. s \in SUBSET S /\ p \in s /\ t[s] = f[p] + t[s \ {p}] /\ p # x
    BY <1>1, <2>1, <2>2, PickIn
  <2> HIDE DEF p
  <2>4. r = (s \ {x}) \ {p} /\ r \in SUBSET S /\ s \ {x} \in SUBSET S /\ s \ {p} \in SUBSET S
        /\ p \in s \ {x} /\ x \in s \ {p}
    BY <2>3
  <2>5. t[s \ {p}] = f[x] + t[r]
    BY <2>1, <2>3, <2>4
  <2>6. t[s \ {x}] = f[p] + t[r]
    BY <2>1, <2>2, <2>4, ZenonT(60)
  <2>7. f[x] \in Int /\ f[p] \in Int /\ t[r] \in Int
    BY <1>1, <2>3, <2>4
  <2> QED BY <2>2, <2>3, <2>5, <2>6, <2>7
<1> QED BY <1>1, <1>2 DEF IsSum, t

\* Only one function adds up f.
LEMMA SumUnique ==
    ASSUME NEW S, IsFiniteSet(S), NEW f, \A x \in S : f[x] \in Int, NEW g, NEW h,
           IsSum(g, f, S), IsSum(h, f, S)
    PROVE  \A s \in SUBSET S : g[s] = h[s]
<1> DEFINE Bad == {s \in SUBSET S : g[s] # h[s]}
<1> SUFFICES ASSUME Bad # {} PROVE FALSE
  OBVIOUS
<1>0. Bad \in SUBSET (SUBSET S)
  OBVIOUS
<1>1. PICK s \in Bad : \A x \in s : s \ {x} \notin Bad
  <2> HIDE DEF Bad
  <2> QED BY <1>0, LeastSubset
<1>2. s \in SUBSET S /\ g[s] # h[s] /\ g[{}] = h[{}]
  BY <1>1 DEF IsSum
<1>3. PICK x \in s : TRUE
  BY <1>2
<1>4. s \ {x} \in SUBSET S /\ g[s \ {x}] = h[s \ {x}]
  BY <1>1, <1>2, <1>3
<1> QED BY <1>2, <1>3, <1>4 DEF IsSum

\* A sum over a finite set is a number, and any function that adds up like it computes it.
THEOREM SumComputed ==
    ASSUME NEW S, IsFiniteSet(S), NEW f, \A x \in S : f[x] \in Int, NEW g, IsSum(g, f, S)
    PROVE  Sum(f, S) = g[S] /\ Sum(f, S) \in Int
<1> DEFINE t == SumTable(f, S)
<1>1. IsSum(t, f, S) /\ Sum(f, S) = t[S]
  BY SumIsTable, SumTableIsSum
<1> HIDE DEF t
<1>2. S \in SUBSET S /\ \A s \in SUBSET S : t[s] = g[s]
  BY <1>1, SumUnique
<1>3. g[S] \in Int
  BY DEF IsSum
<1> QED BY <1>1, <1>2, <1>3

\* A sum of integers is an integer.
THEOREM SumType ==
    ASSUME NEW S, IsFiniteSet(S), NEW f, \A x \in S : f[x] \in Int
    PROVE  Sum(f, S) \in Int
BY SumTableIsSum, SumComputed

\* Nothing counted anywhere.
THEOREM SumZero ==
    ASSUME NEW S, IsFiniteSet(S), NEW f, \A x \in S : f[x] = 0
    PROVE  Sum(f, S) = 0
<1> DEFINE z == [s \in SUBSET S |-> 0]
<1>1. IsSum(z, f, S) /\ z[S] = 0
  BY DEF IsSum
<1>2. \A x \in S : f[x] \in Int
  OBVIOUS
<1> HIDE DEF z
<1> QED BY <1>1, <1>2, SumComputed

\* One entry changes: the sum changes by as much.
THEOREM SumUpdate ==
    ASSUME NEW S, IsFiniteSet(S), NEW f, \A y \in S : f[y] \in Int,
           NEW x \in S, NEW e, e[x] \in Int, \A y \in S \ {x} : e[y] = f[y]
    PROVE  Sum(e, S) = Sum(f, S) + e[x] - f[x]
<1> DEFINE t == SumTable(f, S)
           h == [s \in SUBSET S |-> t[s] + (IF x \in s THEN e[x] - f[x] ELSE 0)]
<1>1. IsSum(t, f, S) /\ Sum(f, S) = t[S]
  BY SumTableIsSum, SumIsTable
<1> HIDE DEF t
<1>2. f[x] \in Int /\ \A y \in S : e[y] \in Int
  OBVIOUS
<1>3. ASSUME NEW s \in SUBSET S, NEW y \in s PROVE h[s] = e[y] + h[s \ {y}]
  <2>1. t[s] = f[y] + t[s \ {y}] /\ t[s] \in Int /\ t[s \ {y}] \in Int /\ f[y] \in Int
        /\ s \ {y} \in SUBSET S /\ y \in S
    BY <1>1, <1>3 DEF IsSum
  <2>2. CASE y = x
    BY <1>2, <2>1, <2>2
  <2>3. CASE y # x
    <3>1. x \in s <=> x \in s \ {y}
      BY <2>3
    <3>2. e[y] = f[y]
      BY <2>1, <2>3
    <3> QED BY <1>2, <2>1, <3>1, <3>2
  <2> QED BY <2>2, <2>3
<1>4. h \in [SUBSET S -> Int] /\ h[{}] = 0 /\ h[S] = t[S] + (e[x] - f[x])
  <2>1. t[{}] = 0 /\ S \in SUBSET S /\ {} \in SUBSET S /\ \A s \in SUBSET S : t[s] \in Int
    BY <1>1 DEF IsSum
  <2>2. \A s \in SUBSET S : t[s] + (IF x \in s THEN e[x] - f[x] ELSE 0) \in Int
    BY <1>2, <2>1
  <2> QED BY <2>1, <2>2
<1>5. IsSum(h, e, S)
  <2> HIDE DEF h
  <2> QED BY <1>3, <1>4 DEF IsSum
<1>6. t[S] \in Int
  BY <1>1 DEF IsSum
<1>7. Sum(e, S) = h[S]
  <2> HIDE DEF h
  <2> QED BY <1>2, <1>5, SumComputed
<1> QED BY <1>1, <1>2, <1>4, <1>6, <1>7

\* An entry is taken out of the sum.
THEOREM SumRemove ==
    ASSUME NEW S, IsFiniteSet(S), NEW f, \A y \in S : f[y] \in Int, NEW x \in S
    PROVE  Sum(f, S) = f[x] + Sum(f, S \ {x})
<1> DEFINE T == S \ {x}
           t == SumTable(f, S)
           h == [s \in SUBSET T |-> t[s]]
<1>1. IsSum(t, f, S) /\ Sum(f, S) = t[S]
  BY SumTableIsSum, SumIsTable
<1> HIDE DEF t
<1>2. T \in SUBSET S /\ IsFiniteSet(T) /\ \A y \in T : f[y] \in Int
  BY FS_Subset
<1>3. IsSum(h, f, T)
  <2>1. \A s \in SUBSET T : s \in SUBSET S /\ t[s] \in Int
    BY <1>1 DEF IsSum
  <2>2. \A s \in SUBSET T : \A y \in s : s \ {y} \in SUBSET T /\ t[s] = f[y] + t[s \ {y}]
    BY <1>1, <2>1 DEF IsSum
  <2> QED BY <1>1, <2>1, <2>2 DEF IsSum
<1>4. Sum(f, T) = t[T]
  <2>1. Sum(f, T) = h[T]
    <3> HIDE DEF h, T
    <3> QED BY <1>2, <1>3, SumComputed
  <2> QED BY <2>1
<1> QED BY <1>1, <1>4 DEF IsSum

\* The sum depends on the entries alone.
THEOREM SumSame ==
    ASSUME NEW S, IsFiniteSet(S), NEW f, NEW e,
           \A y \in S : f[y] \in Int /\ e[y] = f[y]
    PROVE  Sum(e, S) = Sum(f, S)
<1> DEFINE t == SumTable(f, S)
<1>1. IsSum(t, f, S) /\ Sum(f, S) = t[S]
  BY SumTableIsSum, SumIsTable
<1> HIDE DEF t
<1>2. IsSum(t, e, S)
  <2>1. \A s \in SUBSET S : \A y \in s : e[y] = f[y]
    OBVIOUS
  <2> QED BY <1>1, <2>1 DEF IsSum
<1>3. \A y \in S : e[y] \in Int
  OBVIOUS
<1> QED BY <1>1, <1>2, <1>3, SumComputed

\* A sum of naturals is at least every entry, and at most as many times the largest.
THEOREM SumBounds ==
    ASSUME NEW S, IsFiniteSet(S), NEW k \in Nat, NEW f, \A x \in S : f[x] \in 0..k
    PROVE  /\ Sum(f, S) \in 0 .. Cardinality(S) * k
           /\ \A x \in S : f[x] <= Sum(f, S)
<1> DEFINE t == SumTable(f, S)
           Bad == {s \in SUBSET S : ~(t[s] >= 0 /\ t[s] <= Cardinality(s) * k)}
<1>1. \A x \in S : f[x] \in Int
  OBVIOUS
<1>2. IsSum(t, f, S) /\ Sum(f, S) = t[S]
  BY <1>1, SumTableIsSum, SumIsTable
<1> HIDE DEF t
<1>3. Bad = {}
  <2> SUFFICES ASSUME Bad # {} PROVE FALSE
    OBVIOUS
  <2>0. Bad \in SUBSET (SUBSET S)
    OBVIOUS
  <2>1. PICK s \in Bad : IsFiniteSet(s) /\ \A x \in s : s \ {x} \notin Bad
    <3> HIDE DEF Bad
    <3> QED BY <2>0, LeastSubset
  <2>2. s \in SUBSET S /\ ~(t[s] >= 0 /\ t[s] <= Cardinality(s) * k)
    BY <2>1
  <2>10. t[{}] = 0 /\ Cardinality({}) = 0 /\ 0 * k = 0
    BY <1>2, FS_EmptySet DEF IsSum
  <2>3. s # {}
    BY <2>10, <2>2
  <2>4. PICK x \in s : TRUE
    BY <2>3
  <2> DEFINE n == Cardinality(s)
  <2>5. n \in Nat /\ Cardinality(s \ {x}) = n - 1 /\ s \ {x} \in SUBSET S
    BY <2>1, <2>2, <2>4, FS_RemoveElement, FS_CardinalityType
  <2>6. t[s \ {x}] >= 0 /\ t[s \ {x}] <= (n - 1) * k
    BY <2>1, <2>5
  <2>7. t[s] = f[x] + t[s \ {x}] /\ f[x] \in 0..k /\ t[s \ {x}] \in Int
    BY <1>2, <2>2, <2>4, <2>5 DEF IsSum
  <2> HIDE DEF n
  <2>8. (n - 1) * k = n * k - k /\ n * k \in Int
    BY <2>5
  <2>9. t[s] >= 0 /\ t[s] <= n * k
    BY <2>6, <2>7, <2>8
  <2> QED BY <2>2, <2>9 DEF n
<1>4. t[S] \in Int /\ t[S] >= 0 /\ t[S] <= Cardinality(S) * k
  BY <1>2, <1>3 DEF IsSum
<1>5. ASSUME NEW x \in S PROVE f[x] <= t[S]
  <2>1. t[S] = f[x] + t[S \ {x}] /\ t[S \ {x}] \in Int
    BY <1>2 DEF IsSum
  <2>2. t[S \ {x}] >= 0
    BY <1>3
  <2> QED BY <2>1, <2>2
<1>6. Cardinality(S) * k \in Int
  BY FS_CardinalityType
<1> QED BY <1>2, <1>4, <1>5, <1>6

-----------------------------------------------------------------------------
(* Counters that wrap.                                                     *)

\* Quotient and remainder.
LEMMA DivMod ==
    ASSUME NEW m \in Nat \ {0}, NEW x \in Int
    PROVE  x % m \in 0..m-1 /\ (x \div m) \in Int /\ x = m * (x \div m) + (x % m)
<1>1. x % m \in 0..m-1
  OBVIOUS
<1>2. (x \div m) \in Int
  OBVIOUS
<1>3. x = m * (x \div m) + (x % m)
  OBVIOUS
<1> QED BY <1>1, <1>2, <1>3

\* The remainder is unique.
LEMMA ModUnique ==
    ASSUME NEW m \in Nat \ {0}, NEW q1 \in Int, NEW q2 \in Int, NEW r1 \in 0..m-1, NEW r2 \in 0..m-1,
           m * q1 + r1 = m * q2 + r2
    PROVE  r1 = r2
<1> DEFINE k == q1 - q2
<1>1. m * k = m * q1 - m * q2 /\ k \in Int /\ m * q1 \in Int /\ m * q2 \in Int
  OBVIOUS
<1>2. m * k = r2 - r1
  BY <1>1
<1>3. k >= 1 \/ k <= -1 \/ k = 0
  BY <1>1
<1> HIDE DEF k
<1>4. /\ k >= 1 => m * k >= m
      /\ k <= -1 => m * k <= -m
      /\ k = 0 => m * k = 0
  BY <1>1
<1> QED BY <1>1, <1>2, <1>3, <1>4

\* Addition respects congruence.
LEMMA ModShift ==
    ASSUME NEW m \in Nat \ {0}, NEW a \in Int, NEW b \in Int, NEW c \in Int, a % m = b % m
    PROVE  (a + c) % m = (b + c) % m
<1> DEFINE qa == a \div m
           qb == b \div m
           qc == (a + c) \div m
           qd == (b + c) \div m
           r == a % m
           u == (a + c) % m
           v == (b + c) % m
<1>1. qa \in Int /\ r \in 0..m-1 /\ a = m * qa + r
  BY DivMod
<1>2. qb \in Int /\ b = m * qb + r
  BY DivMod
<1>3. a + c \in Int /\ b + c \in Int
  OBVIOUS
<1>4. qc \in Int /\ u \in 0..m-1 /\ a + c = m * qc + u
  BY <1>3, DivMod
<1>5. qd \in Int /\ v \in 0..m-1 /\ b + c = m * qd + v
  BY <1>3, DivMod
<1> HIDE DEF qa, qb, qc, qd, r, u, v
<1>6. m * (qc - qa) = m * qc - m * qa /\ m * (qd - qb) = m * qd - m * qb
      /\ m * qa \in Int /\ m * qb \in Int /\ m * qc \in Int /\ m * qd \in Int
      /\ qc - qa \in Int /\ qd - qb \in Int
  BY <1>1, <1>2, <1>4, <1>5
<1> DEFINE A == m * qa
           B == m * qb
           C == m * qc
           D == m * qd
<1>7. C - A + u = D - B + v
  <2>1. A \in Int /\ B \in Int /\ C \in Int /\ D \in Int /\ a = A + r /\ b = B + r /\ a + c = C + u /\ b + c = D + v
    BY <1>1, <1>2, <1>4, <1>5, <1>6
  <2> HIDE DEF A, B, C, D
  <2> QED BY <2>1, <1>1, <1>4, <1>5
<1>8. m * (qc - qa) + u = m * (qd - qb) + v
  BY <1>6, <1>7
<1>9. u = v
  BY <1>4, <1>5, <1>6, <1>8, ModUnique
<1> QED BY <1>9 DEF u, v

\* Numbers in range stay what they are.
LEMMA ModIdentity ==
    ASSUME NEW m \in Nat \ {0}, NEW x \in 0..m-1
    PROVE  x % m = x
OBVIOUS

\* Wrapping twice is wrapping once.
LEMMA ModIdem ==
    ASSUME NEW m \in Nat \ {0}, NEW x \in Int
    PROVE  (x % m) % m = x % m
<1>1. x % m \in 0..m-1
  BY DivMod
<1> QED BY <1>1, ModIdentity

\* A counter updated modulo m changes the sum it is part of by d, modulo m.
LEMMA ModCarry ==
    ASSUME NEW m \in Nat \ {0}, NEW s \in Int, NEW a \in Int, NEW d \in Int
    PROVE  (a + d) % m \in Int /\ (s + ((a + d) % m) - a) % m = (s + d) % m
<1> DEFINE b == a + d
           w == b % m
<1>1. b \in Int
  OBVIOUS
<1>2. w \in Int /\ w % m = b % m
  <2>1. w \in 0..m-1
    BY <1>1, DivMod
  <2>2. w \in Int
    BY <2>1
  <2>3. w % m = b % m
    BY <1>1, ModIdem, Zenon
  <2> QED BY <2>2, <2>3
<1> HIDE DEF b, w
<1>3. (w + (s - a)) % m = (b + (s - a)) % m
  <2>1. s - a \in Int
    OBVIOUS
  <2> QED BY <1>1, <1>2, <2>1, ModShift, ZenonT(60)
<1>4. w + (s - a) = s + w - a /\ b + (s - a) = s + d
  BY <1>1, <1>2 DEF b
<1>5. w \in Int /\ (s + w - a) % m = (s + d) % m
  BY <1>2, <1>3, <1>4
<1>6. w = (a + d) % m
  BY DEF w, b
<1> QED BY <1>5, <1>6, Zenon

\* A change that stays in range changes the remainder by as much.
LEMMA ModCount ==
    ASSUME NEW m \in Nat \ {0}, NEW x \in Int, NEW d \in Int, (x % m) + d \in 0..m-1
    PROVE  (x + d) % m = (x % m) + d
<1> DEFINE n == x % m
<1>1. n \in Int /\ n % m = x % m
  <2>1. n \in 0..m-1
    BY DivMod
  <2>2. n \in Int
    BY <2>1
  <2>3. n % m = x % m
    BY ModIdem, Zenon
  <2> QED BY <2>2, <2>3
<1>2. n + d \in 0..m-1
  OBVIOUS
<1> HIDE DEF n
<1>3. (n + d) % m = (x + d) % m
  BY <1>1, ModShift
<1>4. (n + d) % m = n + d
  BY <1>2, ModIdentity
<1>5. (x + d) % m = n + d
  BY <1>3, <1>4
<1> QED BY <1>5 DEF n

=============================================================================

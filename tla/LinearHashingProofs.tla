------------------------- MODULE LinearHashingProofs -------------------------
(***************************************************************************)
(* Theorems about class LinearHashing for every initial size, load factor, *)
(* set of ids and set of workers: the split state always addresses the     *)
(* vector of buckets, and every entry stays where lookup looks for it.     *)
(*                                                                         *)
(* The facts are proved about the operators, for any table t, so that      *)
(* specifications that hold a table as a part of their state can use them. *)
(***************************************************************************)
EXTENDS LinearHashing, ShiftTheorems, SequenceTheorems, FiniteSetTheorems, FunctionTheorems

-----------------------------------------------------------------------------
(* Geometry *)

(* The rounded initial size is a positive number of buckets.               *)
LEMMA InitialBucketsPositive == InitialBuckets \in Nat \ {0}
<1>1. InitialSize \in Nat /\ 0..InitialSize \subseteq Nat
  BY LHAssumption
<1> DEFINE T == {n \in 0..InitialSize : InitialSize <= Pow2[n]}
<1>2. InitialSize \in T
  <2>1. InitialSize < Pow2[InitialSize] /\ Pow2[InitialSize] \in Nat
    BY <1>1, Pow2Grows, Pow2Facts
  <2> QED BY <1>1, <2>1
<1>3. PICK n \in T : \A m \in T : n <= m
  <2>1. T \subseteq Nat
    BY <1>1
  <2> HIDE DEF T
  <2> QED BY <1>2, <2>1, LeastNat
<1>4. InitialExponent \in 0..InitialSize
  <2>1. \E k \in 0..InitialSize :
          /\ InitialSize <= Pow2[k]
          /\ \A m \in 0..InitialSize : InitialSize <= Pow2[m] => k <= m
    BY <1>3
  <2> QED BY <2>1 DEF InitialExponent
<1> QED
  BY <1>1, <1>4, Pow2Facts DEF InitialBuckets

(* A round has a positive number of buckets, twice that of the last one.   *)
LEMMA RoundSize ==
  ASSUME NEW i \in Nat
  PROVE  /\ Shl(InitialBuckets, i) \in Nat \ {0}
         /\ Shl(InitialBuckets, i + 1) = 2 * Shl(InitialBuckets, i)
<1>1. /\ InitialBuckets \in Nat \ {0}
      /\ Pow2[i] \in Nat \ {0}
      /\ Pow2[i + 1] = 2 * Pow2[i]
  BY InitialBucketsPositive, Pow2Facts
<1> DEFINE x == InitialBuckets
           y == Pow2[i]
<1>2. x * y \in Nat \ {0} /\ x * (2 * y) = 2 * (x * y)
  <2> HIDE DEF x, y
  <2>1. x \in Nat \ {0} /\ y \in Nat \ {0}
    BY <1>1 DEF x, y
  <2> QED BY <2>1
<1> QED
  BY <1>1, <1>2 DEF Shl

(* The hash of the next level is that of this level, or lies one round     *)
(* further: a split has exactly two buckets to choose from.                *)
LEMMA HashFacts ==
  ASSUME NEW id \in Nat, NEW i \in Nat
  PROVE  /\ Hash(id, i) \in Nat
         /\ Hash(id, i) < Shl(InitialBuckets, i)
         /\ \/ Hash(id, i + 1) = Hash(id, i)
            \/ Hash(id, i + 1) = Hash(id, i) + Shl(InitialBuckets, i)
<1> DEFINE d == Shl(InitialBuckets, i)
<1>1. d \in Nat \ {0} /\ Shl(InitialBuckets, i + 1) = 2 * d
  BY RoundSize
<1> HIDE DEF d
<1>2. id % d \in 0..(d - 1)
  BY <1>1, DivModLaw
<1>3. id % (2 * d) = id % d \/ id % (2 * d) = (id % d) + d
  BY <1>1, ModDouble
<1> QED
  BY <1>1, <1>2, <1>3 DEF Hash, d

(* The parts of a table, and its placement in terms of what chains hold.   *)
LEMMA TableFacts ==
  ASSUME NEW t \in Table
  PROVE  /\ t = [buckets |-> t.buckets, level |-> t.level,
                 next |-> t.next, numRecords |-> t.numRecords]
         /\ t.level \in Nat /\ t.next \in Nat /\ t.numRecords \in Int
         /\ Len(t.buckets) \in Nat /\ DOMAIN t.buckets = 1..Len(t.buckets)
         /\ t.buckets \in Seq(Seq(Entry))
         /\ \A b \in DOMAIN t.buckets : t.buckets[b] \in Seq(Entry)
         /\ \A b \in DOMAIN t.buckets : \A e : Holds(t.buckets[b], e) => e \in Entry
         /\ WellPlaced(t) <=>
              \A b \in DOMAIN t.buckets : \A e :
                Holds(t.buckets[b], e) => b = BucketIndex(t, e.id) + 1
<1>1. /\ t = [buckets |-> t.buckets, level |-> t.level,
              next |-> t.next, numRecords |-> t.numRecords]
      /\ t.level \in Nat /\ t.next \in Nat /\ t.numRecords \in Int
      /\ t.buckets \in Seq(Seq(Entry))
  BY DEF Table
<1>2. Len(t.buckets) \in Nat /\ DOMAIN t.buckets = 1..Len(t.buckets)
  BY <1>1
<1>3. \A b \in DOMAIN t.buckets : t.buckets[b] \in Seq(Entry)
  BY <1>1
<1>4. ASSUME NEW b \in DOMAIN t.buckets, NEW e, Holds(t.buckets[b], e) PROVE e \in Entry
  <2>1. t.buckets[b] \in Seq(Entry)
    BY <1>3
  <2> QED BY <2>1, <1>4 DEF Holds
<1>5. WellPlaced(t) <=>
        \A b \in DOMAIN t.buckets : \A e :
          Holds(t.buckets[b], e) => b = BucketIndex(t, e.id) + 1
  BY DEF WellPlaced, Holds
<1> QED BY <1>1, <1>2, <1>3, <1>4, <1>5

(* getBucketIndex always returns an index of the vector of buckets.        *)
LEMMA BucketInRange ==
  ASSUME NEW t \in Table, HasGeometry(t), NEW id \in Nat
  PROVE  BucketIndex(t, id) \in Nat /\ BucketIndex(t, id) + 1 \in DOMAIN t.buckets
<1> DEFINE d == Shl(InitialBuckets, t.level)
<1>1. /\ d \in Nat \ {0} /\ t.level \in Nat /\ t.level + 1 \in Nat
      /\ t.next \in Nat /\ t.next < d
      /\ Len(t.buckets) = d + t.next
      /\ DOMAIN t.buckets = 1..Len(t.buckets)
  BY RoundSize, TableFacts DEF HasGeometry, BucketCount
<1> HIDE DEF d
<1>2. /\ Hash(id, t.level) \in Nat
      /\ Hash(id, t.level) < d
      /\ \/ Hash(id, t.level + 1) = Hash(id, t.level)
         \/ Hash(id, t.level + 1) = Hash(id, t.level) + d
  BY <1>1, HashFacts DEF d
<1> QED
  BY <1>1, <1>2 DEF BucketIndex

-----------------------------------------------------------------------------
(* Chains *)

(* Pushing an entry at the head of a chain adds that entry.                *)
LEMMA PrependFacts ==
  ASSUME NEW X, NEW c \in Seq(X), NEW x \in X
  PROVE  /\ <<x>> \o c \in Seq(X)
         /\ \A e : Holds(<<x>> \o c, e) <=> (e = x \/ Holds(c, e))
<1> DEFINE d == <<x>> \o c
<1>1. /\ Len(c) \in Nat /\ DOMAIN c = 1..Len(c)
      /\ d \in Seq(X) /\ DOMAIN d = 1..(Len(c) + 1)
      /\ d[1] = x
      /\ \A i \in 1..Len(c) : d[i + 1] = c[i]
  OBVIOUS
<1> HIDE DEF d
<1>2. ASSUME NEW e, Holds(d, e) PROVE e = x \/ Holds(c, e)
  <2>1. PICK i \in 1..(Len(c) + 1) : d[i] = e
    BY <1>1, <1>2 DEF Holds
  <2>2. CASE i = 1
    BY <1>1, <2>1, <2>2
  <2>3. CASE i # 1
    <3>1. i - 1 \in 1..Len(c) /\ (i - 1) + 1 = i
      BY <1>1, <2>3
    <3>2. c[i - 1] = e
      BY <1>1, <2>1, <3>1
    <3> QED BY <3>1, <3>2, <1>1 DEF Holds
  <2> QED BY <2>2, <2>3
<1>3. ASSUME NEW e, e = x \/ Holds(c, e) PROVE Holds(d, e)
  <2>1. CASE e = x
    <3>1. 1 \in DOMAIN d
      BY <1>1
    <3> QED BY <1>1, <3>1, <2>1 DEF Holds
  <2>2. CASE Holds(c, e)
    <3>1. PICK i \in 1..Len(c) : c[i] = e
      BY <1>1, <2>2 DEF Holds
    <3>2. i + 1 \in DOMAIN d /\ d[i + 1] = e
      BY <1>1, <3>1
    <3> QED BY <3>2 DEF Holds
  <2> QED BY <1>3, <2>1, <2>2
<1> QED BY <1>1, <1>2, <1>3 DEF d

Distinct(chain) ==
  \A i, j \in DOMAIN chain : chain[i].worker = chain[j].worker => i = j

(* A chain stays free of shared workers when an entry with a new worker is *)
(* pushed at its head.                                                     *)
LEMMA PrependDistinct ==
  ASSUME NEW c \in Seq(Entry), NEW x \in Entry, Distinct(c),
         \A e : Holds(c, e) => e.worker # x.worker
  PROVE  Distinct(<<x>> \o c)
<1> DEFINE d == <<x>> \o c
<1>1. /\ Len(c) \in Nat /\ DOMAIN c = 1..Len(c)
      /\ DOMAIN d = 1..(Len(c) + 1)
      /\ d[1] = x
      /\ \A i \in 1..Len(c) : d[i + 1] = c[i]
  OBVIOUS
<1> HIDE DEF d
<1>2. ASSUME NEW i \in DOMAIN d, i # 1
      PROVE  i - 1 \in DOMAIN c /\ d[i] = c[i - 1] /\ d[i].worker # x.worker
  <2>1. i - 1 \in 1..Len(c) /\ (i - 1) + 1 = i
    BY <1>1, <1>2
  <2>2. d[i] = c[i - 1] /\ i - 1 \in DOMAIN c
    BY <1>1, <2>1
  <2> QED BY <2>2 DEF Holds
<1>3. ASSUME NEW i \in DOMAIN d, NEW j \in DOMAIN d, d[i].worker = d[j].worker PROVE i = j
  <2>1. CASE i = 1 /\ j = 1
    BY <2>1
  <2>2. CASE (i = 1 /\ j # 1) \/ (i # 1 /\ j = 1)
    BY <1>1, <1>2, <1>3, <2>2
  <2>3. CASE i # 1 /\ j # 1
    <3>1. i - 1 = j - 1
      BY <1>2, <1>3, <2>3 DEF Distinct
    <3> QED BY <1>1, <3>1
  <2> QED BY <2>1, <2>2, <2>3
<1> QED BY <1>3 DEF Distinct, d

(* The loop of split over one chain produces a chain of exactly the        *)
(* entries of S that the old chain holds, each of them once.               *)
LEMMA RelinkedFacts ==
  ASSUME NEW chain \in Seq(Entry), NEW S \in SUBSET Entry
  PROVE  /\ Relinked(chain, S) \in Seq(Entry)
         /\ \A e : Holds(Relinked(chain, S), e) <=> (e \in S /\ Holds(chain, e))
         /\ Distinct(chain) => Distinct(Relinked(chain, S))
<1> DEFINE n == Len(chain)
           X == Seq(Entry)
           Step(f, i) == IF i = 0 THEN <<>>
                         ELSE IF chain[i] \in S THEN <<chain[i]>> \o f[i - 1]
                         ELSE f[i - 1]
           g == [p \in (1..n) \X X |->
                   IF chain[p[1]] \in S THEN <<chain[p[1]]>> \o p[2] ELSE p[2]]
           pushed == CHOOSE f : f = [i \in 0..n |-> Step(f, i)]
           So(i, e) == e \in S /\ \E j \in 1..i : chain[j] = e
<1>1. n \in Nat /\ DOMAIN chain = 1..n /\ \A i \in 1..n : chain[i] \in Entry
  OBVIOUS
<1>2. Relinked(chain, S) = pushed[n]
  BY DEF Relinked
<1> HIDE DEF n
<1>3. \E f : f = [i \in 0..n |-> Step(f, i)]
  <2>1. g \in [(1..n) \X X -> X]
    <3> SUFFICES ASSUME NEW i \in 1..n, NEW c \in X
                 PROVE  (IF chain[i] \in S THEN <<chain[i]>> \o c ELSE c) \in X
      OBVIOUS
    <3> QED BY <1>1, PrependFacts
  <2> DEFINE empty == <<>>
  <2>2. empty \in X /\ n \in Nat
    BY <1>1
  <2>3. PICK f : SolvesRecursion(f, n, X, empty, g)
    <3> HIDE DEF g, X, empty
    <3> QED BY <2>1, <2>2, FiniteRecursion
  <2> USE DEF SolvesRecursion
  <2>4. ASSUME NEW i \in 0..n PROVE f[i] = Step(f, i)
    <3>1. CASE i = 0
      BY <2>3, <3>1
    <3>2. CASE i # 0
      <4>1. i \in 1..n /\ i - 1 \in 0..n
        BY <1>1, <3>2
      <4>2. f[i - 1] \in X
        BY <2>3, <4>1
      <4>3. f[i] = g[<<i, f[i - 1]>>]
        BY <2>3, <4>1
      <4>4. g[<<i, f[i - 1]>>] = IF chain[i] \in S THEN <<chain[i]>> \o f[i - 1] ELSE f[i - 1]
        <5> HIDE DEF X
        <5> QED BY <4>1, <4>2
      <4> QED BY <4>3, <4>4, <3>2
    <3> QED BY <3>1, <3>2
  <2>5. f = [i \in 0..n |-> Step(f, i)]
    <3> HIDE DEF Step
    <3> QED BY <2>3, <2>4
  <2> QED BY <2>5
<1>4. /\ pushed = [i \in 0..n |-> Step(pushed, i)]
  <2> HIDE DEF Step
  <2> QED BY <1>3
<1> HIDE DEF pushed
<1>5. \A i \in 0..n : pushed[i] = Step(pushed, i)
  <2> HIDE DEF Step
  <2> QED BY <1>4
<1> DEFINE Good(i) == /\ pushed[i] \in X
                      /\ \A e : Holds(pushed[i], e) <=> So(i, e)
                      /\ Distinct(chain) => Distinct(pushed[i])
           T == {i \in 0..n : ~ Good(i)}
<1>6. T = {}
  <2>1. SUFFICES ASSUME T # {} PROVE FALSE
    OBVIOUS
  <2>2. PICK i \in T : \A j \in T : i <= j
    <3>1. T \subseteq Nat
      BY <1>1
    <3> HIDE DEF T
    <3> QED BY <2>1, <3>1, LeastNat
  <2>3. i \in 0..n /\ ~ Good(i)
    OBVIOUS
  <2>4. CASE i = 0
    <3>1. pushed[0] = <<>>
      <4>1. 0 \in 0..n
        BY <1>1
      <4>2. pushed[0] = Step(pushed, 0)
        <5> HIDE DEF Step
        <5> QED BY <4>1, <1>5
      <4> QED BY <4>2
    <3>2. Good(0)
      BY <3>1 DEF Holds, Distinct
    <3> HIDE DEF Good
    <3> QED BY <3>2, <2>3, <2>4
  <2>5. CASE i # 0
    <3>1. i - 1 \in 0..n /\ i \in 1..n /\ i - 1 \notin T
      <4> HIDE DEF T
      <4> QED BY <1>1, <2>2, <2>3, <2>5
    <3>2. Good(i - 1)
      <4> HIDE DEF Good
      <4> QED BY <3>1
    <3>3. pushed[i] = IF chain[i] \in S THEN <<chain[i]>> \o pushed[i - 1] ELSE pushed[i - 1]
      BY <1>5, <2>3, <2>5
    <3>4. \A e : So(i, e) <=> ((e \in S /\ e = chain[i]) \/ So(i - 1, e))
      <4>1. \A j : j \in 1..i <=> (j = i \/ j \in 1..(i - 1))
        BY <1>1, <3>1
      <4> QED BY <4>1
    <3>5. /\ pushed[i - 1] \in X
          /\ \A e : Holds(pushed[i - 1], e) <=> So(i - 1, e)
          /\ Distinct(chain) => Distinct(pushed[i - 1])
      BY <3>2
    <3>d. ASSUME Distinct(chain), NEW e, So(i - 1, e) PROVE e.worker # chain[i].worker
      <4>1. PICK j \in 1..(i - 1) : chain[j] = e
        BY <3>d
      <4>2. j \in DOMAIN chain /\ i \in DOMAIN chain /\ j # i
        BY <1>1, <3>1
      <4> QED BY <3>d, <4>1, <4>2 DEF Distinct
    <3> HIDE DEF So
    <3>6. CASE chain[i] \in S
      <4>1. chain[i] \in Entry
        BY <1>1, <3>1
      <4>2. /\ pushed[i] \in X
            /\ \A e : Holds(pushed[i], e) <=> (e = chain[i] \/ Holds(pushed[i - 1], e))
        BY <4>1, <3>3, <3>5, <3>6, PrependFacts
      <4>3. Distinct(chain) => Distinct(pushed[i])
        BY <4>1, <3>3, <3>5, <3>6, <3>d, PrependDistinct
      <4>4. Good(i)
        BY <4>2, <4>3, <3>4, <3>5, <3>6
      <4> HIDE DEF Good
      <4> QED BY <4>4, <2>3
    <3>7. CASE chain[i] \notin S
      <4>1. Good(i)
        BY <3>3, <3>4, <3>5, <3>7
      <4> HIDE DEF Good
      <4> QED BY <4>1, <2>3
    <3> QED BY <3>6, <3>7
  <2> QED BY <2>4, <2>5
<1>7. Good(n)
  <2>1. n \in 0..n
    BY <1>1
  <2> HIDE DEF Good
  <2> QED BY <1>6, <2>1
<1> QED
  BY <1>7, <1>2, <1>1 DEF Holds

-----------------------------------------------------------------------------
(* Operations on a sound table *)

Sound(t) == t \in Table /\ HasGeometry(t) /\ WellPlaced(t)

InTable(t, e) == \E b \in DOMAIN t.buckets : Holds(t.buckets[b], e)

ChainsDistinct(t) == \A b \in DOMAIN t.buckets : Distinct(t.buckets[b])

(* A new table is sound and empty.                                         *)
LEMMA NewTableFacts ==
  /\ Sound(NewTable) /\ ChainsDistinct(NewTable)
  /\ \A e : ~ InTable(NewTable, e)
<1> DEFINE n == InitialBuckets
           bs == [b \in 1..n |-> <<>>]
<1>1. n \in Nat \ {0} /\ Pow2[0] = 1
  BY InitialBucketsPositive, Pow2Facts
<1>2. NewTable = [buckets |-> bs, level |-> 0, next |-> 0, numRecords |-> 0]
  BY DEF NewTable
<1> HIDE DEF n
<1>3. bs \in Seq(Seq(Entry)) /\ Len(bs) = n /\ DOMAIN bs = 1..n
  BY <1>1
<1>4. ASSUME NEW b \in DOMAIN bs PROVE Distinct(bs[b]) /\ \A e : ~ Holds(bs[b], e)
  BY <1>4 DEF Holds, Distinct
<1> HIDE DEF bs
<1>5. NewTable \in Table
  BY <1>2, <1>3 DEF Table
<1>6. Shl(n, 0) = n
  BY <1>1 DEF Shl
<1>7. HasGeometry(NewTable)
  BY <1>1, <1>2, <1>3, <1>6 DEF HasGeometry, BucketCount, n
<1>8. WellPlaced(NewTable)
  BY <1>2, <1>4, <1>5, TableFacts
<1> QED BY <1>2, <1>4, <1>5, <1>7, <1>8 DEF Sound, InTable, ChainsDistinct

(* Linking an entry at the head of the chain of its id adds that entry.    *)
LEMMA LinkedFacts ==
  ASSUME NEW t, Sound(t), NEW id \in Ids, NEW w \in Workers
  PROVE  /\ Sound(Linked(t, id, w))
         /\ \A e : InTable(Linked(t, id, w), e)
                     <=> (e = [id |-> id, worker |-> w] \/ InTable(t, e))
         /\ ChainsDistinct(t) /\ (\A e : InTable(t, e) => e.worker # w)
              => ChainsDistinct(Linked(t, id, w))
         /\ Linked(t, id, w).numRecords = t.numRecords + 1
         /\ BucketCount(Linked(t, id, w)) = BucketCount(t)
<1> DEFINE x == [id |-> id, worker |-> w]
           u == Linked(t, id, w)
           k == BucketIndex(t, id) + 1
           c == <<x>> \o t.buckets[k]
<1>1. t \in Table /\ HasGeometry(t) /\ WellPlaced(t) /\ id \in Nat /\ x \in Entry
  BY LHAssumption DEF Sound, Entry
<1>2. k \in DOMAIN t.buckets /\ t.buckets[k] \in Seq(Entry)
  BY <1>1, BucketInRange, TableFacts
<1>3. c \in Seq(Entry) /\ \A e : Holds(c, e) <=> (e = x \/ Holds(t.buckets[k], e))
  <2> HIDE DEF x, k
  <2> QED BY <1>1, <1>2, PrependFacts
<1>4. /\ u.buckets = [t.buckets EXCEPT ![k] = c]
      /\ u.level = t.level /\ u.next = t.next
      /\ u.numRecords = t.numRecords + 1
      /\ u.buckets \in Seq(Seq(Entry)) => u \in Table
  <2>1. u = [t EXCEPT !.buckets[k] = c, !.numRecords = t.numRecords + 1]
    BY DEF Linked
  <2> HIDE DEF u, k, c
  <2>2. /\ u.buckets = [t.buckets EXCEPT ![k] = c]
        /\ u.level = t.level /\ u.next = t.next
        /\ u.numRecords = t.numRecords + 1
    BY <1>1, <2>1 DEF Table
  <2>3. ASSUME u.buckets \in Seq(Seq(Entry)) PROVE u \in Table
    <3> DEFINE B == Seq(Seq(Entry))
    <3>1. u.buckets \in B /\ t \in [buckets : B, level : Nat, next : Nat, numRecords : Int]
      BY <1>1, <2>3 DEF Table
    <3> DEFINE n == t.numRecords + 1
    <3>2. n \in Int /\ [t.buckets EXCEPT ![k] = c] \in B
      BY <1>1, <2>2, <3>1, TableFacts
    <3> HIDE DEF B, n
    <3>3. [t EXCEPT !.buckets[k] = c, !.numRecords = n]
            \in [buckets : B, level : Nat, next : Nat, numRecords : Int]
      BY <3>1, <3>2
    <3> QED BY <2>1, <3>3 DEF B, n, Table
  <2> QED BY <2>2, <2>3
<1>k. k = BucketIndex(t, x.id) + 1 /\ x.worker = w
  OBVIOUS
<1> HIDE DEF u, c, k, x
<1>5. /\ u.buckets \in Seq(Seq(Entry))
      /\ DOMAIN u.buckets = DOMAIN t.buckets /\ Len(u.buckets) = Len(t.buckets)
      /\ u.buckets[k] = c
      /\ \A b \in DOMAIN t.buckets : b # k => u.buckets[b] = t.buckets[b]
  BY <1>1, <1>2, <1>3, <1>4, TableFacts
<1>6. u \in Table
  BY <1>4, <1>5
<1>7. HasGeometry(u)
  BY <1>1, <1>4, <1>5 DEF HasGeometry, BucketCount
<1>8. \A y : BucketIndex(u, y) = BucketIndex(t, y)
  BY <1>4 DEF BucketIndex
<1>9. ASSUME NEW b \in DOMAIN u.buckets, NEW e
      PROVE  Holds(u.buckets[b], e) <=> (Holds(t.buckets[b], e) \/ (b = k /\ e = x))
  BY <1>3, <1>5
<1>10. WellPlaced(u)
  <2>1. ASSUME NEW b \in DOMAIN u.buckets, NEW e, Holds(u.buckets[b], e)
        PROVE  b = BucketIndex(u, e.id) + 1
    <3>1. CASE b = k /\ e = x
      BY <3>1, <1>k, <1>8
    <3>2. CASE Holds(t.buckets[b], e)
      <4>1. b \in DOMAIN t.buckets
        BY <1>5
      <4>2. b = BucketIndex(t, e.id) + 1
        BY <4>1, <3>2, <1>1, TableFacts
      <4> QED BY <4>2, <1>8
    <3> QED BY <2>1, <1>9, <3>1, <3>2
  <2> QED BY <2>1, <1>6, TableFacts
<1>11. \A e : InTable(u, e) <=> (e = x \/ InTable(t, e))
  BY <1>2, <1>5, <1>9 DEF InTable
<1>12. ASSUME ChainsDistinct(t), \A e : InTable(t, e) => e.worker # w
       PROVE  ChainsDistinct(u)
  <2>1. \A e : Holds(t.buckets[k], e) => e.worker # x.worker
    BY <1>2, <1>k, <1>12 DEF InTable
  <2>2. Distinct(t.buckets[k])
    BY <1>2, <1>12 DEF ChainsDistinct
  <2>3. Distinct(c)
    BY <1>1, <1>2, <2>1, <2>2, PrependDistinct DEF c
  <2> QED BY <1>5, <1>12, <2>3 DEF ChainsDistinct
<1>13. BucketCount(u) = BucketCount(t)
  BY <1>5 DEF BucketCount
<1> QED BY <1>4, <1>6, <1>7, <1>10, <1>11, <1>12, <1>13 DEF Sound, u, x

(* The members of a table after a split.                                   *)
LEMMA SplitFields ==
  ASSUME NEW t, Sound(t)
  PROVE  LET k == t.next + 1
             chain == t.buckets[k]
             stay == Relinked(chain, Entry \ Movers(t, chain))
             move == Relinked(chain, Movers(t, chain))
             u == Split(t)
         IN  /\ u \in Table
             /\ u.buckets = Append([t.buckets EXCEPT ![k] = stay], move)
             /\ u.numRecords = t.numRecords
             /\ IF RoundIsOver(t) THEN u.level = t.level + 1 /\ u.next = 0
                                  ELSE u.level = t.level /\ u.next = k
<1> DEFINE k == t.next + 1
           chain == t.buckets[k]
           stay == Relinked(chain, Entry \ Movers(t, chain))
           move == Relinked(chain, Movers(t, chain))
           u == Split(t)
           r == Rehashed(t)
           bs == Append([t.buckets EXCEPT ![k] = stay], move)
           B == Seq(Seq(Entry))
           R == [buckets : B, level : Nat, next : Nat, numRecords : Int]
<1>1. t \in R /\ t.level \in Nat /\ t.next \in Nat /\ k \in DOMAIN t.buckets
  <2>1. t \in Table /\ HasGeometry(t)
    BY DEF Sound
  <2>2. t \in R /\ t.level \in Nat /\ t.next \in Nat /\ Len(t.buckets) \in Nat
        /\ DOMAIN t.buckets = 1..Len(t.buckets)
    BY <2>1, TableFacts DEF Table
  <2>3. t.next < Shl(InitialBuckets, t.level) /\ Shl(InitialBuckets, t.level) \in Nat
        /\ Len(t.buckets) = Shl(InitialBuckets, t.level) + t.next
    BY <2>1, <2>2, RoundSize DEF HasGeometry, BucketCount
  <2> QED BY <2>2, <2>3
<1>2. chain \in Seq(Entry) /\ Movers(t, chain) \in SUBSET Entry
  <2>1. t \in Table
    BY DEF Sound
  <2> QED BY <2>1, <1>1, TableFacts DEF Movers
<1>3. stay \in Seq(Entry) /\ move \in Seq(Entry)
  <2> HIDE DEF chain
  <2> QED BY <1>2, RelinkedFacts
<1>4. r = [t EXCEPT !.buckets = bs]
  BY DEF Rehashed
<1> HIDE DEF stay, move
<1>5. bs \in B
  <2>1. t.buckets \in Seq(Seq(Entry))
    BY <1>1
  <2> QED BY <2>1, <1>1, <1>3
<1> HIDE DEF bs, B
<1>6. r \in R /\ r.buckets = bs /\ r.level = t.level /\ r.next = t.next /\ r.numRecords = t.numRecords
  <2> HIDE DEF r
  <2> QED BY <1>1, <1>4, <1>5
<1>7. u = IF RoundIsOver(t) THEN [r EXCEPT !.level = @ + 1, !.next = 0]
                            ELSE [r EXCEPT !.next = @ + 1]
  <2>1. u = Advanced(r)
    BY DEF Split
  <2>2. RoundIsOver(r) <=> RoundIsOver(t)
    <3> HIDE DEF r
    <3> QED BY <1>6 DEF RoundIsOver
  <2> HIDE DEF u, r
  <2> QED BY <2>1, <2>2 DEF Advanced
<1> HIDE DEF r, u
<1>8. u \in R /\ u.buckets = bs /\ u.numRecords = t.numRecords
  <2>1. CASE RoundIsOver(t)
    <3> DEFINE n == t.level + 1
    <3>1. u = [r EXCEPT !.level = n, !.next = 0] /\ n \in Nat
      BY <1>1, <1>6, <1>7, <2>1
    <3> HIDE DEF n
    <3>2. [r EXCEPT !.level = n, !.next = 0] \in R
      BY <1>6, <3>1
    <3>3. u.buckets = bs /\ u.numRecords = t.numRecords
      BY <1>6, <3>1
    <3> QED BY <3>1, <3>2, <3>3
  <2>2. CASE ~ RoundIsOver(t)
    BY <1>1, <1>6, <1>7, <2>2
  <2> QED BY <2>1, <2>2
<1>9. IF RoundIsOver(t) THEN u.level = t.level + 1 /\ u.next = 0
                        ELSE u.level = t.level /\ u.next = k
  BY <1>1, <1>6, <1>7
<1> QED
  BY <1>8, <1>9 DEF bs, B, u, stay, move, Table

(* After a split only the ids of the bucket at next have a new address:    *)
(* the address the next level gives them.                                  *)
LEMMA SplitIndex ==
  ASSUME NEW t, Sound(t), NEW id \in Nat
  PROVE  /\ HasGeometry(Split(t))
         /\ BucketCount(Split(t)) = BucketCount(t) + 1
         /\ IF BucketIndex(t, id) = t.next
            THEN /\ BucketIndex(Split(t), id) = Hash(id, t.level + 1)
                 /\ Hash(id, t.level + 1) \in {t.next, BucketCount(t)}
            ELSE BucketIndex(Split(t), id) = BucketIndex(t, id)
<1> DEFINE d == Shl(InitialBuckets, t.level)
           h0 == Hash(id, t.level)
           h1 == Hash(id, t.level + 1)
           u == Split(t)
<1>1. /\ t \in Table /\ HasGeometry(t) /\ u \in Table
      /\ t.level \in Nat /\ t.next \in Nat
  BY SplitFields, TableFacts DEF Sound
<1>2. /\ d \in Nat \ {0} /\ Shl(InitialBuckets, t.level + 1) = 2 * d
      /\ t.next < d /\ BucketCount(t) = d + t.next
  BY <1>1, RoundSize DEF HasGeometry
<1>3. h0 \in Nat /\ h0 < d /\ (h1 = h0 \/ h1 = h0 + d)
  BY <1>1, HashFacts
<1>4. BucketIndex(t, id) = IF h0 < t.next THEN h1 ELSE h0
  BY DEF BucketIndex
<1>5. BucketCount(u) = d + t.next + 1
  <2>1. /\ t.buckets \in Seq(Seq(Entry)) /\ Len(t.buckets) \in Nat
        /\ Len(t.buckets) = d + t.next
        /\ DOMAIN t.buckets = 1..Len(t.buckets)
    BY <1>1, <1>2, TableFacts DEF BucketCount
  <2> DEFINE chain == t.buckets[t.next + 1]
             stay == Relinked(chain, Entry \ Movers(t, chain))
             move == Relinked(chain, Movers(t, chain))
  <2>2. u.buckets = Append([t.buckets EXCEPT ![t.next + 1] = stay], move)
    BY SplitFields
  <2> HIDE DEF u, d, chain, stay, move
  <2>3. t.next + 1 \in 1..Len(t.buckets)
    BY <1>1, <1>2, <2>1
  <2>4. DOMAIN [t.buckets EXCEPT ![t.next + 1] = stay] = 1..Len(t.buckets)
    BY <2>1
  <2>5. Len([t.buckets EXCEPT ![t.next + 1] = stay]) = Len(t.buckets)
    BY <2>1, <2>4
  <2>6. Len(u.buckets) = Len(t.buckets) + 1
    BY <2>1, <2>2, <2>4, <2>5
  <2> QED BY <2>1, <2>6 DEF BucketCount
<1>6. IF t.next + 1 = d THEN u.level = t.level + 1 /\ u.next = 0
                        ELSE u.level = t.level /\ u.next = t.next + 1
  BY SplitFields DEF RoundIsOver
<1>7. BucketIndex(u, id) = IF h0 < t.next + 1 THEN h1 ELSE h0
  <2>1. CASE t.next + 1 = d
    <3>1. Hash(id, u.level) = h1 /\ u.next = 0 /\ h1 \in Nat
      BY <1>2, <1>3, <1>6, <2>1
    <3>2. BucketIndex(u, id) = h1
      <4> HIDE DEF u, h1
      <4> QED BY <3>1 DEF BucketIndex
    <3>3. h0 < t.next + 1
      BY <1>3, <2>1
    <3> QED BY <3>2, <3>3
  <2>2. CASE t.next + 1 # d
    <3>1. u.level = t.level /\ u.next = t.next + 1
      BY <1>6, <2>2
    <3> HIDE DEF u
    <3> QED BY <3>1 DEF BucketIndex
  <2> QED BY <2>1, <2>2
<1>8. HasGeometry(u)
  <2>1. CASE t.next + 1 = d
    <3>1. u.level = t.level + 1 /\ u.next = 0
      BY <1>6, <2>1
    <3> HIDE DEF u, d
    <3>2. Shl(InitialBuckets, u.level) = 2 * d
      BY <1>2, <3>1
    <3> QED BY <1>1, <1>2, <1>5, <2>1, <3>1, <3>2 DEF HasGeometry
  <2>2. CASE t.next + 1 # d
    <3>1. u.level = t.level /\ u.next = t.next + 1
      BY <1>6, <2>2
    <3>2. Shl(InitialBuckets, u.level) = d
      BY <3>1
    <3> HIDE DEF u, d
    <3> QED BY <1>1, <1>2, <1>5, <2>2, <3>1, <3>2 DEF HasGeometry
  <2> QED BY <2>1, <2>2
<1> HIDE DEF u, d, h0, h1
<1>9. IF BucketIndex(t, id) = t.next
      THEN BucketIndex(u, id) = h1 /\ h1 \in {t.next, BucketCount(t)}
      ELSE BucketIndex(u, id) = BucketIndex(t, id)
  BY <1>1, <1>2, <1>3, <1>4, <1>7
<1>10. BucketCount(u) = BucketCount(t) + 1
  BY <1>2, <1>5
<1> QED BY <1>8, <1>9, <1>10 DEF u, h1

(* A split loses no entry, invents and doubles none, and leaves every      *)
(* entry in the bucket its id now addresses.                               *)
LEMMA SplitSound ==
  ASSUME NEW t, Sound(t)
  PROVE  /\ Sound(Split(t)) /\ \A e : InTable(Split(t), e) <=> InTable(t, e)
         /\ ChainsDistinct(t) => ChainsDistinct(Split(t))
         /\ Split(t).numRecords = t.numRecords
         /\ BucketCount(Split(t)) = BucketCount(t) + 1
<1> DEFINE k == t.next + 1
           n == BucketCount(t)
           chain == t.buckets[k]
           movers == Movers(t, chain)
           stay == Relinked(chain, Entry \ movers)
           move == Relinked(chain, movers)
           u == Split(t)
<1>1. /\ t \in Table /\ HasGeometry(t) /\ WellPlaced(t)
      /\ t.level \in Nat /\ t.next \in Nat
      /\ n \in Nat /\ DOMAIN t.buckets = 1..n /\ t.buckets \in Seq(Seq(Entry))
  BY TableFacts DEF Sound, BucketCount
<1>2. k \in 1..n
  <2>1. Shl(InitialBuckets, t.level) \in Nat
    BY <1>1, RoundSize
  <2> QED BY <1>1, <2>1 DEF HasGeometry, BucketCount
<1>3. chain \in Seq(Entry)
  BY <1>1, <1>2
<1>4. u \in Table /\ u.buckets = Append([t.buckets EXCEPT ![k] = stay], move)
  BY SplitFields
<1>5. movers = {e \in Entry : Holds(chain, e) /\ Hash(e.id, t.level + 1) = n}
  BY DEF Movers
<1> HIDE DEF chain
<1>6. /\ stay \in Seq(Entry) /\ \A e : Holds(stay, e) <=> e \in Entry \ movers /\ Holds(chain, e)
      /\ move \in Seq(Entry) /\ \A e : Holds(move, e) <=> e \in movers /\ Holds(chain, e)
      /\ Distinct(chain) => Distinct(stay) /\ Distinct(move)
  <2>1. movers \in SUBSET Entry
    BY <1>5
  <2> HIDE DEF movers
  <2> QED BY <2>1, <1>3, RelinkedFacts
<1> HIDE DEF stay, move, movers, n
<1>7. /\ DOMAIN u.buckets = 1..(n + 1)
      /\ u.buckets[n + 1] = move
      /\ u.buckets[k] = stay
      /\ \A b \in 1..n : b # k => u.buckets[b] = t.buckets[b]
  <2> DEFINE c == [t.buckets EXCEPT ![k] = stay]
  <2>1. c \in Seq(Seq(Entry)) /\ Len(c) = n /\ DOMAIN c = 1..n
    BY <1>1, <1>2, <1>6
  <2>2. c[k] = stay /\ \A b \in 1..n : b # k => c[b] = t.buckets[b]
    BY <1>1, <1>2
  <2> HIDE DEF c
  <2>3. u.buckets = Append(c, move)
    BY <1>4 DEF c
  <2> HIDE DEF u
  <2>4. DOMAIN Append(c, move) = 1..(n + 1) /\ Append(c, move)[n + 1] = move
    BY <2>1, <1>1, <1>6
  <2>5. \A b \in 1..n : Append(c, move)[b] = c[b]
    BY <2>1, <1>1, <1>6
  <2> QED BY <2>2, <2>3, <2>4, <2>5, <1>2
<1> HIDE DEF u
<1>8. \A e : Holds(chain, e) => e \in Entry /\ e.id \in Nat
  <2>1. ASSUME NEW e, Holds(chain, e) PROVE e \in Entry
    BY <2>1, <1>3 DEF Holds
  <2>2. \A e \in Entry : e.id \in Nat
    BY LHAssumption DEF Entry
  <2> QED BY <2>1, <2>2
<1>9. \A e : Holds(chain, e) => BucketIndex(t, e.id) = t.next
  <2> SUFFICES ASSUME NEW e, Holds(chain, e) PROVE BucketIndex(t, e.id) = t.next
    OBVIOUS
  <2>1. k = BucketIndex(t, e.id) + 1
    BY <1>1, <1>2, TableFacts DEF chain
  <2>2. BucketIndex(t, e.id) \in Nat
    BY <1>1, <1>8, BucketInRange
  <2> QED BY <1>1, <2>1, <2>2
<1>10. ASSUME NEW b \in DOMAIN u.buckets, NEW e, Holds(u.buckets[b], e)
       PROVE  b = BucketIndex(u, e.id) + 1
  <2>1. CASE b = n + 1
    <3>1. e \in movers /\ Holds(chain, e)
      BY <1>10, <1>6, <1>7, <2>1
    <3>2. Hash(e.id, t.level + 1) = n
      BY <3>1, <1>5
    <3> QED BY <1>8, <1>9, <2>1, <3>1, <3>2, SplitIndex DEF u
  <2>2. CASE b = k
    <3>1. e \in Entry \ movers /\ Holds(chain, e)
      BY <1>10, <1>6, <1>7, <2>2
    <3>2. Hash(e.id, t.level + 1) # n
      BY <3>1, <1>5
    <3> QED BY <1>8, <1>9, <2>2, <3>1, <3>2, SplitIndex DEF u, n
  <2>3. CASE b # n + 1 /\ b # k
    <3>1. b \in 1..n /\ Holds(t.buckets[b], e)
      BY <1>1, <1>7, <1>10, <2>3
    <3>2. b = BucketIndex(t, e.id) + 1 /\ e \in Entry
      BY <1>1, <3>1, TableFacts
    <3>3. e.id \in Nat
      BY <3>2, LHAssumption DEF Entry
    <3>4. BucketIndex(t, e.id) \in Nat
      BY <1>1, <3>3, BucketInRange
    <3>5. BucketIndex(t, e.id) # t.next
      BY <1>1, <2>3, <3>2, <3>4
    <3>6. BucketIndex(u, e.id) = BucketIndex(t, e.id)
      BY <3>3, <3>5, SplitIndex DEF u
    <3> QED BY <3>2, <3>6
  <2> QED BY <2>1, <2>2, <2>3
<1>11. WellPlaced(u)
  BY <1>4, <1>10, TableFacts DEF u
<1>12. HasGeometry(u) /\ BucketCount(u) = BucketCount(t) + 1
  <2>1. 0 \in Nat
    OBVIOUS
  <2> QED BY <2>1, SplitIndex DEF u
<1>13. ASSUME NEW e PROVE InTable(u, e) <=> InTable(t, e)
  <2>1. Holds(chain, e) <=> (Holds(stay, e) \/ Holds(move, e))
    BY <1>6, <1>8
  <2>2. ASSUME InTable(t, e) PROVE InTable(u, e)
    <3>1. PICK b \in 1..n : Holds(t.buckets[b], e)
      BY <1>1, <2>2 DEF InTable
    <3>2. CASE b # k
      <4>1. u.buckets[b] = t.buckets[b] /\ b \in DOMAIN u.buckets
        BY <1>1, <1>7, <3>1, <3>2
      <4> QED BY <3>1, <4>1 DEF InTable
    <3>3. CASE b = k
      <4>1. Holds(u.buckets[k], e) \/ Holds(u.buckets[n + 1], e)
        BY <1>7, <2>1, <3>1, <3>3 DEF chain
      <4>2. k \in DOMAIN u.buckets /\ n + 1 \in DOMAIN u.buckets
        BY <1>1, <1>2, <1>7
      <4> QED BY <4>1, <4>2 DEF InTable
    <3> QED BY <3>2, <3>3
  <2>3. ASSUME InTable(u, e) PROVE InTable(t, e)
    <3>1. PICK b \in 1..(n + 1) : Holds(u.buckets[b], e)
      BY <1>7, <2>3 DEF InTable
    <3>2. CASE b \in 1..n /\ b # k
      BY <1>1, <1>7, <3>1, <3>2 DEF InTable
    <3>3. CASE b = k \/ b = n + 1
      <4>1. Holds(t.buckets[k], e)
        BY <1>7, <2>1, <3>1, <3>3 DEF chain
      <4> QED BY <1>1, <1>2, <4>1 DEF InTable
    <3> QED BY <1>1, <3>2, <3>3
  <2> QED BY <2>2, <2>3
<1>14. ASSUME ChainsDistinct(t) PROVE ChainsDistinct(u)
  <2>1. Distinct(chain)
    BY <1>1, <1>2, <1>14 DEF ChainsDistinct, chain
  <2> SUFFICES ASSUME NEW b \in 1..(n + 1) PROVE Distinct(u.buckets[b])
    BY <1>7 DEF ChainsDistinct
  <2>2. CASE b \in 1..n /\ b # k
    BY <1>1, <1>7, <1>14, <2>2 DEF ChainsDistinct
  <2>3. CASE b = k \/ b = n + 1
    BY <1>6, <1>7, <2>1, <2>3
  <2> QED BY <1>1, <2>2, <2>3
<1>15. u.numRecords = t.numRecords
  BY SplitFields DEF u
<1> QED BY <1>4, <1>11, <1>12, <1>13, <1>14, <1>15 DEF Sound, u

(* insert adds its entry and nothing else, with or without a split.        *)
LEMMA InsertedFacts ==
  ASSUME NEW t, Sound(t), NEW id \in Ids, NEW w \in Workers
  PROVE  /\ Sound(Inserted(t, id, w))
         /\ \A e : InTable(Inserted(t, id, w), e)
                     <=> (e = [id |-> id, worker |-> w] \/ InTable(t, e))
         /\ ChainsDistinct(t) /\ (\A e : InTable(t, e) => e.worker # w)
              => ChainsDistinct(Inserted(t, id, w))
         /\ Inserted(t, id, w).numRecords = t.numRecords + 1
         /\ BucketCount(Inserted(t, id, w)) =
              IF (t.numRecords + 1) * LoadDen > LoadNum * BucketCount(t)
              THEN BucketCount(t) + 1 ELSE BucketCount(t)
<1> DEFINE l == Linked(t, id, w)
           u == Inserted(t, id, w)
<1>1. /\ Sound(l)
      /\ \A e : InTable(l, e) <=> (e = [id |-> id, worker |-> w] \/ InTable(t, e))
      /\ ChainsDistinct(t) /\ (\A e : InTable(t, e) => e.worker # w) => ChainsDistinct(l)
      /\ l.numRecords = t.numRecords + 1
      /\ BucketCount(l) = BucketCount(t)
  BY LinkedFacts
<1>2. u = IF Overloaded(l) THEN Split(l) ELSE l
  BY DEF Inserted, CheckAndSplit
<1>3. Overloaded(l) <=> (t.numRecords + 1) * LoadDen > LoadNum * BucketCount(t)
  <2> HIDE DEF l
  <2> QED BY <1>1 DEF Overloaded
<1> HIDE DEF l
<1>4. /\ Sound(Split(l)) /\ \A e : InTable(Split(l), e) <=> InTable(l, e)
      /\ ChainsDistinct(l) => ChainsDistinct(Split(l))
      /\ Split(l).numRecords = l.numRecords
      /\ BucketCount(Split(l)) = BucketCount(l) + 1
  BY <1>1, SplitSound
<1> HIDE DEF u
<1>5. CASE Overloaded(l)
  BY <1>1, <1>2, <1>3, <1>4, <1>5 DEF u
<1>6. CASE ~ Overloaded(l)
  BY <1>1, <1>2, <1>3, <1>6 DEF u
<1> QED
  BY <1>5, <1>6

(* The loop of batchInsert is a run of inserts between sound tables.       *)
LEMMA BatchInsertedSteps ==
  ASSUME NEW t, Sound(t), NEW entries \in Seq(Entry)
  PROVE  \E done :
           /\ done[0] = t
           /\ \A i \in 1..Len(entries) :
                done[i] = Inserted(done[i - 1], entries[i].id, entries[i].worker)
           /\ \A i \in 0..Len(entries) : Sound(done[i])
           /\ BatchInserted(t, entries) = done[Len(entries)]
<1> DEFINE n == Len(entries)
           X == {u \in Table : Sound(u)}
           Step(f, i) == IF i = 0 THEN t
                         ELSE Inserted(f[i - 1], entries[i].id, entries[i].worker)
           g == [p \in (1..n) \X X |->
                   Inserted(p[2], entries[p[1]].id, entries[p[1]].worker)]
           done == CHOOSE f : f = [i \in 0..n |-> Step(f, i)]
<1>1. n \in Nat /\ t \in X
  BY DEF Sound
<1>2. \A i \in 1..n : entries[i].id \in Ids /\ entries[i].worker \in Workers
  <2>1. \A i \in 1..n : entries[i] \in Entry
    OBVIOUS
  <2> QED BY <2>1 DEF Entry
<1>3. BatchInserted(t, entries) = done[n]
  BY DEF BatchInserted
<1> HIDE DEF n
<1>4. \A u \in X : \A i \in 1..n : Inserted(u, entries[i].id, entries[i].worker) \in X
  <2> SUFFICES ASSUME NEW u \in X, NEW i \in 1..n
               PROVE  Inserted(u, entries[i].id, entries[i].worker) \in X
    OBVIOUS
  <2>1. Sound(Inserted(u, entries[i].id, entries[i].worker))
    BY <1>2, InsertedFacts
  <2> QED BY <2>1 DEF Sound
<1>5. \E f : f = [i \in 0..n |-> Step(f, i)]
  <2>1. g \in [(1..n) \X X -> X]
    <3> HIDE DEF X
    <3> QED BY <1>4
  <2>2. PICK f : SolvesRecursion(f, n, X, t, g)
    <3> HIDE DEF g, X
    <3> QED BY <1>1, <2>1, FiniteRecursion
  <2>3. ASSUME NEW i \in 0..n PROVE f[i] = Step(f, i)
    <3>1. CASE i = 0
      BY <2>2, <3>1 DEF SolvesRecursion
    <3>2. CASE i # 0
      <4>1. i \in 1..n /\ i - 1 \in 0..n
        BY <1>1, <3>2
      <4>2. f[i - 1] \in X /\ f[i] = g[<<i, f[i - 1]>>]
        <5> HIDE DEF X, g
        <5> QED BY <2>2, <4>1 DEF SolvesRecursion
      <4>3. g[<<i, f[i - 1]>>] = Inserted(f[i - 1], entries[i].id, entries[i].worker)
        <5> HIDE DEF X
        <5> QED BY <4>1, <4>2
      <4> QED BY <4>2, <4>3, <3>2
    <3> QED BY <3>1, <3>2
  <2>4. f = [i \in 0..n |-> Step(f, i)]
    <3> HIDE DEF Step
    <3> QED BY <2>2, <2>3 DEF SolvesRecursion
  <2> QED BY <2>4
<1>6. \A i \in 0..n : done[i] = Step(done, i)
  <2> HIDE DEF Step
  <2>1. done = [i \in 0..n |-> Step(done, i)]
    BY <1>5
  <2> HIDE DEF done
  <2> QED BY <2>1
<1> HIDE DEF done, X
<1> DEFINE T == {i \in 0..n : done[i] \notin X}
<1>7. T = {}
  <2>1. SUFFICES ASSUME T # {} PROVE FALSE
    OBVIOUS
  <2>2. PICK i \in T : \A j \in T : i <= j
    <3>1. T \subseteq Nat
      BY <1>1
    <3> HIDE DEF T
    <3> QED BY <2>1, <3>1, LeastNat
  <2>3. i \in 0..n /\ done[i] \notin X
    OBVIOUS
  <2>4. done[i] = Step(done, i)
    <3> HIDE DEF Step
    <3> QED BY <1>6, <2>3
  <2>5. i # 0
    BY <1>1, <2>3, <2>4
  <2>6. i \in 1..n /\ i - 1 \in 0..n /\ i - 1 \notin T
    <3> HIDE DEF T
    <3> QED BY <1>1, <2>2, <2>3, <2>5
  <2>7. done[i - 1] \in X
    BY <2>6
  <2>8. done[i] \in X
    <3>1. done[i] = Inserted(done[i - 1], entries[i].id, entries[i].worker)
      BY <2>4, <2>5
    <3> QED BY <1>4, <2>6, <2>7, <3>1
  <2> QED BY <2>3, <2>8
<1>8. \A i \in 0..n : Sound(done[i])
  BY <1>7 DEF X
<1>9. done[0] = t
  BY <1>1, <1>6
<1>10. ASSUME NEW i \in 1..n
       PROVE  done[i] = Inserted(done[i - 1], entries[i].id, entries[i].worker)
  <2>1. i \in 0..n /\ i # 0
    BY <1>1
  <2> QED BY <1>6, <2>1
<1> QED BY <1>3, <1>8, <1>9, <1>10 DEF n

(* A walk from the head stops at a position that holds the id.             *)
LEMMA FirstMatchFacts ==
  ASSUME NEW c \in Seq(Entry), NEW id, Matches(c, id) # {}
  PROVE  FirstMatch(c, id) \in 1..Len(c) /\ c[FirstMatch(c, id)].id = id
<1>1. Matches(c, id) \subseteq Nat /\ DOMAIN c = 1..Len(c)
  BY DEF Matches
<1>2. \E i \in Matches(c, id) : \A j \in Matches(c, id) : i <= j
  BY <1>1, LeastNat
<1>3. FirstMatch(c, id) \in Matches(c, id)
  BY <1>2 DEF FirstMatch
<1> QED BY <1>1, <1>3 DEF Matches

(* lookup returns nullptr exactly when no bucket of the table holds the    *)
(* id, and otherwise a worker stored under that id.                        *)
LEMMA LookupFacts ==
  ASSUME NEW t, Sound(t), NEW id \in Nat
  PROVE  /\ Lookup(t, id) = NoWorker <=> \A e : InTable(t, e) => e.id # id
         /\ Lookup(t, id) # NoWorker =>
              /\ Lookup(t, id) \in Workers
              /\ InTable(t, [id |-> id, worker |-> Lookup(t, id)])
<1> DEFINE k == BucketIndex(t, id) + 1
           c == t.buckets[k]
<1>1. t \in Table /\ HasGeometry(t) /\ WellPlaced(t) /\ id \in Nat
  BY LHAssumption DEF Sound
<1>2. k \in DOMAIN t.buckets /\ c \in Seq(Entry)
  BY <1>1, BucketInRange, TableFacts
<1>3. Lookup(t, id) = IF Matches(c, id) = {} THEN NoWorker ELSE c[FirstMatch(c, id)].worker
  BY DEF Lookup, Chain
<1>4. ASSUME NEW e, InTable(t, e), e.id = id PROVE Matches(c, id) # {}
  <2>1. PICK b \in DOMAIN t.buckets : Holds(t.buckets[b], e)
    BY <1>4 DEF InTable
  <2>2. b = k
    BY <1>1, <1>4, <2>1, TableFacts
  <2>3. Holds(c, e)
    BY <2>1, <2>2
  <2> QED BY <1>4, <2>3 DEF Holds, Matches
<1> HIDE DEF c, k
<1>5. ASSUME Matches(c, id) # {}
      PROVE  /\ Lookup(t, id) \in Workers
             /\ InTable(t, [id |-> id, worker |-> Lookup(t, id)])
  <2> DEFINE i == FirstMatch(c, id)
  <2>1. i \in 1..Len(c) /\ c[i].id = id
    BY <1>2, <1>5, FirstMatchFacts
  <2>2. c[i] \in Entry /\ i \in DOMAIN c
    BY <1>2, <2>1
  <2>3. c[i] = [id |-> id, worker |-> Lookup(t, id)] /\ Lookup(t, id) \in Workers
    BY <1>3, <1>5, <2>1, <2>2 DEF Entry
  <2>4. Holds(c, c[i])
    BY <2>2 DEF Holds
  <2> HIDE DEF i
  <2>5. InTable(t, c[i])
    BY <1>2, <2>4 DEF InTable, c
  <2> QED BY <2>3, <2>5
<1>6. NoWorker \notin Workers
  BY LHAssumption
<1>7. ASSUME Lookup(t, id) = NoWorker, NEW e, InTable(t, e) PROVE e.id # id
  BY <1>4, <1>5, <1>6, <1>7
<1>8. ASSUME \A e : InTable(t, e) => e.id # id PROVE Lookup(t, id) = NoWorker
  <2>1. CASE Matches(c, id) = {}
    BY <1>3, <2>1
  <2>2. CASE Matches(c, id) # {}
    <3> DEFINE e == [id |-> id, worker |-> Lookup(t, id)]
    <3>1. InTable(t, e) /\ e.id = id
      BY <1>5, <2>2
    <3> HIDE DEF e
    <3> QED BY <1>8, <3>1
  <2> QED BY <2>1, <2>2
<1>9. Lookup(t, id) # NoWorker => Matches(c, id) # {}
  BY <1>3
<1> QED BY <1>5, <1>7, <1>8, <1>9

(* Unlinking the entry at a position of a chain without shared workers     *)
(* takes that entry out and no other.                                      *)
LEMMA UnlinkedFacts ==
  ASSUME NEW c \in Seq(Entry), NEW i \in 1..Len(c), Distinct(c)
  PROVE  /\ Unlinked(c, i) \in Seq(Entry)
         /\ \A e : Holds(Unlinked(c, i), e) <=> (Holds(c, e) /\ e # c[i])
         /\ Distinct(Unlinked(c, i))
<1> DEFINE a == SubSeq(c, 1, i - 1)
           z == SubSeq(c, i + 1, Len(c))
           d == Unlinked(c, i)
           p(j) == IF j < i THEN j ELSE j + 1
<1>1. /\ Len(c) \in Nat /\ DOMAIN c = 1..Len(c)
      /\ a \in Seq(Entry) /\ z \in Seq(Entry)
      /\ Len(a) = i - 1 /\ Len(z) = Len(c) - i
      /\ \A j \in 1..(i - 1) : a[j] = c[j]
      /\ \A j \in 1..(Len(c) - i) : z[j] = c[j + i]
  OBVIOUS
<1>2. d = a \o z
  BY DEF Unlinked
<1> HIDE DEF a, z, d
<1>3. /\ d \in Seq(Entry) /\ DOMAIN d = 1..(Len(c) - 1)
      /\ \A j \in 1..(Len(c) - 1) : d[j] = IF j < i THEN a[j] ELSE z[j - (i - 1)]
  <2>1. Len(c) - 1 = (i - 1) + (Len(c) - i) /\ i - 1 \in Nat /\ Len(c) - i \in Nat
    BY <1>1
  <2>2. a \o z \in Seq(Entry) /\ Len(a \o z) = Len(c) - 1
    <3>1. a \o z \in Seq(Entry) /\ Len(a \o z) = Len(a) + Len(z)
      BY <1>1, ConcatProperties
    <3> QED BY <1>1, <2>1, <3>1
  <2>3. DOMAIN d = 1..(Len(c) - 1)
    BY <1>2, <2>2
  <2>4. \A j \in 1..(Len(c) - 1) : (a \o z)[j] = IF j <= i - 1 THEN a[j] ELSE z[j - (i - 1)]
    BY <1>1, <2>1
  <2>5. \A j \in 1..(Len(c) - 1) : j <= i - 1 <=> j < i
    BY <1>1
  <2> QED BY <1>2, <2>2, <2>3, <2>4, <2>5
<1>4. ASSUME NEW j \in DOMAIN d
      PROVE  p(j) \in DOMAIN c /\ p(j) # i /\ d[j] = c[p(j)]
  <2>1. j \in 1..(Len(c) - 1)
    BY <1>3
  <2>2. CASE j < i
    <3>1. j \in 1..(i - 1) /\ j \in 1..Len(c)
      BY <1>1, <2>1, <2>2
    <3>2. d[j] = c[j]
      BY <1>1, <1>3, <2>1, <2>2, <3>1
    <3> QED BY <1>1, <2>2, <3>1, <3>2
  <2>3. CASE ~ (j < i)
    <3>1. j - (i - 1) \in 1..(Len(c) - i) /\ (j - (i - 1)) + i = j + 1
      BY <1>1, <2>1, <2>3
    <3>2. d[j] = c[j + 1]
      BY <1>1, <1>3, <2>1, <2>3, <3>1
    <3> QED BY <1>1, <2>1, <2>3, <3>2
  <2> QED BY <2>2, <2>3
<1>5. \A m \in DOMAIN c : m # i => \E j \in DOMAIN d : p(j) = m
  <2> SUFFICES ASSUME NEW m \in DOMAIN c, m # i PROVE \E j \in DOMAIN d : p(j) = m
    OBVIOUS
  <2>1. CASE m < i
    <3>1. m \in DOMAIN d /\ p(m) = m
      BY <1>1, <1>3, <2>1
    <3> QED BY <3>1
  <2>2. CASE m > i
    <3>1. m - 1 \in DOMAIN d /\ p(m - 1) = m
      BY <1>1, <1>3, <2>2
    <3> QED BY <3>1
  <2> QED BY <1>1, <2>1, <2>2
<1>6. \A j, k \in DOMAIN d : p(j) = p(k) => j = k
  BY <1>1, <1>3
<1> HIDE DEF p
<1>7. ASSUME NEW e PROVE Holds(d, e) <=> (Holds(c, e) /\ e # c[i])
  <2>1. i \in DOMAIN c
    BY <1>1
  <2>2. \A m \in DOMAIN c : m # i => c[m] # c[i]
    BY <2>1 DEF Distinct
  <2> QED BY <1>4, <1>5, <2>1, <2>2 DEF Holds
<1>8. Distinct(d)
  BY <1>4, <1>6 DEF Distinct
<1> QED BY <1>3, <1>7, <1>8 DEF d

(* remove takes out one entry of its id, and nothing when there is none.   *)
LEMMA RemovedFacts ==
  ASSUME NEW t, Sound(t), ChainsDistinct(t), NEW id \in Ids
  PROVE  /\ (\A e : InTable(t, e) => e.id # id) => Removed(t, id) = t
         /\ (\E e : InTable(t, e) /\ e.id = id) =>
              /\ Sound(Removed(t, id)) /\ ChainsDistinct(Removed(t, id))
              /\ \E x : /\ InTable(t, x) /\ x.id = id
                        /\ \A e : InTable(Removed(t, id), e) <=> (InTable(t, e) /\ e # x)
              /\ Removed(t, id).numRecords = t.numRecords - 1
              /\ BucketCount(Removed(t, id)) = BucketCount(t)
<1> DEFINE k == BucketIndex(t, id) + 1
           c == t.buckets[k]
           i == FirstMatch(c, id)
           d == Unlinked(c, i)
           u == [t EXCEPT !.buckets[k] = d, !.numRecords = t.numRecords - 1]
<1>1. t \in Table /\ HasGeometry(t) /\ WellPlaced(t) /\ id \in Nat
  BY LHAssumption DEF Sound
<1>2. k \in DOMAIN t.buckets /\ c \in Seq(Entry)
  BY <1>1, BucketInRange, TableFacts
<1>3. Removed(t, id) = IF Matches(c, id) = {} THEN t ELSE u
  BY DEF Removed, Chain
<1>4. Matches(c, id) = {} <=> \A e : InTable(t, e) => e.id # id
  <2>1. ASSUME NEW e, InTable(t, e), e.id = id PROVE Matches(c, id) # {}
    <3>1. PICK b \in DOMAIN t.buckets : Holds(t.buckets[b], e)
      BY <2>1 DEF InTable
    <3>2. b = k
      BY <1>1, <2>1, <3>1, TableFacts
    <3> QED BY <2>1, <3>1, <3>2 DEF Holds, Matches
  <2>2. ASSUME NEW j \in Matches(c, id) PROVE InTable(t, c[j]) /\ c[j].id = id
    BY <1>2 DEF Matches, InTable, Holds
  <2> QED BY <2>1, <2>2
<1>5. ASSUME Matches(c, id) # {}
      PROVE  /\ Sound(u) /\ ChainsDistinct(u)
             /\ \E x : /\ InTable(t, x) /\ x.id = id
                       /\ \A e : InTable(u, e) <=> (InTable(t, e) /\ e # x)
             /\ u.numRecords = t.numRecords - 1
             /\ BucketCount(u) = BucketCount(t)
  <2> HIDE DEF c, k
  <2>1. i \in 1..Len(c) /\ c[i].id = id
    BY <1>2, <1>5, FirstMatchFacts
  <2> HIDE DEF i
  <2>2. /\ d \in Seq(Entry)
        /\ \A e : Holds(d, e) <=> (Holds(c, e) /\ e # c[i])
        /\ Distinct(d)
    <3>1. Distinct(c)
      BY <1>2 DEF ChainsDistinct, c
    <3> QED BY <1>2, <2>1, <3>1, UnlinkedFacts
  <2> HIDE DEF d
  <2>3. /\ [t.buckets EXCEPT ![k] = d] \in Seq(Seq(Entry))
        /\ t.numRecords - 1 \in Int
    BY <1>1, <1>2, <2>2, TableFacts
  <2>4. /\ u.buckets = [t.buckets EXCEPT ![k] = d]
        /\ u.level = t.level /\ u.next = t.next
        /\ u.numRecords = t.numRecords - 1
    BY <1>1 DEF Table
  <2>5. u \in Table
    <3> DEFINE B == Seq(Seq(Entry))
               n == t.numRecords - 1
    <3>1. n \in Int /\ [t.buckets EXCEPT ![k] = d] \in B
          /\ t \in [buckets : B, level : Nat, next : Nat, numRecords : Int]
      BY <1>1, <2>3 DEF Table
    <3> HIDE DEF B, n
    <3>2. [t EXCEPT !.buckets[k] = d, !.numRecords = n]
            \in [buckets : B, level : Nat, next : Nat, numRecords : Int]
      BY <3>1
    <3> QED BY <3>2 DEF B, n, Table
  <2> HIDE DEF u
  <2>6. /\ DOMAIN u.buckets = DOMAIN t.buckets /\ Len(u.buckets) = Len(t.buckets)
        /\ u.buckets[k] = d
        /\ \A b \in DOMAIN t.buckets : b # k => u.buckets[b] = t.buckets[b]
    BY <1>1, <1>2, <2>2, <2>4, TableFacts
  <2>7. HasGeometry(u) /\ BucketCount(u) = BucketCount(t)
    BY <1>1, <2>4, <2>6 DEF HasGeometry, BucketCount
  <2>8. ASSUME NEW b \in DOMAIN t.buckets, NEW e
        PROVE  Holds(u.buckets[b], e) <=> (Holds(t.buckets[b], e) /\ e # c[i])
    <3>1. CASE b = k
      BY <2>2, <2>6, <3>1 DEF c
    <3>2. CASE b # k
      <4>1. ~ Holds(t.buckets[b], c[i])
        <5>1. ASSUME Holds(t.buckets[b], c[i]) PROVE b = BucketIndex(t, id) + 1
          BY <1>1, <2>1, <5>1, TableFacts
        <5> QED BY <3>2, <5>1 DEF k
      <4> QED BY <2>6, <3>2, <4>1
    <3> QED BY <3>1, <3>2
  <2>9. WellPlaced(u)
    <3>1. ASSUME NEW b \in DOMAIN u.buckets, NEW e, Holds(u.buckets[b], e)
          PROVE  b = BucketIndex(u, e.id) + 1
      <4>1. b \in DOMAIN t.buckets /\ Holds(t.buckets[b], e)
        BY <2>6, <2>8, <3>1
      <4>2. b = BucketIndex(t, e.id) + 1
        BY <1>1, <4>1, TableFacts
      <4>3. BucketIndex(u, e.id) = BucketIndex(t, e.id)
        BY <2>4 DEF BucketIndex
      <4> QED BY <4>2, <4>3
    <3> QED BY <2>5, <3>1, TableFacts
  <2>10. ChainsDistinct(u)
    BY <2>2, <2>6 DEF ChainsDistinct
  <2>11. InTable(t, c[i])
    <3>1. i \in DOMAIN c
      BY <1>2, <2>1
    <3> QED BY <1>2, <3>1 DEF InTable, Holds, c
  <2>12. \A e : InTable(u, e) <=> (InTable(t, e) /\ e # c[i])
    BY <2>6, <2>8 DEF InTable
  <2> QED BY <2>1, <2>4, <2>5, <2>7, <2>9, <2>10, <2>11, <2>12 DEF Sound
<1> HIDE DEF u
<1> QED BY <1>3, <1>4, <1>5

-----------------------------------------------------------------------------
(* The inductive invariant *)

Contents(t) == {e \in Entry : InTable(t, e)}

\* No two entries own the same worker
Unshared(t) == \A e, f : InTable(t, e) /\ InTable(t, f) /\ e.worker = f.worker => e = f

Counted(t) == IsFiniteSet(Contents(t)) /\ t.numRecords = Cardinality(Contents(t))

MaxLoad == IF LoadNum > LoadDen THEN LoadNum ELSE LoadDen

LoadLimited(t) == t.numRecords * LoadDen <= MaxLoad * BucketCount(t)

Consistent(t) ==
  Sound(t) /\ ChainsDistinct(t) /\ Unshared(t) /\ Counted(t) /\ LoadLimited(t)

\* The numbers of a sound table
LEMMA ConsistentNumbers ==
  ASSUME NEW t, Sound(t)
  PROVE  /\ t.numRecords \in Int /\ BucketCount(t) \in Nat
         /\ MaxLoad \in Nat /\ LoadDen \in Nat \ {0} /\ LoadNum \in Nat
         /\ LoadNum <= MaxLoad /\ LoadDen <= MaxLoad
         /\ \A e : InTable(t, e) => e \in Entry
<1>1. t \in Table
  BY DEF Sound
<1>2. t.numRecords \in Int /\ BucketCount(t) \in Nat
  BY <1>1, TableFacts DEF BucketCount
<1>3. \A e : InTable(t, e) => e \in Entry
  BY <1>1, TableFacts DEF InTable
<1> QED BY <1>2, <1>3, LHAssumption DEF MaxLoad

(* The constructor makes a consistent table.                               *)
LEMMA NewTableConsistent == Consistent(NewTable)
<1>1. /\ Sound(NewTable) /\ ChainsDistinct(NewTable)
      /\ \A e : ~ InTable(NewTable, e)
  BY NewTableFacts
<1>2. NewTable.numRecords = 0
  BY DEF NewTable
<1> HIDE DEF NewTable
<1>3. Unshared(NewTable)
  BY <1>1 DEF Unshared
<1>4. Counted(NewTable)
  <2>1. Contents(NewTable) = {}
    BY <1>1 DEF Contents
  <2> QED BY <1>2, <2>1, FS_EmptySet DEF Counted
<1>5. LoadLimited(NewTable)
  BY <1>1, <1>2, ConsistentNumbers DEF LoadLimited
<1> QED BY <1>1, <1>3, <1>4, <1>5 DEF Consistent

(* insert keeps a table consistent when the caller's worker is new to it:  *)
(* one more record, and a split when they are too many for the buckets.    *)
LEMMA InsertedConsistent ==
  ASSUME NEW t, Consistent(t), NEW id \in Ids, NEW w \in Workers,
         \A e : InTable(t, e) => e.worker # w
  PROVE  Consistent(Inserted(t, id, w))
<1> DEFINE x == [id |-> id, worker |-> w]
           u == Inserted(t, id, w)
           n == t.numRecords
           c == BucketCount(t)
<1>1. /\ Sound(t) /\ ChainsDistinct(t) /\ Unshared(t) /\ Counted(t) /\ LoadLimited(t)
  BY DEF Consistent
<1>2. /\ Sound(u) /\ ChainsDistinct(u)
      /\ \A e : InTable(u, e) <=> (e = x \/ InTable(t, e))
      /\ u.numRecords = n + 1
      /\ BucketCount(u) = IF (n + 1) * LoadDen > LoadNum * c THEN c + 1 ELSE c
  BY <1>1, InsertedFacts
<1>3. x \in Entry /\ x.worker = w /\ ~ InTable(t, x)
  BY DEF Entry
<1> HIDE DEF x, u
<1>4. Unshared(u)
  BY <1>1, <1>2, <1>3 DEF Unshared
<1>5. Counted(u)
  <2>1. Contents(u) = Contents(t) \cup {x} /\ x \notin Contents(t)
    BY <1>2, <1>3 DEF Contents
  <2> QED BY <1>1, <1>2, <2>1, FS_AddElement DEF Counted
<1>6. LoadLimited(u)
  <2>1. /\ n \in Int /\ c \in Nat /\ MaxLoad \in Nat /\ LoadDen \in Nat \ {0}
        /\ LoadNum \in Nat /\ LoadNum <= MaxLoad /\ LoadDen <= MaxLoad
        /\ n * LoadDen <= MaxLoad * c
    BY <1>1, ConsistentNumbers DEF LoadLimited
  <2> HIDE DEF n, c
  <2>2. (n + 1) * LoadDen = n * LoadDen + LoadDen /\ MaxLoad * (c + 1) = MaxLoad * c + MaxLoad
    BY <2>1
  <2>3. LoadNum * c <= MaxLoad * c /\ n * LoadDen \in Int /\ MaxLoad * c \in Int
        /\ LoadNum * c \in Int
    BY <2>1
  <2>4. CASE (n + 1) * LoadDen > LoadNum * c
    BY <1>2, <2>1, <2>2, <2>3, <2>4 DEF LoadLimited
  <2>5. CASE ~ ((n + 1) * LoadDen > LoadNum * c)
    BY <1>2, <2>1, <2>2, <2>3, <2>5 DEF LoadLimited
  <2> QED BY <2>4, <2>5
<1> QED BY <1>2, <1>4, <1>5, <1>6 DEF Consistent, u

(* remove keeps a table consistent.                                        *)
LEMMA RemovedConsistent ==
  ASSUME NEW t, Consistent(t), NEW id \in Ids
  PROVE  Consistent(Removed(t, id))
<1> DEFINE u == Removed(t, id)
           n == t.numRecords
<1>1. /\ Sound(t) /\ ChainsDistinct(t) /\ Unshared(t) /\ Counted(t) /\ LoadLimited(t)
  BY DEF Consistent
<1>2. CASE \A e : InTable(t, e) => e.id # id
  BY <1>1, <1>2, RemovedFacts
<1>3. CASE \E e : InTable(t, e) /\ e.id = id
  <2>1. /\ Sound(u) /\ ChainsDistinct(u)
        /\ u.numRecords = n - 1 /\ BucketCount(u) = BucketCount(t)
    BY <1>1, <1>3, RemovedFacts
  <2>2. PICK x : /\ InTable(t, x)
                 /\ \A e : InTable(u, e) <=> (InTable(t, e) /\ e # x)
    BY <1>1, <1>3, RemovedFacts
  <2> HIDE DEF u
  <2>3. Unshared(u)
    BY <1>1, <2>2 DEF Unshared
  <2>4. Counted(u)
    <3>1. Contents(u) = Contents(t) \ {x} /\ x \in Contents(t)
      BY <1>1, <2>2, ConsistentNumbers DEF Contents
    <3> QED BY <1>1, <2>1, <3>1, FS_RemoveElement DEF Counted
  <2>5. LoadLimited(u)
    <3>1. /\ n \in Int /\ LoadDen \in Nat \ {0} /\ MaxLoad * BucketCount(t) \in Int
          /\ n * LoadDen <= MaxLoad * BucketCount(t)
      BY <1>1, ConsistentNumbers DEF LoadLimited
    <3>2. (n - 1) * LoadDen = n * LoadDen - LoadDen /\ n * LoadDen \in Int
      <4> HIDE DEF n
      <4> QED BY <3>1
    <3> QED BY <2>1, <3>1, <3>2 DEF LoadLimited
  <2> QED BY <2>1, <2>3, <2>4, <2>5 DEF Consistent, u
<1> QED BY <1>2, <1>3

(* batchInsert of new and different workers keeps a table consistent, adds *)
(* the entries of the batch, and adds nothing else.                        *)
LEMMA BatchInsertedFacts ==
  ASSUME NEW t, Consistent(t), NEW entries \in Seq(Entry),
         \A i \in DOMAIN entries : \A e : InTable(t, e) => e.worker # entries[i].worker,
         \A i, j \in DOMAIN entries : i # j => entries[i].worker # entries[j].worker
  PROVE  /\ Consistent(BatchInserted(t, entries))
         /\ \A e : InTable(BatchInserted(t, entries), e)
                     <=> (InTable(t, e) \/ \E i \in DOMAIN entries : entries[i] = e)
<1> DEFINE n == Len(entries)
<1>1. n \in Nat /\ DOMAIN entries = 1..n /\ \A i \in 1..n : entries[i] \in Entry
  OBVIOUS
<1>2. Sound(t)
  BY DEF Consistent
<1>3. PICK done :
        /\ done[0] = t
        /\ \A i \in 1..n : done[i] = Inserted(done[i - 1], entries[i].id, entries[i].worker)
        /\ BatchInserted(t, entries) = done[n]
  BY <1>2, BatchInsertedSteps
<1> HIDE DEF n
<1> DEFINE Reached(i, e) == InTable(t, e) \/ \E j \in 1..i : entries[j] = e
           Good(i) == Consistent(done[i]) /\ \A e : InTable(done[i], e) <=> Reached(i, e)
           T == {i \in 0..n : ~ Good(i)}
<1>4. Good(0)
  BY <1>3
<1>5. ASSUME NEW i \in 1..n, Good(i - 1) PROVE Good(i)
  <2> DEFINE x == entries[i]
  <2>1. x \in Entry /\ x.id \in Ids /\ x.worker \in Workers /\ i \in DOMAIN entries
    BY <1>1 DEF Entry
  <2>2. x = [id |-> x.id, worker |-> x.worker]
    BY <2>1 DEF Entry
  <2>3. ASSUME NEW e, InTable(done[i - 1], e) PROVE e.worker # x.worker
    <3>1. CASE InTable(t, e)
      BY <2>1, <3>1
    <3>2. CASE \E j \in 1..(i - 1) : entries[j] = e
      <4>1. PICK j \in 1..(i - 1) : entries[j] = e
        BY <3>2
      <4>2. j \in DOMAIN entries /\ j # i
        BY <1>1, <4>1
      <4> QED BY <2>1, <4>1, <4>2
    <3> QED BY <1>5, <2>3, <3>1, <3>2
  <2>4. done[i] = Inserted(done[i - 1], x.id, x.worker)
    BY <1>3
  <2> HIDE DEF x
  <2>5. Consistent(done[i])
    BY <1>5, <2>1, <2>3, <2>4, InsertedConsistent
  <2>6. \A e : InTable(done[i], e) <=> (e = x \/ InTable(done[i - 1], e))
    <3>1. Sound(done[i - 1])
      BY <1>5 DEF Consistent
    <3> QED BY <2>1, <2>2, <2>4, <3>1, InsertedFacts
  <2>7. ASSUME NEW e PROVE Reached(i, e) <=> (e = x \/ Reached(i - 1, e))
    <3>1. \A j : j \in 1..i <=> (j = i \/ j \in 1..(i - 1))
      BY <1>1
    <3> QED BY <3>1 DEF x
  <2> HIDE DEF Reached
  <2> QED BY <1>5, <2>5, <2>6, <2>7
<1> HIDE DEF Good
<1>6. T = {}
  <2>1. SUFFICES ASSUME T # {} PROVE FALSE
    OBVIOUS
  <2>2. PICK i \in T : \A j \in T : i <= j
    <3>1. T \subseteq Nat
      BY <1>1
    <3> HIDE DEF T
    <3> QED BY <2>1, <3>1, LeastNat
  <2>3. i # 0 /\ i \in 1..n /\ i - 1 \in 0..n /\ i - 1 \notin T
    BY <1>1, <1>4, <2>2
  <2> QED BY <1>5, <2>2, <2>3
<1>7. Good(n)
  BY <1>1, <1>6
<1> QED BY <1>1, <1>3, <1>7 DEF Good

-----------------------------------------------------------------------------
(* The specification *)

Inv == Consistent(lh)

(* What the slots of a table say of its entries.                           *)
LEMMA SlotFacts ==
  ASSUME NEW t
  PROVE  /\ \A s : s \in Slots(t) <=>
              \E b \in DOMAIN t.buckets : \E i \in DOMAIN t.buckets[b] : s = <<b, i>>
         /\ \A e : InTable(t, e) <=> \E s \in Slots(t) : EntryAt(t, s) = e
         /\ \A w : w \in Owned(t) <=> \E e : InTable(t, e) /\ e.worker = w
         /\ \A id, w : w \in StoredUnder(t, id) <=>
              \E e : InTable(t, e) /\ e.id = id /\ e.worker = w
<1>1. \A s : s \in Slots(t) <=>
        \E b \in DOMAIN t.buckets : \E i \in DOMAIN t.buckets[b] : s = <<b, i>>
  BY DEF Slots
<1>2. \A b \in DOMAIN t.buckets : \A i \in DOMAIN t.buckets[b] :
        EntryAt(t, <<b, i>>) = t.buckets[b][i]
  BY DEF EntryAt
<1>3. ASSUME NEW e PROVE InTable(t, e) <=> \E s \in Slots(t) : EntryAt(t, s) = e
  <2>1. InTable(t, e) <=> \E b \in DOMAIN t.buckets : \E i \in DOMAIN t.buckets[b] :
                            EntryAt(t, <<b, i>>) = e
    BY <1>2 DEF InTable, Holds
  <2>2. ASSUME NEW b \in DOMAIN t.buckets, NEW i \in DOMAIN t.buckets[b]
        PROVE  <<b, i>> \in Slots(t)
    BY <1>1
  <2>3. ASSUME NEW s \in Slots(t), EntryAt(t, s) = e
        PROVE  \E b \in DOMAIN t.buckets : \E i \in DOMAIN t.buckets[b] : EntryAt(t, <<b, i>>) = e
    BY <1>1, <2>3
  <2> QED BY <2>1, <2>2, <2>3
<1>4. \A w : w \in Owned(t) <=> \E e : InTable(t, e) /\ e.worker = w
  BY <1>3 DEF Owned
<1>5. \A id, w : w \in StoredUnder(t, id) <=>
        \E e : InTable(t, e) /\ e.id = id /\ e.worker = w
  BY <1>3 DEF StoredUnder
<1> QED BY <1>1, <1>3, <1>4, <1>5

(* The table is consistent in every state of every execution, for every    *)
(* initial size, load factor, id, worker and length of a batch.            *)
THEOREM Correct == Spec => []Inv
<1>1. Init => Inv
  BY NewTableConsistent DEF Init, Inv
<1>2. Inv /\ [Next]_lh => Inv'
  <2> SUFFICES ASSUME Consistent(lh), [Next]_lh PROVE Consistent(lh')
    BY DEF Inv, Consistent, Sound, ChainsDistinct, Unshared, Counted, LoadLimited
  <2>1. ASSUME NEW id \in Ids, NEW w \in Workers, Insert(id, w) PROVE Consistent(lh')
    <3>1. \A e : InTable(lh, e) => e.worker # w
      BY <2>1, SlotFacts DEF Insert
    <3> QED BY <2>1, <3>1, InsertedConsistent DEF Insert
  <2>2. ASSUME NEW entries \in Batches, BatchInsert(entries) PROVE Consistent(lh')
    <3>1. entries \in Seq(Entry)
      BY <2>2, LHAssumption DEF Batches
    <3>2. \A i \in DOMAIN entries : \A e : InTable(lh, e) => e.worker # entries[i].worker
      BY <2>2, SlotFacts DEF BatchInsert
    <3> QED BY <2>2, <3>1, <3>2, BatchInsertedFacts DEF BatchInsert
  <2>3. ASSUME NEW id \in Ids, Remove(id) PROVE Consistent(lh')
    BY <2>3, RemovedConsistent DEF Remove
  <2>4. CASE UNCHANGED lh
    BY <2>4
  <2> QED BY <2>1, <2>2, <2>3, <2>4 DEF Next
<1> QED BY <1>1, <1>2, PTL DEF Spec

(* Its parts, as the runs of LinearHashing check them: the types ...       *)
THEOREM TypeCorrect == Spec => []TypeOK
BY Correct, PTL DEF Inv, Consistent, Sound, TypeOK

(* ... the agreement of split pointer, level and number of buckets ...     *)
THEOREM GeometryCorrect == Spec => []Geometry
BY Correct, PTL DEF Inv, Consistent, Sound, Geometry

(* ... the place of each entry ...                                         *)
THEOREM PlacementCorrect == Spec => []Placement
BY Correct, PTL DEF Inv, Consistent, Sound, Placement

(* ... and the load factor, which one split per insert keeps at most at    *)
(* the greater of maxLoad and 1.                                           *)
THEOREM LoadCorrect == Spec => []LoadBounded
<1>1. Inv => LoadBounded
  BY DEF Inv, Consistent, LoadLimited, MaxLoad, LoadBounded
<1> QED BY <1>1, Correct, PTL

(* numRecords is the number of entries in the chains, and of the workers   *)
(* they own: remove never takes it below zero and no worker would be       *)
(* deleted twice.                                                          *)
THEOREM RecordsCorrect == Spec => []RecordsCounted
<1>1. Inv => RecordsCounted
  <2> SUFFICES ASSUME Consistent(lh) PROVE RecordsCounted
    BY DEF Inv
  <2> DEFINE S == Slots(lh)
             C == Contents(lh)
             W == {EntryAt(lh, s).worker : s \in S}
  <2>1. Sound(lh) /\ ChainsDistinct(lh) /\ Unshared(lh) /\ Counted(lh)
    BY DEF Consistent
  <2>2. \A e : e \in C <=> \E s \in S : EntryAt(lh, s) = e
    BY <2>1, SlotFacts, ConsistentNumbers DEF Contents
  <2>3. \A e : e \in C => InTable(lh, e)
    BY DEF Contents
  <2>4. ASSUME NEW r \in S, NEW s \in S, EntryAt(lh, r) = EntryAt(lh, s) PROVE r = s
    <3>1. PICK b \in DOMAIN lh.buckets : \E k \in DOMAIN lh.buckets[b] : r = <<b, k>>
      BY SlotFacts
    <3>i. PICK i \in DOMAIN lh.buckets[b] : r = <<b, i>>
      BY <3>1
    <3>2. PICK c \in DOMAIN lh.buckets : \E k \in DOMAIN lh.buckets[c] : s = <<c, k>>
      BY SlotFacts
    <3>j. PICK j \in DOMAIN lh.buckets[c] : s = <<c, j>>
      BY <3>2
    <3>3. lh.buckets[b][i] = lh.buckets[c][j]
      BY <2>4, <3>i, <3>j DEF EntryAt
    <3>4. b = BucketIndex(lh, lh.buckets[b][i].id) + 1 /\ c = BucketIndex(lh, lh.buckets[c][j].id) + 1
      BY <2>1 DEF Sound, WellPlaced
    <3>5. b = c
      BY <3>3, <3>4
    <3>6. i = j
      BY <2>1, <3>3, <3>5 DEF ChainsDistinct, Distinct
    <3> QED BY <3>i, <3>j, <3>5, <3>6
  <2>5. W = {e.worker : e \in C}
    BY <2>2
  <2> HIDE DEF S, C, W
  <2>6. Cardinality(S) = Cardinality(C)
    <3> DEFINE f == [s \in S |-> EntryAt(lh, s)]
    <3>1. f \in [S -> C]
      BY <2>2
    <3>2. \A r, s \in S : f[r] = f[s] => r = s
      BY <2>4
    <3>3. \A e \in C : \E s \in S : f[s] = e
      BY <2>2
    <3> HIDE DEF f
    <3>4. f \in Bijection(S, C)
      BY <3>1, <3>2, <3>3, Fun_IsBij
    <3>5. ExistsBijection(C, S)
      BY <3>4, Fun_ExistsBij, Fun_ExistsBijSymmetric
    <3> QED BY <2>1, <3>5, FS_Bijection DEF Counted, C
  <2>7. Cardinality(W) = Cardinality(C)
    <3> DEFINE f == [e \in C |-> e.worker]
    <3>1. f \in [C -> W]
      BY <2>5
    <3>2. \A d, e \in C : f[d] = f[e] => d = e
      BY <2>1, <2>3 DEF Unshared
    <3>3. \A w \in W : \E e \in C : f[e] = w
      BY <2>5
    <3> HIDE DEF f
    <3>4. f \in Bijection(C, W)
      BY <3>1, <3>2, <3>3, Fun_IsBij
    <3>5. ExistsBijection(C, W)
      BY <3>4, Fun_ExistsBij
    <3> QED BY <2>1, <3>5, FS_Bijection DEF Counted, C
  <2>8. lh.numRecords = Cardinality(C)
    BY <2>1 DEF Counted, C
  <2> QED BY <2>6, <2>7, <2>8 DEF RecordsCounted, S, W
<1> QED BY <1>1, Correct, PTL

(* No entry is ever unreachable: lookup finds a worker of an id if and     *)
(* only if some bucket of the table holds one (LookupFindsStored).         *)
THEOREM LookupCorrect == Spec => []LookupFindsStored
<1>1. Inv => LookupFindsStored
  <2> SUFFICES ASSUME Inv, NEW id \in Ids
               PROVE  IF StoredUnder(lh, id) = {} THEN Lookup(lh, id) = NoWorker
                      ELSE Lookup(lh, id) \in StoredUnder(lh, id)
    BY DEF LookupFindsStored
  <2>1. Sound(lh)
    BY DEF Inv, Consistent
  <2>2. \A w : w \in StoredUnder(lh, id) <=> \E e : InTable(lh, e) /\ e.id = id /\ e.worker = w
    <3>1. \A i, w : w \in StoredUnder(lh, i) <=> \E e : InTable(lh, e) /\ e.id = i /\ e.worker = w
      BY SlotFacts
    <3> QED BY <3>1
  <2>3. CASE Lookup(lh, id) = NoWorker
    <3>1. \A e : InTable(lh, e) => e.id # id
      BY <2>1, <2>3, LookupFacts, LHAssumption
    <3>2. StoredUnder(lh, id) = {}
      BY <2>2, <3>1
    <3> QED BY <2>3, <3>2
  <2>4. CASE Lookup(lh, id) # NoWorker
    <3> DEFINE e == [id |-> id, worker |-> Lookup(lh, id)]
    <3>1. InTable(lh, e)
      BY <2>1, <2>4, LookupFacts, LHAssumption
    <3>2. e.id = id /\ e.worker = Lookup(lh, id)
      OBVIOUS
    <3> HIDE DEF e
    <3> QED BY <2>2, <3>1, <3>2
  <2> QED BY <2>3, <2>4
<1> QED BY <1>1, Correct, PTL

-----------------------------------------------------------------------------
(* The refinement of WorkerTable *)

View(t) == [id \in Ids |-> StoredUnder(t, id)]

\* What a table holds under a number
LEMMA ViewFacts ==
  ASSUME NEW t, Sound(t), NEW id \in Ids
  PROVE  /\ \A w : w \in View(t)[id] <=> InTable(t, [id |-> id, worker |-> w])
         /\ View(t)[id] \subseteq Workers
<1>1. ASSUME NEW e, InTable(t, e)
      PROVE  e = [id |-> e.id, worker |-> e.worker] /\ e.worker \in Workers
  <2>1. e \in Entry
    BY <1>1, ConsistentNumbers
  <2> QED BY <2>1 DEF Entry
<1>2. \A i, w : w \in StoredUnder(t, i) <=> \E e : InTable(t, e) /\ e.id = i /\ e.worker = w
  BY SlotFacts
<1>3. View(t)[id] = StoredUnder(t, id)
  BY DEF View
<1>4. ASSUME NEW w, w \in StoredUnder(t, id) PROVE InTable(t, [id |-> id, worker |-> w]) /\ w \in Workers
  BY <1>1, <1>2, <1>4
<1>5. ASSUME NEW w, InTable(t, [id |-> id, worker |-> w]) PROVE w \in StoredUnder(t, id)
  <2> DEFINE x == [id |-> id, worker |-> w]
  <2>1. InTable(t, x) /\ x.id = id /\ x.worker = w
    BY <1>5
  <2> HIDE DEF x
  <2> QED BY <1>2, <2>1
<1> QED BY <1>3, <1>4, <1>5

(* A worker is free in the abstract table if no entry owns it.             *)
LEMMA FreeFacts ==
  ASSUME NEW t, Sound(t), NEW w \in Workers
  PROVE  w \notin UNION {View(t)[id] : id \in Ids} <=> \A e : InTable(t, e) => e.worker # w
<1>1. ASSUME NEW e, InTable(t, e), e.worker = w PROVE \E id \in Ids : w \in View(t)[id]
  <2>1. e \in Entry
    BY <1>1, ConsistentNumbers
  <2>2. e.id \in Ids /\ e = [id |-> e.id, worker |-> w]
    BY <1>1, <2>1 DEF Entry
  <2> QED BY <1>1, <2>2, ViewFacts
<1>2. ASSUME NEW id \in Ids, w \in View(t)[id] PROVE \E e : InTable(t, e) /\ e.worker = w
  <2>1. InTable(t, [id |-> id, worker |-> w])
    BY <1>2, ViewFacts
  <2> QED BY <2>1
<1> QED BY <1>1, <1>2

(* Every operation of the hash table is one of the abstract table, with    *)
(* the splits invisible and the batch a single step; remove takes out the  *)
(* one worker that the walk along the chain comes to first.                *)
THEOREM RefinesWorkerTable == Spec => ImplementsWorkerTable
<1> USE DEF View
<1>1. Init => WT!Init
  <2> SUFFICES ASSUME lh = NewTable, NEW id \in Ids PROVE View(NewTable)[id] = {}
    BY DEF Init, WT!Init
  <2> HIDE DEF View
  <2> QED BY NewTableFacts, ViewFacts
<1>2. Inv /\ [Next]_lh => [WT!Next]_(View(lh))
  <2> SUFFICES ASSUME Consistent(lh), [Next]_lh PROVE WT!Next \/ View(lh') = View(lh)
    BY DEF Inv
  <2> HIDE DEF View
  <2>s. Sound(lh) /\ ChainsDistinct(lh)
    BY DEF Consistent
  <2>f. \A w \in Workers : w \in WT!Free <=> \A e : InTable(lh, e) => e.worker # w
    BY <2>s, FreeFacts DEF WT!Free, View
  <2>1. ASSUME NEW id \in Ids, NEW w \in Workers, Insert(id, w) PROVE WT!Insert(id, w)
    <3>1. /\ \A e : InTable(lh, e) => e.worker # w
          /\ lh' = Inserted(lh, id, w)
      BY <2>1, SlotFacts DEF Insert
    <3>2. /\ Sound(lh')
          /\ \A e : InTable(lh', e) <=> (e = [id |-> id, worker |-> w] \/ InTable(lh, e))
      BY <2>s, <3>1, InsertedFacts
    <3>3. ASSUME NEW j \in Ids
          PROVE  View(lh')[j] = IF j = id THEN View(lh)[j] \cup {w} ELSE View(lh)[j]
      <4>1. \A v : [id |-> j, worker |-> v] = [id |-> id, worker |-> w] <=> (j = id /\ v = w)
        OBVIOUS
      <4>2. \A v : v \in View(lh')[j] <=> InTable(lh', [id |-> j, worker |-> v])
        BY <3>2, ViewFacts
      <4>3. \A v : v \in View(lh)[j] <=> InTable(lh, [id |-> j, worker |-> v])
        BY <2>s, ViewFacts
      <4> QED BY <3>2, <4>1, <4>2, <4>3
    <3>4. View(lh') = [View(lh) EXCEPT ![id] = @ \cup {w}]
      BY <3>3 DEF View
    <3>5. w \in WT!Free
      BY <2>f, <3>1
    <3> QED BY <3>4, <3>5 DEF WT!Insert, View
  <2>2. ASSUME NEW entries \in Batches, BatchInsert(entries)
        PROVE  \E n \in 0..MaxBatch : \E es \in [1..n -> [id : Ids, worker : WT!Free]] : WT!BatchInsert(es)
    <3>1. PICK n \in 0..MaxBatch : entries \in [1..n -> Entry]
      BY DEF Batches
    <3>2. n \in Nat /\ DOMAIN entries = 1..n /\ entries \in Seq(Entry)
      BY <3>1, LHAssumption
    <3>3. \A i \in DOMAIN entries : \A e : InTable(lh, e) => e.worker # entries[i].worker
      BY <2>2, SlotFacts DEF BatchInsert
    <3>4. \A i, j \in DOMAIN entries : i # j => entries[i].worker # entries[j].worker
      BY <2>2 DEF BatchInsert
    <3>5. /\ Consistent(lh')
          /\ \A e : InTable(lh', e) <=> (InTable(lh, e) \/ \E i \in DOMAIN entries : entries[i] = e)
      BY <2>2, <3>2, <3>3, <3>4, BatchInsertedFacts DEF BatchInsert
    <3>6. \A i \in 1..n : entries[i] \in [id : Ids, worker : WT!Free]
      <4> SUFFICES ASSUME NEW i \in 1..n PROVE entries[i] \in [id : Ids, worker : WT!Free]
        OBVIOUS
      <4>1. entries[i] \in Entry
        BY <3>1
      <4>2. entries[i].worker \in WT!Free
        BY <2>f, <3>2, <3>3, <4>1 DEF Entry
      <4> QED BY <4>1, <4>2 DEF Entry
    <3>7. entries \in [1..n -> [id : Ids, worker : WT!Free]]
      BY <3>1, <3>6
    <3>8. ASSUME NEW id \in Ids
          PROVE  View(lh')[id] = View(lh)[id] \cup
                   {entries[i].worker : i \in {j \in DOMAIN entries : entries[j].id = id}}
      <4>1. \A v : v \in View(lh')[id] <=> InTable(lh', [id |-> id, worker |-> v])
        BY <3>5, ViewFacts DEF Consistent
      <4>2. \A v : v \in View(lh)[id] <=> InTable(lh, [id |-> id, worker |-> v])
        BY <2>s, ViewFacts
      <4>3. \A i \in DOMAIN entries : \A v :
              entries[i] = [id |-> id, worker |-> v] <=> (entries[i].id = id /\ entries[i].worker = v)
        <5> SUFFICES ASSUME NEW i \in DOMAIN entries, NEW v
                     PROVE  entries[i] = [id |-> id, worker |-> v]
                              <=> (entries[i].id = id /\ entries[i].worker = v)
          OBVIOUS
        <5>1. entries[i] \in Entry
          BY <3>1, <3>2
        <5> QED BY <5>1 DEF Entry
      <4>4. ASSUME NEW v
            PROVE  v \in View(lh')[id] <=>
                     \/ v \in View(lh)[id]
                     \/ \E i \in DOMAIN entries : entries[i].id = id /\ entries[i].worker = v
        <5> DEFINE x == [id |-> id, worker |-> v]
        <5>1. \A i \in DOMAIN entries :
                entries[i] = x <=> (entries[i].id = id /\ entries[i].worker = v)
          BY <4>3
        <5>2. (v \in View(lh')[id] <=> InTable(lh', x)) /\ (v \in View(lh)[id] <=> InTable(lh, x))
          BY <4>1, <4>2
        <5> HIDE DEF x
        <5> QED BY <3>5, <5>1, <5>2
      <4> QED BY <4>4
    <3>9. View(lh') = [id \in Ids |-> View(lh)[id] \cup
                         {entries[i].worker : i \in {j \in DOMAIN entries : entries[j].id = id}}]
      BY <3>8 DEF View
    <3>10. WT!BatchInsert(entries)
      BY <3>4, <3>9 DEF WT!BatchInsert, View
    <3> QED BY <3>7, <3>10
  <2>3. ASSUME NEW id \in Ids, Remove(id) PROVE WT!Remove(id)
    <3>1. lh' = Removed(lh, id)
      BY <2>3 DEF Remove
    <3>2. \A v : v \in View(lh)[id] <=> InTable(lh, [id |-> id, worker |-> v])
      BY <2>s, ViewFacts
    <3>3. CASE \A e : InTable(lh, e) => e.id # id
      <4>1. lh' = lh
        BY <2>s, <3>1, <3>3, RemovedFacts
      <4>2. ASSUME NEW v, v \in View(lh)[id] PROVE FALSE
        <5> DEFINE x == [id |-> id, worker |-> v]
        <5>1. InTable(lh, x) /\ x.id = id
          BY <3>2, <4>2
        <5> HIDE DEF x
        <5> QED BY <3>3, <5>1
      <4> QED BY <4>1, <4>2 DEF WT!Remove, View
    <3>4. CASE \E e : InTable(lh, e) /\ e.id = id
      <4>1. Sound(lh')
        BY <2>s, <3>1, <3>4, RemovedFacts
      <4>2. PICK x : /\ InTable(lh, x) /\ x.id = id
                     /\ \A e : InTable(lh', e) <=> (InTable(lh, e) /\ e # x)
        BY <2>s, <3>1, <3>4, RemovedFacts
      <4>3. x \in Entry
        BY <2>s, <4>2, ConsistentNumbers
      <4>4. x = [id |-> id, worker |-> x.worker]
        BY <4>2, <4>3 DEF Entry
      <4>5. x.worker \in View(lh)[id]
        BY <3>2, <4>2, <4>4
      <4>6. ASSUME NEW j \in Ids
            PROVE  View(lh')[j] = IF j = id THEN View(lh)[j] \ {x.worker} ELSE View(lh)[j]
        <5>1. \A v : [id |-> j, worker |-> v] = x <=> (j = id /\ v = x.worker)
          BY <4>4
        <5>2. \A v : v \in View(lh')[j] <=> InTable(lh', [id |-> j, worker |-> v])
          BY <4>1, ViewFacts
        <5>3. \A v : v \in View(lh)[j] <=> InTable(lh, [id |-> j, worker |-> v])
          BY <2>s, ViewFacts
        <5> QED BY <4>2, <5>1, <5>2, <5>3
      <4>7. View(lh') = [View(lh) EXCEPT ![id] = @ \ {x.worker}]
        BY <4>6 DEF View
      <4> QED BY <4>5, <4>7 DEF WT!Remove, View
    <3> QED BY <3>3, <3>4
  <2>4. CASE UNCHANGED lh
    BY <2>4
  <2> QED BY <2>1, <2>2, <2>3, <2>4 DEF Next, WT!Next
<1> QED BY <1>1, <1>2, Correct, PTL DEF Spec, ImplementsWorkerTable, WT!Spec

=============================================================================

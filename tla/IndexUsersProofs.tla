-------------------------- MODULE IndexUsersProofs --------------------------
(***************************************************************************)
(* Proofs about the two users of RangeLH.                                  *)
(*                                                                         *)
(* Storage, for every set of keys and number of records: the index points  *)
(* at the newest record of each live key, and the aggregates are those of  *)
(* the live records, in doubles of any precision.                          *)
(*                                                                         *)
(* TypedIndex: the conversions keep the order of each type and mix up only *)
(* keys that are alike, for strings of any length and any number of bytes  *)
(* read, and so lookups, ranges and patterns return the records of the     *)
(* right keys.                                                             *)
(***************************************************************************)
EXTENDS Storage, TypedIndex, RangeLHProofs, FiniteSetTheorems

-----------------------------------------------------------------------------
(* Storage: steps *)

\* What a step does to the pool and the index: it writes the newest record to
\* the worker of its key or links one for it, or it deletes the data of a worker.
LEMMA StorageSteps ==
  ASSUME Inv, pool \in Seq(Keys), [StorageNext]_storageVars
  PROVE  \/ pool' = pool /\ StillStep
         \/ pool' = pool /\ \E a \in DOMAIN heap : WriteStep(a, Null)
         \/ \E k \in Keys :
              /\ Len(pool) + 1 \in Values /\ pool' = Append(pool, k)
              /\ \/ \E a \in DOMAIN heap : heap[a].id = k /\ WriteStep(a, Len(pool) + 1)
                 \/ LinkStep(k, Len(pool) + 1)
<1> DEFINE n == Len(pool) + 1
           Goal ==
             \/ pool' = pool /\ StillStep
             \/ pool' = pool /\ \E a \in DOMAIN heap : WriteStep(a, Null)
             \/ \E k \in Keys :
                  /\ n \in Values /\ pool' = Append(pool, k)
                  /\ \/ \E a \in DOMAIN heap : heap[a].id = k /\ WriteStep(a, n)
                     \/ LinkStep(k, n)
<1>1. CASE UNCHANGED storageVars
  BY <1>1 DEF storageVars, vars, StillStep, Inv, Formed
<1>2. ASSUME NEW k \in Keys, InsertRecord(k), n \in Values PROVE Goal
  <2>1. pool' = Append(pool, k) /\ Insert(k, n)
    BY <1>2 DEF InsertRecord
  <2>2. Find(k) # Null => Find(k) \in DOMAIN heap /\ heap[Find(k)].id = k
    BY FindFacts
  <2> HIDE DEF n
  <2> QED BY <1>2, <2>1, <2>2, InsertSteps
<1>3. ASSUME NEW k \in Keys, RemoveRecord(k) PROVE Goal
  <2>1. pool' = pool /\ Remove(k)
    BY <1>3 DEF RemoveRecord
  <2>2. Find(k) # Null => Find(k) \in DOMAIN heap
    BY FindFacts
  <2> QED BY <2>1, <2>2, RemoveSteps
<1>4. ASSUME NEW k \in Keys, InsertRecord(k) PROVE n \in Values
  <2>1. Len(pool) < MaxRecords /\ Len(pool) \in Nat
    BY <1>4 DEF InsertRecord
  <2> QED BY <2>1, StorageAssumption
<1> QED BY <1>1, <1>2, <1>3, <1>4 DEF StorageNext

(* Behind a storage runs the specification of its index: what is proved of *)
(* RangeLH holds of it.                                                    *)
LEMMA PoolTyped == StorageSpec => [](pool \in Seq(Keys))
<1>1. StorageInit => pool \in Seq(Keys)
  BY DEF StorageInit
<1>2. pool \in Seq(Keys) /\ [StorageNext]_storageVars => (pool \in Seq(Keys))'
  BY DEF StorageNext, InsertRecord, RemoveRecord, storageVars
<1> QED BY <1>1, <1>2, PTL DEF StorageSpec

\* The index of a storage behaves as RangeLH specifies.
LEMMA StorageIsIndexed == StorageSpec => Spec
<1>1. StorageInit => Init
  BY DEF StorageInit
<1>2. pool \in Seq(Keys) /\ [StorageNext]_storageVars => [Next]_vars
  <2> SUFFICES ASSUME pool \in Seq(Keys), [StorageNext]_storageVars PROVE [Next]_vars
    OBVIOUS
  <2>1. CASE UNCHANGED storageVars
    BY <2>1 DEF storageVars
  <2>2. ASSUME NEW k \in Keys, InsertRecord(k) PROVE Next
    <3>1. Len(pool) + 1 \in Values
      BY <2>2, StorageAssumption DEF InsertRecord
    <3> QED BY <2>2, <3>1 DEF InsertRecord, Next
  <2>3. ASSUME NEW k \in Keys, RemoveRecord(k) PROVE Next
    BY <2>3 DEF RemoveRecord, Next
  <2> QED BY <2>1, <2>2, <2>3 DEF StorageNext
<1> QED BY <1>1, <1>2, PoolTyped, PTL DEF StorageSpec, Spec

-----------------------------------------------------------------------------
(* The pool and the index *)

\* The record a worker holds is the newest one of its key.
Newest(h, p) ==
  \A a \in DOMAIN h : h[a].data # Null =>
    /\ h[a].data \in DOMAIN p /\ p[h[a].data] = h[a].id
    /\ \A j \in DOMAIN p : h[a].data < j => p[j] # h[a].id

Pooled == pool \in Seq(Keys) /\ Newest(heap, pool)

\* A record added to the pool is newer than those of other keys, and has to be
\* given to the worker of its own.
LEMMA NewestAdded ==
  ASSUME NEW h, NEW p \in Seq(Keys), Newest(h, p), NEW k \in Keys, NEW g,
         \A b \in DOMAIN g :
           \/ g[b].data = Null
           \/ g[b].data = Len(p) + 1 /\ g[b].id = k
           \/ b \in DOMAIN h /\ g[b].data = h[b].data /\ g[b].id = h[b].id /\ g[b].id # k
  PROVE  Newest(g, Append(p, k))
<1> DEFINE n == Len(p) + 1
           q == Append(p, k)
<1>1. /\ Len(p) \in Nat /\ DOMAIN p = 1..Len(p) /\ DOMAIN q = 1..n /\ q[n] = k
      /\ \A j \in DOMAIN p : q[j] = p[j]
  OBVIOUS
<1> HIDE DEF q
<1> SUFFICES ASSUME NEW b \in DOMAIN g, g[b].data # Null
             PROVE  /\ g[b].data \in DOMAIN q /\ q[g[b].data] = g[b].id
                    /\ \A j \in DOMAIN q : g[b].data < j => q[j] # g[b].id
  BY DEF Newest, q
<1>2. CASE g[b].data = n /\ g[b].id = k
  BY <1>1, <1>2
<1>3. CASE b \in DOMAIN h /\ g[b].data = h[b].data /\ g[b].id = h[b].id /\ g[b].id # k
  <2>1. /\ h[b].data \in DOMAIN p /\ p[h[b].data] = h[b].id
        /\ \A j \in DOMAIN p : h[b].data < j => p[j] # h[b].id
    BY <1>3 DEF Newest
  <2>2. \A j \in DOMAIN q : j \in DOMAIN p \/ j = n
    BY <1>1
  <2> QED BY <1>1, <1>3, <2>1, <2>2
<1> QED BY <1>2, <1>3

\* The pool holds the records that the index points at.
LEMMA KeepsPooled == StorageSpec => []Pooled
<1>1. StorageInit => Pooled
  BY DEF StorageInit, Init, Pooled, Newest
<1>2. Inv /\ Pooled /\ [StorageNext]_storageVars => Pooled'
  <2> SUFFICES ASSUME Inv, Pooled, [StorageNext]_storageVars PROVE Pooled'
    OBVIOUS
  <2>1. pool \in Seq(Keys) /\ Newest(heap, pool)
    BY DEF Pooled
  <2>2. CASE pool' = pool /\ StillStep
    BY <2>1, <2>2 DEF StillStep, Pooled
  <2>3. CASE pool' = pool /\ \E a \in DOMAIN heap : WriteStep(a, Null)
    <3>1. PICK a \in DOMAIN heap : WriteStep(a, Null)
      BY <2>3
    <3>2. /\ DOMAIN heap' = DOMAIN heap
          /\ \A b \in DOMAIN heap :
               /\ heap'[b].id = heap[b].id
               /\ heap'[b].data = IF b = a THEN Null ELSE heap[b].data
      BY <3>1, WriteStepFacts
    <3> QED BY <2>1, <2>3, <3>2 DEF Pooled, Newest
  <2>4. ASSUME NEW k \in Keys, Len(pool) + 1 \in Values, pool' = Append(pool, k),
               NEW a \in DOMAIN heap, heap[a].id = k, WriteStep(a, Len(pool) + 1)
        PROVE  Pooled'
    <3> DEFINE n == Len(pool) + 1
    <3>1. n \in Values \cup {Null} /\ WriteStep(a, n)
      BY <2>4
    <3> HIDE DEF n
    <3>2. /\ DOMAIN heap' = DOMAIN heap
          /\ \A b \in DOMAIN heap :
               /\ heap'[b].id = heap[b].id
               /\ heap'[b].data = IF b = a THEN n ELSE heap[b].data
      BY <3>1, WriteStepFacts
    <3>3. \A b \in DOMAIN heap : heap[b].id = k => b = a
      BY <2>4, WorkersFound
    <3>4. Newest(heap', Append(pool, k))
      BY <2>1, <2>4, <3>2, <3>3, NewestAdded DEF n
    <3> QED BY <2>1, <2>4, <3>4 DEF Pooled
  <2>5. ASSUME NEW k \in Keys, Len(pool) + 1 \in Values, pool' = Append(pool, k),
               LinkStep(k, Len(pool) + 1)
        PROVE  Pooled'
    <3> DEFINE n == Len(pool) + 1
               m == Len(heap) + 1
    <3>1. n \in Values \cup {Null} /\ LinkStep(k, n)
      BY <2>5
    <3> HIDE DEF n
    <3>2. /\ \A b \in DOMAIN heap : heap[b].id # k
          /\ DOMAIN heap' = DOMAIN heap \cup {m}
          /\ \A b \in DOMAIN heap : heap'[b].id = heap[b].id /\ heap'[b].data = heap[b].data
          /\ heap'[m].id = k /\ heap'[m].data = n
      BY <3>1, LinkStepFacts DEF IsExtended
    <3> HIDE DEF m
    <3>3. Newest(heap', Append(pool, k))
      BY <2>1, <3>2, NewestAdded DEF n
    <3> QED BY <2>1, <2>5, <3>3 DEF Pooled
  <2> QED BY <2>1, <2>2, <2>3, <2>4, <2>5, StorageSteps
<1> QED BY <1>1, <1>2, StorageIsIndexed, Correct, PTL DEF StorageSpec

-----------------------------------------------------------------------------
(* Live records *)

\* The keys of the workers that hold a record.
LiveKeys(h) == {h[a].id : a \in {b \in DOMAIN h : h[b].data # Null}}

\* The keys that a lookup finds are the live ones.
LEMMA LookedLive ==
  ASSUME NEW t, NEW h, Indexed(t, h), \A a \in DOMAIN h : h[a].id \in Keys
  PROVE  {k \in Keys : Looked(t, h, k) # Null} = LiveKeys(h)
<1>1. \A k \in Keys : Looked(t, h, k) = Null <=> Held(h, k, Null)
  BY LookedFacts
<1>2. \A a, b \in DOMAIN h : h[a].id = h[b].id => a = b
  BY DEF Indexed
<1> QED BY <1>1, <1>2 DEF Held, LiveKeys

\* The live keys, by the workers of the index
LEMMA LiveIs ==
  ASSUME Inv
  PROVE  Live = LiveKeys(heap) /\ \A a \in DOMAIN heap : Get(heap[a].id) = heap[a].data
<1>1. \A a \in DOMAIN heap : heap[a].id \in Keys /\ Find(heap[a].id) = a /\ a # Null
  BY WorkersFound, CellFacts
<1>2. Live = LiveKeys(heap)
  BY <1>1, LookedLive, PointLookupIs DEF Live, Get, Inv
<1> QED BY <1>1, <1>2 DEF Get, PointLookup, HasData

(* get(key) returns the newest record of the key, never one that an update *)
(* replaced and never the record of another key (GetsNewest), through      *)
(* removals and inserts of the key again.                                  *)
THEOREM GetCorrect == StorageSpec => []GetsNewest
<1>1. Inv /\ Pooled => GetsNewest
  <2> SUFFICES ASSUME Inv, Pooled, NEW k \in Live
               PROVE  /\ pool[Get(k)] = k
                      /\ \A j \in (Get(k) + 1)..Len(pool) : pool[j] # k
    BY DEF GetsNewest
  <2>1. PICK a \in DOMAIN heap : heap[a].data # Null /\ heap[a].id = k
    BY LiveIs DEF LiveKeys
  <2>2. Get(k) = heap[a].data
    BY <2>1, LiveIs
  <2>3. /\ heap[a].data \in DOMAIN pool /\ pool[heap[a].data] = k
        /\ \A j \in DOMAIN pool : heap[a].data < j => pool[j] # k
    BY <2>1 DEF Pooled, Newest
  <2>4. Len(pool) \in Nat /\ DOMAIN pool = 1..Len(pool)
    BY DEF Pooled
  <2> QED BY <2>2, <2>3, <2>4
<1> QED BY <1>1, KeepsPooled, StorageIsIndexed, Correct, PTL

-----------------------------------------------------------------------------
(* Doubles *)

\* Powers of two grow with their exponent.
LEMMA Pow2Monotone ==
  ASSUME NEW m \in Nat, NEW n \in Nat, m <= n
  PROVE  Pow2[m] <= Pow2[n]
<1>1. ~ (Pow2[n] < Pow2[m])
  BY Pow2Smaller
<1>2. Pow2[m] \in Nat /\ Pow2[n] \in Nat
  BY Pow2Facts
<1> QED BY <1>1, <1>2

\* Rounding to an integer gives one of the two next to the quotient, and keeps the
\* order.
LEMMA ToNearestFacts ==
  ASSUME NEW d \in Nat \ {0}
  PROVE  /\ \A n \in Nat : /\ n \div d \in Nat /\ ToNearest(n, d) \in Nat
                           /\ n \div d <= ToNearest(n, d) /\ ToNearest(n, d) <= n \div d + 1
                           /\ n % d = 0 => ToNearest(n, d) = n \div d
         /\ \A m, n \in Nat : m <= n => ToNearest(m, d) <= ToNearest(n, d)
<1>1. ASSUME NEW n \in Nat
      PROVE  /\ n \div d \in Nat /\ ToNearest(n, d) \in Nat
             /\ n \div d <= ToNearest(n, d) /\ ToNearest(n, d) <= n \div d + 1
             /\ n % d = 0 => ToNearest(n, d) = n \div d
  <2>1. n \div d \in Nat /\ n % d \in 0..(d - 1)
    BY DivModLaw
  <2> QED BY <2>1 DEF ToNearest
<1>2. ASSUME NEW m \in Nat, NEW n \in Nat, m <= n
      PROVE  ToNearest(m, d) <= ToNearest(n, d)
  <2> DEFINE q == m \div d
             r == m % d
             p == n \div d
             s == n % d
  <2>1. /\ q \in Nat /\ r \in 0..(d - 1) /\ m = d * q + r
        /\ p \in Nat /\ s \in 0..(d - 1) /\ n = d * p + s
    BY DivModLaw
  <2>2. /\ ToNearest(m, d) = IF 2 * r < d \/ (2 * r = d /\ q % 2 = 0) THEN q ELSE q + 1
        /\ ToNearest(n, d) = IF 2 * s < d \/ (2 * s = d /\ p % 2 = 0) THEN p ELSE p + 1
    BY DEF ToNearest
  <2> HIDE DEF q, r, p, s
  <2>3. q <= p
    <3> SUFFICES ASSUME p + 1 <= q PROVE FALSE
      BY <2>1
    <3>1. d * (p + 1) <= d * q
      BY <2>1
    <3>2. d * (p + 1) = d * p + d
      BY <2>1
    <3> QED BY <1>2, <2>1, <3>1, <3>2
  <2>4. CASE q = p
    <3>1. r <= s
      BY <1>2, <2>1, <2>4
    <3> QED BY <2>1, <2>2, <2>4, <3>1
  <2>5. CASE q # p
    <3>1. q + 1 <= p
      BY <2>1, <2>3, <2>5
    <3> QED BY <2>1, <2>2, <3>1
  <2> QED BY <2>4, <2>5
<1> QED BY <1>1, <1>2

\* A number has its bits, and the bits in excess.
LEMMA ExcessFacts ==
  ASSUME NEW n \in Nat
  PROVE  /\ Excess(n, 1) \in Nat
         /\ n < Pow2[Precision + Excess(n, 1)]
         /\ Excess(n, 1) # 0 => Pow2[Precision + Excess(n, 1) - 1] <= n
<1> DEFINE T == {e \in Nat : n < Pow2[Precision + e]}
<1>1. n \in T
  <2>1. Precision + n \in Nat /\ n <= Precision + n
    BY DoublesAssumption
  <2>2. Precision + n < Pow2[Precision + n] /\ Pow2[Precision + n] \in Nat
    BY <2>1, Pow2Grows, Pow2Facts
  <2> QED BY <2>1, <2>2
<1>2. PICK e \in T : \A x \in T : e <= x
  <2>1. T \subseteq Nat /\ T # {}
    BY <1>1
  <2> HIDE DEF T
  <2> QED BY <2>1, LeastNat
<1>3. e \in 0..n /\ n < Pow2[Precision + e]
  BY <1>1, <1>2
<1>4. e = 0 \/ Pow2[Precision + e - 1] <= n
  <2> SUFFICES ASSUME e # 0 PROVE Pow2[Precision + e - 1] <= n
    OBVIOUS
  <2>1. e - 1 \in Nat /\ e - 1 < e
    BY <1>3
  <2>2. e - 1 \notin T
    <3> HIDE DEF T
    <3> QED BY <1>2, <1>3, <2>1
  <2>3. Precision + (e - 1) = Precision + e - 1 /\ Precision + e - 1 \in Nat
    BY <2>1, DoublesAssumption
  <2>4. Pow2[Precision + e - 1] \in Nat
    BY <2>3, Pow2Facts
  <2>5. ~ (n < Pow2[Precision + (e - 1)])
    BY <2>1, <2>2
  <2> QED BY <2>3, <2>4, <2>5
<1> HIDE DEF T
<1> DEFINE Fits(x) == /\ n < 1 * Pow2[Precision + x]
                      /\ x = 0 \/ 1 * Pow2[Precision + x - 1] <= n
<1>5. \A x \in 0..n : /\ 1 * Pow2[Precision + x] = Pow2[Precision + x]
                      /\ x # 0 => 1 * Pow2[Precision + x - 1] = Pow2[Precision + x - 1]
  <2> SUFFICES ASSUME NEW x \in 0..n
               PROVE  /\ 1 * Pow2[Precision + x] = Pow2[Precision + x]
                      /\ x # 0 => 1 * Pow2[Precision + x - 1] = Pow2[Precision + x - 1]
    OBVIOUS
  <2>1. Precision + x \in Nat /\ (x # 0 => Precision + x - 1 \in Nat)
    BY DoublesAssumption
  <2>2. Pow2[Precision + x] \in Nat /\ (x # 0 => Pow2[Precision + x - 1] \in Nat)
    BY <2>1, Pow2Facts
  <2> QED BY <2>2
<1>6. Fits(e)
  BY <1>3, <1>4, <1>5
<1>7. Excess(n, 1) = CHOOSE x \in 0..n : Fits(x)
  BY DEF Excess
<1> HIDE DEF Fits
<1>8. Excess(n, 1) \in 0..n /\ Fits(Excess(n, 1))
  BY <1>3, <1>6, <1>7
<1> QED BY <1>5, <1>8 DEF Fits

\* What a conversion does, and between which powers of two its result is.
LEMMA ToDoubleFacts ==
  ASSUME NEW n \in Nat
  PROVE  LET e == Excess(n, 1)
         IN  /\ ToDouble(n) = Pow2[e] * ToNearest(n, Pow2[e])
             /\ Pow2[e] \in Nat \ {0} /\ ToNearest(n, Pow2[e]) \in Nat /\ ToDouble(n) \in Nat
             /\ ToDouble(n) <= Pow2[Precision + e]
             /\ e # 0 => Pow2[Precision + e - 1] <= ToDouble(n)
<1> DEFINE e == Excess(n, 1)
           u == Pow2[e]
           q == n \div u
<1>1. /\ e \in Nat /\ n < Pow2[Precision + e]
      /\ e # 0 => Pow2[Precision + e - 1] <= n
  BY ExcessFacts
<1>2. u \in Nat \ {0} /\ 1 * u = u
  BY <1>1, Pow2Facts
<1>3. ToDouble(n) = u * ToNearest(n, u)
  BY <1>2 DEF ToDouble, Rounded
<1> HIDE DEF e
<1>4. Precision \in Nat /\ Pow2[Precision] \in Nat /\ Pow2[Precision + e] = u * Pow2[Precision]
  <2>1. Pow2[Precision + e] = Pow2[Precision] * Pow2[e]
    BY <1>1, DoublesAssumption, Pow2Add
  <2>2. Precision \in Nat /\ Pow2[Precision] \in Nat
    BY DoublesAssumption, Pow2Facts
  <2> QED BY <1>2, <2>1, <2>2
<1>5. e # 0 => /\ Pow2[Precision - 1] \in Nat
               /\ Pow2[Precision + e - 1] = u * Pow2[Precision - 1]
  <2> SUFFICES ASSUME e # 0 PROVE /\ Pow2[Precision - 1] \in Nat
                                  /\ Pow2[Precision + e - 1] = u * Pow2[Precision - 1]
    OBVIOUS
  <2>1. Precision - 1 \in Nat /\ (Precision - 1) + e = Precision + e - 1
    BY <1>1, DoublesAssumption
  <2>2. Pow2[(Precision - 1) + e] = Pow2[Precision - 1] * Pow2[e] /\ Pow2[Precision - 1] \in Nat
    BY <1>1, <2>1, Pow2Add, Pow2Facts
  <2> QED BY <1>2, <2>1, <2>2
<1> HIDE DEF u
<1>6. /\ q \in Nat /\ n % u \in 0..(u - 1) /\ n = u * q + (n % u)
      /\ ToNearest(n, u) \in Nat /\ q <= ToNearest(n, u) /\ ToNearest(n, u) <= q + 1
  BY <1>2, DivModLaw, ToNearestFacts
<1> DEFINE N == ToNearest(n, u)
           top == Pow2[Precision]
           low == Pow2[Precision - 1]
<1> HIDE DEF q, N, low, top
<1>7. q + 1 <= top
  <2> SUFFICES ASSUME top <= q PROVE FALSE
    BY <1>4, <1>6 DEF top
  <2>1. u * top <= u * q
    BY <1>2, <1>4, <1>6 DEF top
  <2> QED BY <1>1, <1>2, <1>4, <1>6, <2>1 DEF top
<1>8. u * N \in Nat /\ u * N <= u * top
  <2>1. N \in Nat /\ N <= top
    BY <1>4, <1>6, <1>7 DEF top, N
  <2> QED BY <1>2, <1>4, <2>1 DEF top
<1>9. ASSUME e # 0 PROVE u * low <= u * N
  <2>1. low <= q
    <3> SUFFICES ASSUME q + 1 <= low PROVE FALSE
      BY <1>5, <1>6, <1>9 DEF low
    <3>1. u * (q + 1) <= u * low /\ u * (q + 1) = u * q + u
      BY <1>2, <1>5, <1>6, <1>9 DEF low
    <3> QED BY <1>1, <1>2, <1>5, <1>6, <1>9, <3>1 DEF low
  <2>2. low <= N /\ N \in Nat /\ low \in Nat
    BY <1>5, <1>6, <1>9, <2>1 DEF low, N
  <2> QED BY <1>2, <2>2
<1> QED BY <1>1, <1>2, <1>3, <1>4, <1>5, <1>6, <1>8, <1>9 DEF low, top, N, u, e

\* Integers of at most Precision bits, and the next, are doubles.
LEMMA SmallAreDoubles ==
  ASSUME NEW n \in Nat, n <= Pow2[Precision]
  PROVE  ToDouble(n) = n
<1> DEFINE e == Excess(n, 1)
<1>1. /\ e \in Nat /\ n < Pow2[Precision + e]
      /\ e # 0 => Pow2[Precision + e - 1] <= n
      /\ Precision \in Nat \ {0} /\ Pow2[Precision] \in Nat
  BY ExcessFacts, DoublesAssumption, Pow2Facts
<1>2. ToDouble(n) = Pow2[e] * ToNearest(n, Pow2[e]) /\ Pow2[e] \in Nat \ {0}
  BY ToDoubleFacts
<1> HIDE DEF e
<1>3. n % Pow2[e] = 0
  <2>1. CASE e = 0
    BY <2>1, Pow2Facts
  <2>2. CASE e # 0
    <3>1. Precision <= Precision + e - 1 /\ Precision + e - 1 \in Nat
      BY <1>1, <2>2
    <3>2. Pow2[Precision] <= Pow2[Precision + e - 1] /\ Pow2[Precision + e - 1] \in Nat
      BY <1>1, <3>1, Pow2Monotone, Pow2Facts
    <3>3. n = Pow2[Precision] /\ ~ (Pow2[Precision] < Pow2[Precision + e - 1])
      BY <1>1, <2>2, <3>2
    <3>4. e = 1
      <4> SUFFICES ASSUME e > 1 PROVE FALSE
        BY <1>1, <2>2
      <4> DEFINE k == Precision + e - 2
      <4>1. k \in Nat /\ Precision <= k /\ k + 1 = Precision + e - 1
        BY <1>1
      <4> HIDE DEF k
      <4>2. Pow2[Precision] <= Pow2[k] /\ Pow2[k + 1] = 2 * Pow2[k] /\ Pow2[k] \in Nat \ {0}
        BY <1>1, <4>1, Pow2Monotone, Pow2Facts
      <4> QED BY <1>1, <3>3, <4>1, <4>2
    <3>5. Precision - 1 \in Nat /\ Precision = (Precision - 1) + 1
      BY <1>1
    <3>6. Pow2[Precision] = 2 * Pow2[Precision - 1] /\ Pow2[Precision - 1] \in Nat
      BY <3>5, Pow2Facts
    <3>7. Pow2[e] = 2
      <4>1. Pow2[0 + 1] = 2 * Pow2[0] /\ Pow2[0] = 1 /\ 0 + 1 = 1
        BY Pow2Facts
      <4> QED BY <3>4, <4>1
    <3> DEFINE h == Pow2[Precision - 1]
    <3>8. h \in Nat /\ n = 2 * h
      BY <3>3, <3>6
    <3> HIDE DEF h
    <3> QED BY <3>7, <3>8
  <2> QED BY <2>1, <2>2
<1>4. ToNearest(n, Pow2[e]) = n \div Pow2[e]
  BY <1>2, <1>3, ToNearestFacts
<1> DEFINE u == Pow2[e]
<1>5. u \in Nat \ {0} /\ ToDouble(n) = u * (n \div u) /\ n % u = 0
  BY <1>2, <1>3, <1>4
<1> HIDE DEF u
<1>6. n \div u \in Nat /\ n = u * (n \div u) + (n % u)
  BY <1>5, DivModLaw
<1> QED BY <1>5, <1>6

\* Rounding keeps the order.
LEMMA ToDoubleMonotone ==
  ASSUME NEW m \in Nat, NEW n \in Nat, m <= n
  PROVE  ToDouble(m) <= ToDouble(n)
<1> DEFINE a == Excess(m, 1)
           b == Excess(n, 1)
<1>1. /\ a \in Nat /\ m < Pow2[Precision + a]
      /\ a # 0 => Pow2[Precision + a - 1] <= m
      /\ b \in Nat /\ n < Pow2[Precision + b]
      /\ b # 0 => Pow2[Precision + b - 1] <= n
      /\ Precision \in Nat \ {0}
  BY ExcessFacts, DoublesAssumption
<1>2. /\ ToDouble(m) = Pow2[a] * ToNearest(m, Pow2[a]) /\ ToNearest(m, Pow2[a]) \in Nat
      /\ Pow2[a] \in Nat \ {0}
      /\ ToDouble(m) \in Nat /\ ToDouble(m) <= Pow2[Precision + a]
  BY ToDoubleFacts
<1>3. /\ ToDouble(n) = Pow2[b] * ToNearest(n, Pow2[b]) /\ ToNearest(n, Pow2[b]) \in Nat
      /\ ToDouble(n) \in Nat /\ (b # 0 => Pow2[Precision + b - 1] <= ToDouble(n))
  BY ToDoubleFacts
<1> HIDE DEF a, b
<1>4. CASE a = b
  <2>1. ToNearest(m, Pow2[a]) <= ToNearest(n, Pow2[a])
    BY <1>2, ToNearestFacts
  <2> DEFINE x == ToNearest(m, Pow2[a])
             y == ToNearest(n, Pow2[a])
             u == Pow2[a]
  <2>2. /\ u \in Nat /\ x \in Nat /\ y \in Nat /\ x <= y
        /\ ToDouble(m) = u * x /\ ToDouble(n) = u * y
    BY <1>2, <1>3, <1>4, <2>1
  <2> HIDE DEF x, y, u
  <2> QED BY <2>2
<1>5. CASE a < b
  <2>1. Precision + a <= Precision + b - 1 /\ Precision + a \in Nat /\ Precision + b - 1 \in Nat
    BY <1>1, <1>5
  <2>2. Pow2[Precision + a] <= Pow2[Precision + b - 1]
    BY <2>1, Pow2Monotone
  <2>3. Pow2[Precision + a] \in Nat /\ Pow2[Precision + b - 1] \in Nat
    BY <2>1, Pow2Facts
  <2>4. b # 0
    BY <1>1, <1>5
  <2> QED BY <1>2, <1>3, <2>2, <2>3, <2>4
<1>6. CASE b < a
  <2>1. Precision + b <= Precision + a - 1 /\ Precision + b \in Nat /\ Precision + a - 1 \in Nat
    BY <1>1, <1>6
  <2>2. Pow2[Precision + b] <= Pow2[Precision + a - 1]
    BY <2>1, Pow2Monotone
  <2>3. Pow2[Precision + b] \in Nat /\ Pow2[Precision + a - 1] \in Nat
    BY <2>1, Pow2Facts
  <2>4. a # 0
    BY <1>1, <1>6
  <2> QED BY <1>1, <2>2, <2>3, <2>4
<1> QED BY <1>1, <1>4, <1>5, <1>6

-----------------------------------------------------------------------------
(* Extremes and counts *)

\* A least and a greatest element are the minimum and the maximum.
LEMMA MinMaxUnique ==
  ASSUME NEW S, S \subseteq Nat, NEW m \in S
  PROVE  /\ (\A y \in S : m <= y) => Min(S) = m
         /\ (\A y \in S : y <= m) => Max(S) = m
<1>1. ASSUME \A y \in S : m <= y PROVE Min(S) = m
  <2>1. Min(S) \in S /\ \A y \in S : Min(S) <= y
    BY <1>1 DEF Min
  <2>2. Min(S) \in Nat /\ m \in Nat /\ m <= Min(S) /\ Min(S) <= m
    BY <1>1, <2>1
  <2> QED BY <2>2
<1>2. ASSUME \A y \in S : y <= m PROVE Max(S) = m
  <2>1. Max(S) \in S /\ \A y \in S : Max(S) >= y
    <3>1. \E x \in S : \A y \in S : x >= y
      BY <1>2
    <3> QED BY <3>1 DEF Max
  <2>2. Max(S) \in Nat /\ m \in Nat /\ m >= Max(S) /\ Max(S) >= m
    BY <1>2, <2>1
  <2> QED BY <2>2
<1> QED BY <1>1, <1>2

\* The extremes of numbers as doubles are their extremes, rounded.
LEMMA DoubleExtremes ==
  ASSUME NEW S, S \subseteq Nat, S # {}, NEW n \in Nat, \A x \in S : x <= n
  PROVE  /\ Min({ToDouble(x) : x \in S}) = ToDouble(Min(S))
         /\ Max({ToDouble(x) : x \in S}) = ToDouble(Max(S))
<1> DEFINE D == {ToDouble(x) : x \in S}
<1>1. D \subseteq Nat /\ \A x \in S : ToDouble(x) \in D
  BY ToDoubleFacts
<1>2. PICK l \in S : \A x \in S : l <= x
  BY LeastNat
<1>3. PICK g \in S : \A x \in S : x <= g
  BY GreatestOf
<1>4. Min(S) = l /\ Max(S) = g
  BY <1>2, <1>3, MinMaxUnique
<1>5. \A y \in D : ToDouble(l) <= y /\ y <= ToDouble(g)
  <2> SUFFICES ASSUME NEW x \in S PROVE ToDouble(l) <= ToDouble(x) /\ ToDouble(x) <= ToDouble(g)
    OBVIOUS
  <2> QED BY <1>2, <1>3, ToDoubleMonotone
<1> HIDE DEF D
<1>6. Min(D) = ToDouble(l) /\ Max(D) = ToDouble(g)
  BY <1>1, <1>2, <1>3, <1>5, MinMaxUnique
<1> QED BY <1>4, <1>6 DEF D

\* The keys of the live records, one of each worker that holds one.
LEMMA LiveFacts ==
  ASSUME Inv, Pooled
  PROVE  /\ Live \subseteq Nat
         /\ \A k \in Live : \E a \in DOMAIN heap : heap[a].id = k /\ heap[a].data # Null
         /\ \A a \in DOMAIN heap : heap[a].data # Null =>
              heap[a].id \in Live /\ pool[heap[a].data] = heap[a].id
<1>1. \A a \in DOMAIN heap : heap[a].id \in Nat
  BY CellFacts
<1> QED BY <1>1, LiveIs DEF LiveKeys, Pooled, Newest

\* If the tree covers some key, the chain starts at one that it covers.
LEMMA HeadIsCovered ==
  ASSUME Inv, Ordered, NEW c \in DOMAIN heap, heap[c].id < Coverage
  PROVE  head \in DOMAIN heap /\ heap[head].id < Coverage
<1>1. PICK o : Threaded(heap, head, tail, o) /\ Ascends(heap, o)
  BY DEF Ordered
<1>2. PICK j \in 1..Len(heap) : o[j] = c
  BY <1>1 DEF Threaded
<1>3. /\ o \in [1..Len(heap) -> DOMAIN heap]
      /\ head = IF Len(heap) = 0 THEN Null ELSE o[1]
      /\ Len(heap) \in Nat
  BY <1>1, CellFacts DEF Threaded
<1>4. 1 \in 1..Len(heap) /\ Len(heap) # 0
  BY <1>2, <1>3
<1>5. head = o[1] /\ head \in DOMAIN heap /\ heap[head].id \in Nat /\ heap[c].id \in Nat
  BY <1>3, <1>4, CellFacts
<1>6. CASE j = 1
  BY <1>2, <1>5, <1>6
<1>7. CASE j # 1
  <2>1. 1 < j
    BY <1>2, <1>3, <1>7
  <2>2. heap[o[1]].id < heap[o[j]].id
    BY <1>1, <1>2, <1>4, <2>1 DEF Ascends
  <2> QED BY <1>2, <1>5, <2>2, CoverageIsNatural
<1> QED BY <1>6, <1>7

(* min() is the least live key as a double, unless it is infinite, while   *)
(* the prefix tree covers at least one key, and max() the greatest while   *)
(* it covers all of them (ExtremesExact).                                  *)
THEOREM ExtremesCorrect == StorageSpec => []ExtremesExact
<1>1. Inv /\ Pooled /\ Ordered => ExtremesExact
  <2> SUFFICES ASSUME Inv, Pooled, Ordered
               PROVE  /\ HasMin /\ (\E k \in Present : k < Coverage) => MinKey = ToDouble(Min(Live))
                      /\ HasMax /\ KeysAreCovered => MaxKey = ToDouble(Max(Live))
    BY DEF ExtremesExact
  <2>1. \A a \in DOMAIN heap : heap[a].id < Coverage =>
          /\ head = a <=> \A b \in DOMAIN heap : heap[a].id <= heap[b].id
          /\ tail = a <=> \A b \in DOMAIN heap : heap[b].id <= heap[a].id
    BY OrderIsSorted DEF ChainSorted
  <2>2. head \in DOMAIN heap \cup {Null} /\ tail \in DOMAIN heap \cup {Null}
    BY CellFacts DEF Inv, Formed
  <2>3. ASSUME HasMin, NEW k \in Present, k < Coverage PROVE MinKey = ToDouble(Min(Live))
    <3>1. head \in DOMAIN heap /\ heap[head].data # Null /\ MinKey = ToDouble(pool[heap[head].data])
      BY <2>2, <2>3 DEF HasMin, MinKey, GetHead, HasData
    <3>2. heap[head].id \in Live /\ MinKey = ToDouble(heap[head].id)
      BY <3>1, LiveFacts
    <3>3. Find(k) \in DOMAIN heap /\ heap[Find(k)].id = k
      BY <2>3, FindFacts DEF Present
    <3>4. heap[head].id < Coverage
      BY <2>3, <3>3, HeadIsCovered
    <3>5. \A y \in Live : heap[head].id <= y
      BY <2>1, <3>1, <3>4, LiveFacts
    <3> QED BY <3>2, <3>5, LiveFacts, MinMaxUnique
  <2>4. ASSUME HasMax, KeysAreCovered PROVE MaxKey = ToDouble(Max(Live))
    <3>1. tail \in DOMAIN heap /\ heap[tail].data # Null /\ MaxKey = ToDouble(pool[heap[tail].data])
      BY <2>2, <2>4 DEF HasMax, MaxKey, GetTail, HasData
    <3>2. heap[tail].id \in Live /\ MaxKey = ToDouble(heap[tail].id)
      BY <3>1, LiveFacts
    <3>3. heap[tail].id < Coverage
      BY <2>4, <3>1, WorkersFound DEF KeysAreCovered
    <3>4. \A y \in Live : y <= heap[tail].id
      BY <2>1, <3>1, <3>3, LiveFacts
    <3> QED BY <3>2, <3>4, LiveFacts, MinMaxUnique
  <2> QED BY <2>3, <2>4
<1> QED BY <1>1, KeepsPooled, KeepsOrder, StorageIsIndexed, Correct, PTL

\* There are finitely many live keys.
LEMMA LiveFinite == ASSUME Inv PROVE IsFiniteSet(Live)
<1>1. \A k \in Live : k <= Pow2[KeyBits] - 1 /\ k \in Nat
  BY LiveIs, CellFacts DEF LiveKeys
<1>2. Live \in SUBSET Nat /\ Pow2[KeyBits] - 1 \in Nat
  BY <1>1, CellFacts
<1> QED BY <1>1, <1>2, FS_BoundedSetOfNaturals

\* The live keys after an insert, and whether it is counted.
LEMMA InsertCounts ==
  ASSUME Inv, NEW k \in Keys, NEW v \in Values, Insert(k, v)
  PROVE  /\ Live' = Live \cup {k}
         /\ numActive' = numActive + IF k \in Live THEN 0 ELSE 1
<1>1. v # Null /\ v \in Values \cup {Null}
  BY RLHAssumption
<1>2. ASSUME Inv', \A a \in DOMAIN heap' : heap'[a].id \in Keys
      PROVE  Live' = LiveKeys(heap')
  <2>1. Indexed(lh', heap')
    BY <1>2 DEF Inv
  <2>2. Live' = {x \in Keys : Looked(lh', heap', x) # Null}
    BY PointLookupIs DEF Live, Get
  <2> QED BY <1>2, <2>1, <2>2, LookedLive
<1>3. Live = LiveKeys(heap) /\ \A a \in DOMAIN heap : heap[a].id \in Keys
  BY LiveIs, WorkersFound
<1>4. ASSUME Find(k) # Null, WriteStep(Find(k), v),
             numActive' = numActive + IF HasData(Find(k)) THEN 0 ELSE 1
      PROVE  /\ Live' = Live \cup {k}
             /\ numActive' = numActive + IF k \in Live THEN 0 ELSE 1
  <2> DEFINE a == Find(k)
  <2>1. a \in DOMAIN heap /\ heap[a].id = k /\ \A b \in DOMAIN heap : heap[b].id = k => b = a
    BY <1>4, FindFacts, WorkersFound
  <2>2. /\ Inv' /\ DOMAIN heap' = DOMAIN heap
        /\ \A b \in DOMAIN heap : /\ heap'[b].id = heap[b].id
                                  /\ heap'[b].data = IF b = a THEN v ELSE heap[b].data
    BY <1>1, <1>4, <2>1, WriteStepFacts
  <2> HIDE DEF a
  <2>3. Live' = LiveKeys(heap')
    BY <1>2, <1>3, <2>2
  <2>4. LiveKeys(heap') = LiveKeys(heap) \cup {k}
    BY <1>1, <2>1, <2>2 DEF LiveKeys
  <2>5. k \in Live <=> heap[a].data # Null
    BY <1>3, <2>1 DEF LiveKeys
  <2> QED BY <1>3, <1>4, <2>3, <2>4, <2>5 DEF HasData, a
<1>5. ASSUME LinkStep(k, v), numActive' = numActive + 1
      PROVE  /\ Live' = Live \cup {k}
             /\ numActive' = numActive + IF k \in Live THEN 0 ELSE 1
  <2> DEFINE m == Len(heap) + 1
  <2>1. /\ Inv' /\ \A b \in DOMAIN heap : heap[b].id # k
        /\ DOMAIN heap' = DOMAIN heap \cup {m} /\ m \notin DOMAIN heap
        /\ \A b \in DOMAIN heap : heap'[b].id = heap[b].id /\ heap'[b].data = heap[b].data
        /\ heap'[m].id = k /\ heap'[m].data = v
    BY <1>1, <1>5, LinkStepFacts DEF IsExtended
  <2> HIDE DEF m
  <2>2. Live' = LiveKeys(heap')
    BY <1>2, <1>3, <2>1
  <2>3. LiveKeys(heap') = LiveKeys(heap) \cup {k}
    BY <1>1, <2>1 DEF LiveKeys
  <2>4. k \notin Live
    BY <1>3, <2>1 DEF LiveKeys
  <2> QED BY <1>3, <1>5, <2>2, <2>3, <2>4
<1>6. \/ /\ Find(k) # Null /\ WriteStep(Find(k), v)
         /\ numActive' = numActive + IF HasData(Find(k)) THEN 0 ELSE 1
      \/ LinkStep(k, v) /\ numActive' = numActive + 1
  <2>1. CASE Update(k, v)
    BY <2>1, CountIsInteger DEF Update, WriteStep, CountsAsActive
  <2>2. CASE LinkAfter(k, v) \/ LinkFirst(k, v)
    <3>1. Find(k) = Null /\ numActive' = numActive + 1
      BY <2>2 DEF LinkAfter, LinkFirst, Register, CountsAsActive
    <3>2. LinkStep(k, v)
      BY <3>1, InsertSteps
    <3> QED BY <3>1, <3>2
  <2> QED BY <2>1, <2>2 DEF Insert
<1> QED BY <1>4, <1>5, <1>6

(* Every insert changes count() by the change in the number of live        *)
(* records (CountFollowsInserts): it is removals alone that miscount.      *)
THEOREM CountsInserts == StorageSpec => CountFollowsInserts
<1>1. Inv /\ pool \in Seq(Keys) /\ [StorageNext]_storageVars =>
        [pool' # pool => numActive' - numActive = Cardinality(Live') - Cardinality(Live)]_storageVars
  <2> SUFFICES ASSUME Inv, pool \in Seq(Keys), [StorageNext]_storageVars, pool' # pool
               PROVE  numActive' - numActive = Cardinality(Live') - Cardinality(Live)
    OBVIOUS
  <2>1. PICK k \in Keys : InsertRecord(k)
    BY DEF StorageNext, RemoveRecord, storageVars
  <2>2. Len(pool) + 1 \in Values /\ Insert(k, Len(pool) + 1)
    BY <2>1, StorageAssumption DEF InsertRecord
  <2>3. /\ Live' = Live \cup {k}
        /\ numActive' = numActive + IF k \in Live THEN 0 ELSE 1
    BY <2>2, InsertCounts
  <2>4. Cardinality(Live) \in Nat /\ numActive \in Int
    BY LiveFinite, FS_CardinalityType DEF Inv, Formed
  <2>5. Cardinality(Live \cup {k}) = Cardinality(Live) + IF k \in Live THEN 0 ELSE 1
    <3>1. Cardinality(Live \cup {k}) = IF k \in Live THEN Cardinality(Live) ELSE Cardinality(Live) + 1
      BY LiveFinite, FS_AddElement, Zenon
    <3> QED BY <2>4, <3>1
  <2> QED BY <2>3, <2>4, <2>5
<1> QED BY <1>1, PoolTyped, StorageIsIndexed, Correct, PTL DEF StorageSpec, CountFollowsInserts

-----------------------------------------------------------------------------
(* Sums of finite sets do not depend on the order in which they are taken. *)

\* t[n] is the sum of the first n elements of f.
Totals(t, f, m) ==
  /\ t \in [0..m -> Nat] /\ t[0] = 0
  /\ \A n \in 1..m : t[n] = t[n - 1] + f[n]

\* Every list of numbers has its partial sums.
LEMMA TotalsExist ==
  ASSUME NEW m \in Nat, NEW f, \A n \in 1..m : f[n] \in Nat
  PROVE  \E t : Totals(t, f, m)
<1> DEFINE g == [x \in (1..m) \X Nat |-> x[2] + f[x[1]]]
<1>1. g \in [(1..m) \X Nat -> Nat]
  <2>1. ASSUME NEW x \in (1..m) \X Nat PROVE x[2] + f[x[1]] \in Nat
    <3>1. x[2] \in Nat /\ f[x[1]] \in Nat
      OBVIOUS
    <3> QED BY <3>1
  <2> QED BY <2>1
<1>2. PICK t : SolvesRecursion(t, m, Nat, 0, g)
  <2> HIDE DEF g
  <2> QED BY <1>1, FiniteRecursion
<1>3. \A n \in 1..m : t[n - 1] \in Nat
  BY <1>2 DEF SolvesRecursion
<1> QED BY <1>2, <1>3 DEF SolvesRecursion, Totals

\* Adding v to the element at j adds v to the sum.
LEMMA TotalsChanged ==
  ASSUME NEW m \in Nat, NEW f, NEW g, NEW t, NEW u, Totals(t, f, m), Totals(u, g, m),
         NEW j \in 1..m, NEW v \in Nat,
         \A i \in 1..m : g[i] \in Nat /\ f[i] = IF i = j THEN g[i] + v ELSE g[i]
  PROVE  t[m] = u[m] + v
<1> DEFINE Wrong == {n \in 0..m : t[n] # u[n] + IF n < j THEN 0 ELSE v}
<1>1. SUFFICES ASSUME Wrong # {} PROVE FALSE
  <2>1. m \in 0..m /\ ~ (m < j)
    OBVIOUS
  <2> QED BY <1>1, <2>1
<1>2. PICK n \in Wrong : \A k \in Wrong : n <= k
  <2>1. Wrong \subseteq Nat
    OBVIOUS
  <2> QED BY <1>1, <2>1, LeastNat
<1>3. n # 0
  BY <1>2 DEF Totals
<1>4. n - 1 \in 0..m /\ n \in 1..m /\ n - 1 \notin Wrong
  BY <1>2, <1>3
<1>5. t[n - 1] = u[n - 1] + IF n - 1 < j THEN 0 ELSE v
  BY <1>4
<1>6. t[n] = t[n - 1] + f[n] /\ u[n] = u[n - 1] + g[n] /\ u[n - 1] \in Nat /\ g[n] \in Nat
  BY <1>4 DEF Totals
<1>7. f[n] = IF n = j THEN g[n] + v ELSE g[n]
  BY <1>4
<1>8. t[n] # u[n] + IF n < j THEN 0 ELSE v
  BY <1>2
<1> HIDE DEF Wrong
<1> QED BY <1>4, <1>5, <1>6, <1>7, <1>8

\* The sums of zeros are zero.
LEMMA TotalsZero ==
  ASSUME NEW m \in Nat, NEW f, NEW t, Totals(t, f, m), \A i \in 1..m : f[i] = 0
  PROVE  t[m] = 0
<1> DEFINE Wrong == {n \in 0..m : t[n] # 0}
<1>1. SUFFICES ASSUME Wrong # {} PROVE FALSE
  <2>1. m \in 0..m
    OBVIOUS
  <2> QED BY <1>1, <2>1
<1>2. PICK n \in Wrong : \A k \in Wrong : n <= k
  <2>1. Wrong \subseteq Nat
    OBVIOUS
  <2> QED BY <1>1, <2>1, LeastNat
<1>3. n # 0
  BY <1>2 DEF Totals
<1>4. n - 1 \in 0..m /\ n \in 1..m /\ n - 1 \notin Wrong
  BY <1>2, <1>3
<1>5. t[n - 1] = 0 /\ t[n] # 0
  BY <1>2, <1>4
<1>6. t[n] = t[n - 1] + f[n] /\ f[n] = 0
  BY <1>4 DEF Totals
<1> QED BY <1>5, <1>6

\* The function by which the folds of the library sum up f over the subsets of S
SumStep(g, f, s) ==
  IF s = {} THEN 0 ELSE LET x == CHOOSE x \in s : TRUE IN f[x] + g[s \ {x}]

Sums(g, f, S) == g = [s \in SUBSET S |-> SumStep(g, f, s)]

Summable(f, S) == IsFiniteSet(S) /\ \A x \in S : f[x] \in Nat

\* The element taken out of a set first, and what is left.
LEMMA FirstElement ==
  ASSUME NEW S, IsFiniteSet(S), NEW s \in SUBSET S, s # {}
  PROVE  LET x == CHOOSE x \in s : TRUE
         IN  /\ x \in s /\ x \in S /\ s \ {x} \in SUBSET S
             /\ Cardinality(s) \in Nat /\ Cardinality(s \ {x}) = Cardinality(s) - 1
             /\ Cardinality(s \ {x}) \in Nat
<1> DEFINE x == CHOOSE x \in s : TRUE
<1>1. x \in s
  OBVIOUS
<1> HIDE DEF x
<1>2. IsFiniteSet(s)
  BY FS_Subset
<1>3. IsFiniteSet(s \ {x}) /\ Cardinality(s \ {x}) = Cardinality(s) - 1
  BY <1>1, <1>2, FS_RemoveElement, Zenon
<1>4. Cardinality(s) \in Nat /\ Cardinality(s \ {x}) \in Nat
  BY <1>2, <1>3, FS_CardinalityType
<1> QED BY <1>1, <1>3, <1>4 DEF x

\* Every function that can be summed has its sums over all subsets.
LEMMA SumsExist ==
  ASSUME NEW S, NEW f, Summable(f, S)
  PROVE  \E g : Sums(g, f, S)
<1> USE DEF Summable
<1> DEFINE Upto(g, n) ==
             /\ g \in [SUBSET S -> Nat]
             /\ \A s \in SUBSET S : Cardinality(s) <= n => g[s] = SumStep(g, f, s)
           Missing == {n \in Nat : ~ \E g : Upto(g, n)}
<1>1. \A s \in SUBSET S : IsFiniteSet(s) /\ Cardinality(s) \in Nat
  BY FS_Subset, FS_CardinalityType
<1>2. Missing = {}
  <2>1. SUFFICES ASSUME Missing # {} PROVE FALSE
    OBVIOUS
  <2>2. PICK n \in Missing : \A k \in Missing : n <= k
    <3>1. Missing \subseteq Nat
      OBVIOUS
    <3> HIDE DEF Missing
    <3> QED BY <2>1, <3>1, LeastNat
  <2>3. CASE n = 0
    <3> DEFINE g == [s \in SUBSET S |-> 0]
    <3>1. ASSUME NEW s \in SUBSET S, Cardinality(s) <= 0 PROVE s = {}
      <4>1. Cardinality(s) = 0
        BY <1>1, <3>1
      <4> QED BY <1>1, <4>1, FS_EmptySet
    <3>2. \A s \in SUBSET S : Cardinality(s) <= 0 => g[s] = SumStep(g, f, s)
      BY <3>1 DEF SumStep
    <3>3. Upto(g, n)
      BY <2>3, <3>2
    <3> QED BY <2>2, <3>3
  <2>4. CASE n # 0
    <3>1. n - 1 \in Nat /\ n - 1 \notin Missing /\ n \in Nat
      <4>1. n \in Nat
        BY <2>2
      <4> HIDE DEF Missing
      <4> QED BY <2>2, <2>4, <4>1
    <3>2. PICK h : Upto(h, n - 1)
      BY <3>1
    <3> DEFINE g == [s \in SUBSET S |-> SumStep(h, f, s)]
    <3>3. ASSUME NEW s \in SUBSET S PROVE SumStep(h, f, s) \in Nat
      <4>1. CASE s = {}
        BY <4>1 DEF SumStep
      <4>2. CASE s # {}
        <5> DEFINE x == CHOOSE x \in s : TRUE
        <5>1. x \in S /\ s \ {x} \in SUBSET S
          BY <4>2, FirstElement
        <5> HIDE DEF x
        <5>2. f[x] \in Nat /\ h[s \ {x}] \in Nat
          BY <3>2, <5>1
        <5>3. SumStep(h, f, s) = f[x] + h[s \ {x}]
          BY <4>2 DEF SumStep, x
        <5> QED BY <5>2, <5>3
      <4> QED BY <4>1, <4>2
    <3>4. ASSUME NEW s \in SUBSET S, Cardinality(s) <= n PROVE g[s] = SumStep(g, f, s)
      <4>1. CASE s = {}
        BY <4>1 DEF SumStep
      <4>2. CASE s # {}
        <5> DEFINE x == CHOOSE x \in s : TRUE
        <5>1. s \ {x} \in SUBSET S /\ Cardinality(s \ {x}) <= n - 1
          <6>1. /\ s \ {x} \in SUBSET S /\ Cardinality(s) \in Nat
                /\ Cardinality(s \ {x}) = Cardinality(s) - 1
            BY <4>2, FirstElement
          <6> QED BY <3>1, <3>4, <6>1
        <5> HIDE DEF x
        <5>2. h[s \ {x}] = SumStep(h, f, s \ {x})
          BY <3>2, <5>1
        <5>3. g[s \ {x}] = h[s \ {x}]
          BY <5>1, <5>2
        <5>4. g[s] = SumStep(h, f, s)
          OBVIOUS
        <5> HIDE DEF g
        <5>5. SumStep(h, f, s) = f[x] + h[s \ {x}] /\ SumStep(g, f, s) = f[x] + g[s \ {x}]
          BY <4>2 DEF SumStep, x
        <5> QED BY <5>3, <5>4, <5>5
      <4> QED BY <4>1, <4>2
    <3>5. g \in [SUBSET S -> Nat]
      BY <3>3
    <3> HIDE DEF g
    <3>6. Upto(g, n)
      BY <3>4, <3>5
    <3> QED BY <2>2, <3>6
  <2> QED BY <2>3, <2>4
<1>3. Cardinality(S) \in Nat
  BY FS_CardinalityType
<1>4. PICK g : Upto(g, Cardinality(S))
  BY <1>2, <1>3
<1>5. \A s \in SUBSET S : g[s] = SumStep(g, f, s)
  BY <1>4, FS_Subset
<1>6. g = [s \in SUBSET S |-> g[s]]
  BY <1>4
<1>7. g = [s \in SUBSET S |-> SumStep(g, f, s)]
  BY <1>5, <1>6
<1> QED BY <1>7 DEF Sums

\* e is a list that has each element of S once
Lists(e, m, S) ==
  /\ \A i, j \in 1..m : e[i] = e[j] => i = j
  /\ \A x \in S : \E i \in 1..m : e[i] = x

\* The elements of f at those of e[1], ..., e[m] that are in S, and 0 for the others
Picked(e, f, S, m) == [i \in 1..m |-> IF e[i] \in S THEN f[e[i]] ELSE 0]

\* It sums up any of the subsets: for every list e of them without repetitions,
\* the sum is the total of the elements of the list that are in the set.
LEMMA SumsAreTotals ==
  ASSUME NEW S, NEW f, Summable(f, S), NEW g, Sums(g, f, S),
         NEW m \in Nat, NEW e, Lists(e, m, S), NEW t, Totals(t, Picked(e, f, S, m), m)
  PROVE  g[S] = t[m]
<1> DEFINE Part(s) == Picked(e, f, s, m)
           Right(s) == \A u : Totals(u, Part(s), m) => g[s] = u[m]
           Wrong == {n \in Nat : \E s \in SUBSET S : Cardinality(s) = n /\ ~ Right(s)}
<1>0. /\ IsFiniteSet(S) /\ \A x \in S : f[x] \in Nat
      /\ \A i, j \in 1..m : e[i] = e[j] => i = j
      /\ \A x \in S : \E i \in 1..m : e[i] = x
  BY DEF Summable, Lists
<1>1. ASSUME NEW s \in SUBSET S PROVE \A i \in 1..m : Part(s)[i] \in Nat
  BY <1>0 DEF Picked
<1>2. \A s \in SUBSET S : Cardinality(s) \in Nat
  BY <1>0, FS_Subset, FS_CardinalityType
<1>3. ASSUME NEW s \in SUBSET S,
             \A r \in SUBSET S : Cardinality(r) < Cardinality(s) => Right(r),
             NEW u, Totals(u, Part(s), m)
      PROVE  g[s] = u[m]
  <2>1. g[s] = SumStep(g, f, s)
    BY DEF Sums
  <2>2. CASE s = {}
    <3>1. \A i \in 1..m : Part(s)[i] = 0
      BY <2>2 DEF Picked
    <3>2. u[m] = 0
      BY <1>3, <3>1, TotalsZero
    <3> QED BY <2>1, <2>2, <3>2 DEF SumStep
  <2>3. CASE s # {}
    <3> DEFINE x == CHOOSE x \in s : TRUE
               r == s \ {x}
    <3>1. /\ x \in s /\ x \in S /\ r \in SUBSET S
          /\ Cardinality(s) \in Nat /\ Cardinality(r) = Cardinality(s) - 1
      BY <1>0, <2>3, FirstElement
    <3>2. g[s] = f[x] + g[r]
      BY <2>1, <2>3 DEF SumStep
    <3> HIDE DEF x
    <3>3. PICK j \in 1..m : e[j] = x
      BY <1>0, <3>1
    <3>4. \A i \in 1..m : e[i] \in s <=> e[i] \in r \/ i = j
      BY <1>0, <3>1, <3>3
    <3>5. e[j] \notin r
      BY <3>3
    <3>6. \A i \in 1..m : Part(s)[i] = IF i = j THEN Part(r)[i] + f[x] ELSE Part(r)[i]
      BY <1>0, <3>1, <3>3, <3>4, <3>5 DEF Picked
    <3>7. Cardinality(r) < Cardinality(s) /\ f[x] \in Nat
      BY <1>0, <3>1
    <3> HIDE DEF r
    <3>8. \A i \in 1..m : Part(r)[i] \in Nat
      BY <1>1, <3>1
    <3>9. PICK w : Totals(w, Part(r), m)
      BY <3>8, TotalsExist
    <3>10. g[r] = w[m]
      BY <1>3, <3>1, <3>7, <3>9
    <3>11. u[m] = w[m] + f[x]
      <4>1. /\ Totals(u, Part(s), m)
            /\ \A i \in 1..m : Part(r)[i] \in Nat
                               /\ Part(s)[i] = IF i = j THEN Part(r)[i] + f[x] ELSE Part(r)[i]
        BY <1>3, <3>6, <3>8
      <4> HIDE DEF Part
      <4> QED BY <3>7, <3>9, <4>1, TotalsChanged
    <3>12. w[m] \in Nat
      BY <3>9 DEF Totals
    <3> QED BY <3>2, <3>7, <3>10, <3>11, <3>12
  <2> QED BY <2>2, <2>3
<1>4. Wrong = {}
  <2>1. SUFFICES ASSUME Wrong # {} PROVE FALSE
    OBVIOUS
  <2>2. PICK n \in Wrong : \A k \in Wrong : n <= k
    <3>1. Wrong \subseteq Nat
      OBVIOUS
    <3> HIDE DEF Wrong
    <3> QED BY <2>1, <3>1, LeastNat
  <2>3. PICK s \in SUBSET S : Cardinality(s) = n /\ ~ Right(s) /\ n \in Nat
    BY <2>2
  <2>4. ASSUME NEW r \in SUBSET S, Cardinality(r) < Cardinality(s) PROVE Right(r)
    <3>1. Cardinality(r) \in Nat /\ ~ (n <= Cardinality(r))
      BY <1>2, <2>3, <2>4
    <3>2. Cardinality(r) \notin Wrong
      <4> HIDE DEF Wrong
      <4> QED BY <2>2, <3>1
    <3> HIDE DEF Right
    <3> QED BY <3>1, <3>2
  <2> QED BY <1>3, <2>3, <2>4
<1>5. Right(S)
  BY <1>2, <1>4
<1> QED BY <1>5

\* The library's sum of a set of numbers is one of these sums.
LEMMA SumOfSet ==
  ASSUME NEW S, IsFiniteSet(S), S \subseteq Nat
  PROVE  \E g : Sums(g, [x \in S |-> x], S) /\ SumSet(S) = g[S]
<1> DEFINE id == [x \in S |-> x]
           h == CHOOSE g : g = [s \in SUBSET S |->
                    IF s = {} THEN 0 ELSE LET x == CHOOSE x \in s : TRUE IN x + g[s \ {x}]]
<1>1. SumSet(S) = h[S]
  BY DEF SumSet, FoldSet, MapThenFoldSet
<1>2. \A g : \A s \in SUBSET S :
        SumStep(g, id, s) =
          IF s = {} THEN 0 ELSE LET x == CHOOSE x \in s : TRUE IN x + g[s \ {x}]
  <2> TAKE g
  <2> TAKE s \in SUBSET S
  <2>1. CASE s = {}
    BY <2>1 DEF SumStep
  <2>2. CASE s # {}
    <3> DEFINE x == CHOOSE x \in s : TRUE
    <3>1. x \in S
      BY <2>2
    <3>2. id[x] = x
      BY <3>1
    <3> HIDE DEF id
    <3>3. SumStep(g, id, s) = id[x] + g[s \ {x}]
      BY <2>2 DEF SumStep
    <3> QED BY <2>2, <3>2, <3>3
  <2> QED BY <2>1, <2>2
<1>3. Summable(id, S)
  BY DEF Summable
<1> HIDE DEF id
<1>4. PICK k : Sums(k, id, S)
  BY <1>3, SumsExist
<1>5. k = [s \in SUBSET S |->
             IF s = {} THEN 0 ELSE LET x == CHOOSE x \in s : TRUE IN x + k[s \ {x}]]
  BY <1>2, <1>4 DEF Sums
<1>6. h = [s \in SUBSET S |->
             IF s = {} THEN 0 ELSE LET x == CHOOSE x \in s : TRUE IN x + h[s \ {x}]]
  BY <1>5
<1> HIDE DEF h
<1>7. Sums(h, id, S)
  BY <1>2, <1>6 DEF Sums
<1> QED BY <1>1, <1>7 DEF id

\* keys has, at some of the positions 1..m, the numbers of S, each once: e says what
\* it has there, and is outside S at the other positions.
Enumerates(keys, e, m, S) ==
  /\ m \in Nat /\ DOMAIN keys \subseteq 1..m
  /\ IsFiniteSet(S) /\ S \subseteq Nat /\ Lists(e, m, S)
  /\ \A i \in 1..m : i \in DOMAIN keys <=> e[i] \in S
  /\ \A i \in DOMAIN keys : keys[i] = e[i]

\* The running totals of a rounded sum
RoundedTotals(t, keys, m) ==
  /\ t \in [0..m -> Nat] /\ t[0] = 0
  /\ \A n \in 1..m : t[n] = IF n \in DOMAIN keys THEN ToDouble(t[n - 1] + ToDouble(keys[n]))
                            ELSE t[n - 1]

\* A rounded sum is the last of its running totals.
LEMMA RoundedTotalsExist ==
  ASSUME NEW m \in Nat, NEW keys, \A n \in DOMAIN keys : keys[n] \in Nat
  PROVE  \E t : RoundedTotals(t, keys, m) /\ RoundedSum(keys, m) = t[m]
<1> DEFINE Step(t, n) ==
             IF n = 0 THEN 0
             ELSE IF n \in DOMAIN keys THEN ToDouble(t[n - 1] + ToDouble(keys[n]))
             ELSE t[n - 1]
           total == CHOOSE t : t = [n \in 0..m |-> Step(t, n)]
           g == [x \in (1..m) \X Nat |->
                   IF x[1] \in DOMAIN keys THEN ToDouble(x[2] + ToDouble(keys[x[1]])) ELSE x[2]]
<1>1. RoundedSum(keys, m) = total[m]
  BY DEF RoundedSum
<1>2. g \in [(1..m) \X Nat -> Nat]
  <2>1. ASSUME NEW x \in (1..m) \X Nat, x[1] \in DOMAIN keys
        PROVE  ToDouble(x[2] + ToDouble(keys[x[1]])) \in Nat
    <3>1. x[2] \in Nat /\ ToDouble(keys[x[1]]) \in Nat
      BY <2>1, ToDoubleFacts
    <3>2. x[2] + ToDouble(keys[x[1]]) \in Nat
      BY <3>1
    <3> QED BY <3>2, ToDoubleFacts
  <2> QED BY <2>1
<1>3. PICK t : SolvesRecursion(t, m, Nat, 0, g)
  <2> HIDE DEF g
  <2>1. 0 \in Nat
    OBVIOUS
  <2> QED BY <1>2, <2>1, FiniteRecursion
<1>4. t \in [0..m -> Nat]
  BY <1>3 DEF SolvesRecursion
<1>5. ASSUME NEW n \in 0..m PROVE t[n] = Step(t, n)
  <2>1. CASE n = 0
    BY <1>3, <2>1 DEF SolvesRecursion
  <2>2. CASE n # 0
    <3>1. n \in 1..m /\ n - 1 \in 0..m
      BY <2>2
    <3>2. t[n - 1] \in Nat /\ t[n] = g[<<n, t[n - 1]>>]
      <4> HIDE DEF g
      <4> QED BY <1>3, <1>4, <3>1 DEF SolvesRecursion
    <3>3. g[<<n, t[n - 1]>>] =
            IF n \in DOMAIN keys THEN ToDouble(t[n - 1] + ToDouble(keys[n])) ELSE t[n - 1]
      BY <3>1, <3>2
    <3> QED BY <2>2, <3>2, <3>3
  <2> QED BY <2>1, <2>2
<1>6. t = [n \in 0..m |-> Step(t, n)]
  <2> HIDE DEF Step
  <2> QED BY <1>4, <1>5
<1>7. total = [n \in 0..m |-> Step(total, n)]
  <2> HIDE DEF Step
  <2> QED BY <1>6
<1> HIDE DEF total
<1>8. \A n \in 0..m : total[n] = Step(total, n)
  <2> HIDE DEF Step
  <2> QED BY <1>7
<1>9. \A n \in 0..m : total[n] = t[n]
  <2> DEFINE Wrong == {n \in 0..m : total[n] # t[n]}
  <2>1. SUFFICES ASSUME Wrong # {} PROVE FALSE
    OBVIOUS
  <2>2. PICK n \in Wrong : \A k \in Wrong : n <= k
    <3>1. Wrong \subseteq Nat
      OBVIOUS
    <3> HIDE DEF Wrong
    <3> QED BY <2>1, <3>1, LeastNat
  <2>3. n \in 0..m /\ total[n] = Step(total, n) /\ t[n] = Step(t, n) /\ total[n] # t[n]
    BY <1>5, <1>8, <2>2
  <2>4. n # 0
    BY <2>3
  <2>5. n - 1 \in 0..m /\ n - 1 \notin Wrong
    <3>1. n - 1 \in 0..m /\ ~ (n <= n - 1)
      BY <2>3, <2>4
    <3> HIDE DEF Wrong
    <3> QED BY <2>2, <3>1
  <2>6. total[n - 1] = t[n - 1]
    BY <2>5
  <2> QED BY <2>3, <2>4, <2>6
<1>10. RoundedTotals(t, keys, m)
  <2>1. \A n \in 1..m : n \in 0..m /\ n # 0
    OBVIOUS
  <2> QED BY <1>4, <1>5, <2>1 DEF RoundedTotals
<1> QED BY <1>1, <1>9, <1>10

\* While a sum is at most 2^Precision, nothing is rounded: it is the sum of the set
\* of the keys, in whatever order they are added.
LEMMA ExactSum ==
  ASSUME NEW keys, NEW e, NEW m, NEW S, Enumerates(keys, e, m, S),
         SumSet(S) <= Pow2[Precision]
  PROVE  RoundedSum(keys, m) = SumSet(S)
<1> DEFINE id == [x \in S |-> x]
           p == Picked(e, id, S, m)
           P == Pow2[Precision]
<1>0. /\ m \in Nat /\ DOMAIN keys \subseteq 1..m /\ S \subseteq Nat /\ IsFiniteSet(S)
      /\ Lists(e, m, S)
      /\ \A i \in 1..m : i \in DOMAIN keys <=> e[i] \in S
      /\ \A i \in DOMAIN keys : keys[i] = e[i]
  BY DEF Enumerates
<1>1. \A n \in 1..m : /\ p[n] \in Nat
                      /\ p[n] = IF n \in DOMAIN keys THEN keys[n] ELSE 0
  BY <1>0 DEF Picked
<1>2. PICK g : Sums(g, id, S) /\ SumSet(S) = g[S]
  BY <1>0, SumOfSet
<1>3. Summable(id, S)
  BY <1>0 DEF Summable
<1> HIDE DEF id
<1>4. PICK u : Totals(u, p, m)
  <2> HIDE DEF p
  <2> QED BY <1>0, <1>1, TotalsExist
<1>5. SumSet(S) = u[m]
  BY <1>0, <1>2, <1>3, <1>4, SumsAreTotals
<1> HIDE DEF p
<1>6. \A n \in DOMAIN keys : keys[n] \in Nat
  BY <1>0
<1>7. PICK t : RoundedTotals(t, keys, m) /\ RoundedSum(keys, m) = t[m]
  BY <1>0, <1>6, RoundedTotalsExist
<1>8. P \in Nat
  BY DoublesAssumption, Pow2Facts
<1> DEFINE Wrong == {n \in 0..m : u[n] <= P /\ t[n] # u[n]}
<1>9. Wrong = {}
  <2>1. SUFFICES ASSUME Wrong # {} PROVE FALSE
    OBVIOUS
  <2>2. PICK n \in Wrong : \A k \in Wrong : n <= k
    <3>1. Wrong \subseteq Nat
      OBVIOUS
    <3> HIDE DEF Wrong
    <3> QED BY <2>1, <3>1, LeastNat
  <2>3. n \in 0..m /\ u[n] <= P /\ t[n] # u[n]
    BY <2>2
  <2>4. n # 0
    BY <1>4, <1>7, <2>3 DEF Totals, RoundedTotals
  <2>5. n \in 1..m /\ n - 1 \in 0..m /\ ~ (n <= n - 1)
    BY <1>0, <2>3, <2>4
  <2>6. /\ u[n] = u[n - 1] + p[n] /\ u[n - 1] \in Nat /\ p[n] \in Nat
        /\ t[n] = IF n \in DOMAIN keys THEN ToDouble(t[n - 1] + ToDouble(keys[n])) ELSE t[n - 1]
    BY <1>1, <1>4, <1>7, <2>5 DEF Totals, RoundedTotals
  <2>7. t[n - 1] = u[n - 1]
    <3>1. n - 1 \notin Wrong
      <4> HIDE DEF Wrong
      <4> QED BY <2>2, <2>5
    <3>2. u[n - 1] <= P
      BY <1>8, <2>3, <2>6
    <3> QED BY <2>5, <3>1, <3>2
  <2>8. CASE n \in DOMAIN keys
    <3>1. p[n] = keys[n] /\ keys[n] <= P /\ keys[n] \in Nat
      BY <1>1, <1>8, <2>3, <2>5, <2>6, <2>8
    <3>2. ToDouble(keys[n]) = keys[n]
      BY <3>1, SmallAreDoubles
    <3>3. ToDouble(u[n]) = u[n]
      BY <2>3, <2>6, SmallAreDoubles
    <3> QED BY <2>3, <2>6, <2>7, <2>8, <3>1, <3>2, <3>3
  <2>9. CASE n \notin DOMAIN keys
    BY <1>1, <2>3, <2>5, <2>6, <2>7, <2>9
  <2> QED BY <2>8, <2>9
<1>10. m \in 0..m /\ u[m] <= P
  BY <1>0, <1>5
<1> QED BY <1>5, <1>7, <1>9, <1>10

\* The number of elements of a set that a list has once each.
LEMMA ListLength ==
  ASSUME NEW S, NEW m \in Nat, NEW e \in [1..m -> S], Lists(e, m, S)
  PROVE  Cardinality(S) = m
<1>1. e \in Bijection(1..m, S)
  BY DEF Lists, Bijection, Injection, Surjection, IsInjective
<1>2. ExistsBijection(1..m, S)
  BY <1>1 DEF ExistsBijection
<1> QED BY <1>2, FS_CountingElements

\* Adding the numbers of a set at the positions that have one is adding them in
\* some order.
LEMMA SomeOrder ==
  ASSUME NEW keys, NEW e, NEW m, NEW S, Enumerates(keys, e, m, S)
  PROVE  \E list \in Orders(S) : RoundedSum(keys, m) = RoundedSum(list, Cardinality(S))
<1>0. /\ m \in Nat /\ DOMAIN keys \subseteq 1..m /\ S \subseteq Nat
      /\ \A i, j \in 1..m : e[i] = e[j] => i = j
      /\ \A x \in S : \E i \in 1..m : e[i] = x
      /\ \A i \in 1..m : i \in DOMAIN keys <=> e[i] \in S
      /\ \A i \in DOMAIN keys : keys[i] = e[i]
  BY DEF Enumerates, Lists
<1>1. \A n \in DOMAIN keys : keys[n] \in S /\ keys[n] \in Nat
  BY <1>0
<1>2. PICK t : RoundedTotals(t, keys, m) /\ RoundedSum(keys, m) = t[m]
  BY <1>0, <1>1, RoundedTotalsExist
<1>3. /\ t \in [0..m -> Nat] /\ t[0] = 0
      /\ \A n \in 1..m : t[n] = IF n \in DOMAIN keys THEN ToDouble(t[n - 1] + ToDouble(keys[n]))
                                ELSE t[n - 1]
  BY <1>2 DEF RoundedTotals
<1> DEFINE KeysTo(n) == {keys[i] : i \in {i \in DOMAIN keys : i <= n}}
           Packs(n, r, list) ==
             /\ list \in [1..r -> S]
             /\ \A i, j \in 1..r : list[i] = list[j] => i = j
             /\ \A i \in 1..r : list[i] \in KeysTo(n)
             /\ \A x \in KeysTo(n) : \E i \in 1..r : list[i] = x
             /\ \A u : RoundedTotals(u, list, r) => u[r] = t[n]
           Packed(n) == \E r \in Nat : \E list : Packs(n, r, list)
           Wrong == {n \in 0..m : ~ Packed(n)}
<1>4. Wrong = {}
  <2>1. SUFFICES ASSUME Wrong # {} PROVE FALSE
    OBVIOUS
  <2>2. PICK n \in Wrong : \A k \in Wrong : n <= k
    <3>1. Wrong \subseteq Nat
      OBVIOUS
    <3> HIDE DEF Wrong
    <3> QED BY <2>1, <3>1, LeastNat
  <2>3. n \in 0..m /\ ~ Packed(n)
    BY <2>2
  <2>4. ASSUME n = 0 PROVE Packed(n)
    <3> DEFINE list == [i \in 1..0 |-> 0]
    <3>1. KeysTo(n) = {}
      <4>1. \A i \in DOMAIN keys : ~ (i <= 0)
        BY <1>0
      <4> QED BY <2>4, <4>1
    <3>2. \A u : RoundedTotals(u, list, 0) => u[0] = t[n]
      BY <1>3, <2>4 DEF RoundedTotals
    <3>3. list \in [1..0 -> S] /\ 1..0 = {}
      OBVIOUS
    <3> HIDE DEF list, KeysTo
    <3>4. Packs(n, 0, list)
      BY <3>1, <3>2, <3>3
    <3> QED BY <3>4
  <2>5. n \in 1..m /\ n - 1 \in 0..m /\ ~ (n <= n - 1) /\ n \in Nat
    <3>1. n # 0
      BY <2>3, <2>4
    <3> QED BY <1>0, <2>3, <3>1
  <2>6. Packed(n - 1)
    <3> HIDE DEF Packed
    <3>1. n - 1 \notin Wrong
      <4> HIDE DEF Wrong
      <4> QED BY <2>2, <2>5
    <3> QED BY <2>5, <3>1
  <2>7. PICK r \in Nat : \E list : Packs(n - 1, r, list)
    BY <2>6
  <2>8. PICK list : Packs(n - 1, r, list)
    BY <2>7
  <2>9. \A i \in DOMAIN keys : i <= n <=> i <= n - 1 \/ i = n
    BY <1>0, <2>5
  <2>10. CASE n \notin DOMAIN keys
    <3>1. KeysTo(n) = KeysTo(n - 1)
      BY <2>9, <2>10
    <3>2. t[n] = t[n - 1]
      BY <1>3, <2>5, <2>10
    <3> HIDE DEF KeysTo
    <3>3. Packs(n, r, list)
      BY <2>8, <3>1, <3>2
    <3> QED BY <2>3, <3>3
  <2>11. CASE n \in DOMAIN keys
    <3> DEFINE q == [i \in 1..(r + 1) |-> IF i = r + 1 THEN keys[n] ELSE list[i]]
    <3>1. KeysTo(n) = KeysTo(n - 1) \cup {keys[n]}
      BY <2>9, <2>11
    <3>2. keys[n] \notin KeysTo(n - 1)
      <4>1. \A i \in DOMAIN keys : i <= n - 1 => keys[i] # keys[n]
        BY <1>0, <2>5, <2>11
      <4> QED BY <4>1
    <3>3. t[n] = ToDouble(t[n - 1] + ToDouble(keys[n]))
      BY <1>3, <2>5, <2>11
    <3>4. keys[n] \in S
      BY <1>1, <2>11
    <3> HIDE DEF KeysTo
    <3>5. /\ list \in [1..r -> S]
          /\ \A i, j \in 1..r : list[i] = list[j] => i = j
          /\ \A i \in 1..r : list[i] \in KeysTo(n - 1)
          /\ \A x \in KeysTo(n - 1) : \E i \in 1..r : list[i] = x
          /\ \A u : RoundedTotals(u, list, r) => u[r] = t[n - 1]
      BY <2>8
    <3>6. /\ r + 1 \in 1..(r + 1) /\ r + 1 \in Nat
          /\ \A i \in 1..(r + 1) : i # r + 1 => i \in 1..r
          /\ \A i \in 1..r : i \in 1..(r + 1) /\ i # r + 1
      OBVIOUS
    <3>7. q[r + 1] = keys[n] /\ \A i \in 1..r : q[i] = list[i]
      BY <3>6
    <3>8. q \in [1..(r + 1) -> S]
      BY <3>4, <3>5, <3>6
    <3> HIDE DEF q
    <3>9. \A i, j \in 1..(r + 1) : q[i] = q[j] => i = j
      BY <3>2, <3>5, <3>6, <3>7
    <3>10. /\ \A i \in 1..(r + 1) : q[i] \in KeysTo(n)
           /\ \A x \in KeysTo(n) : \E i \in 1..(r + 1) : q[i] = x
      BY <3>1, <3>5, <3>6, <3>7
    <3>11. ASSUME NEW u, RoundedTotals(u, q, r + 1) PROVE u[r + 1] = t[n]
      <4>1. /\ u \in [0..(r + 1) -> Nat] /\ u[0] = 0 /\ DOMAIN q = 1..(r + 1)
            /\ \A i \in 1..(r + 1) : u[i] = ToDouble(u[i - 1] + ToDouble(q[i]))
        BY <3>8, <3>11 DEF RoundedTotals
      <4> DEFINE v == [i \in 0..r |-> u[i]]
      <4>2. RoundedTotals(v, list, r)
        <5>1. \A i \in 0..r : i \in 0..(r + 1)
          OBVIOUS
        <5>2. v \in [0..r -> Nat] /\ v[0] = 0
          BY <4>1, <5>1
        <5>3. ASSUME NEW i \in 1..r PROVE v[i] = ToDouble(v[i - 1] + ToDouble(list[i]))
          <6>1. i \in 0..r /\ i - 1 \in 0..r /\ i \in 1..(r + 1)
            OBVIOUS
          <6>2. v[i] = u[i] /\ v[i - 1] = u[i - 1]
            BY <6>1
          <6> QED BY <3>7, <4>1, <6>1, <6>2
        <5> HIDE DEF v
        <5> QED BY <3>5, <5>2, <5>3 DEF RoundedTotals
      <4>3. v[r] = t[n - 1] /\ v[r] = u[r]
        <5>1. v[r] = u[r]
          OBVIOUS
        <5> HIDE DEF v
        <5> QED BY <3>5, <4>2, <5>1
      <4>4. u[r + 1] = ToDouble(u[r + 1 - 1] + ToDouble(q[r + 1])) /\ r + 1 - 1 = r
        BY <3>6, <4>1
      <4> QED BY <3>3, <3>7, <4>3, <4>4
    <3>12. Packs(n, r + 1, q)
      BY <3>8, <3>9, <3>10, <3>11
    <3> HIDE DEF Packs
    <3> QED BY <2>3, <3>6, <3>12
  <2> QED BY <2>10, <2>11
<1>5. PICK r \in Nat : \E list : Packs(m, r, list)
  <2>1. m \in 0..m
    BY <1>0
  <2> HIDE DEF Packs
  <2> QED BY <1>4, <2>1
<1>6. PICK list : Packs(m, r, list)
  BY <1>5
<1>7. KeysTo(m) = S
  <2>1. ASSUME NEW x \in S PROVE x \in KeysTo(m)
    <3>1. PICK i \in 1..m : e[i] = x
      BY <1>0
    <3>2. i \in DOMAIN keys /\ keys[i] = x /\ i <= m
      BY <1>0, <3>1
    <3> QED BY <3>2
  <2>2. ASSUME NEW x \in KeysTo(m) PROVE x \in S
    BY <1>1
  <2> QED BY <2>1, <2>2
<1> HIDE DEF KeysTo
<1>8. list \in [1..r -> S] /\ Lists(list, r, S) /\ \A u : RoundedTotals(u, list, r) => u[r] = t[m]
  BY <1>6, <1>7 DEF Lists
<1> HIDE DEF Packs
<1>9. Cardinality(S) = r
  BY <1>8, ListLength
<1>10. list \in Orders(S)
  BY <1>8, <1>9 DEF Orders, Lists
<1>11. \A n \in DOMAIN list : list[n] \in Nat
  BY <1>0, <1>8
<1>12. RoundedSum(list, r) = t[m]
  BY <1>8, <1>11, RoundedTotalsExist
<1> QED BY <1>2, <1>9, <1>10, <1>12

-----------------------------------------------------------------------------
(* Sums of keys *)

\* The chain lists the workers, so the keys of those that hold a record are
\* summed up once each.
LEMMA ChainSum ==
  ASSUME Inv, Pooled, Ordered
  PROVE  /\ \E list \in Orders(Live) : SumKeys = RoundedSum(list, Cardinality(Live))
         /\ SumSet(Live) <= Pow2[Precision] => SumKeys = SumSet(Live)
<1>1. PICK o : Threaded(heap, head, tail, o)
  BY DEF Ordered
<1> DEFINE L == Len(heap)
           walk == WalkFrom(head)
           I == {n \in DOMAIN walk : HasData(walk[n])}
           f == [n \in I |-> pool[heap[walk[n]].data]]
           e == [n \in 1..L |-> heap[o[n]].id]
<1>2. /\ L \in Nat /\ o \in [1..L -> DOMAIN heap]
      /\ \A a \in DOMAIN heap : \E i \in 1..L : o[i] = a
      /\ \A i, j \in 1..L : o[i] = o[j] => i = j
  BY <1>1, CellFacts DEF Threaded
<1>3. walk = o
  BY <1>1, WalkFromHead
<1>4. SumKeys = RoundedSum(f, Len(walk))
  BY DEF SumKeys
<1>14. Len(walk) = L
  BY <1>2, <1>3
<1>15. DOMAIN f = I
  OBVIOUS
<1> HIDE DEF walk
<1>5. DOMAIN walk = 1..L /\ \A n \in 1..L : walk[n] = o[n] /\ o[n] \in DOMAIN heap
  BY <1>2, <1>3
<1>6. I \subseteq 1..L
  BY <1>5
<1>7. \A n \in I : f[n] = e[n]
  BY <1>5, LiveFacts DEF HasData
<1>8. Lists(e, L, Live)
  <2>1. \A i, j \in 1..L : e[i] = e[j] => i = j
    <3> SUFFICES ASSUME NEW i \in 1..L, NEW j \in 1..L, e[i] = e[j] PROVE i = j
      OBVIOUS
    <3>1. o[i] = o[j]
      BY <1>5, WorkersFound
    <3> QED BY <1>2, <3>1
  <2>2. \A x \in Live : \E i \in 1..L : e[i] = x
    <3> SUFFICES ASSUME NEW x \in Live PROVE \E i \in 1..L : e[i] = x
      OBVIOUS
    <3>1. PICK a \in DOMAIN heap : heap[a].id = x
      BY LiveFacts
    <3>2. PICK i \in 1..L : o[i] = a
      BY <1>2
    <3> QED BY <3>1, <3>2
  <2> QED BY <2>1, <2>2 DEF Lists
<1>9. \A n \in 1..L : n \in I <=> e[n] \in Live
  <2> SUFFICES ASSUME NEW n \in 1..L PROVE n \in I <=> e[n] \in Live
    OBVIOUS
  <2>1. o[n] \in DOMAIN heap /\ e[n] = heap[o[n]].id
    BY <1>5
  <2>2. n \in I <=> heap[o[n]].data # Null
    BY <1>5 DEF HasData
  <2>3. heap[o[n]].data # Null => e[n] \in Live
    BY <2>1, LiveFacts
  <2>4. e[n] \in Live => heap[o[n]].data # Null
    BY <2>1, LiveIs DEF Live
  <2> QED BY <2>2, <2>3, <2>4
<1>10. Live \subseteq Nat /\ IsFiniteSet(Live)
  BY LiveFacts, LiveFinite
<1>11. L \in Nat
  BY <1>2
<1> HIDE DEF I, f
<1>12. Enumerates(f, e, L, Live)
  BY <1>6, <1>7, <1>8, <1>9, <1>10, <1>11, <1>15 DEF Enumerates
<1> HIDE DEF L, e
<1>13. /\ \E list \in Orders(Live) : RoundedSum(f, L) = RoundedSum(list, Cardinality(Live))
       /\ SumSet(Live) <= Pow2[Precision] => RoundedSum(f, L) = SumSet(Live)
  BY <1>12, SomeOrder, ExactSum
<1> QED BY <1>4, <1>13, <1>14

(* sum() adds the key of each live record once, in some order and rounded  *)
(* at each step, whatever was updated or removed and also where the chain  *)
(* is out of order.  While the sum of the live keys is at most 2^Precision *)
(* it is exact, and avg() is their mean, rounded once, whenever count() is *)
(* their number (SumIsLive).                                               *)
THEOREM SumCorrect == StorageSpec => []SumIsLive
<1>1. Inv /\ Pooled /\ Ordered => SumIsLive
  <2> SUFFICES ASSUME Inv, Pooled, Ordered PROVE SumIsLive
    OBVIOUS
  <2>1. Cardinality(Live) = 0 <=> Live = {}
    BY LiveFinite, FS_EmptySet
  <2>2. SumKeys = SumSet(Live) /\ Count = Cardinality(Live) =>
          Avg = IF Live = {} THEN <<0, 1>> ELSE Quotient(SumSet(Live), Cardinality(Live))
    BY <2>1 DEF Avg
  <2> QED BY <2>2, ChainSum DEF SumIsLive
<1> QED BY <1>1, KeepsPooled, KeepsOrder, StorageIsIndexed, Correct, PTL

-----------------------------------------------------------------------------
(* Ranges *)

\* What a range lookup returns when no record of the range was removed: the
\* live records of the range, in the order of their keys.
LEMMA RangeOfLive ==
  ASSUME Inv, Pooled, Ordered, NEW start \in Keys, NEW end \in Keys,
         CoveredBetween(start, end), \A k \in Deleted : k < start \/ end < k
  PROVE  LET results == Results(start, end)
         IN  \E s \in Nat :
               /\ results = [n \in 1..s |-> results[n]] /\ DOMAIN results = 1..s /\ Len(results) = s
               /\ \A n \in 1..s : /\ results[n] # Null
                                  /\ pool[results[n]] \in LiveIn(start, end)
               /\ Lists([n \in 1..s |-> pool[results[n]]], s, LiveIn(start, end))
               /\ \A m, n \in 1..s : m < n => pool[results[m]] < pool[results[n]]
<1> DEFINE walk == RangeWalk(start, end)
           results == Results(start, end)
<1>1. start \in Nat /\ end \in Nat
  BY TableConstants
<1>2. PICK s \in Nat :
        /\ walk \in [1..s -> DOMAIN heap]
        /\ \A m, n \in 1..s : m < n => heap[walk[m]].id < heap[walk[n]].id
        /\ \A a \in DOMAIN heap :
             start <= heap[a].id /\ heap[a].id <= end <=> \E n \in 1..s : walk[n] = a
  BY <1>1, RangeWalkFacts
<1>3. results = [n \in DOMAIN walk |-> heap[walk[n]].data]
  BY DEF Results, RangeLookup, DataOf
<1> HIDE DEF walk, results
<1>4. /\ DOMAIN results = 1..s /\ results = [n \in 1..s |-> results[n]]
      /\ \A n \in 1..s : walk[n] \in DOMAIN heap /\ results[n] = heap[walk[n]].data
  BY <1>2, <1>3
<1>5. Len(results) = s
  <2>1. results \in Seq(Values \cup {Null}) /\ Len(results) = s
    <3>1. \A n \in 1..s : results[n] \in Values \cup {Null}
      BY <1>4, WorkersFound
    <3>2. results = [n \in DOMAIN results |-> results[n]]
      BY <1>4
    <3> QED BY <1>4, <3>1, <3>2, SequenceByDomain
  <2> QED BY <2>1
<1>6. ASSUME NEW n \in 1..s
      PROVE  /\ results[n] # Null /\ pool[results[n]] = heap[walk[n]].id
             /\ pool[results[n]] \in LiveIn(start, end)
  <2> DEFINE a == walk[n]
  <2>1. /\ a \in DOMAIN heap /\ results[n] = heap[a].data
        /\ start <= heap[a].id /\ heap[a].id <= end
    BY <1>2, <1>4
  <2> HIDE DEF a
  <2>2. heap[a].id \in Present /\ heap[a].id \in Nat
    BY <2>1, WorkersFound
  <2>3. heap[a].id \in Live
    BY <1>1, <2>1, <2>2 DEF Deleted
  <2>4. heap[a].data # Null
    BY <2>1, <2>3, LiveIs DEF Live
  <2>5. pool[heap[a].data] = heap[a].id
    BY <2>1, <2>4, LiveFacts
  <2> QED BY <2>1, <2>3, <2>4, <2>5 DEF LiveIn, a
<1>9. \A m, n \in 1..s : m < n => pool[results[m]] < pool[results[n]]
  BY <1>2, <1>6
<1> DEFINE e == [n \in 1..s |-> pool[results[n]]]
<1>7. \A n \in 1..s : e[n] = heap[walk[n]].id
  BY <1>6
<1> HIDE DEF e
<1>8. Lists(e, s, LiveIn(start, end))
  <2>1. ASSUME NEW i \in 1..s, NEW j \in 1..s, e[i] = e[j] PROVE i = j
    <3>1. e[i] \in Nat /\ e[j] \in Nat
      BY <1>4, <1>7, CellFacts
    <3>2. ~ (i < j) /\ ~ (j < i)
      BY <1>2, <1>7, <2>1, <3>1
    <3> QED BY <3>2
  <2>2. ASSUME NEW x \in LiveIn(start, end) PROVE \E i \in 1..s : e[i] = x
    <3>1. x \in Live /\ start <= x /\ x <= end
      BY DEF LiveIn
    <3>2. PICK a \in DOMAIN heap : heap[a].id = x
      BY <3>1, LiveFacts
    <3>3. PICK i \in 1..s : walk[i] = a
      BY <1>2, <3>1, <3>2
    <3> QED BY <1>7, <3>2, <3>3
  <2> QED BY <2>1, <2>2 DEF Lists
<1> QED BY <1>4, <1>5, <1>6, <1>8, <1>9 DEF e, results

\* There is one list of a set of numbers in their order.
LEMMA AscendingUnique ==
  ASSUME NEW S, S \subseteq Nat, NEW m \in Nat, NEW e \in [1..m -> S], Lists(e, m, S),
         \A i, j \in 1..m : i < j => e[i] < e[j]
  PROVE  Ascending(S) = e /\ Cardinality(S) = m
<1>1. Cardinality(S) = m
  BY ListLength
<1> DEFINE Good(l) == /\ \A x \in S : \E n \in DOMAIN l : l[n] = x
                      /\ \A i, j \in DOMAIN l : i < j => l[i] < l[j]
           a == CHOOSE l \in Orders(S) : \A i, j \in DOMAIN l : i < j => l[i] < l[j]
<1>2. Ascending(S) = a /\ \A l \in Orders(S) : l \in [1..m -> S]
  BY <1>1 DEF Ascending, Orders
<1>3. e \in Orders(S) /\ \A i, j \in DOMAIN e : i < j => e[i] < e[j]
  BY <1>1 DEF Lists, Orders
<1>4. a \in [1..m -> S] /\ Good(a)
  <2>1. a \in Orders(S) /\ \A i, j \in DOMAIN a : i < j => a[i] < a[j]
    BY <1>3
  <2> HIDE DEF a
  <2> QED BY <1>2, <2>1 DEF Orders
<1> HIDE DEF Good
<1> HIDE DEF a
<1>5. \A i \in 1..m : a[i] \in Nat /\ e[i] \in Nat /\ a[i] \in S /\ e[i] \in S
  BY <1>4
<1>6. /\ \A x \in S : \E n \in 1..m : a[n] = x
      /\ \A x \in S : \E n \in 1..m : e[n] = x
  BY <1>4 DEF Good, Lists
<1>7. /\ \A i, j \in 1..m : i < j => a[i] < a[j]
      /\ \A i, j \in 1..m : i < j => e[i] < e[j]
  BY <1>4 DEF Good
<1> DEFINE Wrong == {n \in 1..m : a[n] # e[n]}
<1>8. Wrong = {}
  <2>1. SUFFICES ASSUME Wrong # {} PROVE FALSE
    OBVIOUS
  <2>2. PICK n \in Wrong : \A k \in Wrong : n <= k
    <3>1. Wrong \subseteq Nat
      OBVIOUS
    <3> HIDE DEF Wrong
    <3> QED BY <2>1, <3>1, LeastNat
  <2>3. n \in 1..m /\ a[n] # e[n]
    BY <2>2
  <2>4. ASSUME NEW k \in 1..m, k < n PROVE a[k] = e[k]
    <3>1. ~ (n <= k)
      BY <2>3, <2>4
    <3>2. k \notin Wrong
      <4> HIDE DEF Wrong
      <4> QED BY <2>2, <3>1
    <3> QED BY <3>2
  <2> HIDE DEF Wrong
  <2>5. CASE a[n] < e[n]
    <3>1. PICK k \in 1..m : e[k] = a[n]
      BY <1>5, <1>6, <2>3
    <3>2. e[k] < e[n] /\ e[k] \in Nat /\ e[n] \in Nat /\ k \in Nat /\ n \in Nat
      BY <1>5, <2>3, <2>5, <3>1
    <3>3. ~ (n < k)
      BY <1>7, <2>3, <3>2
    <3>4. k < n
      BY <3>2, <3>3
    <3>5. a[k] = e[k] /\ a[k] < a[n] /\ e[k] < e[n]
      BY <1>7, <2>3, <2>4, <3>4
    <3> QED BY <1>5, <2>3, <3>1, <3>5
  <2>6. CASE e[n] < a[n]
    <3>1. PICK k \in 1..m : a[k] = e[n]
      BY <1>5, <1>6, <2>3
    <3>2. a[k] < a[n] /\ a[k] \in Nat /\ a[n] \in Nat /\ k \in Nat /\ n \in Nat
      BY <1>5, <2>3, <2>6, <3>1
    <3>3. ~ (n < k)
      BY <1>7, <2>3, <3>2
    <3>4. k < n
      BY <3>2, <3>3
    <3>5. a[k] = e[k] /\ a[k] < a[n] /\ e[k] < e[n]
      BY <1>7, <2>3, <2>4, <3>4
    <3> QED BY <1>5, <2>3, <3>1, <3>5
  <2> QED BY <1>5, <2>3, <2>5, <2>6
<1>9. a = e
  BY <1>4, <1>8
<1> QED BY <1>1, <1>2, <1>9

(* The aggregates over a range in which no record was removed are those of *)
(* its live records (RangesExact) while the prefix tree covers the keys of *)
(* the range, whether or not its ends are keys and whatever keys are       *)
(* outside: the count of the records, their extremes as doubles, and their *)
(* sum as it is rounded when the keys are added in their order, exact up   *)
(* to 2^Precision.                                                         *)
THEOREM RangesCorrect == StorageSpec => []RangesExact
<1>1. ASSUME Inv, Pooled, Ordered, NEW start \in Keys, NEW end \in Keys,
             CoveredBetween(start, end), \A k \in Deleted : k < start \/ end < k
      PROVE  LET results == Results(start, end)
                 live == LiveIn(start, end)
             IN  /\ Dereferenced(results)
                 /\ CountRange(results) = Cardinality(live)
                 /\ SumRange(results) = AscendingSum(live)
                 /\ SumSet(live) <= Pow2[Precision] => SumRange(results) = SumSet(live)
                 /\ live # {} =>
                      /\ MinRange(results) = ToDouble(Min(live))
                      /\ MaxRange(results) = ToDouble(Max(live))
                      /\ AvgRange(results) = Quotient(AscendingSum(live), Cardinality(live))
  <2> DEFINE results == Results(start, end)
             live == LiveIn(start, end)
  <2>1. PICK s \in Nat :
          /\ DOMAIN results = 1..s /\ Len(results) = s
          /\ \A n \in 1..s : results[n] # Null /\ pool[results[n]] \in live
          /\ Lists([n \in 1..s |-> pool[results[n]]], s, live)
          /\ \A m, n \in 1..s : m < n => pool[results[m]] < pool[results[n]]
    BY <1>1, RangeOfLive
  <2>2. live \subseteq Nat /\ IsFiniteSet(live) /\ end \in Nat /\ \A x \in live : x <= end
    <3>1. live \in SUBSET Live /\ \A x \in live : x <= end
      BY DEF LiveIn
    <3>2. end \in Nat
      BY TableConstants
    <3> HIDE DEF live
    <3> QED BY <1>1, <3>1, <3>2, LiveFacts, LiveFinite, FS_Subset
  <2> HIDE DEF results, live
  <2> DEFINE e == [n \in 1..s |-> pool[results[n]]]
  <2>3. e \in [1..s -> live] /\ e = [n \in DOMAIN results |-> pool[results[n]]]
    BY <2>1
  <2>4. Ascending(live) = e /\ Cardinality(live) = s
    <3>1. \A m, n \in 1..s : m < n => e[m] < e[n]
      BY <2>1
    <3>2. Lists(e, s, live)
      BY <2>1
    <3> HIDE DEF e
    <3> QED BY <2>2, <2>3, <3>1, <3>2, AscendingUnique
  <2>5. /\ SumRange(results) = AscendingSum(live)
        /\ SumSet(live) <= Pow2[Precision] => SumRange(results) = SumSet(live)
    <3>1. SumRange(results) = RoundedSum(e, s)
      BY <2>1, <2>3 DEF SumRange
    <3>2. \A i \in 1..s : e[i] \in live
      BY <2>3
    <3>3. Lists(e, s, live) /\ DOMAIN e = 1..s
      BY <2>1
    <3> HIDE DEF e
    <3>4. Enumerates(e, e, s, live)
      BY <2>2, <3>2, <3>3 DEF Enumerates
    <3>5. SumSet(live) <= Pow2[Precision] => RoundedSum(e, s) = SumSet(live)
      BY <3>4, ExactSum
    <3> QED BY <2>4, <3>1, <3>5 DEF AscendingSum
  <2>6. KeysOf(results) = live
    BY <2>1 DEF KeysOf, Lists
  <2>7. live # {} => results # <<>>
    BY <2>1, <2>6 DEF KeysOf
  <2>8. Dereferenced(results) /\ CountRange(results) = Cardinality(live)
    BY <2>1, <2>4 DEF Dereferenced, CountRange
  <2>9. live # {} => AvgRange(results) = Quotient(AscendingSum(live), Cardinality(live))
    BY <2>1, <2>4, <2>5, <2>7 DEF AvgRange
  <2>10. live # {} => /\ MinRange(results) = ToDouble(Min(live))
                      /\ MaxRange(results) = ToDouble(Max(live))
    BY <2>2, <2>6, DoubleExtremes DEF MinRange, MaxRange
  <2> QED BY <2>5, <2>8, <2>9, <2>10 DEF results, live
<1>2. Inv /\ Pooled /\ Ordered => RangesExact
  BY <1>1 DEF RangesExact
<1> QED BY <1>2, KeepsPooled, KeepsOrder, StorageIsIndexed, Correct, PTL

-----------------------------------------------------------------------------
(* The typed interface: strings *)

Strings == Seq(0..MaxByte)

\* Sequences, as functions
LEMMA SequenceFacts ==
  ASSUME NEW X, NEW s \in Seq(X)
  PROVE  Len(s) \in Nat /\ DOMAIN s = 1..Len(s) /\ \A i \in DOMAIN s : s[i] \in X
OBVIOUS

\* The bytes of strings, read past their ends too
LEMMA ByteFacts ==
  /\ Pow2[ByteBits] \in Nat \ {0} /\ MaxByte \in Nat /\ MaxByte = Pow2[ByteBits] - 1
  /\ MaxBytes \in Nat \ {0}
  /\ \A s \in Strings : \A n \in Nat \ {0} :
       ByteAt(s, n) \in 0..MaxByte /\ (n > Len(s) => ByteAt(s, n) = 0)
<1>1. Pow2[ByteBits] \in Nat \ {0} /\ MaxBytes \in Nat \ {0} /\ MaxByte = Pow2[ByteBits] - 1
  BY KCAssumption, Pow2Facts DEF MaxByte
<1>2. MaxByte \in Nat
  BY <1>1
<1>3. ASSUME NEW s \in Strings, NEW n \in Nat \ {0}
      PROVE  ByteAt(s, n) \in 0..MaxByte /\ (n > Len(s) => ByteAt(s, n) = 0)
  <2>1. Len(s) \in Nat /\ DOMAIN s = 1..Len(s) /\ \A i \in DOMAIN s : s[i] \in 0..MaxByte
    BY SequenceFacts DEF Strings
  <2>2. CASE n <= Len(s)
    <3>1. n \in DOMAIN s
      BY <2>1, <2>2
    <3> QED BY <2>1, <2>2, <3>1 DEF ByteAt
  <2>3. CASE ~ (n <= Len(s))
    <3>1. 0 \in 0..MaxByte
      BY <1>2
    <3> QED BY <2>3, <3>1 DEF ByteAt
  <2> QED BY <2>1, <2>2, <2>3
<1> QED BY <1>1, <1>2, <1>3

\* c[n] is the number that the first n bytes of s make.
Codes(s, c) ==
  /\ c \in [0..MaxBytes -> Nat] /\ c[0] = 0
  /\ \A n \in 1..MaxBytes : c[n] = c[n - 1] * Pow2[ByteBits] + ByteAt(s, n)

\* The conversion computes it.
LEMMA StringCodes ==
  ASSUME NEW s \in Strings
  PROVE  \E c : Codes(s, c) /\ StringToIntLex(s) = c[MaxBytes]
<1> DEFINE M == MaxBytes
           P == Pow2[ByteBits]
           Step(f, n) == IF n = 0 THEN 0 ELSE Shl(f[n - 1], ByteBits) + ByteAt(s, n)
           int == CHOOSE f : f = [n \in 0..M |-> Step(f, n)]
           g == [x \in (1..M) \X Nat |-> x[2] * P + ByteAt(s, x[1])]
<1>1. P \in Nat \ {0} /\ M \in Nat /\ \A n \in 1..M : ByteAt(s, n) \in Nat
  <2>1. \A n \in 1..M : n \in Nat \ {0}
    BY ByteFacts
  <2>2. \A n \in 1..M : ByteAt(s, n) \in 0..MaxByte
    BY <2>1, ByteFacts
  <2> QED BY <2>2, ByteFacts
<1>2. StringToIntLex(s) = int[M]
  BY DEF StringToIntLex
<1> HIDE DEF M, P
<1>3. \E f : f = [n \in 0..M |-> Step(f, n)]
  <2>1. g \in [(1..M) \X Nat -> Nat]
    <3>1. ASSUME NEW x \in (1..M) \X Nat PROVE x[2] * P + ByteAt(s, x[1]) \in Nat
      <4>1. x[2] \in Nat /\ ByteAt(s, x[1]) \in Nat
        BY <1>1, <3>1
      <4> QED BY <1>1, <4>1
    <3> QED BY <3>1
  <2>2. PICK f : SolvesRecursion(f, M, Nat, 0, g)
    <3> HIDE DEF g
    <3>1. 0 \in Nat
      OBVIOUS
    <3> QED BY <1>1, <2>1, <3>1, FiniteRecursion
  <2>3. ASSUME NEW n \in 0..M PROVE f[n] = Step(f, n)
    <3>1. CASE n = 0
      BY <2>2, <3>1 DEF SolvesRecursion
    <3>2. CASE n # 0
      <4>1. n \in 1..M /\ n - 1 \in 0..M
        BY <1>1, <3>2
      <4>2. f[n - 1] \in Nat /\ f[n] = g[<<n, f[n - 1]>>]
        <5> HIDE DEF g
        <5> QED BY <2>2, <4>1 DEF SolvesRecursion
      <4>3. g[<<n, f[n - 1]>>] = f[n - 1] * P + ByteAt(s, n)
        BY <4>1, <4>2
      <4> QED BY <3>2, <4>2, <4>3 DEF Shl, P
    <3> QED BY <3>1, <3>2
  <2>4. f = [n \in 0..M |-> Step(f, n)]
    <3> HIDE DEF Step
    <3> QED BY <2>2, <2>3 DEF SolvesRecursion
  <2> QED BY <2>4
<1>4. int = [n \in 0..M |-> Step(int, n)]
  <2> HIDE DEF Step
  <2> QED BY <1>3
<1> HIDE DEF int
<1>5. \A n \in 0..M : int[n] = Step(int, n)
  <2> HIDE DEF Step
  <2> QED BY <1>4
<1>6. int[0] = 0
  BY <1>1, <1>5
<1>7. ASSUME NEW n \in 1..M PROVE int[n] = int[n - 1] * P + ByteAt(s, n)
  <2>1. n \in 0..M /\ n # 0
    BY <1>1
  <2> QED BY <1>5, <2>1 DEF Shl, P
<1>8. \A n \in 0..M : int[n] \in Nat
  <2> DEFINE T == {n \in 0..M : int[n] \notin Nat}
  <2>1. SUFFICES ASSUME T # {} PROVE FALSE
    OBVIOUS
  <2>2. T \subseteq Nat
    BY <1>1
  <2>3. PICK n \in T : \A m \in T : n <= m
    <3> HIDE DEF T
    <3> QED BY <2>1, <2>2, LeastNat
  <2>4. n \in 1..M /\ n - 1 \in 0..M /\ ~ (n <= n - 1)
    BY <1>1, <1>6
  <2>5. n - 1 \notin T
    <3> HIDE DEF T
    <3> QED BY <2>3, <2>4
  <2>6. int[n - 1] \in Nat /\ ByteAt(s, n) \in Nat
    BY <1>1, <2>4, <2>5
  <2>7. int[n] \in Nat
    BY <1>1, <1>7, <2>4, <2>6
  <2> QED BY <2>7
<1>9. int \in [0..M -> Nat]
  <2>1. int = [n \in 0..M |-> int[n]]
    <3> HIDE DEF Step
    <3> QED BY <1>4
  <2> QED BY <1>8, <2>1
<1> QED BY <1>2, <1>6, <1>7, <1>9 DEF Codes, M, P

\* s and t have the same bytes, or the n-th is the first that differs and that of
\* s is smaller.
SameBytes(s, t) == \A n \in 1..MaxBytes : ByteAt(s, n) = ByteAt(t, n)
SmallerAt(s, t, n) ==
  /\ n \in 1..MaxBytes /\ ByteAt(s, n) < ByteAt(t, n)
  /\ \A m \in 1..(n - 1) : ByteAt(s, m) = ByteAt(t, m)

\* Two strings have the same bytes, or a first byte in which one is smaller.
LEMMA FirstDifference ==
  ASSUME NEW s \in Strings, NEW t \in Strings
  PROVE  SameBytes(s, t) \/ (\E n : SmallerAt(s, t, n)) \/ (\E n : SmallerAt(t, s, n))
<1> SUFFICES ASSUME ~ SameBytes(s, t)
             PROVE  (\E n : SmallerAt(s, t, n)) \/ (\E n : SmallerAt(t, s, n))
  OBVIOUS
<1> DEFINE T == {n \in 1..MaxBytes : ByteAt(s, n) # ByteAt(t, n)}
<1>0. MaxBytes \in Nat
  BY ByteFacts
<1>1. T \subseteq Nat /\ T # {}
  BY <1>0 DEF SameBytes
<1>2. PICK n \in T : \A m \in T : n <= m
  <2> HIDE DEF T
  <2> QED BY <1>1, LeastNat
<1>3. n \in 1..MaxBytes /\ ByteAt(s, n) # ByteAt(t, n)
  OBVIOUS
<1>4. ASSUME NEW m \in 1..(n - 1) PROVE ByteAt(s, m) = ByteAt(t, m)
  <2>1. m \in 1..MaxBytes /\ ~ (n <= m)
    BY <1>3, ByteFacts
  <2>2. m \notin T
    <3> HIDE DEF T
    <3> QED BY <1>2, <2>1
  <2> QED BY <2>1, <2>2
<1>5. ByteAt(s, n) \in Nat /\ ByteAt(t, n) \in Nat
  <2>1. n \in Nat \ {0}
    BY <1>3, ByteFacts
  <2>2. ByteAt(s, n) \in 0..MaxByte /\ ByteAt(t, n) \in 0..MaxByte /\ MaxByte \in Nat
    BY <2>1, ByteFacts
  <2> QED BY <2>2
<1>6. ByteAt(s, n) < ByteAt(t, n) \/ ByteAt(t, n) < ByteAt(s, n)
  BY <1>3, <1>5
<1> QED BY <1>3, <1>4, <1>6 DEF SmallerAt

\* What the first bytes make depends on them only.
LEMMA SameCodes ==
  ASSUME NEW s \in Strings, NEW t \in Strings, NEW c, NEW d, Codes(s, c), Codes(t, d),
         NEW n \in 0..MaxBytes, \A m \in 1..n : ByteAt(s, m) = ByteAt(t, m)
  PROVE  c[n] = d[n]
<1> DEFINE T == {m \in 0..n : c[m] # d[m]}
<1>1. /\ n \in Nat /\ MaxBytes \in Nat /\ n <= MaxBytes
  BY ByteFacts
<1>2. SUFFICES ASSUME T # {} PROVE FALSE
  BY <1>1
<1>3. T \subseteq Nat
  BY <1>1
<1>4. PICK m \in T : \A i \in T : m <= i
  <2> HIDE DEF T
  <2> QED BY <1>2, <1>3, LeastNat
<1>5. c[0] = d[0]
  BY DEF Codes
<1>6. m \in 1..n /\ m \in 1..MaxBytes /\ m - 1 \in 0..n /\ ~ (m <= m - 1)
  BY <1>1, <1>5
<1>7. m - 1 \notin T
  <2> HIDE DEF T
  <2> QED BY <1>4, <1>6
<1>8. c[m - 1] = d[m - 1] /\ ByteAt(s, m) = ByteAt(t, m)
  BY <1>6, <1>7
<1>9. c[m] = c[m - 1] * Pow2[ByteBits] + ByteAt(s, m) /\ d[m] = d[m - 1] * Pow2[ByteBits] + ByteAt(t, m)
  BY <1>6 DEF Codes
<1> QED BY <1>8, <1>9

\* A smaller byte outweighs all that follow it.
LEMMA SmallerCodes ==
  ASSUME NEW s \in Strings, NEW t \in Strings, NEW c, NEW d, Codes(s, c), Codes(t, d),
         NEW n, SmallerAt(s, t, n)
  PROVE  c[MaxBytes] < d[MaxBytes]
<1> DEFINE P == Pow2[ByteBits]
           T == {m \in n..MaxBytes : ~ (c[m] + 1 <= d[m])}
<1>1. /\ MaxBytes \in Nat /\ P \in Nat \ {0} /\ MaxByte = P - 1
      /\ n \in 1..MaxBytes /\ n \in Nat /\ n - 1 \in 0..MaxBytes /\ n <= MaxBytes
  BY ByteFacts DEF SmallerAt
<1>2. \A m \in 1..MaxBytes : ByteAt(s, m) \in 0..(P - 1) /\ ByteAt(t, m) \in 0..(P - 1)
  <2>1. \A m \in 1..MaxBytes : m \in Nat \ {0}
    BY <1>1
  <2> QED BY <1>1, <2>1, ByteFacts
<1>3. /\ \A m \in 0..MaxBytes : c[m] \in Nat /\ d[m] \in Nat
      /\ \A m \in 1..MaxBytes : c[m] = c[m - 1] * P + ByteAt(s, m) /\ d[m] = d[m - 1] * P + ByteAt(t, m)
  BY DEF Codes
<1> HIDE DEF P
<1>4. SUFFICES ASSUME T # {} PROVE FALSE
  <2>1. MaxBytes \in n..MaxBytes /\ MaxBytes \in 0..MaxBytes
    BY <1>1
  <2>2. c[MaxBytes] \in Nat /\ d[MaxBytes] \in Nat
    BY <1>3, <2>1
  <2>3. c[MaxBytes] + 1 <= d[MaxBytes]
    BY <1>4, <2>1
  <2> QED BY <2>2, <2>3
<1>5. T \subseteq Nat
  BY <1>1
<1>6. PICK m \in T : \A i \in T : m <= i
  <2> HIDE DEF T
  <2> QED BY <1>4, <1>5, LeastNat
<1>7. /\ m \in 1..MaxBytes /\ m - 1 \in 0..MaxBytes /\ m \in 0..MaxBytes
      /\ ~ (c[m] + 1 <= d[m]) /\ n <= m /\ m \in Nat
  BY <1>1
<1> DEFINE x == c[m - 1]
           y == d[m - 1]
           b == ByteAt(s, m)
           e == ByteAt(t, m)
<1>8. /\ x \in Nat /\ y \in Nat /\ b \in 0..(P - 1) /\ e \in 0..(P - 1)
      /\ c[m] = x * P + b /\ d[m] = y * P + e
  BY <1>2, <1>3, <1>7
<1>9. CASE m = n
  <2>1. x = y
    <3>1. \A i \in 1..(n - 1) : ByteAt(s, i) = ByteAt(t, i)
      BY DEF SmallerAt
    <3> QED BY <1>1, <1>9, <3>1, SameCodes
  <2>2. b < e
    BY <1>9 DEF SmallerAt
  <2> HIDE DEF x, y, b, e
  <2>3. x * P \in Nat
    BY <1>1, <1>8
  <2> QED BY <1>1, <1>7, <1>8, <2>1, <2>2, <2>3
<1>10. CASE m # n
  <2>1. x + 1 <= y
    <3>1. m - 1 \in n..MaxBytes /\ ~ (m <= m - 1)
      BY <1>1, <1>7, <1>10
    <3>2. m - 1 \notin T
      <4> HIDE DEF T
      <4> QED BY <1>6, <3>1
    <3> QED BY <3>1, <3>2
  <2> HIDE DEF x, y, b, e
  <2>2. y - (x + 1) \in Nat /\ y * P = x * P + P + (y - (x + 1)) * P
    BY <1>1, <1>8, <2>1
  <2>3. (y - (x + 1)) * P \in Nat /\ x * P \in Nat
    BY <1>1, <1>8, <2>2
  <2>4. x * P + b + 1 <= y * P + e
    BY <1>1, <1>8, <2>2, <2>3
  <2> QED BY <1>7, <1>8, <2>4
<1> QED BY <1>9, <1>10

\* The conversion of strings keeps their order and tells them apart by their bytes.
LEMMA StringOrder ==
  ASSUME NEW s \in Strings, NEW t \in Strings
  PROVE  /\ StringToIntLex(s) \in Nat
         /\ StringToIntLex(s) = StringToIntLex(t) <=> SameBytes(s, t)
         /\ StringToIntLex(s) < StringToIntLex(t) <=> \E n : SmallerAt(s, t, n)
<1>1. PICK c : Codes(s, c) /\ StringToIntLex(s) = c[MaxBytes]
  BY StringCodes
<1>2. PICK d : Codes(t, d) /\ StringToIntLex(t) = d[MaxBytes]
  BY StringCodes
<1>3. MaxBytes \in 0..MaxBytes
  BY ByteFacts
<1>4. c[MaxBytes] \in Nat /\ d[MaxBytes] \in Nat
  BY <1>1, <1>2, <1>3 DEF Codes
<1>5. SameBytes(s, t) => c[MaxBytes] = d[MaxBytes]
  BY <1>1, <1>2, <1>3, SameCodes DEF SameBytes
<1>6. (\E n : SmallerAt(s, t, n)) => c[MaxBytes] < d[MaxBytes]
  BY <1>1, <1>2, SmallerCodes
<1>7. (\E n : SmallerAt(t, s, n)) => d[MaxBytes] < c[MaxBytes]
  BY <1>1, <1>2, SmallerCodes
<1>8. SameBytes(s, t) \/ (\E n : SmallerAt(s, t, n)) \/ (\E n : SmallerAt(t, s, n))
  BY FirstDifference
<1> DEFINE same == SameBytes(s, t)
           less == \E n : SmallerAt(s, t, n)
           more == \E n : SmallerAt(t, s, n)
<1> HIDE DEF same, less, more
<1>9. /\ same => c[MaxBytes] = d[MaxBytes]
      /\ less => c[MaxBytes] < d[MaxBytes]
      /\ more => d[MaxBytes] < c[MaxBytes]
      /\ same \/ less \/ more
  BY <1>5, <1>6, <1>7, <1>8 DEF same, less, more
<1>10. /\ c[MaxBytes] = d[MaxBytes] <=> same
       /\ c[MaxBytes] < d[MaxBytes] <=> less
  BY <1>4, <1>9
<1> QED BY <1>1, <1>2, <1>4, <1>10 DEF same, less

\* The bytes the conversion reads are in the order of the strings.
LEMMA SmallerIsLess ==
  ASSUME NEW s \in Strings, NEW t \in Strings
  PROVE  /\ (\E n : SmallerAt(s, t, n)) => LexLess(s, t)
         /\ LexLess(s, t) => ~ \E n : SmallerAt(t, s, n)
<1>1. /\ Len(s) \in Nat /\ DOMAIN s = 1..Len(s) /\ Len(t) \in Nat /\ DOMAIN t = 1..Len(t)
      /\ \A i \in 1..Len(s) : s[i] = ByteAt(s, i) /\ s[i] \in Nat
      /\ \A i \in 1..Len(t) : t[i] = ByteAt(t, i) /\ t[i] \in Nat
      /\ \A i \in Nat \ {0} : ByteAt(s, i) \in Nat /\ ByteAt(t, i) \in Nat
      /\ \A i \in Nat \ {0} : (i > Len(s) => ByteAt(s, i) = 0) /\ (i > Len(t) => ByteAt(t, i) = 0)
  <2>1. \A u \in Strings :
          /\ Len(u) \in Nat /\ DOMAIN u = 1..Len(u)
          /\ \A i \in 1..Len(u) : u[i] = ByteAt(u, i) /\ u[i] \in Nat
          /\ \A i \in Nat \ {0} : ByteAt(u, i) \in Nat /\ (i > Len(u) => ByteAt(u, i) = 0)
    <3> SUFFICES ASSUME NEW u \in Strings
                 PROVE  /\ Len(u) \in Nat /\ DOMAIN u = 1..Len(u)
                        /\ \A i \in 1..Len(u) : u[i] = ByteAt(u, i) /\ u[i] \in Nat
                        /\ \A i \in Nat \ {0} : ByteAt(u, i) \in Nat /\ (i > Len(u) => ByteAt(u, i) = 0)
      OBVIOUS
    <3>1. Len(u) \in Nat /\ DOMAIN u = 1..Len(u)
      BY SequenceFacts DEF Strings
    <3>2. \A i \in 1..Len(u) : i <= Len(u) /\ i \in Nat \ {0}
      BY <3>1
    <3>3. \A i \in 1..Len(u) : u[i] = ByteAt(u, i)
      BY <3>2 DEF ByteAt
    <3>4. \A i \in Nat \ {0} : ByteAt(u, i) \in 0..MaxByte /\ (i > Len(u) => ByteAt(u, i) = 0)
      BY ByteFacts
    <3>5. \A i \in Nat \ {0} : ByteAt(u, i) \in Nat
      BY <3>4, ByteFacts
    <3> QED BY <3>1, <3>2, <3>3, <3>4, <3>5
  <2> QED BY <2>1
<1>2. ASSUME NEW n, SmallerAt(s, t, n) PROVE LexLess(s, t)
  <2>1. /\ n \in Nat \ {0} /\ ByteAt(s, n) < ByteAt(t, n)
        /\ \A m \in 1..(n - 1) : ByteAt(s, m) = ByteAt(t, m)
    BY <1>2, ByteFacts DEF SmallerAt
  <2>2. n \in 1..Len(t)
    <3>1. ByteAt(s, n) \in Nat /\ ByteAt(t, n) \in Nat /\ (n > Len(t) => ByteAt(t, n) = 0)
      BY <1>1, <2>1
    <3>2. ~ (n > Len(t))
      BY <2>1, <3>1
    <3> QED BY <1>1, <2>1, <3>2
  <2>3. CASE n <= Len(s)
    <3>1. n \in 1..Len(s)
      BY <1>1, <2>1, <2>3
    <3>2. \A m \in 1..(n - 1) : m \in 1..Len(s) /\ m \in 1..Len(t)
      BY <1>1, <2>1, <2>2, <3>1
    <3>3. s[n] < t[n] /\ \A m \in 1..(n - 1) : s[m] = t[m]
      BY <1>1, <2>1, <2>2, <3>1, <3>2
    <3> QED BY <1>1, <2>2, <3>1, <3>3 DEF LexLess
  <2>4. CASE ~ (n <= Len(s))
    <3>1. Len(s) < Len(t) /\ \A m \in 1..Len(s) : m \in 1..(n - 1) /\ m \in 1..Len(t)
      BY <1>1, <2>1, <2>2, <2>4
    <3>2. \A m \in DOMAIN s : s[m] = t[m]
      BY <1>1, <2>1, <3>1
    <3> QED BY <3>1, <3>2 DEF LexLess
  <2> QED BY <2>3, <2>4
<1>3. ASSUME LexLess(s, t), NEW n, SmallerAt(t, s, n) PROVE FALSE
  <2>1. /\ n \in Nat \ {0} /\ ByteAt(t, n) < ByteAt(s, n)
        /\ \A m \in 1..(n - 1) : ByteAt(t, m) = ByteAt(s, m)
    BY <1>3, ByteFacts DEF SmallerAt
  <2>2. n \in 1..Len(s)
    <3>1. ByteAt(s, n) \in Nat /\ ByteAt(t, n) \in Nat /\ (n > Len(s) => ByteAt(s, n) = 0)
      BY <1>1, <2>1
    <3>2. ~ (n > Len(s))
      BY <2>1, <3>1
    <3> QED BY <1>1, <2>1, <3>2
  <2>3. CASE Len(s) < Len(t) /\ \A m \in DOMAIN s : s[m] = t[m]
    <3>1. n \in 1..Len(t) /\ n \in DOMAIN s
      BY <1>1, <2>2, <2>3
    <3>2. ByteAt(s, n) = ByteAt(t, n) /\ ByteAt(s, n) \in Nat
      BY <1>1, <2>2, <2>3, <3>1
    <3> QED BY <2>1, <3>2
  <2>4. ASSUME NEW m \in DOMAIN s \cap DOMAIN t, s[m] < t[m], \A i \in 1..(m - 1) : s[i] = t[i]
        PROVE  FALSE
    <3>1. m \in 1..Len(s) /\ m \in 1..Len(t) /\ m \in Nat
      BY <1>1, <2>4
    <3>2. ByteAt(s, m) < ByteAt(t, m) /\ ByteAt(s, m) \in Nat /\ ByteAt(t, m) \in Nat
      BY <1>1, <2>4, <3>1
    <3>3. ByteAt(s, n) \in Nat /\ ByteAt(t, n) \in Nat
      BY <1>1, <2>1
    <3>4. ~ (m < n)
      <4>1. m < n => m \in 1..(n - 1)
        BY <2>1, <3>1
      <4> QED BY <2>1, <3>2, <4>1
    <3>5. m # n
      BY <2>1, <3>2, <3>3
    <3>6. n \in 1..(m - 1) /\ n \in 1..Len(t)
      BY <1>1, <2>1, <3>1, <3>4, <3>5
    <3>7. s[n] = t[n]
      BY <2>4, <3>6
    <3>8. ByteAt(s, n) = ByteAt(t, n)
      BY <1>1, <2>2, <3>6, <3>7
    <3> QED BY <2>1, <3>3, <3>8
  <2> QED BY <1>3, <2>3, <2>4 DEF LexLess
<1> QED BY <1>2, <1>3

-----------------------------------------------------------------------------
(* Keys of each type *)

\* A value of the type the index is used with.
OfType(key) == IF type = "string" THEN key \in Strings ELSE key \in Nat

\* Doubles are cut off towards zero: the order is kept, and two doubles with one
\* key are closer than the scale.
LEMMA ScaledOrder ==
  ASSUME NEW x \in Nat, NEW y \in Nat
  PROVE  /\ FloatToScaledInt(x) \in Nat
         /\ FloatToScaledInt(x) < FloatToScaledInt(y) => x < y
         /\ FloatToScaledInt(x) = FloatToScaledInt(y) =>
              (x - y) * FloatScale < DoubleUnit
<1> DEFINE F == FloatScale
           D == DoubleUnit
           a == x * F
           b == y * F
           q == a \div D
           r == b \div D
<1>1. F \in Nat \ {0} /\ D \in Nat \ {0}
  BY KCAssumption
<1> HIDE DEF F, D
<1>2. a \in Nat /\ b \in Nat /\ a - b = (x - y) * F
  BY <1>1
<1>3. y <= x => b <= a
  <2> SUFFICES ASSUME y <= x PROVE b <= a
    OBVIOUS
  <2>1. x - y \in Nat
    OBVIOUS
  <2>2. (x - y) * F \in Nat
    BY <1>1, <2>1
  <2> HIDE DEF a, b
  <2> QED BY <1>2, <2>2
<1> HIDE DEF a, b
<1>4. /\ q \in Nat /\ a % D \in 0..(D - 1) /\ a = D * q + (a % D)
      /\ r \in Nat /\ b % D \in 0..(D - 1) /\ b = D * r + (b % D)
  BY <1>1, <1>2, DivModLaw
<1> HIDE DEF q, r
<1>5. ASSUME q < r PROVE x < y
  <2> SUFFICES ASSUME b <= a PROVE FALSE
    BY <1>3
  <2>1. r - (q + 1) \in Nat /\ D * r = D * q + D + D * (r - (q + 1))
    BY <1>1, <1>4, <1>5
  <2>2. D * (r - (q + 1)) \in Nat /\ D * q \in Nat
    BY <1>1, <1>4, <2>1
  <2> QED BY <1>1, <1>2, <1>4, <2>1, <2>2
<1>6. ASSUME q = r PROVE a - b < D
  <2>1. D * q \in Nat /\ D * r = D * q
    BY <1>1, <1>4, <1>6
  <2> QED BY <1>1, <1>2, <1>4, <2>1
<1> QED BY <1>2, <1>4, <1>5, <1>6 DEF FloatToScaledInt, q, r, a, b, F, D

\* The conversion of each type keeps its order and mixes up keys that are alike.
LEMMA CodeFacts ==
  ASSUME type \in KeyTypes, NEW x, NEW y, OfType(x), OfType(y)
  PROVE  /\ Code(x) \in Nat
         /\ Code(x) = Code(y) => Alike(x, y)
         /\ Code(x) < Code(y) => Before(x, y)
         /\ Before(x, y) => ~ (Code(y) < Code(x))
<1>1. CASE type = "uint64"
  <2>1. x \in Nat /\ y \in Nat /\ Code(x) = x /\ Code(y) = y
    BY <1>1 DEF OfType, Code
  <2>2. (Alike(x, y) <=> x = y) /\ (Before(x, y) <=> x < y)
    BY <1>1 DEF Alike, Before
  <2> QED BY <2>1, <2>2
<1>2. CASE type = "double"
  <2>1. x \in Nat /\ y \in Nat /\ Code(x) = FloatToScaledInt(x) /\ Code(y) = FloatToScaledInt(y)
    BY <1>2 DEF OfType, Code
  <2>2. Before(x, y) <=> x < y
    BY <1>2 DEF Before
  <2>3. Alike(x, y) <=> (x - y) * FloatScale < DoubleUnit /\ (y - x) * FloatScale < DoubleUnit
    BY <1>2 DEF Alike
  <2>4. /\ Code(x) \in Nat
        /\ Code(x) < Code(y) => x < y
        /\ Code(y) < Code(x) => y < x
        /\ Code(x) = Code(y) =>
             (x - y) * FloatScale < DoubleUnit /\ (y - x) * FloatScale < DoubleUnit
    BY <2>1, ScaledOrder
  <2> QED BY <2>1, <2>2, <2>3, <2>4
<1>3. CASE type = "string"
  <2>1. x \in Strings /\ y \in Strings
        /\ Code(x) = StringToIntLex(x) /\ Code(y) = StringToIntLex(y)
    BY <1>3 DEF OfType, Code
  <2>2. (Before(x, y) <=> LexLess(x, y)) /\ (Alike(x, y) <=> SameBytes(x, y))
    BY <1>3 DEF Before, Alike, SameBytes
  <2>3. /\ Code(x) \in Nat
        /\ Code(x) = Code(y) <=> SameBytes(x, y)
        /\ Code(x) < Code(y) <=> \E n : SmallerAt(x, y, n)
        /\ Code(y) < Code(x) <=> \E n : SmallerAt(y, x, n)
    BY <2>1, StringOrder
  <2>4. /\ (\E n : SmallerAt(x, y, n)) => LexLess(x, y)
        /\ LexLess(x, y) => ~ \E n : SmallerAt(y, x, n)
    BY <2>1, SmallerIsLess
  <2> QED BY <2>2, <2>3, <2>4
<1> QED BY <1>1, <1>2, <1>3 DEF KeyTypes

-----------------------------------------------------------------------------
(* The typed specification *)

\* The keys of a type have its type, and the index is used with their codes.
LEMMA KeysTyped ==
  ASSUME type \in KeyTypes, NEW n \in DOMAIN TypedKeys
  PROVE  OfType(TypedKeys[n]) /\ Code(TypedKeys[n]) \in Keys /\ n \in Values
<1>1. n \in Values
  <2>1. DOMAIN KeysOfType[type] \subseteq Values
    BY TIAssumption
  <2> QED BY <2>1 DEF TypedKeys
<1>2. CASE type = "uint64"
  <2>1. TypedKeys = Uint64Keys
    BY <1>2 DEF TypedKeys, KeysOfType, KeyTypes
  <2>2. TypedKeys[n] \in Keys
    BY <2>1, TIAssumption
  <2> QED BY <1>1, <1>2, <2>2, TableConstants DEF OfType, Code
<1>3. CASE type = "double"
  <2>1. TypedKeys = DoubleKeys
    BY <1>3 DEF TypedKeys, KeysOfType, KeyTypes
  <2>2. TypedKeys[n] \in Nat /\ FloatToScaledInt(TypedKeys[n]) \in Keys
    BY <2>1, TIAssumption
  <2> QED BY <1>1, <1>3, <2>2 DEF OfType, Code
<1>4. CASE type = "string"
  <2>1. TypedKeys = StringKeys
    BY <1>4 DEF TypedKeys, KeysOfType, KeyTypes
  <2>2. TypedKeys[n] \in Seq(0..MaxByte) /\ StringToIntLex(TypedKeys[n]) \in Keys
    BY <2>1, TIAssumption
  <2> QED BY <1>1, <1>4, <2>2 DEF OfType, Code, Strings
<1> QED BY <1>2, <1>3, <1>4 DEF KeyTypes

\* What happens to the index behind the overloads is a behaviour of RangeLH, so
\* what is proved of it holds here.
LEMMA TypedSteps ==
  ASSUME type \in KeyTypes, [TypedNext]_typedVars
  PROVE  [Next]_vars /\ type' = type
<1>1. ASSUME NEW n \in DOMAIN TypedKeys, InsertTyped(n) PROVE Next /\ type' = type
  BY <1>1, KeysTyped DEF InsertTyped, Next
<1>2. ASSUME NEW n \in DOMAIN TypedKeys, RemoveTyped(n) PROVE Next /\ type' = type
  BY <1>2, KeysTyped DEF RemoveTyped, Next
<1>3. CASE UNCHANGED typedVars
  BY <1>3 DEF typedVars
<1> QED BY <1>1, <1>2, <1>3 DEF TypedNext

\* The type of the keys does not change.
LEMMA TypeKept == TypedSpec => [](type \in KeyTypes)
<1>1. TypedInit => type \in KeyTypes
  BY DEF TypedInit
<1>2. type \in KeyTypes /\ [TypedNext]_typedVars => (type \in KeyTypes)'
  BY TypedSteps
<1> QED BY <1>1, <1>2, PTL DEF TypedSpec

\* Behind the typed interface the index behaves as RangeLH specifies.
LEMMA TypedIsIndexed == TypedSpec => Spec
<1>1. TypedInit => Init
  BY DEF TypedInit
<1>2. type \in KeyTypes /\ [TypedNext]_typedVars => [Next]_vars
  BY TypedSteps
<1> QED BY <1>1, <1>2, TypeKept, PTL DEF TypedSpec, Spec

-----------------------------------------------------------------------------
(* The records of workers *)

\* The record a worker holds was inserted under a key with the worker's code.
Provenance ==
  \A a \in DOMAIN heap : heap[a].data # Null =>
    heap[a].data \in DOMAIN TypedKeys /\ Code(TypedKeys[heap[a].data]) = heap[a].id

\* A record of a key, or none, is written to the worker of its code or linked
\* with a new one.
LEMMA TypedWrites ==
  ASSUME Inv, type \in KeyTypes, [TypedNext]_typedVars
  PROVE  \/ StillStep
         \/ \E a \in DOMAIN heap : \E v \in Values \cup {Null} :
              /\ WriteStep(a, v)
              /\ v # Null => v \in DOMAIN TypedKeys /\ Code(TypedKeys[v]) = heap[a].id
         \/ \E v \in DOMAIN TypedKeys :
              v \in Values /\ Code(TypedKeys[v]) \in Keys /\ LinkStep(Code(TypedKeys[v]), v)
<1> DEFINE Goal ==
             \/ StillStep
             \/ \E a \in DOMAIN heap : \E v \in Values \cup {Null} :
                  /\ WriteStep(a, v)
                  /\ v # Null => v \in DOMAIN TypedKeys /\ Code(TypedKeys[v]) = heap[a].id
             \/ \E v \in DOMAIN TypedKeys :
                  v \in Values /\ Code(TypedKeys[v]) \in Keys /\ LinkStep(Code(TypedKeys[v]), v)
<1>1. ASSUME NEW n \in DOMAIN TypedKeys, InsertTyped(n) PROVE Goal
  <2> DEFINE k == Code(TypedKeys[n])
  <2>1. k \in Keys /\ n \in Values /\ Insert(k, n)
    BY <1>1, KeysTyped DEF InsertTyped
  <2> HIDE DEF k
  <2>2. Find(k) # Null => Find(k) \in DOMAIN heap /\ heap[Find(k)].id = k
    BY <2>1, FindFacts
  <2>3. (Find(k) # Null /\ WriteStep(Find(k), n)) \/ LinkStep(k, n)
    BY <2>1, InsertSteps
  <2> QED BY <2>1, <2>2, <2>3 DEF k
<1>2. ASSUME NEW n \in DOMAIN TypedKeys, RemoveTyped(n) PROVE Goal
  <2> DEFINE k == Code(TypedKeys[n])
  <2>1. k \in Keys /\ Remove(k)
    BY <1>2, KeysTyped DEF RemoveTyped
  <2> HIDE DEF k
  <2>2. Find(k) # Null => Find(k) \in DOMAIN heap
    BY <2>1, FindFacts
  <2>3. (Find(k) # Null /\ WriteStep(Find(k), Null)) \/ StillStep
    BY <2>1, RemoveSteps
  <2> QED BY <2>2, <2>3
<1>3. CASE UNCHANGED typedVars
  BY <1>3 DEF typedVars, vars, StillStep, Inv, Formed
<1> QED BY <1>1, <1>2, <1>3 DEF TypedNext

\* Every record that is found was inserted under the key of its worker.
LEMMA KeepsProvenance == TypedSpec => []Provenance
<1>1. TypedInit => Provenance
  BY DEF TypedInit, Init, Provenance
<1>2. Inv /\ type \in KeyTypes /\ Provenance /\ [TypedNext]_typedVars => Provenance'
  <2> SUFFICES ASSUME Inv, type \in KeyTypes, Provenance, [TypedNext]_typedVars
               PROVE  Provenance'
    OBVIOUS
  <2>1. type' = type
    BY TypedSteps
  <2>2. \A v : v \in DOMAIN TypedKeys' <=> v \in DOMAIN TypedKeys
    BY <2>1 DEF TypedKeys
  <2>3. \A v : Code(TypedKeys[v])' = Code(TypedKeys[v])
    BY <2>1 DEF TypedKeys, Code
  <2> DEFINE Right(d, k) == d # Null => d \in DOMAIN TypedKeys /\ Code(TypedKeys[d]) = k
  <2>4. \A a \in DOMAIN heap : Right(heap[a].data, heap[a].id)
    BY DEF Provenance
  <2>5. SUFFICES ASSUME NEW a \in DOMAIN heap' PROVE Right(heap'[a].data, heap'[a].id)
    BY <2>2, <2>3 DEF Provenance
  <2>6. CASE StillStep
    BY <2>4, <2>5, <2>6 DEF StillStep
  <2>7. ASSUME NEW b \in DOMAIN heap, NEW v \in Values \cup {Null}, WriteStep(b, v), Right(v, heap[b].id)
        PROVE  Right(heap'[a].data, heap'[a].id)
    <3> HIDE DEF Right
    <3>1. a \in DOMAIN heap /\ heap'[a].id = heap[a].id
          /\ heap'[a].data = IF a = b THEN v ELSE heap[a].data
      BY <2>5, <2>7, WriteStepFacts
    <3> QED BY <2>4, <2>7, <3>1
  <2>8. ASSUME NEW v \in DOMAIN TypedKeys, v \in Values, Code(TypedKeys[v]) \in Keys,
               LinkStep(Code(TypedKeys[v]), v)
        PROVE  Right(heap'[a].data, heap'[a].id)
    <3> DEFINE k == Code(TypedKeys[v])
    <3>1. Right(v, k)
      OBVIOUS
    <3>2. k \in Keys /\ LinkStep(k, v)
      BY <2>8
    <3> HIDE DEF k, Right
    <3>3. \E p, x : IsExtended(heap', heap, p, k, v, x)
      BY <2>8, <3>2, LinkStepFacts
    <3>4. (a \in DOMAIN heap /\ heap'[a].id = heap[a].id /\ heap'[a].data = heap[a].data)
          \/ (heap'[a].id = k /\ heap'[a].data = v)
      BY <2>5, <3>3 DEF IsExtended
    <3> QED BY <2>4, <3>1, <3>4
  <2> QED BY <2>6, <2>7, <2>8, TypedWrites
<1> QED BY <1>1, <1>2, TypeKept, TypedIsIndexed, Correct, PTL DEF TypedSpec

(* A lookup returns a record that was inserted under the key itself or     *)
(* under one that the conversion of its type cannot tell from it.          *)
THEOREM FindsTyped == TypedSpec => []LookupsTyped
<1>1. Inv /\ type \in KeyTypes /\ Provenance => LookupsTyped
  <2> SUFFICES ASSUME Inv, type \in KeyTypes, Provenance, NEW n \in DOMAIN TypedKeys,
                      TypedLookup(TypedKeys[n]) # Null
               PROVE  Alike(TypedKeys[TypedLookup(TypedKeys[n])], TypedKeys[n])
    BY DEF LookupsTyped
  <2> DEFINE k == Code(TypedKeys[n])
             a == Find(k)
             d == heap[a].data
  <2>1. k \in Keys /\ OfType(TypedKeys[n])
    BY KeysTyped
  <2>2. TypedLookup(TypedKeys[n]) = d /\ a # Null /\ d # Null
    BY DEF TypedLookup, PointLookup, HasData
  <2> HIDE DEF k
  <2>3. a \in DOMAIN heap /\ heap[a].id = k
    BY <2>1, <2>2, FindFacts
  <2> HIDE DEF a
  <2>4. d \in DOMAIN TypedKeys /\ Code(TypedKeys[d]) = k
    BY <2>2, <2>3 DEF Provenance
  <2> HIDE DEF d
  <2>5. OfType(TypedKeys[d])
    BY <2>4, KeysTyped
  <2>6. Alike(TypedKeys[d], TypedKeys[n])
    BY <2>1, <2>4, <2>5, CodeFacts DEF k
  <2> QED BY <2>2, <2>6
<1> QED BY <1>1, TypeKept, KeepsProvenance, TypedIsIndexed, Correct, PTL

-----------------------------------------------------------------------------
(* Ranges of typed keys *)

\* A range lookup of the index returns the records whose codes are in the range,
\* in the order of their codes, if the tree covers those.
LEMMA RangeRecords ==
  ASSUME Inv, Ordered, Provenance, NEW start \in Nat, NEW end \in Nat, CoveredBetween(start, end)
  PROVE  LET found == RangeLookup(start, end)
         IN  /\ \A r : r \in RecordsOf(found) <=>
                         /\ r \in Stored
                         /\ start <= Code(TypedKeys[r]) /\ Code(TypedKeys[r]) <= end
             /\ \A i, j \in DOMAIN found :
                  i < j /\ found[i] # Null /\ found[j] # Null
                    => /\ found[i] \in Stored /\ found[j] \in Stored
                       /\ Code(TypedKeys[found[i]]) < Code(TypedKeys[found[j]])
<1> DEFINE walk == RangeWalk(start, end)
           found == RangeLookup(start, end)
<1>1. PICK s \in Nat :
        /\ walk \in [1..s -> DOMAIN heap]
        /\ \A m, n \in 1..s : m < n => heap[walk[m]].id < heap[walk[n]].id
        /\ \A a \in DOMAIN heap :
             start <= heap[a].id /\ heap[a].id <= end <=> \E n \in 1..s : walk[n] = a
  BY RangeWalkFacts
<1>2. found = [n \in DOMAIN walk |-> heap[walk[n]].data]
  BY DEF RangeLookup, DataOf
<1> HIDE DEF walk, found
<1>3. DOMAIN found = 1..s /\ \A n \in 1..s : found[n] = heap[walk[n]].data /\ walk[n] \in DOMAIN heap
  BY <1>1, <1>2
<1>4. \A a \in DOMAIN heap : heap[a].data # Null =>
        heap[a].data \in Stored /\ Code(TypedKeys[heap[a].data]) = heap[a].id
  BY DEF Provenance, Stored
<1>5. ASSUME NEW r \in RecordsOf(found)
      PROVE  /\ r \in Stored
             /\ start <= Code(TypedKeys[r]) /\ Code(TypedKeys[r]) <= end
  <2>1. PICK n \in 1..s : r = found[n] /\ r # Null
    BY <1>3, <1>5 DEF RecordsOf
  <2>2. start <= heap[walk[n]].id /\ heap[walk[n]].id <= end
    BY <1>1, <1>3
  <2> QED BY <1>3, <1>4, <2>1, <2>2
<1>6. ASSUME NEW r \in Stored, start <= Code(TypedKeys[r]), Code(TypedKeys[r]) <= end
      PROVE  r \in RecordsOf(found)
  <2>1. PICK a \in DOMAIN heap : r = heap[a].data /\ r # Null
    BY <1>6 DEF Stored
  <2>2. start <= heap[a].id /\ heap[a].id <= end
    BY <1>4, <1>6, <2>1
  <2>3. PICK n \in 1..s : walk[n] = a
    BY <1>1, <2>2
  <2> QED BY <1>3, <2>1, <2>3 DEF RecordsOf
<1>7. ASSUME NEW i \in DOMAIN found, NEW j \in DOMAIN found,
             i < j, found[i] # Null, found[j] # Null
      PROVE  /\ found[i] \in Stored /\ found[j] \in Stored
             /\ Code(TypedKeys[found[i]]) < Code(TypedKeys[found[j]])
  BY <1>1, <1>3, <1>4, <1>7
<1> QED BY <1>5, <1>6, <1>7 DEF found

\* What a stored record says of its key
LEMMA StoredKeys ==
  ASSUME type \in KeyTypes, Provenance, NEW r \in Stored
  PROVE  OfType(TypedKeys[r]) /\ Code(TypedKeys[r]) \in Nat
<1>1. PICK a \in DOMAIN heap : r = heap[a].data /\ r # Null
  BY DEF Stored
<1>2. r \in DOMAIN TypedKeys
  BY <1>1 DEF Provenance
<1> QED BY <1>2, KeysTyped, TableConstants

(* A range lookup of any type finds every record between its ends, in key  *)
(* order, and besides them at most records whose keys the conversion       *)
(* cannot tell from an end, if the prefix tree covers the keys of the      *)
(* range, whatever keys are outside (TypedRanges).                         *)
THEOREM RangesTyped == TypedSpec => []TypedRanges
<1>1. ASSUME Inv, Ordered, Provenance, type \in KeyTypes,
             NEW m \in DOMAIN TypedKeys, NEW n \in DOMAIN TypedKeys,
             TypedCovered(TypedKeys[m], TypedKeys[n])
      PROVE  RangeFound(TypedRangeLookup(TypedKeys[m], TypedKeys[n]), TypedKeys[m], TypedKeys[n])
  <2> DEFINE x == TypedKeys[m]
             y == TypedKeys[n]
             found == RangeLookup(Code(x), Code(y))
             key(r) == TypedKeys[r]
  <2>1. OfType(x) /\ OfType(y) /\ Code(x) \in Nat /\ Code(y) \in Nat
    BY <1>1, KeysTyped, TableConstants
  <2>2. TypedRangeLookup(x, y) = found
    BY DEF TypedRangeLookup
  <2>3. CoveredBetween(Code(x), Code(y))
    BY <1>1 DEF TypedCovered
  <2> HIDE DEF x, y
  <2>4. /\ \A r : r \in RecordsOf(found) <=>
                    r \in Stored /\ Code(x) <= Code(key(r)) /\ Code(key(r)) <= Code(y)
        /\ \A i, j \in DOMAIN found :
             i < j /\ found[i] # Null /\ found[j] # Null
               => /\ found[i] \in Stored /\ found[j] \in Stored
                  /\ Code(key(found[i])) < Code(key(found[j]))
    BY <1>1, <2>1, <2>3, RangeRecords
  <2>5. \A r \in Stored : OfType(key(r)) /\ Code(key(r)) \in Nat
    BY <1>1, StoredKeys
  <2> HIDE DEF key, found
  <2>6. ASSUME NEW r \in Stored, Between(x, key(r), y) PROVE r \in RecordsOf(found)
    <3>1. OfType(key(r)) /\ Code(key(r)) \in Nat
      BY <2>5
    <3>2. ~ Before(key(r), x) /\ ~ Before(y, key(r))
      BY <2>6 DEF Between
    <3>3. ~ (Code(key(r)) < Code(x)) /\ ~ (Code(y) < Code(key(r)))
      BY <1>1, <2>1, <3>1, <3>2, CodeFacts
    <3>4. Code(x) <= Code(key(r)) /\ Code(key(r)) <= Code(y)
      BY <2>1, <3>1, <3>3
    <3> QED BY <2>4, <3>4
  <2>7. ASSUME NEW r \in RecordsOf(found)
        PROVE  Between(x, key(r), y) \/ Alike(key(r), x) \/ Alike(key(r), y)
    <3>1. OfType(key(r)) /\ Code(key(r)) \in Nat
          /\ Code(x) <= Code(key(r)) /\ Code(key(r)) <= Code(y)
      BY <2>4, <2>5
    <3>2. \/ Code(key(r)) = Code(x) \/ Code(key(r)) = Code(y)
          \/ Code(x) < Code(key(r)) /\ Code(key(r)) < Code(y)
      BY <2>1, <3>1
    <3>3. /\ Code(key(r)) = Code(x) => Alike(key(r), x)
          /\ Code(key(r)) = Code(y) => Alike(key(r), y)
          /\ Code(x) < Code(key(r)) => ~ Before(key(r), x)
          /\ Code(key(r)) < Code(y) => ~ Before(y, key(r))
      BY <1>1, <2>1, <3>1, CodeFacts
    <3> QED BY <3>2, <3>3 DEF Between
  <2>8. ASSUME NEW i \in DOMAIN found, NEW j \in DOMAIN found,
               i < j, found[i] # Null, found[j] # Null
        PROVE  Before(key(found[i]), key(found[j]))
    <3>1. /\ OfType(key(found[i])) /\ OfType(key(found[j]))
          /\ Code(key(found[i])) < Code(key(found[j]))
      BY <2>4, <2>5, <2>8
    <3> QED BY <1>1, <3>1, CodeFacts
  <2>9. RangeFound(found, x, y)
    BY <2>6, <2>7, <2>8 DEF RangeFound, key
  <2> QED BY <2>2, <2>9 DEF x, y
<1>2. Inv /\ Ordered /\ Provenance /\ type \in KeyTypes => TypedRanges
  BY <1>1 DEF TypedRanges
<1> QED BY <1>2, TypeKept, KeepsProvenance, TypedIsIndexed, Correct, KeepsOrder, PTL

-----------------------------------------------------------------------------
(* Patterns *)

\* The first n elements of a sequence.
LEMMA FirstElements ==
  ASSUME NEW X, NEW s \in Seq(X), NEW n \in Nat, n <= Len(s)
  PROVE  /\ SubSeq(s, 1, n) \in Seq(X) /\ Len(SubSeq(s, 1, n)) = n
         /\ \A i \in 1..n : SubSeq(s, 1, n)[i] = s[i]
<1>1. Len(s) \in Nat /\ DOMAIN s = 1..Len(s) /\ \A i \in 1..Len(s) : s[i] \in X
  BY SequenceFacts
<1>2. SubSeq(s, 1, n) = [i \in 1..n |-> s[i]]
  <2>1. n - 1 + 1 = n /\ \A i \in 1..n : i + 1 - 1 = i /\ 1 + i - 1 = i
    OBVIOUS
  <2> QED BY <1>1, <2>1 DEF SubSeq
<1>3. \A i \in 1..n : s[i] \in X
  BY <1>1
<1> QED BY <1>2, <1>3, SequenceByDomain

\* What having a prefix says of the bytes.
LEMMA PrefixFacts ==
  ASSUME NEW s \in Strings, NEW p \in Strings
  PROVE  HasPrefix(s, p) <=> Len(p) <= Len(s) /\ \A i \in 1..Len(p) : s[i] = p[i]
<1>1. Len(p) \in Nat /\ DOMAIN p = 1..Len(p)
  BY SequenceFacts DEF Strings
<1> SUFFICES ASSUME Len(p) <= Len(s)
             PROVE  SubSeq(s, 1, Len(p)) = p <=> \A i \in 1..Len(p) : s[i] = p[i]
  BY DEF HasPrefix
<1> DEFINE q == SubSeq(s, 1, Len(p))
<1>2. q \in Strings /\ Len(q) = Len(p) /\ \A i \in 1..Len(p) : q[i] = s[i]
  BY <1>1, FirstElements DEF Strings
<1>3. DOMAIN q = 1..Len(p)
  BY <1>2, SequenceFacts DEF Strings
<1> HIDE DEF q
<1>4. (\A i \in 1..Len(p) : q[i] = p[i]) => q = p
  BY <1>1, <1>2, <1>3 DEF Strings
<1>5. q = p => \A i \in 1..Len(p) : q[i] = p[i]
  OBVIOUS
<1>6. q = p <=> \A i \in 1..Len(p) : s[i] = p[i]
  BY <1>2, <1>4, <1>5
<1> QED BY <1>6 DEF q

\* Every string's bytes, and zeros behind them.
LEMMA BytesOf ==
  ASSUME NEW s \in Strings
  PROVE  /\ Len(s) \in Nat
         /\ \A n \in Nat \ {0} : /\ ByteAt(s, n) \in Nat /\ ByteAt(s, n) <= MaxByte
                                 /\ ByteAt(s, n) = IF n <= Len(s) THEN s[n] ELSE 0
<1>1. Len(s) \in Nat
  BY SequenceFacts DEF Strings
<1>2. MaxByte \in Nat /\ \A n \in Nat \ {0} : ByteAt(s, n) \in 0..MaxByte
  BY ByteFacts
<1>3. \A n \in Nat \ {0} : ByteAt(s, n) \in Nat /\ ByteAt(s, n) <= MaxByte
  BY <1>2
<1> QED BY <1>1, <1>3 DEF ByteAt

\* A string that has a prefix has its bytes, and one that has its bytes, the last
\* of them with something behind it, has the prefix.
LEMMA PrefixOfBytes ==
  ASSUME NEW s \in Strings, NEW p \in Strings
  PROVE  /\ HasPrefix(s, p) => \A n \in 1..Len(p) : ByteAt(s, n) = ByteAt(p, n)
         /\ \A n \in Nat : n > Len(p) /\ ByteAt(s, n) # 0
                           /\ (\A m \in 1..(n - 1) : ByteAt(s, m) = ByteAt(p, m))
                             => HasPrefix(s, p)
<1>1. /\ Len(s) \in Nat /\ Len(p) \in Nat
      /\ \A n \in Nat \ {0} : ByteAt(s, n) = IF n <= Len(s) THEN s[n] ELSE 0
      /\ \A n \in Nat \ {0} : ByteAt(p, n) = IF n <= Len(p) THEN p[n] ELSE 0
  BY BytesOf
<1>2. ASSUME HasPrefix(s, p), NEW n \in 1..Len(p) PROVE ByteAt(s, n) = ByteAt(p, n)
  <2>1. Len(p) <= Len(s) /\ s[n] = p[n]
    BY <1>2, PrefixFacts
  <2>2. n \in Nat \ {0} /\ n <= Len(p) /\ n <= Len(s)
    BY <1>1, <2>1
  <2> QED BY <1>1, <2>1, <2>2
<1>3. ASSUME NEW n \in Nat, n > Len(p), ByteAt(s, n) # 0,
             \A m \in 1..(n - 1) : ByteAt(s, m) = ByteAt(p, m)
      PROVE  HasPrefix(s, p)
  <2>1. n \in Nat \ {0}
    BY <1>1, <1>3
  <2>2. n <= Len(s)
    BY <1>1, <1>3, <2>1
  <2>3. Len(p) <= Len(s)
    BY <1>1, <1>3, <2>2
  <2>4. ASSUME NEW i \in 1..Len(p) PROVE s[i] = p[i]
    <3>1. i \in Nat \ {0} /\ i <= Len(p) /\ i <= Len(s) /\ i \in 1..(n - 1)
      BY <1>1, <1>3, <2>1, <2>3
    <3>2. ByteAt(s, i) = ByteAt(p, i)
      BY <1>3, <3>1
    <3> QED BY <1>1, <3>1, <3>2
  <2> QED BY <2>3, <2>4, PrefixFacts
<1> QED BY <1>2, <1>3

\* q has the bytes of p up to the l-th, which is one greater and the last.
Increments(q, p, l) ==
  /\ q \in Strings /\ l \in 1..Len(p)
  /\ \A n \in (l + 1)..Len(p) : ByteAt(p, n) = MaxByte
  /\ \A n \in Nat \ {0} :
       ByteAt(q, n) = IF n < l THEN ByteAt(p, n) ELSE IF n = l THEN ByteAt(p, n) + 1 ELSE 0

\* Of a prefix with a byte that can grow, the upper bound increments the last such.
LEMMA NextIncrements ==
  ASSUME NEW p \in Strings, Incrementable(p) # {}
  PROVE  \E l : Increments(NextLexicographicString(p), p, l)
<1> DEFINE T == Incrementable(p)
           l == CHOOSE n \in T : \A m \in T : m <= n
           q == Append(SubSeq(p, 1, l - 1), p[l] + 1)
<1>1. Len(p) \in Nat /\ DOMAIN p = 1..Len(p) /\ \A i \in 1..Len(p) : p[i] \in 0..MaxByte
  BY SequenceFacts DEF Strings
<1>2. \E n \in T : \A m \in T : m <= n
  <2> DEFINE U == {Len(p) - n : n \in T}
  <2>1. T \subseteq 1..Len(p)
    BY <1>1 DEF Incrementable
  <2>2. U \subseteq Nat /\ U # {}
    BY <1>1, <2>1
  <2>3. PICK u \in U : \A v \in U : u <= v
    <3> HIDE DEF U
    <3> QED BY <2>2, LeastNat
  <2>4. PICK n \in T : u = Len(p) - n
    OBVIOUS
  <2>5. ASSUME NEW m \in T PROVE m <= n
    <3>1. Len(p) - n <= Len(p) - m
      BY <2>3, <2>4
    <3>2. m \in Nat /\ n \in Nat
      BY <1>1, <2>1
    <3> QED BY <1>1, <3>1, <3>2
  <2> QED BY <2>5
<1>3. l \in T /\ \A m \in T : m <= l
  <2> HIDE DEF T
  <2> QED BY <1>2
<1>4. NextLexicographicString(p) = q
  <2>1. p # <<>>
    BY <1>1 DEF Incrementable
  <2> QED BY <2>1 DEF NextLexicographicString
<1> HIDE DEF l
<1>5. l \in 1..Len(p) /\ l - 1 \in Nat /\ l - 1 <= Len(p) /\ p[l] # MaxByte /\ l - 1 + 1 = l
  BY <1>1, <1>3 DEF Incrementable
<1>6. p[l] + 1 \in 0..MaxByte
  <2>1. p[l] \in 0..MaxByte /\ MaxByte \in Nat
    BY <1>1, <1>5, ByteFacts
  <2> QED BY <1>5, <2>1
<1>7. \A n \in (l + 1)..Len(p) : ByteAt(p, n) = MaxByte
  <2> SUFFICES ASSUME NEW n \in (l + 1)..Len(p) PROVE ByteAt(p, n) = MaxByte
    OBVIOUS
  <2>1. n \in 1..Len(p) /\ n <= Len(p) /\ ~ (n <= l)
    BY <1>1, <1>5
  <2>2. n \notin T
    BY <1>3, <2>1
  <2>3. p[n] = MaxByte
    BY <1>1, <2>1, <2>2 DEF Incrementable
  <2> QED BY <2>1, <2>3 DEF ByteAt
<1> DEFINE r == SubSeq(p, 1, l - 1)
<1>8. r \in Strings /\ Len(r) = l - 1 /\ \A i \in 1..(l - 1) : r[i] = p[i]
  BY <1>5, FirstElements DEF Strings
<1> HIDE DEF r
<1>9. q = Append(r, p[l] + 1)
  BY DEF r
<1> HIDE DEF q
<1>10. /\ q \in Strings /\ Len(q) = l /\ q[l] = p[l] + 1
       /\ \A i \in 1..(l - 1) : q[i] = r[i]
  BY <1>5, <1>6, <1>8, <1>9 DEF Strings
<1>11. ASSUME NEW n \in Nat \ {0}
       PROVE  ByteAt(q, n) = IF n < l THEN ByteAt(p, n) ELSE IF n = l THEN ByteAt(p, n) + 1 ELSE 0
  <2>1. l \in Nat /\ l <= Len(p)
    BY <1>1, <1>5
  <2>2. CASE n < l
    <3>1. n \in 1..(l - 1) /\ n <= l /\ n <= Len(p)
      BY <1>1, <2>1, <2>2
    <3>2. q[n] = p[n]
      BY <1>8, <1>10, <3>1
    <3> QED BY <1>10, <2>2, <3>1, <3>2 DEF ByteAt
  <2>3. CASE n = l
    <3>1. n <= l /\ n <= Len(p) /\ ~ (n < l)
      BY <2>1, <2>3
    <3> QED BY <1>10, <2>3, <3>1 DEF ByteAt
  <2>4. CASE n > l
    <3>1. ~ (n <= l) /\ ~ (n < l) /\ n # l
      BY <2>1, <2>4
    <3> QED BY <1>10, <3>1 DEF ByteAt
  <2> QED BY <2>1, <2>2, <2>3, <2>4
<1>12. Increments(q, p, l)
  BY <1>5, <1>7, <1>10, <1>11 DEF Increments
<1> QED BY <1>4, <1>12

\* A string without a byte to increment gets a zero, which changes no byte.
LEMMA NextUnchanged ==
  ASSUME NEW p \in Strings, Incrementable(p) = {}
  PROVE  /\ NextLexicographicString(p) \in Strings
         /\ \A n \in Nat \ {0} : ByteAt(NextLexicographicString(p), n) = ByteAt(p, n)
<1> DEFINE q == Append(p, 0)
<1>1. CASE p = <<>>
  BY <1>1 DEF NextLexicographicString
<1>2. CASE p # <<>>
  <2>1. NextLexicographicString(p) = q
    BY <1>2 DEF NextLexicographicString
  <2>2. Len(p) \in Nat /\ 0 \in 0..MaxByte
    BY SequenceFacts, ByteFacts DEF Strings
  <2>3. q \in Strings /\ Len(q) = Len(p) + 1 /\ q[Len(p) + 1] = 0
        /\ \A i \in 1..Len(p) : q[i] = p[i]
    BY <2>2 DEF Strings
  <2> HIDE DEF q
  <2>4. ASSUME NEW n \in Nat \ {0} PROVE ByteAt(q, n) = ByteAt(p, n)
    <3>1. CASE n <= Len(p)
      <4>1. n \in 1..Len(p) /\ n <= Len(q)
        BY <2>2, <2>3, <3>1
      <4> QED BY <2>3, <3>1, <4>1 DEF ByteAt
    <3>2. CASE n = Len(p) + 1
      <4>1. ~ (n <= Len(p)) /\ n <= Len(q)
        BY <2>2, <2>3, <3>2
      <4> QED BY <2>3, <3>2, <4>1 DEF ByteAt
    <3>3. CASE n > Len(p) + 1
      <4>1. ~ (n <= Len(p)) /\ ~ (n <= Len(q))
        BY <2>2, <2>3, <3>3
      <4> QED BY <4>1 DEF ByteAt
    <3> QED BY <2>2, <3>1, <3>2, <3>3
  <2> QED BY <2>1, <2>3, <2>4
<1> QED BY <1>1, <1>2

\* The upper bound of a prefix is a string.
LEMMA NextIsString ==
  ASSUME NEW p \in Strings PROVE NextLexicographicString(p) \in Strings
<1>1. CASE Incrementable(p) = {}
  BY <1>1, NextUnchanged
<1>2. CASE Incrementable(p) # {}
  BY <1>2, NextIncrements DEF Increments
<1> QED BY <1>1, <1>2

\* The strings with a bounded prefix are between it and its next string.
LEMMA PrefixInRange ==
  ASSUME NEW s \in Strings, NEW p \in Strings, Bounded(p), HasPrefix(s, p)
  PROVE  LET q == NextLexicographicString(p)
         IN  /\ ~ (StringToIntLex(s) < StringToIntLex(p))
             /\ ~ (StringToIntLex(q) < StringToIntLex(s))
<1> DEFINE q == NextLexicographicString(p)
<1>1. \A n \in 1..Len(p) : ByteAt(s, n) = ByteAt(p, n)
  BY PrefixOfBytes
<1>2. /\ Len(p) \in Nat /\ MaxBytes \in Nat /\ q \in Strings
      /\ \A n \in 1..MaxBytes : n \in Nat \ {0}
  BY BytesOf, ByteFacts, NextIsString
<1>3. ASSUME NEW n, SmallerAt(s, p, n) PROVE FALSE
  <2>1. n \in Nat \ {0} /\ ByteAt(s, n) < ByteAt(p, n)
    BY <1>2, <1>3 DEF SmallerAt
  <2>2. ByteAt(s, n) \in Nat /\ ByteAt(p, n) \in Nat /\ (n > Len(p) => ByteAt(p, n) = 0)
    BY <2>1, BytesOf, ByteFacts
  <2>3. n \in 1..Len(p)
    BY <1>2, <2>1, <2>2
  <2> QED BY <1>1, <2>1, <2>2, <2>3
<1>4. ASSUME NEW n, SmallerAt(q, s, n) PROVE FALSE
  <2>1. /\ n \in Nat \ {0} /\ n <= MaxBytes /\ ByteAt(q, n) < ByteAt(s, n)
        /\ \A m \in 1..(n - 1) : ByteAt(q, m) = ByteAt(s, m)
    BY <1>2, <1>4 DEF SmallerAt
  <2>2. ByteAt(s, n) \in Nat /\ ByteAt(q, n) \in Nat
    BY <1>2, <2>1, BytesOf
  <2>3. CASE Incrementable(p) # {}
    <3>1. PICK l : Increments(q, p, l)
      BY <2>3, NextIncrements
    <3>2. l \in 1..Len(p) /\ l \in Nat \ {0} /\ ByteAt(q, l) = ByteAt(p, l) + 1
      BY <1>2, <3>1 DEF Increments
    <3>3. ByteAt(s, l) = ByteAt(p, l) /\ ByteAt(p, l) \in Nat
      BY <1>1, <3>2, BytesOf
    <3>4. CASE n < l
      <4>1. ByteAt(q, n) = ByteAt(p, n) /\ n \in 1..Len(p)
        BY <1>2, <2>1, <3>1, <3>2, <3>4 DEF Increments
      <4> QED BY <1>1, <2>1, <2>2, <4>1
    <3>5. CASE n = l
      BY <2>1, <3>2, <3>3, <3>5
    <3>6. CASE n > l
      <4>1. l \in 1..(n - 1)
        BY <2>1, <3>2, <3>6
      <4>2. ByteAt(q, l) = ByteAt(s, l)
        BY <2>1, <4>1
      <4> QED BY <3>2, <3>3, <4>2
    <3> QED BY <2>1, <3>2, <3>4, <3>5, <3>6
  <2>4. CASE Incrementable(p) = {}
    <3>1. Len(p) >= MaxBytes
      BY <2>4 DEF Bounded
    <3>2. n \in 1..Len(p)
      BY <1>2, <2>1, <3>1
    <3>3. ByteAt(q, n) = ByteAt(p, n)
      BY <2>1, <2>4, NextUnchanged
    <3> QED BY <1>1, <2>1, <2>2, <3>2, <3>3
  <2> QED BY <2>3, <2>4
<1> HIDE DEF q
<1>5. ~ (StringToIntLex(s) < StringToIntLex(p)) /\ ~ (StringToIntLex(q) < StringToIntLex(s))
  BY <1>2, <1>3, <1>4, StringOrder
<1> QED BY <1>5 DEF q

\* What is strictly between a string and its next string has it as a prefix.
LEMMA RangeHasPrefix ==
  ASSUME NEW s \in Strings, NEW p \in Strings,
         StringToIntLex(p) < StringToIntLex(s),
         StringToIntLex(s) < StringToIntLex(NextLexicographicString(p))
  PROVE  HasPrefix(s, p)
<1> DEFINE q == NextLexicographicString(p)
<1>1. q \in Strings
  BY NextIsString
<1>2. /\ StringToIntLex(p) \in Nat /\ StringToIntLex(s) \in Nat
      /\ StringToIntLex(p) = StringToIntLex(q) <=> SameBytes(p, q)
  BY <1>1, StringOrder
<1>3. Incrementable(p) # {}
  <2> SUFFICES ASSUME Incrementable(p) = {} PROVE FALSE
    OBVIOUS
  <2>1. \A n \in 1..MaxBytes : n \in Nat \ {0}
    BY ByteFacts
  <2>2. SameBytes(p, q)
    BY <2>1, NextUnchanged DEF SameBytes
  <2>3. StringToIntLex(p) = StringToIntLex(q)
    BY <1>2, <2>2
  <2> QED BY <1>2, <2>3
<1>4. PICK l : Increments(q, p, l)
  BY <1>3, NextIncrements
<1>5. PICK n : SmallerAt(p, s, n)
  BY StringOrder
<1>6. PICK m : SmallerAt(s, q, m)
  <2> HIDE DEF q
  <2>1. StringToIntLex(s) < StringToIntLex(q)
    BY DEF q
  <2> QED BY <1>1, <2>1, StringOrder
<1> HIDE DEF q
<1>7. /\ n \in Nat \ {0} /\ ByteAt(p, n) < ByteAt(s, n)
      /\ \A i \in 1..(n - 1) : ByteAt(p, i) = ByteAt(s, i)
  BY <1>5, ByteFacts DEF SmallerAt
<1>8. /\ m \in Nat \ {0} /\ ByteAt(s, m) < ByteAt(q, m)
      /\ \A i \in 1..(m - 1) : ByteAt(s, i) = ByteAt(q, i)
  BY <1>6, ByteFacts DEF SmallerAt
<1>9. /\ Len(p) \in Nat /\ l \in 1..Len(p) /\ l \in Nat \ {0}
      /\ \A i \in (l + 1)..Len(p) : ByteAt(p, i) = MaxByte
      /\ \A i \in Nat \ {0} :
           ByteAt(q, i) = IF i < l THEN ByteAt(p, i) ELSE IF i = l THEN ByteAt(p, i) + 1 ELSE 0
  BY <1>4, BytesOf DEF Increments
<1>10. \A i \in Nat \ {0} :
         /\ ByteAt(p, i) \in Nat /\ ByteAt(s, i) \in Nat /\ ByteAt(q, i) \in Nat
         /\ ByteAt(s, i) <= MaxByte /\ MaxByte \in Nat
  BY <1>1, BytesOf, ByteFacts
<1>11. n > Len(p)
  <2> SUFFICES ASSUME n <= Len(p) PROVE FALSE
    BY <1>7, <1>9
  <2>1. n <= l
    <3> SUFFICES ASSUME n > l PROVE FALSE
      BY <1>7, <1>9
    <3>1. n \in (l + 1)..Len(p)
      BY <1>7, <1>9
    <3>2. ByteAt(p, n) = MaxByte
      BY <1>9, <3>1
    <3>3. ByteAt(s, n) <= MaxByte /\ MaxByte \in Nat /\ ByteAt(s, n) \in Nat
      BY <1>7, <1>10
    <3> QED BY <1>7, <3>2, <3>3
  <2>2. ByteAt(p, n) \in Nat /\ ByteAt(s, n) \in Nat /\ ByteAt(q, n) \in Nat
        /\ ByteAt(p, m) \in Nat /\ ByteAt(s, m) \in Nat /\ ByteAt(q, m) \in Nat
    BY <1>7, <1>8, <1>10
  <2>3. m <= l
    <3> SUFFICES ASSUME m > l PROVE FALSE
      BY <1>8, <1>9
    <3>1. ~ (m < l) /\ m # l
      BY <1>8, <1>9
    <3>2. ByteAt(q, m) = 0
      BY <1>8, <1>9, <3>1
    <3> QED BY <1>8, <2>2, <3>2
  <2>4. CASE m < n
    <3>1. m \in 1..(n - 1) /\ m < l
      BY <1>7, <1>8, <1>9, <2>1, <2>4
    <3>2. ByteAt(p, m) = ByteAt(s, m) /\ ByteAt(q, m) = ByteAt(p, m)
      BY <1>7, <1>8, <1>9, <3>1
    <3> QED BY <1>8, <2>2, <3>2
  <2>5. CASE n < m
    <3>1. n \in 1..(m - 1) /\ n < l
      BY <1>7, <1>8, <1>9, <2>3, <2>5
    <3>2. ByteAt(s, n) = ByteAt(q, n) /\ ByteAt(q, n) = ByteAt(p, n)
      BY <1>7, <1>8, <1>9, <3>1
    <3> QED BY <1>7, <2>2, <3>2
  <2>6. CASE n = m
    <3>1. ByteAt(q, n) = ByteAt(p, n) \/ ByteAt(q, n) = ByteAt(p, n) + 1
      BY <1>7, <1>8, <1>9, <2>3, <2>6
    <3> QED BY <1>7, <1>8, <2>2, <2>6, <3>1
  <2> QED BY <1>7, <1>8, <2>4, <2>5, <2>6
<1>12. ByteAt(s, n) # 0
  <2>1. ByteAt(p, n) \in Nat /\ ByteAt(s, n) \in Nat
    BY <1>7, <1>10
  <2> QED BY <1>7, <2>1
<1> QED BY <1>7, <1>11, <1>12, PrefixOfBytes

(* A pattern lookup finds every string with the prefix, if the prefix is   *)
(* bounded and the prefix tree covers the keys up to its bound, and        *)
(* besides them at most strings that the conversion cannot tell from the   *)
(* prefix or from the upper bound made of it; without a pattern it finds   *)
(* nothing (PatternsFindPrefixes).                                         *)
THEOREM PatternsTyped == TypedSpec => []PatternsFindPrefixes
<1>1. ASSUME Inv, Ordered, Provenance, type = "string", NEW pattern \in Patterns, IsPattern(pattern),
             TypedCovered(PatternPrefix(pattern), NextLexicographicString(PatternPrefix(pattern)))
      PROVE  PrefixFound(RecordsOf(PatternLookup(pattern)), PatternPrefix(pattern))
  <2> DEFINE p == PatternPrefix(pattern)
             q == NextLexicographicString(p)
             found == RecordsOf(RangeLookup(Code(p), Code(q)))
             key(r) == TypedKeys[r]
  <2>1. p \in Strings
    <3>1. pattern \in Strings
      BY TIAssumption DEF Strings
    <3>2. Len(pattern) \in Nat /\ DOMAIN pattern = 1..Len(pattern)
      BY <3>1, SequenceFacts DEF Strings
    <3>3. Len(pattern) # 0
      BY <1>1, <3>1 DEF IsPattern, Strings
    <3>4. Len(pattern) - 1 \in Nat /\ Len(pattern) - 1 <= Len(pattern)
      BY <3>2, <3>3
    <3> QED BY <3>1, <3>4, FirstElements DEF PatternPrefix, Strings
  <2>2. RecordsOf(PatternLookup(pattern)) = found
    BY <1>1 DEF PatternLookup, TypedRangeLookup
  <2>3. CoveredBetween(Code(p), Code(q))
    BY <1>1 DEF TypedCovered
  <2> HIDE DEF p
  <2>4. q \in Strings
    BY <2>1, NextIsString
  <2> HIDE DEF q
  <2>5. /\ OfType(p) /\ OfType(q) /\ Code(p) \in Nat /\ Code(q) \in Nat
        /\ type \in KeyTypes
    <3>1. OfType(p) /\ OfType(q) /\ type \in KeyTypes
      BY <1>1, <2>1, <2>4 DEF OfType, KeyTypes
    <3> QED BY <3>1, CodeFacts
  <2>6. \A r : r \in found <=> r \in Stored /\ Code(p) <= Code(key(r)) /\ Code(key(r)) <= Code(q)
    BY <1>1, <2>5, <2>3, RangeRecords
  <2>7. \A r \in Stored : OfType(key(r)) /\ Code(key(r)) \in Nat /\ key(r) \in Strings
    <3>1. \A r \in Stored : OfType(key(r)) /\ Code(key(r)) \in Nat
      BY <1>1, <2>5, StoredKeys
    <3> QED BY <1>1, <3>1 DEF OfType
  <2> HIDE DEF key, found
  <2>8. \A s : Code(s) = StringToIntLex(s)
    BY <1>1 DEF Code
  <2>9. ASSUME NEW r \in Stored, Bounded(p), HasPrefix(key(r), p) PROVE r \in found
    <3>1. ~ (Code(key(r)) < Code(p)) /\ ~ (Code(q) < Code(key(r)))
      BY <2>1, <2>7, <2>8, <2>9, PrefixInRange DEF q
    <3> QED BY <2>5, <2>6, <2>7, <3>1
  <2>10. ASSUME NEW r \in found
        PROVE  HasPrefix(key(r), p) \/ Alike(key(r), p) \/ Alike(key(r), q)
    <3>1. r \in Stored /\ Code(p) <= Code(key(r)) /\ Code(key(r)) <= Code(q)
      BY <2>6
    <3>2. OfType(key(r)) /\ Code(key(r)) \in Nat /\ key(r) \in Strings
      BY <2>7, <3>1
    <3>3. \/ Code(key(r)) = Code(p) \/ Code(key(r)) = Code(q)
          \/ Code(p) < Code(key(r)) /\ Code(key(r)) < Code(q)
      BY <2>5, <3>1, <3>2
    <3>4. /\ Code(key(r)) = Code(p) => Alike(key(r), p)
          /\ Code(key(r)) = Code(q) => Alike(key(r), q)
      BY <2>5, <3>2, CodeFacts
    <3>5. Code(p) < Code(key(r)) /\ Code(key(r)) < Code(q) => HasPrefix(key(r), p)
      BY <2>1, <2>8, <3>2, RangeHasPrefix DEF q
    <3> QED BY <3>3, <3>4, <3>5
  <2>11. PrefixFound(found, p)
    BY <2>9, <2>10 DEF PrefixFound, key, q
  <2> QED BY <2>2, <2>11 DEF p
<1>2. ASSUME NEW pattern \in Patterns, ~ IsPattern(pattern) PROVE PatternLookup(pattern) = <<>>
  BY <1>2 DEF PatternLookup
<1>3. Inv /\ Ordered /\ Provenance => PatternsFindPrefixes
  BY <1>1, <1>2 DEF PatternsFindPrefixes
<1> QED BY <1>3, KeepsProvenance, TypedIsIndexed, Correct, KeepsOrder, PTL

=============================================================================

---------------------------- MODULE RangeLHProofs ----------------------------
(***************************************************************************)
(* Proofs about class RangeLH for every set of keys and values, every      *)
(* configuration of the filter and of the hash table, and any number of    *)
(* workers.                                                                *)
(***************************************************************************)
EXTENDS RangeLH, ShiftTheorems

\* The facts about the hash table, for the table of this class
LHP == INSTANCE LinearHashingProofs WITH
         Ids <- Keys, Workers <- Addresses, NoWorker <- Null, MaxBatch <- 0

-----------------------------------------------------------------------------
(* The filter *)

\* There is a level: the constructor's k_ is between 1 and the key width.
LEMMA LevelCountFacts == LevelCount \in 1..KeyBits
<1>1. KeyBits \in Nat /\ Delta \in Nat \ {0} /\ NItems \in Nat \ {0} /\ NItems < Pow2[KeyBits]
  BY RFAssumption DEF NItems
<1>2. \E k \in 1..KeyBits :
        /\ Pow2[KeyBits] <= NItems * Pow2[k * Delta]
        /\ \A j \in 0..(k - 1) : Pow2[KeyBits] > NItems * Pow2[j * Delta]
  BY <1>1, LevelsExist
<1> QED BY <1>2 DEF LevelCount

\* The bit of a key at a level lies at most one word behind the last word of the
\* filter, and is the bit of the first key of its node.
LEMMA PositionFacts ==
  ASSUME NEW key \in Nat, NEW i \in Levels
  PROVE  /\ Position(key, i) \in 0..(FilterSize + WordBits - 1)
         /\ Position(AlignDown(key, i * Delta), i) = Position(key, i)
<1> DEFINE n == Delta - 1
           l == i * Delta
           c == FilterSize \div WordBits
<1>1. Delta \in Nat \ {0} /\ i \in Nat /\ n \in Nat /\ n + 1 = Delta /\ l \in Nat /\ l + Delta - 1 = l + n
  <2>1. Delta \in Nat \ {0} /\ i \in Nat
    BY RFAssumption, LevelCountFacts DEF Levels
  <2> QED BY <2>1
<1>2. A(i) \in Nat /\ B(i) \in Nat
  <2>1. i % 8 \in 0..7
    BY <1>1, DivModLaw
  <2>2. \A j \in 0..7 : PrimesA[j + 1] \in Nat /\ PrimesB[j + 1] \in Nat
    BY DEF PrimesA, PrimesB
  <2> QED BY <2>1, <2>2 DEF A, B
<1>3. WordBits = Pow2[n] /\ WordBits \in Nat \ {0}
  BY <1>1, Pow2Facts DEF WordBits
<1> HIDE DEF n, l
<1>4. c \in Nat \ {0} /\ FilterSize = c * WordBits
  <2> DEFINE e == (RawSize + WordBits - 1) \div WordBits
  <2>1. RawSize \in Nat \ {0} /\ FilterSize = e * WordBits
    BY RFAssumption DEF FilterSize
  <2>2. e \in Nat \ {0} /\ (e * WordBits) \div WordBits = e
    BY <1>3, <2>1, WholeWords
  <2> HIDE DEF e
  <2> QED BY <2>1, <2>2
<1>5. \A x : Position(x, i) = HashedBit(A(i), B(i), c, n, l, x)
  BY <1>1, <1>3 DEF Position, Word, Offset, Prefix, LevelShift, HashedBit, Shl, n, l
<1> HIDE DEF c
<1> DEFINE a == A(i)
           b == B(i)
<1> HIDE DEF a, b
<1>6. a \in Nat /\ b \in Nat /\ c \in Nat \ {0} /\ n \in Nat /\ l \in Nat /\ key \in Nat
  BY <1>1, <1>2, <1>4 DEF a, b
<1>7. /\ HashedBit(a, b, c, n, l, key) \in 0..(c * Pow2[n] + Pow2[n] - 1)
      /\ HashedBit(a, b, c, n, l, AlignDown(key, l)) = HashedBit(a, b, c, n, l, key)
  BY ONLY <1>6, HashedBitFacts
<1> QED BY <1>3, <1>4, <1>5, <1>7 DEF l, a, b

\* The greatest and the least key of a set, and NoKey where there is none
LEMMA ExtremeFacts ==
  ASSUME NEW xs, xs \subseteq Nat
  PROVE  /\ IF xs = {} THEN Least(xs) = NoKey
            ELSE Least(xs) \in xs /\ \A y \in xs : Least(xs) <= y
         /\ \A n \in Nat : (\A x \in xs : x <= n) =>
              IF xs = {} THEN Greatest(xs) = NoKey
              ELSE Greatest(xs) \in xs /\ \A y \in xs : y <= Greatest(xs)
<1>1. xs # {} => Least(xs) \in xs /\ \A y \in xs : Least(xs) <= y
  BY LeastOf DEF Least
<1>2. ASSUME NEW n \in Nat, \A x \in xs : x <= n, xs # {}
      PROVE  Greatest(xs) \in xs /\ \A y \in xs : y <= Greatest(xs)
  BY <1>2, GreatestOf DEF Greatest
<1>3. xs = {} => Least(xs) = NoKey /\ Greatest(xs) = NoKey
  BY DEF Least, Greatest
<1> QED BY <1>1, <1>2, <1>3

\* What the two searches return.
LEMMA AdjacentFacts ==
  ASSUME NEW ps, ps \subseteq Nat, NEW bs, NEW to \in Nat
  PROVE  LET l == LeftAdjacent(ps, bs, to)
             r == RightAdjacent(ps, bs, to)
         IN  /\ \/ /\ l = NoKey
                   /\ \A x \in ps : x <= to => ~ Visible(ps, bs, x)
                \/ /\ l \in ps /\ l <= to /\ Visible(ps, bs, l)
                   /\ \A x \in ps : x <= to /\ Visible(ps, bs, x) => x <= l
             /\ \/ /\ r = NoKey
                   /\ \A x \in ps : x >= to => ~ Visible(ps, bs, x)
                \/ /\ r \in ps /\ r >= to /\ Visible(ps, bs, r)
                   /\ \A x \in ps : x >= to /\ Visible(ps, bs, x) => r <= x
<1> DEFINE L == {x \in ps : x <= to /\ Visible(ps, bs, x)}
           R == {x \in ps : x >= to /\ Visible(ps, bs, x)}
<1>1. IF L = {} THEN Greatest(L) = NoKey
      ELSE Greatest(L) \in L /\ \A y \in L : y <= Greatest(L)
  <2>1. L \subseteq Nat /\ \A x \in L : x <= to
    OBVIOUS
  <2> HIDE DEF L
  <2> QED BY <2>1, ExtremeFacts
<1>2. IF R = {} THEN Least(R) = NoKey
      ELSE Least(R) \in R /\ \A y \in R : Least(R) <= y
  <2>1. R \subseteq Nat
    OBVIOUS
  <2> HIDE DEF R
  <2> QED BY <2>1, ExtremeFacts
<1>3. LeftAdjacent(ps, bs, to) = Greatest(L) /\ RightAdjacent(ps, bs, to) = Least(R)
  BY DEF LeftAdjacent, RightAdjacent
<1> QED BY <1>1, <1>2, <1>3

\* A key of the index that the tree covers is reached, whatever other bits are set.
LEMMA BitsMakeVisible ==
  ASSUME NEW ps, NEW bs, NEW x \in ps, x \in Nat, x < Coverage,
         \A i \in Levels : Position(x, i) \in bs
  PROVE  Visible(ps, bs, x)
<1>1. \A i \in 1..MaxLevel : i \in Levels
  BY LevelCountFacts, RFAssumption DEF Levels, MaxLevel
<1>2. ASSUME NEW i \in 1..MaxLevel PROVE CheckAtLevel(bs, AlignDown(x, i * Delta), i)
  BY <1>1, PositionFacts DEF CheckAtLevel
<1> QED BY <1>2 DEF Visible

-----------------------------------------------------------------------------
(* The hash table *)

\* What the facts about the hash table assume of its constants.
LEMMA TableConstants ==
  /\ Keys \subseteq Nat
  /\ Null \notin Addresses
  /\ InitialSize \in Nat \ {0}
  /\ LoadNum \in Nat
  /\ LoadDen \in Nat \ {0}
  /\ 0 \in Nat
BY RFAssumption, RLHAssumption DEF Addresses, Null

\* They are about the operators that the specification applies.
LEMMA SameTable ==
  /\ LHP!Table = LH!Table /\ LHP!NewTable = LH!NewTable
  /\ \A t, id, w : LHP!Inserted(t, id, w) = LH!Inserted(t, id, w)
  /\ \A t, id : LHP!Lookup(t, id) = LH!Lookup(t, id)
<1>1. LHP!Table = LH!Table /\ LHP!Entry = LH!Entry
  BY DEF LHP!Table, LH!Table, LHP!Entry, LH!Entry
<1>2. LHP!InitialBuckets = LH!InitialBuckets /\ \A x, n : LHP!Shl(x, n) = LH!Shl(x, n)
  BY DEF LHP!InitialBuckets, LH!InitialBuckets, LHP!InitialExponent, LH!InitialExponent,
         LHP!Shl, LH!Shl, LHP!Pow2, LH!Pow2
<1>3. LHP!NewTable = LH!NewTable
  BY <1>2 DEF LHP!NewTable, LH!NewTable
<1>4. \A t : LHP!BucketCount(t) = LH!BucketCount(t)
  BY DEF LHP!BucketCount, LH!BucketCount
<1>5. \A id, i : LHP!Hash(id, i) = LH!Hash(id, i)
  BY <1>2 DEF LHP!Hash, LH!Hash
<1>6. \A t, id : LHP!BucketIndex(t, id) = LH!BucketIndex(t, id)
  BY <1>5 DEF LHP!BucketIndex, LH!BucketIndex
<1>7. \A t, id, w : LHP!Linked(t, id, w) = LH!Linked(t, id, w)
  BY <1>6 DEF LHP!Linked, LH!Linked
<1>8. \A t : LHP!Overloaded(t) <=> LH!Overloaded(t)
  BY <1>4 DEF LHP!Overloaded, LH!Overloaded
<1>9. \A t : LHP!Split(t) = LH!Split(t)
  <2>1. \A c, S : LHP!Relinked(c, S) = LH!Relinked(c, S)
    BY DEF LHP!Relinked, LH!Relinked
  <2>2. \A t, c : LHP!Movers(t, c) = LH!Movers(t, c)
    BY <1>1, <1>4, <1>5 DEF LHP!Movers, LH!Movers, LHP!Holds, LH!Holds
  <2>3. \A t : LHP!Rehashed(t) = LH!Rehashed(t)
    BY <1>1, <2>1, <2>2 DEF LHP!Rehashed, LH!Rehashed
  <2>4. \A t : LHP!Advanced(t) = LH!Advanced(t)
    BY <1>2 DEF LHP!Advanced, LH!Advanced, LHP!RoundIsOver, LH!RoundIsOver
  <2> QED BY <2>3, <2>4 DEF LHP!Split, LH!Split
<1>10. \A t, id, w : LHP!Inserted(t, id, w) = LH!Inserted(t, id, w)
  BY <1>7, <1>8, <1>9 DEF LHP!Inserted, LH!Inserted, LHP!CheckAndSplit, LH!CheckAndSplit
<1>11. \A t, id : LHP!Chain(t, id) = LH!Chain(t, id)
  BY <1>6 DEF LHP!Chain, LH!Chain
<1>12. \A c, id : LHP!Matches(c, id) = LH!Matches(c, id)
  BY DEF LHP!Matches, LH!Matches
<1>13. ASSUME NEW c, NEW id PROVE LHP!FirstMatch(c, id) = LH!FirstMatch(c, id)
  BY <1>12 DEF LHP!FirstMatch, LH!FirstMatch
<1>14. \A t, id : LHP!Lookup(t, id) = LH!Lookup(t, id)
  BY <1>11, <1>12, <1>13 DEF LHP!Lookup, LH!Lookup
<1> QED BY <1>1, <1>3, <1>10, <1>14

\* The table t holds exactly the workers of the heap h, each under its own key,
\* and no key has two workers.
Indexed(t, h) ==
  /\ LHP!Sound(t)
  /\ \A e : LHP!InTable(t, e) <=> \E a \in DOMAIN h : e = [id |-> h[a].id, worker |-> a]
  /\ \A a, b \in DOMAIN h : h[a].id = h[b].id => a = b

\* A new table indexes an empty heap.
LEMMA NewTableIndexed == Indexed(LH!NewTable, <<>>)
<1>1. LHP!Sound(LH!NewTable) /\ \A e : ~ LHP!InTable(LH!NewTable, e)
  BY TableConstants, SameTable, LHP!NewTableFacts
<1> QED BY <1>1 DEF Indexed

\* A lookup returns the worker of the key, if there is one.
LEMMA LookupIndexed ==
  ASSUME NEW t, NEW h, Indexed(t, h), NEW k \in Nat
  PROVE  IF \E a \in DOMAIN h : h[a].id = k
         THEN LH!Lookup(t, k) \in DOMAIN h /\ h[LH!Lookup(t, k)].id = k
                /\ LH!Lookup(t, k) # Null
         ELSE LH!Lookup(t, k) = Null
<1> DEFINE w == LH!Lookup(t, k)
<1>1. /\ w = Null <=> \A e : LHP!InTable(t, e) => e.id # k
      /\ w # Null => LHP!InTable(t, [id |-> k, worker |-> w])
  BY TableConstants, SameTable, LHP!LookupFacts DEF Indexed
<1> HIDE DEF w
<1>2. \A a \in DOMAIN h : LHP!InTable(t, [id |-> h[a].id, worker |-> a])
  BY DEF Indexed
<1>3. ASSUME NEW a \in DOMAIN h, h[a].id = k PROVE w # Null
  <2> DEFINE e == [id |-> h[a].id, worker |-> a]
  <2>1. LHP!InTable(t, e) /\ e.id = k
    BY <1>2, <1>3
  <2> HIDE DEF e
  <2> QED BY <1>1, <2>1
<1>4. ASSUME w # Null PROVE w \in DOMAIN h /\ h[w].id = k
  <2>1. PICK a \in DOMAIN h : [id |-> k, worker |-> w] = [id |-> h[a].id, worker |-> a]
    BY <1>1, <1>4 DEF Indexed
  <2> QED BY <2>1
<1> QED BY <1>3, <1>4 DEF w

\* Storing a new worker under a new key.
LEMMA InsertIndexed ==
  ASSUME NEW t, NEW h, Indexed(t, h), NEW g, NEW k \in Keys, NEW n \in Addresses,
         n \notin DOMAIN h, DOMAIN g = DOMAIN h \cup {n},
         g[n].id = k, \A a \in DOMAIN h : g[a].id = h[a].id /\ h[a].id # k
  PROVE  Indexed(LH!Inserted(t, k, n), g)
<1> DEFINE u == LH!Inserted(t, k, n)
<1>1. /\ LHP!Sound(u)
      /\ \A e : LHP!InTable(u, e) <=> (e = [id |-> k, worker |-> n] \/ LHP!InTable(t, e))
  BY TableConstants, SameTable, LHP!InsertedFacts DEF Indexed
<1> HIDE DEF u
<1>2. \A e : LHP!InTable(u, e) <=> \E a \in DOMAIN g : e = [id |-> g[a].id, worker |-> a]
  BY <1>1 DEF Indexed
<1>3. \A a, b \in DOMAIN g : g[a].id = g[b].id => a = b
  BY DEF Indexed
<1> QED BY <1>1, <1>2, <1>3 DEF Indexed, u

\* A change of data or of links does not concern the table.
LEMMA SameIndexed ==
  ASSUME NEW t, NEW h, Indexed(t, h), NEW g,
         DOMAIN g = DOMAIN h, \A a \in DOMAIN h : g[a].id = h[a].id
  PROVE  Indexed(t, g)
<1>1. \A e : LHP!InTable(t, e) <=> \E a \in DOMAIN g : e = [id |-> g[a].id, worker |-> a]
  BY DEF Indexed
<1>2. \A a, b \in DOMAIN g : g[a].id = g[b].id => a = b
  BY DEF Indexed
<1> QED BY <1>1, <1>2 DEF Indexed

-----------------------------------------------------------------------------
(* The heap *)

\* A sequence is known by its domain and its elements.
LEMMA SequenceByDomain ==
  ASSUME NEW S, NEW n \in Nat, NEW g, g = [b \in DOMAIN g |-> g[b]],
         DOMAIN g = 1..n, \A b \in 1..n : g[b] \in S
  PROVE  g \in Seq(S) /\ Len(g) = n
<1>1. g \in [1..n -> S]
  OBVIOUS
<1> QED BY <1>1

Cell(n) == [id : Keys, data : Values \cup {Null}, next : 0..n]

\* Writing the data of a worker changes nothing else.
IsWritten(g, h, n, a, v) ==
  /\ g \in Seq(Cell(n)) /\ Len(g) = Len(h) /\ DOMAIN g = DOMAIN h
  /\ \A b \in DOMAIN h :
       /\ g[b].id = h[b].id /\ g[b].next = h[b].next
       /\ g[b].data = IF b = a THEN v ELSE h[b].data

\* A heap with other data in a worker
LEMMA WrittenHeap ==
  ASSUME NEW n \in Nat, NEW h \in Seq(Cell(n)), NEW a \in DOMAIN h, NEW v \in Values \cup {Null}
  PROVE  IsWritten([h EXCEPT ![a].data = v], h, n, a, v)
<1> DEFINE C == Cell(n)
           g == [h EXCEPT ![a].data = v]
<1>1. \A b \in DOMAIN h : h[b] \in C
  OBVIOUS
<1>2. [h[a] EXCEPT !.data = v] \in C
  BY <1>1 DEF Cell
<1>3. g = [h EXCEPT ![a] = [h[a] EXCEPT !.data = v]]
  OBVIOUS
<1>4. \A b \in DOMAIN h : /\ g[b].id = h[b].id /\ g[b].next = h[b].next
                          /\ g[b].data = IF b = a THEN v ELSE h[b].data
  BY <1>1, <1>3 DEF Cell
<1> HIDE DEF C
<1>5. g \in Seq(C) /\ Len(g) = Len(h) /\ DOMAIN g = DOMAIN h
  <2>1. DOMAIN h = 1..Len(h) /\ Len(h) \in Nat
    OBVIOUS
  <2>2. g = [b \in DOMAIN g |-> g[b]] /\ DOMAIN g = 1..Len(h)
    BY <2>1, <1>3
  <2>3. \A b \in 1..Len(h) : g[b] \in C
    BY <1>1, <1>2, <1>3, <2>1
  <2> HIDE DEF g
  <2>4. g \in Seq(C) /\ Len(g) = Len(h)
    BY <2>1, <2>2, <2>3, SequenceByDomain
  <2> QED BY <2>1, <2>2, <2>4
<1> QED BY <1>4, <1>5 DEF C, IsWritten

\* A new worker, linked behind the worker p and in front of the address x; for
\* p = Null it is not linked behind any.
Extended(h, p, k, v, x) ==
  Append(IF p = Null THEN h ELSE [h EXCEPT ![p].next = Len(h) + 1], Worker(k, v, x))

IsExtended(g, h, p, k, v, x) ==
  LET n == Len(h) + 1
  IN  /\ Len(h) \in Nat /\ DOMAIN h = 1..Len(h)
      /\ Len(g) = n /\ g \in Seq(Cell(n)) /\ DOMAIN g = DOMAIN h \cup {n}
      /\ n \notin DOMAIN h
      /\ \A b \in DOMAIN h :
           /\ g[b].id = h[b].id /\ g[b].data = h[b].data
           /\ g[b].next = IF b = p THEN n ELSE h[b].next
      /\ g[n].id = k /\ g[n].data = v /\ g[n].next = x

\* A heap with a new worker behind another
LEMMA ExtendedHeap ==
  ASSUME NEW h, h \in Seq(Cell(Len(h))), NEW p \in DOMAIN h \cup {Null},
         NEW k \in Keys, NEW v \in Values \cup {Null}, NEW x \in 0..Len(h)
  PROVE  IsExtended(Extended(h, p, k, v, x), h, p, k, v, x)
<1> DEFINE n == Len(h) + 1
           g == Extended(h, p, k, v, x)
           l == IF p = Null THEN h ELSE [h EXCEPT ![p].next = n]
           C == Cell(n)
<1>0. g = Append(l, Worker(k, v, x))
  BY DEF Extended
<1> HIDE DEF g
<1>1. Len(h) \in Nat /\ DOMAIN h = 1..Len(h) /\ n \in Nat
      /\ \A b \in DOMAIN h : h[b] \in Cell(Len(h))
      /\ Null \notin DOMAIN h
  BY DEF Null
<1>2. \A b \in DOMAIN h : h[b] \in C /\ [h[b] EXCEPT !.next = n] \in C
  BY <1>1 DEF Cell
<1>3. Worker(k, v, x) \in C
  BY <1>1 DEF Cell, Worker
<1>4. /\ DOMAIN l = DOMAIN h
      /\ \A b \in DOMAIN h : l[b] = IF b = p THEN [h[b] EXCEPT !.next = n] ELSE h[b]
  BY <1>1
<1>5. \A b \in DOMAIN h : /\ l[b].id = h[b].id /\ l[b].data = h[b].data
                          /\ l[b].next = IF b = p THEN n ELSE h[b].next
  <2> SUFFICES ASSUME NEW b \in DOMAIN h
               PROVE  /\ l[b].id = h[b].id /\ l[b].data = h[b].data
                      /\ l[b].next = IF b = p THEN n ELSE h[b].next
    OBVIOUS
  <2>1. h[b] \in Cell(Len(h)) /\ l[b] = IF b = p THEN [h[b] EXCEPT !.next = n] ELSE h[b]
    BY <1>1, <1>4
  <2> HIDE DEF l
  <2> QED BY <2>1 DEF Cell
<1> HIDE DEF C
<1>6. l \in Seq(C) /\ Len(l) = Len(h)
  <2>1. l = [b \in DOMAIN l |-> l[b]]
    <3>1. h = [b \in DOMAIN h |-> h[b]]
      OBVIOUS
    <3> QED BY <3>1
  <2>2. \A b \in 1..Len(h) : l[b] \in C
    BY <1>1, <1>2, <1>4
  <2> HIDE DEF l
  <2> QED BY <1>1, <1>4, <2>1, <2>2, SequenceByDomain
<1> HIDE DEF l
<1>7. /\ g \in Seq(C) /\ Len(g) = n /\ DOMAIN g = DOMAIN h \cup {n}
      /\ \A b \in DOMAIN h : g[b] = l[b]
      /\ g[n] = Worker(k, v, x)
  BY <1>0, <1>1, <1>3, <1>4, <1>6
<1>8. n \notin DOMAIN h
  BY <1>1
<1>9. Worker(k, v, x).id = k /\ Worker(k, v, x).data = v /\ Worker(k, v, x).next = x
  BY DEF Worker
<1> QED BY <1>1, <1>5, <1>7, <1>8, <1>9 DEF C, IsExtended, g

-----------------------------------------------------------------------------
(* The inductive invariant *)

\* The objects are what they should be and the links lead to workers.
Formed ==
  /\ heap \in Seq(Cell(Len(heap))) /\ Len(heap) <= MaxWorkers
  /\ head \in 0..Len(heap) /\ tail \in 0..Len(heap)
  /\ numActive \in Int /\ bits \subseteq Nat

\* Every level of the filter knows every key that has a worker.
Filtered(h, bs) == \A a \in DOMAIN h : \A i \in Levels : Position(h[a].id, i) \in bs

Inv == Formed /\ Indexed(lh, heap) /\ Filtered(heap, bits)

\* What the invariant says of lookups, also of keys that no caller inserts.
LEMMA FindAnyKey ==
  ASSUME Inv, NEW k \in Nat
  PROVE  IF \E a \in DOMAIN heap : heap[a].id = k
         THEN Find(k) \in DOMAIN heap /\ heap[Find(k)].id = k /\ Find(k) # Null
         ELSE Find(k) = Null
<1>1. Indexed(lh, heap)
  BY DEF Inv
<1> QED BY <1>1, LookupIndexed DEF Find

\* What the table finds is the worker of the key.
LEMMA FindFacts ==
  ASSUME Inv, NEW k \in Keys
  PROVE  /\ IF \E a \in DOMAIN heap : heap[a].id = k
            THEN Find(k) \in DOMAIN heap /\ heap[Find(k)].id = k /\ Find(k) # Null
            ELSE Find(k) = Null
         /\ k \in Present <=> \E a \in DOMAIN heap : heap[a].id = k
<1>1. k \in Nat
  BY TableConstants
<1> QED BY <1>1, FindAnyKey DEF Present

\* Every worker is found under its key.
LEMMA WorkersFound ==
  ASSUME Inv, NEW a \in DOMAIN heap
  PROVE  /\ heap[a].id \in Keys /\ heap[a].id \in Nat /\ heap[a].id \in Present
         /\ Find(heap[a].id) = a
         /\ heap[a].data \in Values \cup {Null} /\ heap[a].next \in 0..Len(heap)
<1>1. heap[a] \in Cell(Len(heap))
  BY DEF Inv, Formed
<1>2. heap[a].id \in Keys /\ heap[a].data \in Values \cup {Null} /\ heap[a].next \in 0..Len(heap)
  BY <1>1 DEF Cell
<1>3. Find(heap[a].id) \in DOMAIN heap /\ heap[Find(heap[a].id)].id = heap[a].id
      /\ heap[a].id \in Present
  BY <1>2, FindFacts
<1>4. \A b \in DOMAIN heap : heap[b].id = heap[a].id => a = b
  BY DEF Inv, Indexed
<1> QED BY <1>2, <1>3, <1>4, TableConstants

\* The worker behind which a new one is linked: that of the greatest smaller key
\* that the tree covers.
LEMMA LeftWorkerFacts ==
  ASSUME Inv, NEW k \in Keys, Find(k) = Null
  PROVE  /\ LeftWorker(k) \in DOMAIN heap \cup {Null}
         /\ LeftWorker(k) # Null => heap[LeftWorker(k)].id < k
         /\ \A a \in DOMAIN heap :
              /\ heap[a].id # k
              /\ heap[a].id < Coverage /\ heap[a].id < k =>
                   LeftWorker(k) # Null /\ heap[a].id <= heap[LeftWorker(k)].id
<1> DEFINE l == LeftAdjacent(Present, bits, k)
<1>1. Present \subseteq Nat /\ k \in Nat
  BY TableConstants DEF Present
<1>2. \/ /\ l = NoKey
         /\ \A x \in Present : x <= k => ~ Visible(Present, bits, x)
      \/ /\ l \in Present /\ l <= k /\ Visible(Present, bits, l)
         /\ \A x \in Present : x <= k /\ Visible(Present, bits, x) => x <= l
  BY <1>1, AdjacentFacts
<1>3. LeftWorker(k) = IF l = NoKey THEN Null ELSE Find(l)
  BY DEF LeftWorker, WorkerOf
<1> HIDE DEF l
<1>4. l # NoKey => /\ l \in Present /\ LeftWorker(k) = Find(l)
                   /\ Find(l) \in DOMAIN heap /\ heap[Find(l)].id = l /\ Find(l) # Null
  <2> SUFFICES ASSUME l # NoKey
               PROVE  /\ l \in Present /\ LeftWorker(k) = Find(l)
                      /\ Find(l) \in DOMAIN heap /\ heap[Find(l)].id = l /\ Find(l) # Null
    OBVIOUS
  <2>1. l \in Present /\ LeftWorker(k) = Find(l)
    BY <1>2, <1>3
  <2>2. l \in Keys
    BY <2>1 DEF Present
  <2> QED BY <2>1, <2>2, FindFacts
<1>5. k \notin Present
  BY DEF Present
<1>6. NoKey \notin Nat
  BY DEF NoKey
<1>7. l # NoKey => l < k
  <2>1. l # NoKey => l \in Nat /\ l # k /\ l <= k
    BY <1>1, <1>2, <1>5
  <2> QED BY <1>1, <2>1
<1>8. \A x \in Present : x < Coverage => Visible(Present, bits, x)
  <2> SUFFICES ASSUME NEW x \in Present, x < Coverage PROVE Visible(Present, bits, x)
    OBVIOUS
  <2>1. x < Coverage /\ x \in Nat /\ x \in Keys
    BY <1>1 DEF Present
  <2>2. PICK a \in DOMAIN heap : heap[a].id = x
    BY <2>1, FindFacts
  <2>3. \A i \in Levels : Position(x, i) \in bits
    BY <2>2 DEF Inv, Filtered
  <2> QED BY <2>1, <2>3, BitsMakeVisible
<1>9. ASSUME NEW a \in DOMAIN heap
      PROVE  /\ heap[a].id # k
             /\ heap[a].id < Coverage /\ heap[a].id < k =>
                  LeftWorker(k) # Null /\ heap[a].id <= heap[LeftWorker(k)].id
  <2>1. heap[a].id \in Present /\ heap[a].id \in Nat
    BY WorkersFound
  <2>2. heap[a].id < Coverage => Visible(Present, bits, heap[a].id)
    BY <1>8, <2>1
  <2>3. heap[a].id # k
    BY <1>5, <2>1
  <2>4. heap[a].id < k => heap[a].id <= k
    BY <1>1, <2>1
  <2>5. heap[a].id < Coverage /\ heap[a].id <= k => l # NoKey /\ heap[a].id <= l
    <3> DEFINE y == heap[a].id
    <3>1. y \in Present /\ (y < Coverage => Visible(Present, bits, y))
      BY <2>1, <2>2
    <3> HIDE DEF y
    <3>2. y < Coverage /\ y <= k => l # NoKey /\ y <= l
      BY <1>1, <1>2, <1>6, <3>1, Zenon
    <3> QED BY <3>2 DEF y
  <2> QED BY <1>4, <2>3, <2>4, <2>5
<1> QED BY <1>3, <1>4, <1>7, <1>9

-----------------------------------------------------------------------------
(* The steps *)

\* A step that writes the data of a worker and leaves the index alone
WriteStep(a, v) ==
  /\ heap' = [heap EXCEPT ![a].data = v] /\ numActive' \in Int
  /\ UNCHANGED <<lh, bits, head, tail>>

\* A step that links a new worker
LinkStep(k, v) ==
  LET n == Len(heap) + 1
      p == LeftWorker(k)
      x == IF p = Null THEN head ELSE heap[p].next
  IN  /\ Find(k) = Null /\ n <= MaxWorkers
      /\ heap' = Extended(heap, p, k, v, x)
      /\ head' = IF p = Null THEN n ELSE head
      /\ tail' = IF (IF p = Null THEN tail ELSE x) = Null THEN n ELSE tail
      /\ lh' = LH!Inserted(lh, k, n) /\ bits' = Added(bits, k) /\ numActive' \in Int

StillStep == UNCHANGED <<lh, bits, heap, head, tail>> /\ numActive' \in Int

\* Every step is one of the three.
LEMMA CountIsInteger == ASSUME NEW d, CountsAsActive(d) PROVE numActive' \in Int
BY RLHAssumption DEF CountsAsActive

\* An insert writes to a worker or links a new one.
LEMMA InsertSteps ==
  ASSUME Inv, NEW k \in Keys, NEW v \in Values, Insert(k, v)
  PROVE  \/ Find(k) # Null /\ WriteStep(Find(k), v)
         \/ LinkStep(k, v)
<1>1. CASE Update(k, v)
  BY <1>1, CountIsInteger DEF Update, WriteStep
<1>2. CASE LinkAfter(k, v)
  BY <1>2, CountIsInteger DEF LinkAfter, LinkStep, Extended, Register
<1>3. CASE LinkFirst(k, v)
  BY <1>3, CountIsInteger DEF LinkFirst, LinkStep, Extended, Register
<1> QED BY <1>1, <1>2, <1>3 DEF Insert

\* A remove clears a worker or does nothing.
LEMMA RemoveSteps ==
  ASSUME Inv, NEW k \in Keys, Remove(k)
  PROVE  \/ Find(k) # Null /\ WriteStep(Find(k), Null)
         \/ Find(k) = Null /\ StillStep
<1>1. numActive' \in Int
  <2>1. CASE Find(k) # Null
    BY <2>1 DEF Remove, Inv, Formed
  <2>2. CASE Find(k) = Null
    BY <2>2, CountIsInteger DEF Remove
  <2> QED BY <2>1, <2>2
<1> QED BY <1>1 DEF Remove, WriteStep, StillStep

\* What each of them does to the workers, and that it keeps the invariant.
LEMMA WriteStepFacts ==
  ASSUME Inv, NEW a \in DOMAIN heap, NEW v \in Values \cup {Null}, WriteStep(a, v)
  PROVE  /\ Inv' /\ Len(heap') = Len(heap) /\ DOMAIN heap' = DOMAIN heap
         /\ \A b \in DOMAIN heap :
              /\ heap'[b].id = heap[b].id /\ heap'[b].next = heap[b].next
              /\ heap'[b].data = IF b = a THEN v ELSE heap[b].data
<1>1. heap \in Seq(Cell(Len(heap))) /\ Len(heap) \in Nat
  BY DEF Inv, Formed
<1>2. /\ heap' \in Seq(Cell(Len(heap))) /\ Len(heap') = Len(heap) /\ DOMAIN heap' = DOMAIN heap
      /\ \A b \in DOMAIN heap :
           /\ heap'[b].id = heap[b].id /\ heap'[b].next = heap[b].next
           /\ heap'[b].data = IF b = a THEN v ELSE heap[b].data
  <2>1. heap' = [heap EXCEPT ![a].data = v]
    BY DEF WriteStep
  <2>2. IsWritten([heap EXCEPT ![a].data = v], heap, Len(heap), a, v)
    BY <1>1, WrittenHeap
  <2> QED BY <2>1, <2>2 DEF IsWritten
<1>3. Formed'
  BY <1>2 DEF WriteStep, Inv, Formed
<1>4. Indexed(lh', heap')
  <2>1. Indexed(lh, heap) /\ lh' = lh
    BY DEF Inv, WriteStep
  <2>2. Indexed(lh, heap')
    BY <1>2, <2>1, SameIndexed
  <2> QED BY <2>1, <2>2
<1>5. Filtered(heap', bits')
  BY <1>2 DEF WriteStep, Inv, Filtered
<1> QED BY <1>2, <1>3, <1>4, <1>5 DEF Inv

\* Linking a new worker keeps the invariant.
LEMMA LinkStepFacts ==
  ASSUME Inv, NEW k \in Keys, NEW v \in Values \cup {Null}, LinkStep(k, v)
  PROVE  LET p == LeftWorker(k)
         IN  /\ Inv' /\ \A b \in DOMAIN heap : heap[b].id # k
             /\ IsExtended(heap', heap, p, k, v, IF p = Null THEN head ELSE heap[p].next)
<1> DEFINE n == Len(heap) + 1
           p == LeftWorker(k)
           x == IF p = Null THEN head ELSE heap[p].next
<1>1. heap \in Seq(Cell(Len(heap))) /\ Len(heap) \in Nat /\ Find(k) = Null /\ n <= MaxWorkers
      /\ head \in 0..Len(heap)
  BY DEF Inv, Formed, LinkStep
<1>2. p \in DOMAIN heap \cup {Null}
  BY <1>1, LeftWorkerFacts
<1>3. x \in 0..Len(heap)
  BY <1>1, <1>2, WorkersFound
<1>4. heap' = Extended(heap, p, k, v, x)
  BY DEF LinkStep
<1>5. lh' = LH!Inserted(lh, k, n) /\ bits' = Added(bits, k) /\ numActive' \in Int
      /\ head' = (IF p = Null THEN n ELSE head)
      /\ tail' = (IF (IF p = Null THEN tail ELSE x) = Null THEN n ELSE tail)
  BY DEF LinkStep
<1>6. \A b \in DOMAIN heap : heap[b].id # k
  BY <1>1, FindFacts
<1> HIDE DEF p, x
<1>e. IsExtended(heap', heap, p, k, v, x)
  BY <1>1, <1>2, <1>3, <1>4, ExtendedHeap
<1>7. /\ DOMAIN heap = 1..Len(heap)
      /\ Len(heap') = n /\ heap' \in Seq(Cell(n)) /\ DOMAIN heap' = DOMAIN heap \cup {n}
      /\ n \notin DOMAIN heap
      /\ \A b \in DOMAIN heap :
           /\ heap'[b].id = heap[b].id /\ heap'[b].data = heap[b].data
           /\ heap'[b].next = IF b = p THEN n ELSE heap[b].next
      /\ heap'[n].id = k /\ heap'[n].data = v /\ heap'[n].next = x
  BY <1>e DEF IsExtended
<1>8. Formed'
  <2>1. bits' \subseteq Nat
    <3>1. \A i \in Levels : Position(k, i) \in Nat
      <4>1. k \in Nat
        BY TableConstants
      <4>2. ASSUME NEW i \in Levels PROVE Position(k, i) \in Nat
        BY <4>1, PositionFacts
      <4> QED BY <4>2
    <3>2. bits \subseteq Nat
      BY DEF Inv, Formed
    <3> QED BY <1>5, <3>1, <3>2 DEF Added
  <2>2. head' \in 0..n /\ tail' \in 0..n /\ n \in Nat
    <3>1. head \in 0..Len(heap) /\ tail \in 0..Len(heap)
      BY DEF Inv, Formed
    <3> QED BY <1>1, <1>5, <3>1
  <2> QED BY <1>1, <1>5, <1>7, <2>1, <2>2 DEF Formed
<1>9. Indexed(lh', heap')
  <2>1. Indexed(lh, heap) /\ n \in Addresses
    BY <1>1, RLHAssumption DEF Inv, Addresses
  <2>2. Indexed(LH!Inserted(lh, k, n), heap')
    <3> DEFINE m == n
               g == heap'
    <3>1. m \notin DOMAIN heap /\ DOMAIN g = DOMAIN heap \cup {m} /\ g[m].id = k
          /\ m \in Addresses
          /\ \A b \in DOMAIN heap : g[b].id = heap[b].id /\ heap[b].id # k
      BY <1>6, <1>7, <2>1
    <3> HIDE DEF m, g
    <3>2. Indexed(LH!Inserted(lh, k, m), g)
      BY <2>1, <3>1, InsertIndexed
    <3> QED BY <3>2 DEF m, g
  <2> QED BY <1>5, <2>2
<1>10. Filtered(heap', bits')
  <2>1. Filtered(heap, bits)
    BY DEF Inv
  <2>2. bits \subseteq bits' /\ \A i \in Levels : Position(k, i) \in bits'
    BY <1>5 DEF Added
  <2> QED BY <1>7, <2>1, <2>2 DEF Filtered
<1> HIDE DEF n
<1>11. Inv'
  BY <1>8, <1>9, <1>10 DEF Inv
<1> QED BY <1>6, <1>e, <1>11 DEF p, x

\* A step that changes nothing keeps the invariant.
LEMMA StillStepFacts == ASSUME Inv, StillStep PROVE Inv'
<1>1. Formed'
  BY DEF Inv, Formed, StillStep
<1>2. Indexed(lh', heap') /\ Filtered(heap', bits')
  BY DEF Inv, StillStep
<1> QED BY <1>1, <1>2 DEF Inv

-----------------------------------------------------------------------------
(* The invariant holds, and what it says of the index *)

\* The invariant holds at first.
LEMMA InitInv == Init => Inv
<1> SUFFICES ASSUME Init PROVE Inv
  OBVIOUS
<1>1. /\ heap = <<>> /\ head = Null /\ tail = Null /\ numActive = 0 /\ bits = {}
      /\ lh = LH!NewTable
  BY DEF Init
<1>2. Formed
  BY <1>1, RLHAssumption DEF Formed, Null
<1>3. Indexed(lh, heap) /\ Filtered(heap, bits)
  BY <1>1, NewTableIndexed DEF Filtered
<1> QED BY <1>2, <1>3 DEF Inv

\* What a step of the specification is, with the worker it writes.
LEMMA Steps ==
  ASSUME Inv, [Next]_vars
  PROVE  \/ StillStep
         \/ \E k \in Keys, v \in Values \cup {Null} :
              Find(k) \in DOMAIN heap /\ heap[Find(k)].id = k /\ WriteStep(Find(k), v)
         \/ \E k \in Keys, v \in Values : LinkStep(k, v)
<1> DEFINE Goal == \/ StillStep
                   \/ \E k \in Keys, v \in Values \cup {Null} :
                        Find(k) \in DOMAIN heap /\ heap[Find(k)].id = k /\ WriteStep(Find(k), v)
                   \/ \E k \in Keys, v \in Values : LinkStep(k, v)
<1>1. CASE UNCHANGED vars
  BY <1>1 DEF vars, StillStep, Inv, Formed
<1>2. ASSUME NEW k \in Keys, NEW v \in Values, Insert(k, v) PROVE Goal
  <2>1. Find(k) # Null => Find(k) \in DOMAIN heap /\ heap[Find(k)].id = k
    BY FindFacts
  <2>2. v \in Values \cup {Null}
    OBVIOUS
  <2> QED BY <1>2, <2>1, <2>2, InsertSteps
<1>3. ASSUME NEW k \in Keys, Remove(k) PROVE Goal
  <2>1. Find(k) # Null => Find(k) \in DOMAIN heap /\ heap[Find(k)].id = k
    BY FindFacts
  <2>2. Null \in Values \cup {Null}
    OBVIOUS
  <2> QED BY <1>3, <2>1, <2>2, RemoveSteps
<1> QED BY <1>1, <1>2, <1>3 DEF Next

\* Every step keeps the invariant.
LEMMA NextInv == Inv /\ [Next]_vars => Inv'
<1> SUFFICES ASSUME Inv, [Next]_vars PROVE Inv'
  OBVIOUS
<1>1. CASE StillStep
  BY <1>1, StillStepFacts
<1>2. ASSUME NEW k \in Keys, NEW v \in Values \cup {Null},
             Find(k) \in DOMAIN heap, WriteStep(Find(k), v)
      PROVE  Inv'
  BY <1>2, WriteStepFacts
<1>3. ASSUME NEW k \in Keys, NEW v \in Values, LinkStep(k, v) PROVE Inv'
  BY <1>3, LinkStepFacts
<1> QED BY <1>1, <1>2, <1>3, Steps

(* In every reachable state the table holds exactly the workers, each under *)
(* its own key and no key twice, and the filter has every bit of its keys.  *)
THEOREM Correct == Spec => []Inv
<1> QED BY InitInv, NextInv, PTL DEF Spec

(* The type invariant of the index.                                        *)
THEOREM TypeCorrect == Spec => []TypeOK
<1>1. Inv => TypeOK
  <2> SUFFICES ASSUME Inv PROVE TypeOK
    OBVIOUS
  <2>1. lh \in LH!Table
    BY SameTable DEF Inv, Indexed, LHP!Sound
  <2> QED BY <2>1 DEF Inv, Formed, TypeOK, Cell
<1> QED BY <1>1, Correct, PTL

(* However the table has been split, it finds each worker under its own    *)
(* key: no key has two workers and none is lost.                           *)
THEOREM WorkersUnique == Spec => []OneWorkerPerKey
<1>1. Inv => OneWorkerPerKey
  BY WorkersFound DEF OneWorkerPerKey
<1> QED BY <1>1, Correct, PTL

(* Every node of the prefix tree above a key of the index tests positive,  *)
(* so that no search for a neighbour skips a worker.                       *)
THEOREM FilterComplete == Spec => []FilterKnowsKeys
<1>1. Inv => FilterKnowsKeys
  <2> SUFFICES ASSUME Inv, NEW k \in Present, NEW i \in Levels
               PROVE  Position(AlignDown(k, i * Delta), i) \in bits
    BY DEF FilterKnowsKeys, CheckAtLevel
  <2>1. k \in Keys /\ k \in Nat
    BY TableConstants DEF Present
  <2>2. PICK a \in DOMAIN heap : heap[a].id = k
    BY <2>1, FindFacts
  <2>3. Position(k, i) \in bits
    BY <2>2 DEF Inv, Filtered
  <2> QED BY <2>1, <2>3, PositionFacts
<1> QED BY <1>1, Correct, PTL

-----------------------------------------------------------------------------
(* The index is an ordered map *)

\* What a lookup of the key k returns, with the table t and the heap h.
Looked(t, h, k) ==
  LET a == LH!Lookup(t, k) IN IF a # Null /\ h[a].data # Null THEN h[a].data ELSE Null

\* The data of the worker of k, Null if it has none.
Held(h, k, d) ==
  IF \E a \in DOMAIN h : h[a].id = k
  THEN \E a \in DOMAIN h : h[a].id = k /\ h[a].data = d
  ELSE d = Null

\* A lookup finds what the worker of the key holds.
LEMMA LookedFacts ==
  ASSUME NEW t, NEW h, Indexed(t, h), NEW k \in Keys
  PROVE  \A d : Looked(t, h, k) = d <=> Held(h, k, d)
<1> DEFINE a == LH!Lookup(t, k)
<1>1. \A b, c \in DOMAIN h : h[b].id = h[c].id => b = c
  BY DEF Indexed
<1>2. Looked(t, h, k) = IF a # Null /\ h[a].data # Null THEN h[a].data ELSE Null
  BY DEF Looked
<1>3. IF \E b \in DOMAIN h : h[b].id = k
      THEN a \in DOMAIN h /\ h[a].id = k /\ a # Null
      ELSE a = Null
  <2>1. k \in Nat
    BY TableConstants
  <2> QED BY <2>1, LookupIndexed
<1> HIDE DEF a
<1> QED BY <1>1, <1>2, <1>3 DEF Held

\* Lookups before and after a step, as functions of the table and the heap
LEMMA PointLookupIs ==
  /\ \A k : PointLookup(k) = Looked(lh, heap, k)
  /\ \A k : PointLookup(k)' = Looked(lh', heap', k)
BY DEF PointLookup, Looked, Find, HasData

(* A sequence of operations on the index behaves as on an ordered map:     *)
(* every insert, whatever it splits and links, is a Put of its key, every  *)
(* removal a Delete.                                                       *)
THEOREM RefinesOrderedMap == Spec => ImplementsOrderedMap
<1> DEFINE map == [k \in Keys |-> PointLookup(k)]
<1>1. Init => OM!Init
  <2> SUFFICES ASSUME Init, NEW k \in Keys PROVE PointLookup(k) = Null
    BY DEF OM!Init
  <2>1. Indexed(lh, heap) /\ heap = <<>>
    BY InitInv DEF Inv, Init
  <2>2. Held(heap, k, Null)
    BY <2>1 DEF Held
  <2> QED BY <2>1, <2>2, LookedFacts, PointLookupIs
<1>2. Inv /\ [Next]_vars => [OM!Next]_map
  <2> SUFFICES ASSUME Inv, [Next]_vars PROVE OM!Next \/ map' = map
    OBVIOUS
  <2>1. Indexed(lh, heap) /\ Indexed(lh', heap')
    <3>1. Inv'
      BY NextInv
    <3> QED BY <3>1 DEF Inv
  <2>2. /\ \A k \in Keys : \A d : PointLookup(k) = d <=> Held(heap, k, d)
        /\ \A k \in Keys : \A d : PointLookup(k)' = d <=> Held(heap', k, d)
    BY <2>1, LookedFacts, PointLookupIs
  <2>3. ASSUME NEW j \in Keys, \A d : Held(heap, j, d) <=> Held(heap', j, d)
        PROVE  PointLookup(j)' = PointLookup(j)
    BY <2>2, <2>3
  <2>4. \A k \in Keys : map[k] = PointLookup(k) /\ map'[k] = PointLookup(k)'
    OBVIOUS
  <2> HIDE DEF map
  <2>5. ASSUME NEW k \in Keys, NEW v \in Values \cup {Null}, Held(heap', k, v),
               \A j \in Keys \ {k} : \A d : Held(heap, j, d) <=> Held(heap', j, d)
        PROVE  OM!Next
    <3>1. map'[k] = v /\ \A j \in Keys \ {k} : map'[j] = map[j]
      BY <2>2, <2>3, <2>4, <2>5
    <3> QED BY <3>1 DEF OM!Next, OM!Put, OM!Delete, OM!Only, map
  <2>6. CASE StillStep
    BY <2>6 DEF StillStep, map, PointLookup, Find, HasData
  <2>7. ASSUME NEW k \in Keys, NEW v \in Values \cup {Null},
               Find(k) \in DOMAIN heap, heap[Find(k)].id = k, WriteStep(Find(k), v)
        PROVE  OM!Next
    <3> DEFINE a == Find(k)
    <3>1. a \in DOMAIN heap /\ heap[a].id = k /\ DOMAIN heap' = DOMAIN heap
          /\ \A b \in DOMAIN heap :
               /\ heap'[b].id = heap[b].id
               /\ heap'[b].data = IF b = a THEN v ELSE heap[b].data
      BY <2>7, WriteStepFacts
    <3> HIDE DEF a
    <3>2. Held(heap', k, v)
      BY <3>1 DEF Held
    <3>3. \A j \in Keys \ {k} : \A d : Held(heap, j, d) <=> Held(heap', j, d)
      BY <3>1 DEF Held
    <3> QED BY <2>5, <3>2, <3>3
  <2>8. ASSUME NEW k \in Keys, NEW v \in Values, LinkStep(k, v) PROVE OM!Next
    <3> DEFINE n == Len(heap) + 1
    <3>1. /\ DOMAIN heap' = DOMAIN heap \cup {n} /\ n \notin DOMAIN heap
          /\ \A b \in DOMAIN heap : heap'[b].id = heap[b].id /\ heap'[b].data = heap[b].data
          /\ heap'[n].id = k /\ heap'[n].data = v
      BY <2>8, LinkStepFacts DEF IsExtended
    <3> HIDE DEF n
    <3>2. Held(heap', k, v)
      BY <3>1 DEF Held
    <3>3. \A j \in Keys \ {k} : \A d : Held(heap, j, d) <=> Held(heap', j, d)
      BY <3>1 DEF Held
    <3> QED BY <2>5, <3>2, <3>3
  <2> QED BY <2>6, <2>7, <2>8, Steps
<1> QED BY <1>1, <1>2, Correct, PTL DEF Spec, ImplementsOrderedMap, OM!Spec

-----------------------------------------------------------------------------
(* The chain *)

\* Keys are bounded, and links lead to workers.
LEMMA CellFacts ==
  ASSUME Inv
  PROVE  /\ Pow2[KeyBits] - 1 \in Nat /\ Len(heap) \in Nat
         /\ DOMAIN heap = 1..Len(heap) /\ Null \notin DOMAIN heap
         /\ 0..Len(heap) = DOMAIN heap \cup {Null}
         /\ \A a \in DOMAIN heap : /\ heap[a].id \in Nat /\ heap[a].id <= Pow2[KeyBits] - 1
                                   /\ heap[a].next \in DOMAIN heap \cup {Null}
         /\ head \in DOMAIN heap \cup {Null} /\ tail \in DOMAIN heap \cup {Null}
<1>1. Keys \subseteq 0..(Pow2[KeyBits] - 1) /\ Pow2[KeyBits] \in Nat \ {0}
  BY RFAssumption, Pow2Facts
<1>2. heap \in Seq(Cell(Len(heap))) /\ head \in 0..Len(heap) /\ tail \in 0..Len(heap)
  BY DEF Inv, Formed
<1>3. Len(heap) \in Nat /\ DOMAIN heap = 1..Len(heap) /\ Null \notin DOMAIN heap
      /\ 0..Len(heap) = DOMAIN heap \cup {Null}
  BY <1>2 DEF Null
<1>4. \A a \in DOMAIN heap : heap[a].id \in Keys /\ heap[a].next \in 0..Len(heap)
  BY WorkersFound
<1>5. \A a \in DOMAIN heap : heap[a].id \in Nat /\ heap[a].id <= Pow2[KeyBits] - 1
  <2>1. \A k \in Keys : k \in Nat /\ k <= Pow2[KeyBits] - 1
    BY <1>1
  <2> QED BY <1>4, <2>1
<1>6. \A a \in DOMAIN heap : heap[a].next \in DOMAIN heap \cup {Null}
  BY <1>3, <1>4
<1>7. head \in DOMAIN heap \cup {Null} /\ tail \in DOMAIN heap \cup {Null}
  BY <1>2, <1>3
<1>8. Pow2[KeyBits] - 1 \in Nat
  BY <1>1
<1> QED BY <1>3, <1>5, <1>6, <1>7, <1>8

\* The number of keys that the tree covers
LEMMA CoverageIsNatural == Coverage \in Nat
<1>1. MaxLevel * Delta \in Nat
  BY LevelCountFacts, RFAssumption DEF MaxLevel
<1> QED BY <1>1, Pow2Facts DEF Coverage

\* o is the order in which the links of the heap h lead from hd to tl through
\* all of its workers.
Threaded(h, hd, tl, o) ==
  /\ o \in [1..Len(h) -> DOMAIN h]
  /\ \A a \in DOMAIN h : \E i \in 1..Len(h) : o[i] = a
  /\ \A i, j \in 1..Len(h) : o[i] = o[j] => i = j
  /\ \A i \in 1..Len(h) : h[o[i]].next = IF i = Len(h) THEN Null ELSE o[i + 1]
  /\ hd = IF Len(h) = 0 THEN Null ELSE o[1]
  /\ tl = IF Len(h) = 0 THEN Null ELSE o[Len(h)]

\* Along o the covered keys come first and ascend: whatever is before a covered
\* key is smaller.
Ascends(h, o) ==
  \A i, j \in 1..Len(h) : i < j /\ h[o[j]].id < Coverage => h[o[i]].id < h[o[j]].id

\* q is the order o of L workers with a new worker between the j-th and the next.
WithNew(q, o, L, j) ==
  q = [i \in 1..(L + 1) |-> IF i <= j THEN o[i] ELSE IF i = j + 1 THEN L + 1 ELSE o[i - 1]]

\* A new worker, linked behind any other or in front of the head, is threaded in
\* at its place and the rest of the chain behind it.
LEMMA ThreadedLinked ==
  ASSUME NEW h, NEW g, NEW p \in DOMAIN h \cup {Null}, NEW k, NEW v, NEW hd, NEW tl, NEW o,
         Threaded(h, hd, tl, o), Null \notin DOMAIN h,
         IsExtended(g, h, p, k, v, IF p = Null THEN hd ELSE h[p].next)
  PROVE  LET n == Len(h) + 1
         IN  \E q, j : /\ Threaded(g, IF p = Null THEN n ELSE hd,
                                IF (IF p = Null THEN tl ELSE h[p].next) = Null THEN n ELSE tl, q)
                       /\ j \in 0..Len(h) /\ IF p = Null THEN j = 0 ELSE j # 0 /\ o[j] = p
                       /\ WithNew(q, o, Len(h), j)
<1> DEFINE L == Len(h)
           n == L + 1
           hd2 == IF p = Null THEN n ELSE hd
           tl2 == IF (IF p = Null THEN tl ELSE h[p].next) = Null THEN n ELSE tl
<1>1. /\ o \in [1..L -> DOMAIN h]
      /\ \A a \in DOMAIN h : \E i \in 1..L : o[i] = a
      /\ \A i, j \in 1..L : o[i] = o[j] => i = j
      /\ \A i \in 1..L : h[o[i]].next = IF i = L THEN Null ELSE o[i + 1]
      /\ hd = IF L = 0 THEN Null ELSE o[1]
      /\ tl = IF L = 0 THEN Null ELSE o[L]
  BY DEF Threaded
<1>2. /\ L \in Nat /\ DOMAIN h = 1..L /\ Len(g) = n /\ DOMAIN g = DOMAIN h \cup {n}
      /\ n \notin DOMAIN h
      /\ \A b \in DOMAIN h : g[b].next = IF b = p THEN n ELSE h[b].next
      /\ g[n].next = IF p = Null THEN hd ELSE h[p].next
  BY DEF IsExtended
<1>3. PICK j \in 0..L : IF p = Null THEN j = 0 ELSE j \in 1..L /\ o[j] = p
  <2>1. CASE p = Null
    BY <1>2, <2>1
  <2>2. CASE p # Null
    <3>1. PICK i \in 1..L : o[i] = p
      BY <1>1, <2>2
    <3>2. i \in 0..L
      BY <1>2
    <3> QED BY <2>2, <3>1, <3>2
  <2> QED BY <2>1, <2>2
<1> DEFINE q == [i \in 1..n |-> IF i <= j THEN o[i] ELSE IF i = j + 1 THEN n ELSE o[i - 1]]
<1> HIDE DEF L
<1>4. /\ \A i \in 1..j : q[i] = o[i] /\ i \in 1..L /\ i \in 1..n
      /\ q[j + 1] = n /\ j + 1 \in 1..n
      /\ \A i \in (j + 1)..L : q[i + 1] = o[i] /\ i \in 1..L /\ i + 1 \in 1..n
      /\ \A i \in 1..n : i \in 1..j \/ i = j + 1 \/ i - 1 \in (j + 1)..L
  BY <1>2, <1>3
<1>5. q \in [1..n -> DOMAIN g]
  BY <1>1, <1>2, <1>3
<1> HIDE DEF q
<1>6. \A a \in DOMAIN g : \E i \in 1..n : q[i] = a
  <2>1. \E i \in 1..n : q[i] = n
    BY <1>4
  <2>2. ASSUME NEW a \in DOMAIN h PROVE \E i \in 1..n : q[i] = a
    <3>1. PICK i \in 1..L : o[i] = a
      BY <1>1
    <3>2. CASE i \in 1..j
      BY <1>4, <3>1, <3>2
    <3>3. CASE i \in (j + 1)..L
      BY <1>4, <3>1, <3>3
    <3> QED BY <1>2, <1>3, <3>2, <3>3
  <2> QED BY <1>2, <2>1, <2>2
<1>7. \A i, m \in 1..n : q[i] = q[m] => i = m
  <2>1. ASSUME NEW i \in 1..n
        PROVE  \/ i = j + 1 /\ q[i] = n
               \/ i \in 1..j /\ i \in 1..L /\ q[i] = o[i] /\ q[i] # n
               \/ i - 1 \in (j + 1)..L /\ i - 1 \in 1..L /\ q[i] = o[i - 1] /\ q[i] # n
    <3>1. \A m \in 1..L : o[m] # n
      BY <1>1, <1>2
    <3>2. i - 1 \in (j + 1)..L => q[i] = o[i - 1] /\ i - 1 \in 1..L
      <4>1. (i - 1) + 1 = i
        BY <1>2
      <4> QED BY <1>4, <4>1
    <3> QED BY <1>4, <3>1, <3>2
  <2>2. SUFFICES ASSUME NEW i \in 1..n, NEW m \in 1..n, q[i] = q[m] PROVE i = m
    OBVIOUS
  <2>3. CASE q[i] = n
    BY <2>1, <2>2, <2>3
  <2>4. CASE q[i] # n
    <3>1. \/ i \in 1..j /\ i \in 1..L /\ q[i] = o[i]
          \/ i - 1 \in (j + 1)..L /\ i - 1 \in 1..L /\ q[i] = o[i - 1]
      BY <2>1, <2>4
    <3>2. \/ m \in 1..j /\ m \in 1..L /\ q[m] = o[m]
          \/ m - 1 \in (j + 1)..L /\ m - 1 \in 1..L /\ q[m] = o[m - 1]
      BY <2>1, <2>2, <2>4
    <3>3. CASE i \in 1..j /\ m \in 1..j
      BY <1>1, <1>4, <2>2, <3>3
    <3>4. CASE i \in 1..j /\ m - 1 \in (j + 1)..L
      <4>1. q[i] = o[i] /\ i \in 1..L /\ q[m] = o[m - 1] /\ m - 1 \in 1..L
        BY <1>2, <1>3, <3>1, <3>2, <3>4
      <4>2. i = m - 1
        BY <1>1, <2>2, <4>1
      <4> QED BY <1>3, <3>4, <4>2
    <3>5. CASE i - 1 \in (j + 1)..L /\ m \in 1..j
      <4>1. q[m] = o[m] /\ m \in 1..L /\ q[i] = o[i - 1] /\ i - 1 \in 1..L
        BY <1>2, <1>3, <3>1, <3>2, <3>5
      <4>2. m = i - 1
        BY <1>1, <2>2, <4>1
      <4> QED BY <1>3, <3>5, <4>2
    <3>6. CASE i - 1 \in (j + 1)..L /\ m - 1 \in (j + 1)..L
      <4>1. q[m] = o[m - 1] /\ m - 1 \in 1..L /\ q[i] = o[i - 1] /\ i - 1 \in 1..L
        BY <1>2, <1>3, <3>1, <3>2, <3>6
      <4>2. m - 1 = i - 1
        BY <1>1, <2>2, <4>1
      <4> QED BY <4>2
    <3> QED BY <3>1, <3>2, <3>3, <3>4, <3>5, <3>6
  <2> QED BY <2>3, <2>4
<1>8. ASSUME NEW i \in 1..n
      PROVE  g[q[i]].next = IF i = n THEN Null ELSE q[i + 1]
  <2>1. \A m \in 1..L : /\ o[m] \in DOMAIN h /\ o[m] # n
                        /\ g[o[m]].next = IF m = j THEN n ELSE IF m = L THEN Null ELSE o[m + 1]
    <3>1. ASSUME NEW m \in 1..L PROVE o[m] = p <=> m = j
      BY <1>1, <1>2, <1>3
    <3> QED BY <1>1, <1>2, <3>1
  <2>2. g[n].next = IF j = L THEN Null ELSE o[j + 1]
    <3>1. CASE p = Null
      BY <1>1, <1>2, <1>3, <3>1
    <3>2. CASE p # Null
      BY <1>1, <1>2, <1>3, <3>2
    <3> QED BY <3>1, <3>2
  <2>3. CASE i \in 1..j
    <3>1. q[i] = o[i] /\ i \in 1..L /\ i # n
      BY <1>2, <1>4, <2>3
    <3>2. CASE i = j
      BY <1>4, <2>1, <3>1, <3>2
    <3>3. CASE i # j
      <4>1. i + 1 \in 1..j /\ i # L
        BY <1>2, <1>3, <2>3, <3>3
      <4> QED BY <1>4, <2>1, <3>1, <3>3, <4>1
    <3> QED BY <3>2, <3>3
  <2>4. CASE i = j + 1
    <3>1. q[i] = n
      BY <1>4, <2>4
    <3>2. CASE j = L
      BY <2>2, <2>4, <3>1, <3>2
    <3>3. CASE j # L
      <4>1. j + 1 \in (j + 1)..L /\ i # n
        BY <1>2, <1>3, <2>4, <3>3
      <4>2. q[i + 1] = o[j + 1]
        BY <1>4, <2>4, <4>1
      <4> QED BY <2>2, <3>1, <3>3, <4>1, <4>2
    <3> QED BY <3>2, <3>3
  <2>5. CASE i - 1 \in (j + 1)..L
    <3> DEFINE m == i - 1
    <3>1. m + 1 = i /\ m \in 1..L /\ m # j /\ m \in (j + 1)..L
      BY <1>2, <1>3, <2>5
    <3>2. q[i] = o[m]
      BY <1>4, <3>1
    <3> HIDE DEF m
    <3>3. g[q[i]].next = IF m = L THEN Null ELSE o[m + 1]
      BY <2>1, <3>1, <3>2
    <3>4. CASE m = L
      BY <1>2, <3>1, <3>3, <3>4
    <3>5. CASE m # L
      <4>1. i \in (j + 1)..L /\ i # n
        BY <1>2, <1>3, <3>1, <3>5
      <4> QED BY <1>4, <3>1, <3>3, <3>5, <4>1
    <3> QED BY <3>4, <3>5
  <2> QED BY <1>4, <2>3, <2>4, <2>5
<1>9. hd2 = q[1]
  <2>1. CASE p = Null
    <3>1. j = 0 /\ j + 1 = 1
      BY <1>3, <2>1
    <3> QED BY <1>4, <2>1, <3>1
  <2>2. CASE p # Null
    <3>1. j \in 1..L /\ 1 \in 1..j /\ L # 0
      BY <1>2, <1>3, <2>2
    <3> QED BY <1>1, <1>4, <2>2, <3>1
  <2> QED BY <2>1, <2>2
<1>10. tl2 = q[n]
  <2>1. (IF p = Null THEN tl ELSE h[p].next) = Null <=> j = L
    <3>1. CASE p = Null
      <4>1. j = 0 /\ (tl = Null <=> L = 0)
        BY <1>1, <1>2, <1>3, <3>1
      <4> QED BY <3>1, <4>1, <1>3
    <3>2. CASE p # Null
      <4>1. j \in 1..L /\ h[p].next = IF j = L THEN Null ELSE o[j + 1]
        BY <1>1, <1>3, <3>2
      <4>2. j # L => o[j + 1] \in DOMAIN h
        BY <1>1, <1>2, <1>3, <4>1
      <4> QED BY <3>2, <4>1, <4>2
    <3> QED BY <3>1, <3>2
  <2>2. CASE j = L
    BY <1>4, <2>1, <2>2
  <2>3. CASE j # L
    <3>1. L \in (j + 1)..L /\ L # 0
      BY <1>2, <1>3, <2>3
    <3> QED BY <1>1, <1>4, <2>1, <2>3, <3>1
  <2> QED BY <2>2, <2>3
<1>11. n # 0
  BY <1>2
<1> HIDE DEF n, hd2, tl2
<1>12. Threaded(g, hd2, tl2, q)
  BY <1>2, <1>5, <1>6, <1>7, <1>8, <1>9, <1>10, <1>11 DEF Threaded
<1>13. WithNew(q, o, L, j)
  BY DEF WithNew, q, n
<1>14. j \in 0..L /\ IF p = Null THEN j = 0 ELSE j # 0 /\ o[j] = p
  BY <1>3
<1> QED BY <1>12, <1>13, <1>14 DEF n, hd2, tl2, L

\* Linked behind the greatest smaller covered key, the new worker keeps the order.
LEMMA AscendsLinked ==
  ASSUME NEW h, NEW g, NEW p \in DOMAIN h \cup {Null}, NEW k \in Nat, NEW v, NEW x,
         IsExtended(g, h, p, k, v, x), Null \notin DOMAIN h,
         NEW o, NEW q, NEW j \in 0..Len(h), IF p = Null THEN j = 0 ELSE j # 0 /\ o[j] = p,
         o \in [1..Len(h) -> DOMAIN h], WithNew(q, o, Len(h), j), Ascends(h, o),
         p # Null => h[p].id < k,
         \A a \in DOMAIN h :
           /\ h[a].id \in Nat /\ h[a].id # k
           /\ h[a].id < Coverage /\ h[a].id < k => p # Null /\ h[a].id <= h[p].id
  PROVE  Ascends(g, q)
<1> DEFINE L == Len(h)
           id(i) == h[o[i]].id
           at(i) == g[q[i]].id
<1>1. /\ L \in Nat /\ Len(g) = L + 1 /\ g[L + 1].id = k
      /\ \A b \in DOMAIN h : g[b].id = h[b].id
  BY DEF IsExtended
<1>2. /\ \A i \in 1..L : o[i] \in DOMAIN h /\ id(i) \in Nat /\ id(i) # k
      /\ \A i \in 1..L : id(i) < Coverage /\ id(i) < k => j # 0 /\ id(i) <= id(j)
      /\ j # 0 => id(j) < k
      /\ \A i, m \in 1..L : i < m /\ id(m) < Coverage => id(i) < id(m)
  <2>1. \A i \in 1..L : o[i] \in DOMAIN h
    OBVIOUS
  <2> QED BY <2>1 DEF Ascends
<1> HIDE DEF L
<1>3. \A i \in 1..(L + 1) :
        \/ i <= j /\ i \in 1..L /\ at(i) = id(i)
        \/ i = j + 1 /\ at(i) = k
        \/ i > j + 1 /\ i - 1 \in 1..L /\ at(i) = id(i - 1)
  <2> SUFFICES ASSUME NEW i \in 1..(L + 1)
               PROVE  \/ i <= j /\ i \in 1..L /\ at(i) = id(i)
                      \/ i = j + 1 /\ at(i) = k
                      \/ i > j + 1 /\ i - 1 \in 1..L /\ at(i) = id(i - 1)
    OBVIOUS
  <2>1. q[i] = IF i <= j THEN o[i] ELSE IF i = j + 1 THEN L + 1 ELSE o[i - 1]
    BY DEF WithNew, L
  <2>2. j \in 0..L
    BY DEF L
  <2>3. CASE i <= j
    <3>1. i \in 1..L
      BY <1>1, <2>2, <2>3
    <3> QED BY <1>1, <1>2, <2>1, <2>3, <3>1
  <2>4. CASE i = j + 1
    BY <1>1, <2>1, <2>2, <2>4
  <2>5. CASE i > j + 1
    <3>1. i - 1 \in 1..L /\ ~ (i <= j) /\ i # j + 1
      BY <1>1, <2>2, <2>5
    <3> QED BY <1>1, <1>2, <2>1, <2>5, <3>1
  <2> QED BY <2>2, <2>3, <2>4, <2>5
<1>4. j \in 0..L
  BY DEF L
<1>5. SUFFICES ASSUME NEW i \in 1..(L + 1), NEW m \in 1..(L + 1), i < m, at(m) < Coverage
               PROVE  at(i) < at(m)
  BY <1>1 DEF Ascends
<1> HIDE DEF id, at
<1>6. CASE m <= j
  BY <1>1, <1>2, <1>3, <1>4, <1>5, <1>6
<1>7. CASE m = j + 1
  <2>1. at(m) = k /\ k < Coverage
    BY <1>3, <1>4, <1>5, <1>7
  <2>2. i <= j /\ j # 0 /\ j \in 1..L /\ i \in 1..L /\ at(i) = id(i)
    BY <1>1, <1>3, <1>4, <1>5, <1>7
  <2>3. id(j) < k /\ id(j) \in Nat /\ id(j) < Coverage
    BY <1>2, <2>1, <2>2, CoverageIsNatural
  <2>4. i < j => id(i) < id(j) /\ id(i) \in Nat
    BY <1>2, <2>2, <2>3
  <2> QED BY <2>1, <2>2, <2>3, <2>4
<1>8. CASE m > j + 1
  <2>1. m - 1 \in 1..L /\ at(m) = id(m - 1) /\ id(m - 1) < Coverage /\ id(m - 1) \in Nat
    BY <1>2, <1>3, <1>4, <1>5, <1>8
  <2>2. CASE i <= j
    BY <1>2, <1>3, <1>4, <1>8, <2>1, <2>2
  <2>3. CASE i = j + 1
    <3>1. at(i) = k /\ id(m - 1) # k
      BY <1>2, <1>3, <1>4, <2>1, <2>3
    <3>2. ASSUME id(m - 1) < k PROVE FALSE
      <4>1. j # 0 /\ j \in 1..L /\ id(m - 1) <= id(j) /\ id(j) \in Nat
        BY <1>2, <1>4, <2>1, <3>2
      <4>2. id(j) < id(m - 1)
        BY <1>2, <1>8, <2>1, <4>1
      <4> QED BY <2>1, <4>1, <4>2
    <3> QED BY <2>1, <3>1, <3>2
  <2>4. CASE i > j + 1
    <3>1. i - 1 \in 1..L /\ at(i) = id(i - 1) /\ i - 1 < m - 1
      BY <1>3, <1>4, <1>5, <2>4
    <3> QED BY <1>2, <2>1, <3>1
  <2> QED BY <1>4, <2>2, <2>3, <2>4
<1> QED BY <1>4, <1>6, <1>7, <1>8

\* The links lead through all workers, those of the covered keys first and in order.
Ordered == \E o : Threaded(heap, head, tail, o) /\ Ascends(heap, o)

\* Every insert links its worker at the right place of the chain, or, if the tree
\* does not cover its key, behind all workers whose keys are covered.
LEMMA KeepsOrder == Spec => []Ordered
<1>1. Init => Ordered
  <2> SUFFICES ASSUME heap = <<>>, head = Null, tail = Null
               PROVE  \E o : Threaded(heap, head, tail, o) /\ Ascends(heap, o)
    BY DEF Init, Ordered
  <2> DEFINE o == [i \in 1..0 |-> Null]
  <2>1. Threaded(heap, head, tail, o)
    BY DEF Threaded
  <2>2. Ascends(heap, o)
    BY DEF Ascends
  <2> QED BY <2>1, <2>2
<1>2. Inv /\ Ordered /\ [Next]_vars => Ordered'
  <2> SUFFICES ASSUME Inv, NEW o, Threaded(heap, head, tail, o), Ascends(heap, o), [Next]_vars
               PROVE  \E q : Threaded(heap', head', tail', q) /\ Ascends(heap', q)
    BY DEF Ordered
  <2>1. CASE StillStep
    BY <2>1 DEF StillStep
  <2>2. ASSUME NEW k \in Keys, NEW v \in Values \cup {Null},
               Find(k) \in DOMAIN heap, WriteStep(Find(k), v)
        PROVE  Threaded(heap', head', tail', o) /\ Ascends(heap', o)
    <3>1. /\ Len(heap') = Len(heap) /\ DOMAIN heap' = DOMAIN heap
          /\ head' = head /\ tail' = tail
          /\ \A b \in DOMAIN heap : heap'[b].next = heap[b].next /\ heap'[b].id = heap[b].id
      BY <2>2, WriteStepFacts DEF WriteStep
    <3>2. Threaded(heap', head', tail', o)
      BY <3>1 DEF Threaded
    <3>3. \A i \in 1..Len(heap) : o[i] \in DOMAIN heap
      BY DEF Threaded
    <3> QED BY <3>1, <3>2, <3>3 DEF Ascends
  <2>3. ASSUME NEW k \in Keys, NEW v \in Values, LinkStep(k, v)
        PROVE  \E q : Threaded(heap', head', tail', q) /\ Ascends(heap', q)
    <3> DEFINE n == Len(heap) + 1
               p == LeftWorker(k)
               x == IF p = Null THEN head ELSE heap[p].next
    <3>1. /\ head' = (IF p = Null THEN n ELSE head)
          /\ tail' = (IF (IF p = Null THEN tail ELSE heap[p].next) = Null THEN n ELSE tail)
          /\ Find(k) = Null
      BY <2>3 DEF LinkStep
    <3>2. IsExtended(heap', heap, p, k, v, x)
      BY <2>3, LinkStepFacts
    <3>3. /\ p \in DOMAIN heap \cup {Null} /\ Null \notin DOMAIN heap
          /\ p # Null => heap[p].id < k
          /\ \A a \in DOMAIN heap :
               /\ heap[a].id \in Nat /\ heap[a].id # k
               /\ heap[a].id < Coverage /\ heap[a].id < k => p # Null /\ heap[a].id <= heap[p].id
      BY <3>1, LeftWorkerFacts, CellFacts
    <3>4. k \in Nat /\ o \in [1..Len(heap) -> DOMAIN heap]
      BY TableConstants DEF Threaded
    <3> HIDE DEF p
    <3>5. PICK q, j : /\ Threaded(heap', head', tail', q)
                      /\ j \in 0..Len(heap) /\ IF p = Null THEN j = 0 ELSE j # 0 /\ o[j] = p
                      /\ WithNew(q, o, Len(heap), j)
      BY <3>1, <3>2, <3>3, ThreadedLinked
    <3>6. Ascends(heap', q)
      BY <3>2, <3>3, <3>4, <3>5, AscendsLinked
    <3> QED BY <3>5, <3>6
  <2> QED BY <2>1, <2>2, <2>3, Steps
<1> QED BY <1>1, <1>2, Correct, PTL DEF Spec

\* The workers in front of one with a covered key are those with smaller keys.
LEMMA ThreadOrder ==
  ASSUME Inv, NEW o, Threaded(heap, head, tail, o), Ascends(heap, o)
  PROVE  \A i, j \in 1..Len(heap) : heap[o[j]].id < Coverage =>
           (i < j <=> heap[o[i]].id < heap[o[j]].id)
<1> SUFFICES ASSUME NEW i \in 1..Len(heap), NEW j \in 1..Len(heap), heap[o[j]].id < Coverage
             PROVE  i < j <=> heap[o[i]].id < heap[o[j]].id
  OBVIOUS
<1>1. heap[o[i]].id \in Nat /\ heap[o[j]].id \in Nat /\ i \in Nat /\ j \in Nat
  <2>1. o[i] \in DOMAIN heap /\ o[j] \in DOMAIN heap
    BY DEF Threaded
  <2>2. Len(heap) \in Nat /\ \A a \in DOMAIN heap : heap[a].id \in Nat
    BY CellFacts
  <2> QED BY <2>1, <2>2
<1>2. i < j => heap[o[i]].id < heap[o[j]].id
  BY DEF Ascends
<1>3. ASSUME heap[o[i]].id < heap[o[j]].id, j < i PROVE FALSE
  <2>1. heap[o[i]].id < Coverage
    BY <1>1, <1>3, CoverageIsNatural
  <2>2. heap[o[j]].id < heap[o[i]].id
    BY <1>3, <2>1 DEF Ascends
  <2> QED BY <1>1, <1>3, <2>2
<1>4. i = j => ~ (heap[o[i]].id < heap[o[j]].id)
  BY <1>1
<1> QED BY <1>1, <1>2, <1>3, <1>4

\* In that order a covered key has its neighbours around it.
LEMMA OrderIsSorted == ASSUME Inv, Ordered PROVE ChainSorted
<1> SUFFICES ASSUME NEW o, Threaded(heap, head, tail, o), Ascends(heap, o),
                    NEW b \in DOMAIN heap, heap[b].id < Coverage
             PROVE  /\ \A a \in DOMAIN heap : heap[a].next = b <=> Follows(a, b)
                    /\ head = b <=> \A a \in DOMAIN heap : heap[b].id <= heap[a].id
                    /\ tail = b <=> \A a \in DOMAIN heap : heap[a].id <= heap[b].id
  BY DEF Ordered, ChainSorted
<1> DEFINE L == Len(heap)
           id(i) == heap[o[i]].id
<1>1. /\ o \in [1..L -> DOMAIN heap]
      /\ \A a \in DOMAIN heap : \E i \in 1..L : o[i] = a
      /\ \A i, j \in 1..L : o[i] = o[j] => i = j
      /\ \A i \in 1..L : heap[o[i]].next = IF i = L THEN Null ELSE o[i + 1]
      /\ head = IF L = 0 THEN Null ELSE o[1]
      /\ tail = IF L = 0 THEN Null ELSE o[L]
  BY DEF Threaded
<1>2. PICK j \in 1..L : o[j] = b
  BY <1>1
<1>3. L \in Nat /\ Null \notin DOMAIN heap /\ \A i \in 1..L : id(i) \in Nat
  BY <1>1, CellFacts
<1>4. \A i, m \in 1..L : id(m) < Coverage => (i < m <=> id(i) < id(m))
  BY ThreadOrder
<1>5. \A a \in DOMAIN heap : \E i \in 1..L : o[i] = a /\ heap[a].id = id(i)
  BY <1>1
<1>6. heap[b].id = id(j) /\ id(j) < Coverage
  BY <1>2
<1>7. ASSUME NEW i \in 1..L PROVE heap[o[i]].next = b <=> Follows(o[i], b)
  <2>1. heap[o[i]].next = b <=> i + 1 = j
    <3>1. CASE i = L
      <4>1. heap[o[i]].next = Null
        BY <1>1, <3>1
      <4>2. b # Null
        BY <1>2, <1>1, <1>3
      <4>3. i + 1 # j
        BY <1>3, <3>1
      <4> QED BY <4>1, <4>2, <4>3
    <3>2. CASE i # L
      <4>1. i + 1 \in 1..L /\ heap[o[i]].next = o[i + 1]
        BY <1>1, <1>3, <3>2
      <4> QED BY <1>1, <1>2, <4>1
    <3> QED BY <3>1, <3>2
  <2>2. Follows(o[i], b) <=> id(i) < id(j) /\ ~ \E m \in 1..L : id(i) < id(m) /\ id(m) < id(j)
    <3>1. (\E c \in DOMAIN heap : heap[o[i]].id < heap[c].id /\ heap[c].id < heap[b].id)
            <=> \E m \in 1..L : id(i) < id(m) /\ id(m) < id(j)
      BY <1>1, <1>2
    <3> QED BY <1>6, <3>1 DEF Follows
  <2> HIDE DEF L, id
  <2>3. \A m \in 1..L : id(m) < id(j) => (id(i) < id(m) <=> i < m)
    BY <1>3, <1>4, <1>6, CoverageIsNatural
  <2>4. \A m \in 1..L : id(m) < id(j) <=> m < j
    BY <1>4, <1>6
  <2>5. i + 1 = j <=> i < j /\ ~ \E m \in 1..L : i < m /\ m < j
    <3>1. i + 1 < j => i + 1 \in 1..L /\ i < i + 1
      BY <1>3
    <3> QED BY <1>3, <3>1
  <2> QED BY <2>1, <2>2, <2>3, <2>4, <2>5
<1>8. head = b <=> \A a \in DOMAIN heap : heap[b].id <= heap[a].id
  <2>1. head = b <=> j = 1
    BY <1>1, <1>2, <1>3
  <2>2. (\A a \in DOMAIN heap : heap[b].id <= heap[a].id) <=> \A i \in 1..L : id(j) <= id(i)
    BY <1>1, <1>5, <1>6
  <2> HIDE DEF L, id
  <2>3. \A i \in 1..L : id(j) <= id(i) <=> ~ (i < j)
    BY <1>3, <1>4, <1>6
  <2>4. j = 1 <=> \A i \in 1..L : ~ (i < j)
    <3>1. 1 \in 1..L
      BY <1>3
    <3> QED BY <1>3, <3>1
  <2> QED BY <2>1, <2>2, <2>3, <2>4
<1>9. tail = b <=> \A a \in DOMAIN heap : heap[a].id <= heap[b].id
  <2>1. tail = b <=> j = L
    BY <1>1, <1>2, <1>3
  <2>2. (\A a \in DOMAIN heap : heap[a].id <= heap[b].id) <=> \A i \in 1..L : id(i) <= id(j)
    BY <1>1, <1>5, <1>6
  <2> HIDE DEF L, id
  <2>3. \A i \in 1..L : id(i) <= id(j) <=> ~ (j < i)
    <3> SUFFICES ASSUME NEW i \in 1..L PROVE id(i) <= id(j) <=> ~ (j < i)
      OBVIOUS
    <3>1. CASE id(i) < Coverage
      BY <1>3, <1>4, <3>1
    <3>2. CASE ~ (id(i) < Coverage)
      <4>1. ~ (id(i) <= id(j))
        BY <1>3, <1>6, <3>2, CoverageIsNatural
      <4>2. ~ (i < j) /\ i # j
        BY <1>3, <1>4, <1>6, <4>1
      <4> QED BY <1>3, <4>1, <4>2
    <3> QED BY <3>1, <3>2
  <2>4. j = L <=> \A i \in 1..L : ~ (j < i)
    <3>1. L \in 1..L
      BY <1>3
    <3> QED BY <1>3, <3>1
  <2> QED BY <2>1, <2>2, <2>3, <2>4
<1> QED BY <1>5, <1>7, <1>8, <1>9

(* A worker whose key the prefix tree covers is linked behind that of the  *)
(* next smaller key, and is the head or the tail exactly if its key is the *)
(* least or the greatest of the index: the worker that the filter leads an *)
(* insert to is always the right one to link behind, also where keys       *)
(* beyond the coverage of the tree are in the chain.                       *)
THEOREM ChainInOrder == Spec => []ChainSorted
<1>1. Inv /\ Ordered => ChainSorted
  BY OrderIsSorted
<1> QED BY <1>1, Correct, KeepsOrder, PTL

\* A walk from the p-th worker of that order follows it to its end.
LEMMA WalkThreaded ==
  ASSUME Inv, NEW o, Threaded(heap, head, tail, o), NEW p \in 1..(Len(heap) + 1),
         NEW a, a = IF p = Len(heap) + 1 THEN Null ELSE o[p]
  PROVE  WalkFrom(a) = [n \in 1..(Len(heap) + 1 - p) |-> o[p + n - 1]]
<1> DEFINE L == Len(heap)
           M == L + 1 - p
           at[n \in 1..(L + 1)] ==
             IF n = 1 THEN a ELSE IF at[n - 1] = Null THEN Null ELSE heap[at[n - 1]].next
           w == [n \in 1..(L + 1) |-> IF n > M THEN Null ELSE o[p + n - 1]]
           end == CHOOSE n \in DOMAIN at : at[n] = Null /\ \A m \in 1..(n - 1) : at[m] # Null
<1>1. /\ o \in [1..L -> DOMAIN heap]
      /\ \A i \in 1..L : heap[o[i]].next = IF i = L THEN Null ELSE o[i + 1]
  BY DEF Threaded
<1>2. L \in Nat /\ Null \notin DOMAIN heap
  BY CellFacts
<1>3. WalkFrom(a) = [n \in 1..(end - 1) |-> at[n]]
  BY DEF WalkFrom
<1>p. p \in 1..(L + 1) /\ a = IF p = L + 1 THEN Null ELSE o[p]
  OBVIOUS
<1> HIDE DEF L
<1>m. M \in 0..L /\ p + M = L + 1 /\ M \in Nat
  BY <1>2, <1>p
<1> HIDE DEF M
<1>i. \A n \in 1..M : /\ p + n - 1 \in 1..L /\ o[p + n - 1] # Null
                      /\ n \in 1..(L + 1) /\ ~ (n > M)
                      /\ p + n - 1 = L <=> n = M
                      /\ (p + n - 1) + 1 = p + (n + 1) - 1
  <2>1. \A n \in 1..M : /\ p + n - 1 \in 1..L /\ n \in 1..(L + 1) /\ ~ (n > M)
                        /\ p + n - 1 = L <=> n = M
                        /\ (p + n - 1) + 1 = p + (n + 1) - 1
    BY <1>2, <1>p, <1>m
  <2> QED BY <1>1, <1>2, <2>1
<1>4. \A n \in 1..(L + 1) :
        w[n] = IF n = 1 THEN a ELSE IF w[n - 1] = Null THEN Null ELSE heap[w[n - 1]].next
  <2> SUFFICES ASSUME NEW n \in 1..(L + 1)
               PROVE  w[n] = IF n = 1 THEN a
                             ELSE IF w[n - 1] = Null THEN Null ELSE heap[w[n - 1]].next
    OBVIOUS
  <2>1. CASE n = 1
    <3>1. 1 > M <=> p = L + 1
      BY <1>2, <1>p, <1>m
    <3>2. p + 1 - 1 = p
      BY <1>2, <1>p
    <3> QED BY <1>p, <2>1, <3>1, <3>2
  <2>2. CASE n # 1 /\ n - 1 \in 1..M
    <3>1. w[n - 1] = o[p + (n - 1) - 1] /\ o[p + (n - 1) - 1] # Null
      BY <1>i, <2>2
    <3>2. /\ p + (n - 1) - 1 \in 1..L
          /\ p + (n - 1) - 1 = L <=> n - 1 = M
          /\ (p + (n - 1) - 1) + 1 = p + ((n - 1) + 1) - 1
      BY <1>i, <2>2
    <3>3. heap[o[p + (n - 1) - 1]].next = IF n - 1 = M THEN Null ELSE o[p + ((n - 1) + 1) - 1]
      BY <1>1, <3>2
    <3>4. (n - 1 = M <=> n > M) /\ (n - 1) + 1 = n
      BY <1>2, <1>m, <2>2
    <3> QED BY <2>2, <3>1, <3>3, <3>4
  <2>3. CASE n # 1 /\ n - 1 \notin 1..M
    <3>1. n - 1 \in 1..(L + 1) /\ n - 1 > M /\ n > M
      BY <1>2, <1>m, <2>3
    <3> QED BY <2>3, <3>1
  <2> QED BY <2>1, <2>2, <2>3
<1>5. at = [n \in 1..(L + 1) |->
              IF n = 1 THEN a ELSE IF at[n - 1] = Null THEN Null ELSE heap[at[n - 1]].next]
  <2>1. w = [n \in 1..(L + 1) |->
              IF n = 1 THEN a ELSE IF w[n - 1] = Null THEN Null ELSE heap[w[n - 1]].next]
    BY <1>4
  <2> QED BY <2>1
<1> HIDE DEF at
<1>6. \A n \in 1..(L + 1) : at[n] = w[n]
  <2> DEFINE S == {n \in 1..(L + 1) : at[n] # w[n]}
  <2>1. SUFFICES ASSUME S # {} PROVE FALSE
    OBVIOUS
  <2>2. S \subseteq Nat
    BY <1>2
  <2>3. PICK n \in S : \A m \in S : n <= m
    <3> HIDE DEF S
    <3> QED BY <2>1, <2>2, LeastNat
  <2>4. n \in 1..(L + 1) /\ at[n] # w[n]
    OBVIOUS
  <2>5. n # 1 => n - 1 \in 1..(L + 1) /\ n - 1 \notin S
    BY <1>2, <2>3, <2>4
  <2>6. n # 1 => at[n - 1] = w[n - 1]
    BY <2>5
  <2> HIDE DEF S, w
  <2>7. at[n] = IF n = 1 THEN a ELSE IF at[n - 1] = Null THEN Null ELSE heap[at[n - 1]].next
    BY <1>5, <2>4
  <2> QED BY <1>4, <2>4, <2>6, <2>7
<1>7. /\ DOMAIN at = 1..(L + 1)
      /\ at[M + 1] = Null /\ M + 1 \in 1..(L + 1)
      /\ \A n \in 1..M : at[n] = o[p + n - 1] /\ at[n] # Null
  <2>1. M + 1 \in 1..(L + 1) /\ M + 1 > M
    BY <1>2, <1>m
  <2>2. DOMAIN at = 1..(L + 1)
    BY <1>5
  <2>3. w[M + 1] = Null /\ \A n \in 1..M : w[n] = o[p + n - 1]
    BY <1>i, <2>1
  <2> HIDE DEF w
  <2> QED BY <1>6, <1>i, <2>1, <2>2, <2>3
<1>8. end = M + 1
  <2>1. \A m \in 1..((M + 1) - 1) : at[m] # Null
    BY <1>m, <1>7
  <2>2. ASSUME NEW n \in DOMAIN at, at[n] = Null, \A m \in 1..(n - 1) : at[m] # Null
        PROVE  n = M + 1
    <3>1. n \in 1..(L + 1) /\ n \notin 1..M /\ M + 1 \notin 1..(n - 1)
      BY <1>7, <2>2
    <3> QED BY <1>2, <1>m, <3>1
  <2>3. \E n \in DOMAIN at : at[n] = Null /\ \A m \in 1..(n - 1) : at[m] # Null
    BY <1>7, <2>1
  <2> QED BY <2>2, <2>3
<1> HIDE DEF end
<1>9. end - 1 = M
  BY <1>m, <1>8
<1> QED BY <1>3, <1>7, <1>9 DEF M, L

\* The walk from the head is the whole order along which the workers are threaded.
LEMMA WalkFromHead ==
  ASSUME Inv, NEW o, Threaded(heap, head, tail, o)
  PROVE  WalkFrom(head) = o
<1>1. Len(heap) \in Nat /\ o \in [1..Len(heap) -> DOMAIN heap]
      /\ head = IF Len(heap) = 0 THEN Null ELSE o[1]
  BY CellFacts DEF Threaded
<1>2. 1 \in 1..(Len(heap) + 1) /\ (Len(heap) = 0 <=> 1 = Len(heap) + 1)
  BY <1>1
<1>3. WalkFrom(head) = [n \in 1..(Len(heap) + 1 - 1) |-> o[1 + n - 1]]
  BY <1>1, <1>2, WalkThreaded
<1>4. Len(heap) + 1 - 1 = Len(heap) /\ \A n \in 1..Len(heap) : 1 + n - 1 = n
  BY <1>1
<1> QED BY <1>1, <1>3, <1>4

(* Whatever keys are inserted, also where the chain is out of order, the   *)
(* walk from the head visits each worker once and ends at the tail.        *)
THEOREM ChainWhole == Spec => []ChainComplete
<1>1. Inv /\ Ordered => ChainComplete
  <2> SUFFICES ASSUME Inv, NEW o, Threaded(heap, head, tail, o) PROVE ChainComplete
    BY DEF Ordered
  <2>1. WalkFrom(head) = o
    BY WalkFromHead
  <2>2. /\ o \in [1..Len(heap) -> DOMAIN heap]
        /\ \A a \in DOMAIN heap : \E i \in 1..Len(heap) : o[i] = a
        /\ tail = IF Len(heap) = 0 THEN Null ELSE o[Len(heap)]
    BY DEF Threaded
  <2>3. Len(o) = Len(heap) /\ DOMAIN o = 1..Len(heap) /\ (o = <<>> <=> Len(heap) = 0)
    <3>1. Len(heap) \in Nat
      BY CellFacts
    <3>2. o = [i \in DOMAIN o |-> o[i]] /\ DOMAIN o = 1..Len(heap)
      BY <2>2
    <3>3. o \in Seq(DOMAIN heap) /\ Len(o) = Len(heap)
      BY <2>2, <3>1, <3>2, SequenceByDomain
    <3> QED BY <3>1, <3>2, <3>3
  <2> QED BY <2>1, <2>2, <2>3 DEF ChainComplete
<1> QED BY <1>1, KeepsOrder, Correct, PTL

-----------------------------------------------------------------------------
(* Range lookups *)

\* The worker a range lookup starts from: that of the start, or of the least
\* covered key behind it.
LEMMA RangeStartFacts ==
  ASSUME Inv, NEW k \in Nat
  PROVE  /\ Find(k) # Null => RangeStart(k) \in DOMAIN heap /\ heap[RangeStart(k)].id = k
         /\ IF \E a \in DOMAIN heap : k <= heap[a].id /\ heap[a].id < Coverage
            THEN /\ RangeStart(k) \in DOMAIN heap /\ heap[RangeStart(k)].id < Coverage
                 /\ k <= heap[RangeStart(k)].id
                 /\ \A a \in DOMAIN heap : k <= heap[a].id => heap[RangeStart(k)].id <= heap[a].id
            ELSE Find(k) = Null => RangeStart(k) = Null
<1> DEFINE r == RightAdjacent(Present, bits, k)
<1>1. Present \subseteq Nat
  BY TableConstants DEF Present
<1>2. \/ r = NoKey /\ \A x \in Present : x >= k => ~ Visible(Present, bits, x)
      \/ /\ r \in Present /\ r >= k /\ Visible(Present, bits, r)
         /\ \A x \in Present : x >= k /\ Visible(Present, bits, x) => r <= x
  BY <1>1, AdjacentFacts
<1>3. RangeStart(k) = IF Find(k) # Null THEN Find(k) ELSE IF r = NoKey THEN Null ELSE Find(r)
  BY DEF RangeStart, RightWorker, WorkerOf
<1> HIDE DEF r
<1>4. \A a \in DOMAIN heap : heap[a].id \in Present /\ heap[a].id \in Nat
  BY WorkersFound
<1>5. \A x \in Present : /\ Find(x) \in DOMAIN heap /\ heap[Find(x)].id = x
                         /\ Visible(Present, bits, x) <=> x < Coverage
  <2> SUFFICES ASSUME NEW x \in Present
               PROVE  /\ Find(x) \in DOMAIN heap /\ heap[Find(x)].id = x
                      /\ Visible(Present, bits, x) <=> x < Coverage
    OBVIOUS
  <2>1. x \in Nat /\ x \in Keys
    BY <1>1 DEF Present
  <2>2. PICK a \in DOMAIN heap : heap[a].id = x
    BY <2>1, FindFacts
  <2>3. \A i \in Levels : Position(x, i) \in bits
    BY <2>2 DEF Inv, Filtered
  <2>4. Find(x) \in DOMAIN heap /\ heap[Find(x)].id = x
    BY <2>1, <2>2, FindFacts
  <2>5. x < Coverage => Visible(Present, bits, x)
    BY <2>1, <2>3, BitsMakeVisible
  <2>6. Visible(Present, bits, x) => x < Coverage
    BY DEF Visible
  <2> QED BY <2>4, <2>5, <2>6
<1>6. Find(k) # Null => RangeStart(k) \in DOMAIN heap /\ heap[RangeStart(k)].id = k
  BY <1>3, FindAnyKey
<1>7. CASE \E a \in DOMAIN heap : k <= heap[a].id /\ heap[a].id < Coverage
  <2>1. PICK c \in DOMAIN heap : k <= heap[c].id /\ heap[c].id < Coverage
    BY <1>7
  <2>2. CASE Find(k) # Null
    BY <1>4, <1>6, <2>1, <2>2, CoverageIsNatural
  <2>3. CASE Find(k) = Null
    <3> DEFINE y == heap[c].id
    <3>1. y \in Present /\ y \in Nat /\ y >= k /\ y < Coverage
      BY <1>4, <2>1
    <3> HIDE DEF y
    <3>2. /\ r \in Present /\ r >= k /\ r < Coverage /\ r # NoKey /\ r \in Nat
          /\ \A x \in Present : x >= k /\ x < Coverage => r <= x
      <4>1. NoKey \notin Nat
        BY DEF NoKey
      <4> QED BY <1>1, <1>2, <1>5, <3>1, <4>1
    <3>3. RangeStart(k) \in DOMAIN heap /\ heap[RangeStart(k)].id = r
      BY <1>3, <1>5, <2>3, <3>2
    <3>4. ASSUME NEW a \in DOMAIN heap, k <= heap[a].id PROVE r <= heap[a].id
      <4>1. heap[a].id \in Present /\ heap[a].id \in Nat
        BY <1>4
      <4> QED BY <3>2, <3>4, <4>1, CoverageIsNatural
    <3> QED BY <1>7, <2>3, <3>2, <3>3, <3>4
  <2> QED BY <2>2, <2>3
<1>8. CASE ~ \E a \in DOMAIN heap : k <= heap[a].id /\ heap[a].id < Coverage
  <2>1. ASSUME Find(k) = Null, r # NoKey PROVE FALSE
    <3>1. r \in Present /\ r \in Nat /\ k <= r /\ r < Coverage
      BY <1>1, <1>2, <1>5, <2>1
    <3> QED BY <1>5, <1>8, <3>1
  <2> QED BY <1>3, <1>6, <1>8, <2>1
<1> QED BY <1>6, <1>7, <1>8

\* A walk is cut in front of the first key behind the end.
LEMMA UpToFacts ==
  ASSUME Inv, NEW N \in Nat, NEW w \in [1..N -> DOMAIN heap], NEW end \in Nat
  PROVE  \E s \in 0..N : /\ UpTo(w, end) = [n \in 1..s |-> w[n]]
                         /\ \A n \in 1..s : heap[w[n]].id <= end
                         /\ s < N => heap[w[s + 1]].id > end
<1> DEFINE id(i) == heap[w[i]].id
           Stops(s) == /\ \A m \in 1..s : id(m) <= end
                       /\ s < N => id(s + 1) > end
<1>1. \A i \in 1..N : id(i) \in Nat
  BY CellFacts
<1>2. Len(w) = N /\ w = [n \in 1..N |-> w[n]]
  <2>1. w = [n \in 1..N |-> w[n]]
    OBVIOUS
  <2> QED BY <2>1, SequenceByDomain
<1>3. UpTo(w, end) = SubSeq(w, 1, CHOOSE s \in 0..N : Stops(s))
  BY <1>2 DEF UpTo
<1> HIDE DEF id
<1>4. \E s \in 0..N : Stops(s)
  <2> DEFINE T == {s \in 0..N : s < N => id(s + 1) > end}
  <2>1. N \in T /\ T \subseteq Nat
    OBVIOUS
  <2>2. PICK s \in T : \A t \in T : s <= t
    <3> HIDE DEF T
    <3> QED BY <2>1, LeastNat
  <2>3. ASSUME NEW m \in 1..s PROVE id(m) <= end
    <3>1. m - 1 \in 0..N /\ m - 1 < N /\ (m - 1) + 1 = m /\ m \in 1..N /\ ~ (s <= m - 1)
      OBVIOUS
    <3>2. m - 1 \notin T
      <4> HIDE DEF T
      <4> QED BY <2>2, <3>1
    <3>3. ~ (id(m) > end)
      BY <3>1, <3>2
    <3> QED BY <1>1, <3>1, <3>3
  <2> QED BY <2>3
<1> DEFINE s == CHOOSE s \in 0..N : Stops(s)
<1>5. s \in 0..N /\ Stops(s)
  <2> HIDE DEF Stops
  <2> QED BY <1>4
<1>6. UpTo(w, end) = SubSeq(w, 1, s)
  BY <1>3
<1> HIDE DEF s
<1>7. SubSeq(w, 1, s) = [n \in 1..s |-> w[n]]
  <2>1. 1..s = {n \in 1..s : TRUE} /\ s - 1 + 1 = s /\ \A n \in 1..s : n + 1 - 1 = n /\ 1 + n - 1 = n
    BY <1>5
  <2> QED BY <1>2, <1>5, <2>1 DEF SubSeq
<1> QED BY <1>5, <1>6, <1>7 DEF id

\* A range lookup visits the workers of the keys in the range, in key order, if
\* the tree covers them: the walk may only be out of order where it has passed
\* all of them.
LEMMA RangeWalkFacts ==
  ASSUME Inv, Ordered, NEW start \in Nat, NEW end \in Nat, CoveredBetween(start, end)
  PROVE  LET found == RangeWalk(start, end)
         IN  \E s \in Nat :
               /\ found \in [1..s -> DOMAIN heap]
               /\ \A m, n \in 1..s : m < n => heap[found[m]].id < heap[found[n]].id
               /\ \A a \in DOMAIN heap :
                    start <= heap[a].id /\ heap[a].id <= end <=> \E n \in 1..s : found[n] = a
<1>1. PICK o : Threaded(heap, head, tail, o) /\ Ascends(heap, o)
  BY DEF Ordered
<1> DEFINE L == Len(heap)
           b == RangeStart(start)
           id(i) == heap[o[i]].id
           found == RangeWalk(start, end)
           Found(s) == /\ found \in [1..s -> DOMAIN heap]
                       /\ \A m, n \in 1..s : m < n => heap[found[m]].id < heap[found[n]].id
                       /\ \A a \in DOMAIN heap :
                            start <= heap[a].id /\ heap[a].id <= end <=> \E n \in 1..s : found[n] = a
<1>2. /\ L \in Nat /\ o \in [1..L -> DOMAIN heap] /\ Null \notin DOMAIN heap
      /\ \A a \in DOMAIN heap : \E i \in 1..L : o[i] = a
      /\ \A i \in 1..L : id(i) \in Nat
  BY <1>1, CellFacts DEF Threaded
<1>3. \A a \in DOMAIN heap : heap[a].id \in Nat /\ heap[a].id \in Present
  BY WorkersFound
<1>4. \A i, j \in 1..L : id(j) < Coverage => (i < j <=> id(i) < id(j))
  BY <1>1, ThreadOrder
<1>5. \A a \in DOMAIN heap : start <= heap[a].id /\ heap[a].id <= end => heap[a].id < Coverage
  BY <1>3 DEF CoveredBetween
<1>6. /\ Find(start) # Null => b \in DOMAIN heap /\ heap[b].id = start
      /\ IF \E a \in DOMAIN heap : start <= heap[a].id /\ heap[a].id < Coverage
         THEN /\ b \in DOMAIN heap /\ heap[b].id < Coverage /\ start <= heap[b].id
              /\ \A a \in DOMAIN heap : start <= heap[a].id => heap[b].id <= heap[a].id
         ELSE Find(start) = Null => b = Null
  BY RangeStartFacts
<1>7. RangeWalk(start, end) = UpTo(WalkFrom(b), end)
  BY DEF RangeWalk
<1> HIDE DEF b, L
<1>8. PICK p \in 1..(L + 1) : b = IF p = L + 1 THEN Null ELSE o[p]
  <2>1. CASE b = Null
    BY <1>2, <2>1
  <2>2. CASE b # Null
    <3>1. b \in DOMAIN heap
      BY <1>6, <2>2
    <3>2. PICK i \in 1..L : o[i] = b
      BY <1>2, <3>1
    <3> QED BY <1>2, <3>2
  <2> QED BY <2>1, <2>2
<1> DEFINE N == L + 1 - p
           w == [n \in 1..N |-> o[p + n - 1]]
<1>9. WalkFrom(b) = w
  BY <1>1, <1>8, WalkThreaded DEF L
<1>10. /\ N \in Nat
       /\ \A n \in 1..N : p + n - 1 \in 1..L /\ p + n - 1 >= p
       /\ \A m, n \in 1..N : m < n <=> p + m - 1 < p + n - 1
       /\ \A i \in 1..L : i >= p => i - p + 1 \in 1..N /\ p + (i - p + 1) - 1 = i
       /\ N # 0 => p \in 1..L /\ 1 \in 1..N /\ p + 1 - 1 = p
       /\ N = 0 <=> p = L + 1
  BY <1>2
<1> HIDE DEF N
<1>11. /\ w \in [1..N -> DOMAIN heap]
       /\ \A n \in 1..N : heap[w[n]].id = id(p + n - 1) /\ w[n] = o[p + n - 1]
  BY <1>2, <1>10
<1> HIDE DEF w
<1>12. PICK s \in 0..N : /\ UpTo(w, end) = [n \in 1..s |-> w[n]]
                         /\ \A n \in 1..s : heap[w[n]].id <= end
                         /\ s < N => heap[w[s + 1]].id > end
  BY <1>10, <1>11, UpToFacts
<1>13. found = [n \in 1..s |-> w[n]]
  BY <1>7, <1>9, <1>12
<1> HIDE DEF found
<1>14. /\ s \in Nat /\ found \in [1..s -> DOMAIN heap]
       /\ \A n \in 1..s : /\ n \in 1..N /\ n <= s /\ found[n] = w[n]
                          /\ heap[found[n]].id = id(p + n - 1) /\ p + n - 1 \in 1..L
                          /\ id(p + n - 1) <= end
  <2>1. s \in Nat /\ \A n \in 1..s : n \in 1..N /\ n <= s
    BY <1>10
  <2>2. \A n \in 1..s : w[n] \in DOMAIN heap /\ heap[w[n]].id = id(p + n - 1)
    BY <1>11, <2>1
  <2>3. \A n \in 1..s : p + n - 1 \in 1..L
    BY <1>10, <2>1
  <2>4. found \in [1..s -> DOMAIN heap] /\ \A n \in 1..s : found[n] = w[n]
    BY <1>13, <2>2
  <2>5. \A n \in 1..s : heap[found[n]].id = id(p + n - 1)
    BY <2>2, <2>4
  <2>6. \A n \in 1..s : id(p + n - 1) <= end
    BY <1>12, <2>2
  <2> QED BY <2>1, <2>3, <2>4, <2>5, <2>6
<1> HIDE DEF id
<1>15. CASE \E a \in DOMAIN heap : start <= heap[a].id /\ heap[a].id < Coverage
  <2>1. /\ p \in 1..L /\ o[p] = b /\ id(p) < Coverage /\ start <= id(p)
        /\ \A i \in 1..L : start <= id(i) => id(p) <= id(i)
    <3>1. p # L + 1
      BY <1>2, <1>6, <1>8, <1>15
    <3>2. p \in 1..L /\ o[p] = b
      BY <1>2, <1>8, <3>1
    <3> QED BY <1>2, <1>6, <1>15, <3>2 DEF id
  <2>2. \A i \in 1..L : start <= id(i) <=> p <= i
    <3> SUFFICES ASSUME NEW i \in 1..L PROVE start <= id(i) <=> p <= i
      OBVIOUS
    <3>1. CASE i < p
      <4>1. id(i) < id(p)
        BY <1>4, <2>1, <3>1
      <4> QED BY <1>2, <2>1, <3>1, <4>1
    <3>2. CASE ~ (i < p)
      <4>1. ~ (id(i) < id(p))
        BY <1>4, <2>1, <3>2
      <4> QED BY <1>2, <2>1, <3>2, <4>1
    <3> QED BY <3>1, <3>2
  <2>3. \A n \in 1..s : start <= id(p + n - 1) /\ id(p + n - 1) < Coverage
    <3> SUFFICES ASSUME NEW n \in 1..s
                 PROVE  start <= id(p + n - 1) /\ id(p + n - 1) < Coverage
      OBVIOUS
    <3>1. start <= id(p + n - 1)
      BY <1>10, <1>14, <2>1, <2>2
    <3> QED BY <1>5, <1>14, <3>1
  <2>4. \A m, n \in 1..s : m < n => heap[found[m]].id < heap[found[n]].id
    <3> SUFFICES ASSUME NEW m \in 1..s, NEW n \in 1..s, m < n
                 PROVE  id(p + m - 1) < id(p + n - 1)
      BY <1>14
    <3>1. p + m - 1 < p + n - 1
      BY <1>10, <1>14
    <3> QED BY <1>4, <1>14, <2>3, <3>1
  <2>5. ASSUME NEW a \in DOMAIN heap, start <= heap[a].id, heap[a].id <= end
        PROVE  \E n \in 1..s : found[n] = a
    <3>1. PICK i \in 1..L : o[i] = a
      BY <1>2
    <3>2. id(i) = heap[a].id /\ id(i) < Coverage /\ p <= i
      BY <1>5, <2>2, <2>5, <3>1 DEF id
    <3> DEFINE n == i - p + 1
    <3>3. n \in 1..N /\ p + n - 1 = i
      BY <1>10, <2>1, <3>2
    <3> HIDE DEF n
    <3>4. w[n] = a
      BY <1>11, <3>1, <3>3
    <3>5. ASSUME ~ (n <= s) PROVE FALSE
      <4>1. s < N /\ s + 1 \in 1..N /\ (s + 1 = n \/ s + 1 < n)
        BY <1>10, <3>3, <3>5
      <4>2. heap[w[s + 1]].id > end /\ heap[w[s + 1]].id \in Nat
        BY <1>3, <1>11, <1>12, <4>1
      <4>3. s + 1 # n
        BY <1>3, <2>5, <3>4, <4>2
      <4>4. heap[w[s + 1]].id < heap[a].id
        <5>1. p + (s + 1) - 1 < i /\ p + (s + 1) - 1 \in 1..L
          BY <1>10, <3>3, <4>1, <4>3
        <5>2. id(p + (s + 1) - 1) < id(i)
          BY <1>4, <3>2, <5>1
        <5> QED BY <1>11, <3>2, <4>1, <5>2 DEF id
      <4> QED BY <1>3, <2>5, <4>2, <4>4
    <3> QED BY <1>14, <3>3, <3>4, <3>5
  <2>6. ASSUME NEW n \in 1..s
        PROVE  start <= heap[found[n]].id /\ heap[found[n]].id <= end
    BY <1>14, <2>3
  <2>7. Found(s)
    BY <1>14, <2>4, <2>5, <2>6
  <2> QED BY <1>14, <2>7 DEF found
<1>16. CASE ~ \E a \in DOMAIN heap : start <= heap[a].id /\ heap[a].id < Coverage
  <2>1. \A a \in DOMAIN heap : ~ (start <= heap[a].id /\ heap[a].id <= end)
    BY <1>5, <1>16
  <2>2. s = 0
    <3>1. CASE b = Null
      <4>1. N = 0
        BY <1>2, <1>8, <1>10, <3>1
      <4> QED BY <4>1
    <3>2. CASE b # Null
      <4>1. b \in DOMAIN heap /\ heap[b].id = start
        BY <1>6, <1>16, <3>2
      <4>2. ~ (start <= end)
        BY <2>1, <4>1
      <4>3. ASSUME 1 \in 1..s PROVE FALSE
        <5>1. w[1] = b /\ heap[w[1]].id <= end
          BY <1>8, <1>10, <1>11, <1>12, <1>14, <3>2, <4>3
        <5> QED BY <4>1, <4>2, <5>1
      <4> QED BY <1>14, <4>3
    <3> QED BY <3>1, <3>2
  <2>3. Found(0)
    BY <1>14, <2>1, <2>2
  <2> QED BY <2>3 DEF found
<1> QED BY <1>15, <1>16

(* Whether or not its ends are keys of the index, a range lookup returns   *)
(* the workers of the keys in the range, all of them and in key order, if  *)
(* the prefix tree covers those keys, although it starts at a worker that  *)
(* the filter leads it to and follows links alone from there, past keys    *)
(* that the tree does not cover.                                           *)
THEOREM RangesComplete ==
  Spec => [](\A start, end \in Keys : CoveredBetween(start, end) =>
               LET found == RangeWalk(start, end)
               IN  /\ {found[n] : n \in DOMAIN found} = InRange(start, end)
                   /\ \A m, n \in DOMAIN found : m < n => heap[found[m]].id < heap[found[n]].id)
<1>1. ASSUME Inv, Ordered, NEW start \in Keys, NEW end \in Keys, CoveredBetween(start, end)
      PROVE  LET found == RangeWalk(start, end)
             IN  /\ {found[n] : n \in DOMAIN found} = InRange(start, end)
                 /\ \A m, n \in DOMAIN found : m < n => heap[found[m]].id < heap[found[n]].id
  <2> DEFINE found == RangeWalk(start, end)
  <2>1. start \in Nat /\ end \in Nat
    BY TableConstants
  <2>2. PICK s \in Nat :
          /\ found \in [1..s -> DOMAIN heap]
          /\ \A m, n \in 1..s : m < n => heap[found[m]].id < heap[found[n]].id
          /\ \A a \in DOMAIN heap :
               start <= heap[a].id /\ heap[a].id <= end <=> \E n \in 1..s : found[n] = a
    BY <1>1, <2>1, RangeWalkFacts
  <2> HIDE DEF found
  <2>3. {found[n] : n \in DOMAIN found} = InRange(start, end)
    BY <2>2 DEF InRange
  <2> QED BY <2>2, <2>3 DEF found
<1>2. Inv /\ Ordered =>
        \A start, end \in Keys : CoveredBetween(start, end) =>
          LET found == RangeWalk(start, end)
          IN  /\ {found[n] : n \in DOMAIN found} = InRange(start, end)
              /\ \A m, n \in DOMAIN found : m < n => heap[found[m]].id < heap[found[n]].id
  BY <1>1
<1> QED BY <1>2, Correct, KeepsOrder, PTL

=============================================================================

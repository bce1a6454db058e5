--------------------------- MODULE BPlusTreeShape ---------------------------
(***************************************************************************)
(* What makes a heap of nodes a B+ tree, and what keeps it one: the        *)
(* invariant of BPlusTree as a predicate of heaps, and lemmas about the    *)
(* ways in which the program regroups nodes (a node is divided, two        *)
(* neighbours are united or exchange entries, a root is put on or taken    *)
(* off), about the descent to a leaf and the walk along the leaves.  They  *)
(* are about all heaps, and not about the steps of the specification,      *)
(* which are the subject of BPlusTreeProofs.                               *)
(***************************************************************************)
EXTENDS BPlusTree, ShiftTheorems, FiniteSetTheorems, SequenceTheorems

(***************************************************************************)
(* The invariant.  A heap m, which is the mem of a tree, is well shaped    *)
(* when each of its nodes has a place: its height above the leaves, and    *)
(* the range low..high - 1 of the keys that the descent leads to it.  The  *)
(* places are not part of the program's state: g is a witness.             *)
(***************************************************************************)
High == IntMax + 1

NodeSet == [leaf : BOOLEAN, keys : Seq(Keys), ptrs : Seq(Nat),
            next : Nat, prev : Nat, parent : Nat]
Place == [height : Nat, low : Int, high : Int]

Leaf(m, a) == m[a].leaf
Ks(m, a) == m[a].keys
Ps(m, a) == m[a].ptrs
Nx(m, a) == m[a].next
Pv(m, a) == m[a].prev
Up(m, a) == m[a].parent
Ht(g, a) == g[a].height
Lo(g, a) == g[a].low
Hi(g, a) == g[a].high

Elems(s) == SE!ToSet(s)
Ascending(s) == \A i, j \in 1..Len(s) : i < j => s[i] < s[j]

\* The keys k and the data q of a leaf with the range lo..hi - 1
LeafFits(k, q, lo, hi) ==
  /\ IntMin <= lo /\ lo < hi /\ hi <= High
  /\ Ascending(k) /\ \A x \in Elems(k) : lo <= x /\ x < hi
  /\ Len(q) = Len(k) /\ q \in Seq(AllData)

\* The keys k and the children q of an internal node with that range
InnerFits(k, q, lo, hi) ==
  /\ IntMin <= lo /\ lo < hi /\ hi <= High
  /\ Ascending(k) /\ \A x \in Elems(k) : lo < x /\ x < hi
  /\ Len(q) = Len(k) + 1

\* The i-th of the keys k, and the bounds around them
Bound(k, lo, hi, i) == IF i = 0 THEN lo ELSE IF i <= Len(k) THEN k[i] ELSE hi

\* In an internal node c is the child for the keys from l to h - 1.
Slot(k, q, lo, hi, c, l, h) ==
  \E i \in 1..Len(q) : c = q[i] /\ l = Bound(k, lo, hi, i - 1) /\ h = Bound(k, lo, hi, i)

HasChild(m, g, a, c, l, h) == Slot(Ks(m, a), Ps(m, a), Lo(g, a), Hi(g, a), c, l, h)

Fits(m, g, a) ==
  IF Leaf(m, a)
  THEN Ht(g, a) = 0 /\ LeafFits(Ks(m, a), Ps(m, a), Lo(g, a), Hi(g, a))
  ELSE Ht(g, a) > 0 /\ InnerFits(Ks(m, a), Ps(m, a), Lo(g, a), Hi(g, a))

Typed(m, g) ==
  /\ DOMAIN m \subseteq Nat \ {Null} /\ IsFiniteSet(DOMAIN m)
  /\ m \in [DOMAIN m -> NodeSet] /\ g \in [DOMAIN m -> Place]

\* A child of a node is in the heap and has the place that its slot says.
Parental(m, g) ==
  \A a \in DOMAIN m : ~ Leaf(m, a) =>
    \A c, l, h : HasChild(m, g, a, c, l, h) =>
      /\ c \in DOMAIN m /\ Up(m, c) = a /\ Ht(g, a) = Ht(g, c) + 1
      /\ l = Lo(g, c) /\ h = Hi(g, c)

\* Every node but the root is a child of its parent.
Owned(m, root, g) ==
  \A c \in DOMAIN m \ {root} :
    LET a == Up(m, c)
    IN  a \in DOMAIN m /\ ~ Leaf(m, a) /\ HasChild(m, g, a, c, Lo(g, c), Hi(g, c))

Rooted(m, root, g) ==
  /\ root \in DOMAIN m /\ Up(m, root) = Null
  /\ Lo(g, root) = IntMin /\ Hi(g, root) = High
  /\ \A a \in DOMAIN m \ {root} : Ht(g, a) < Ht(g, root)

\* The ranges of the nodes at one height do not overlap.
Apart(m, g) ==
  \A a, b \in DOMAIN m :
    a # b /\ Ht(g, a) = Ht(g, b) => Hi(g, a) <= Lo(g, b) \/ Hi(g, b) <= Lo(g, a)

\* The leaf list leads from each leaf to the one whose range follows, and back.
NextOK(m, g, a) ==
  LET b == Nx(m, a)
  IN  IF b = Null THEN Hi(g, a) = High
      ELSE b \in DOMAIN m /\ Leaf(m, b) /\ Pv(m, b) = a /\ Lo(g, b) = Hi(g, a)
PrevOK(m, g, a) ==
  LET b == Pv(m, a)
  IN  IF b = Null THEN Lo(g, a) = IntMin
      ELSE b \in DOMAIN m /\ Leaf(m, b) /\ Nx(m, b) = a /\ Hi(g, b) = Lo(g, a)
Linked(m, g) ==
  \A a \in DOMAIN m : IF Leaf(m, a) THEN NextOK(m, g, a) /\ PrevOK(m, g, a)
                      ELSE Nx(m, a) = Null /\ Pv(m, a) = Null

Shape(m, root, g) ==
  /\ Typed(m, g)
  /\ \A a \in DOMAIN m : Fits(m, g, a)
  /\ Parental(m, g) /\ Owned(m, root, g) /\ Rooted(m, root, g) /\ Apart(m, g) /\ Linked(m, g)

(***************************************************************************)
(* Sequences                                                               *)
(***************************************************************************)

\* The first n elements of a sequence
LEMMA PrefixFacts ==
  ASSUME NEW S, NEW s \in Seq(S), NEW n \in 0..Len(s)
  PROVE  /\ SubSeq(s, 1, n) \in Seq(S) /\ Len(SubSeq(s, 1, n)) = n
         /\ \A j \in 1..n : SubSeq(s, 1, n)[j] = s[j]
<1>1. Len(s) \in Nat /\ \A j \in 1..n : s[j] \in S
  BY LenProperties, ElementOfSeq
<1> QED BY <1>1, SubSeqProperties

\* The elements of a sequence from the m-th on
LEMMA SuffixFacts ==
  ASSUME NEW S, NEW s \in Seq(S), NEW m \in 1..(Len(s) + 1)
  PROVE  LET n == Len(s) - m + 1
         IN  /\ SubSeq(s, m, Len(s)) \in Seq(S) /\ Len(SubSeq(s, m, Len(s))) = n
             /\ \A j \in 1..n : SubSeq(s, m, Len(s))[j] = s[m + j - 1]
<1>1. Len(s) \in Nat /\ \A j \in m..Len(s) : s[j] \in S
  BY LenProperties, ElementOfSeq
<1> QED BY <1>1, SubSeqProperties

\* A sequence put in front of another
LEMMA JoinFacts ==
  ASSUME NEW S, NEW s \in Seq(S), NEW r \in Seq(S), NEW n, n = Len(s) + Len(r)
  PROVE  /\ s \o r \in Seq(S) /\ Len(s \o r) = n
         /\ \A j \in 1..n : (s \o r)[j] = IF j <= Len(s) THEN s[j] ELSE r[j - Len(s)]
BY ConcatProperties

\* What InsertAt returns
LEMMA InsertAtFacts ==
  ASSUME NEW S, NEW s \in Seq(S), NEW i \in 1..(Len(s) + 1), NEW e \in S
  PROVE  LET r == SE!InsertAt(s, i, e)
         IN  /\ r \in Seq(S) /\ Len(r) = Len(s) + 1
             /\ \A j \in 1..(Len(s) + 1) :
                  r[j] = IF j < i THEN s[j] ELSE IF j = i THEN e ELSE s[j - 1]
<1> DEFINE u == SubSeq(s, 1, i - 1)
           v == SubSeq(s, i, Len(s))
           w == u \o <<e>>
<1>1. Len(s) \in Nat /\ i - 1 \in 0..Len(s)
  BY LenProperties
<1>2. u \in Seq(S) /\ Len(u) = i - 1 /\ \A j \in 1..(i - 1) : u[j] = s[j]
  BY <1>1, PrefixFacts
<1>3. v \in Seq(S) /\ Len(v) = Len(s) - i + 1 /\ \A j \in 1..(Len(s) - i + 1) : v[j] = s[i + j - 1]
  BY SuffixFacts
<1>4. w \in Seq(S) /\ Len(w) = i /\ \A j \in 1..i : w[j] = IF j < i THEN s[j] ELSE e
  <2>1. <<e>> \in Seq(S) /\ Len(<<e>>) = 1 /\ <<e>>[1] = e
    OBVIOUS
  <2>2. i = Len(u) + Len(<<e>>)
    BY <1>2, <2>1
  <2> HIDE DEF u
  <2> QED BY <1>1, <1>2, <2>1, <2>2, JoinFacts
<1>5. w \o v \in Seq(S) /\ Len(w \o v) = Len(s) + 1
      /\ \A j \in 1..(Len(s) + 1) : (w \o v)[j] = IF j <= Len(w) THEN w[j] ELSE v[j - Len(w)]
  <2>1. Len(s) + 1 = Len(w) + Len(v)
    BY <1>1, <1>3, <1>4
  <2> HIDE DEF w, v
  <2> QED BY <1>3, <1>4, <2>1, JoinFacts
<1>6. SE!InsertAt(s, i, e) = w \o v
  BY DEF SE!InsertAt
<1>7. \A j \in 1..(Len(s) + 1) : (w \o v)[j] = IF j < i THEN s[j] ELSE IF j = i THEN e ELSE s[j - 1]
  <2> HIDE DEF w, v
  <2> QED BY <1>1, <1>3, <1>4, <1>5
<1> HIDE DEF w, v
<1> QED BY <1>5, <1>6, <1>7

\* What RemoveAt returns
LEMMA RemoveAtFacts ==
  ASSUME NEW S, NEW s \in Seq(S), NEW i \in 1..Len(s)
  PROVE  LET r == SE!RemoveAt(s, i)
         IN  /\ r \in Seq(S) /\ Len(r) = Len(s) - 1
             /\ \A j \in 1..(Len(s) - 1) : r[j] = IF j < i THEN s[j] ELSE s[j + 1]
<1> DEFINE u == SubSeq(s, 1, i - 1)
           v == SubSeq(s, i + 1, Len(s))
<1>1. Len(s) \in Nat /\ i - 1 \in 0..Len(s) /\ i + 1 \in 1..(Len(s) + 1)
  BY LenProperties
<1>2. u \in Seq(S) /\ Len(u) = i - 1 /\ \A j \in 1..(i - 1) : u[j] = s[j]
  BY <1>1, PrefixFacts
<1>3. v \in Seq(S) /\ Len(v) = Len(s) - i /\ \A j \in 1..(Len(s) - i) : v[j] = s[i + j]
  <2> DEFINE m == i + 1
  <2>1. m \in 1..(Len(s) + 1) /\ v = SubSeq(s, m, Len(s))
    BY <1>1
  <2> HIDE DEF m
  <2>2. /\ SubSeq(s, m, Len(s)) \in Seq(S) /\ Len(SubSeq(s, m, Len(s))) = Len(s) - m + 1
        /\ \A j \in 1..(Len(s) - m + 1) : SubSeq(s, m, Len(s))[j] = s[m + j - 1]
    BY <2>1, SuffixFacts
  <2> HIDE DEF v
  <2>3. /\ v \in Seq(S) /\ Len(v) = Len(s) - m + 1
        /\ \A j \in 1..(Len(s) - m + 1) : v[j] = s[m + j - 1]
    BY <2>1, <2>2
  <2> QED BY <1>1, <2>3 DEF m
<1>4. u \o v \in Seq(S) /\ Len(u \o v) = Len(s) - 1
      /\ \A j \in 1..(Len(s) - 1) : (u \o v)[j] = IF j <= Len(u) THEN u[j] ELSE v[j - Len(u)]
  <2> DEFINE n == Len(s) - 1
  <2> HIDE DEF u, v
  <2>1. n = Len(u) + Len(v)
    BY <1>1, <1>2, <1>3
  <2> HIDE DEF n
  <2>2. u \o v \in Seq(S) /\ Len(u \o v) = n
        /\ \A j \in 1..n : (u \o v)[j] = IF j <= Len(u) THEN u[j] ELSE v[j - Len(u)]
    <3>1. u \in Seq(S) /\ v \in Seq(S)
      BY <1>2, <1>3
    <3> QED BY <2>1, <3>1, JoinFacts
  <2> QED BY <2>2 DEF n
<1>5. SE!RemoveAt(s, i) = u \o v
  BY DEF SE!RemoveAt
<1>6. \A j \in 1..(Len(s) - 1) : (u \o v)[j] = IF j < i THEN s[j] ELSE s[j + 1]
  <2> HIDE DEF u, v
  <2> QED BY <1>1, <1>2, <1>3, <1>4
<1> HIDE DEF u, v
<1> QED BY <1>4, <1>5, <1>6


\* The elements of sequences, of joined and of one-element sequences
LEMMA ElemsFacts ==
  ASSUME NEW S, NEW s \in Seq(S)
  PROVE  /\ Elems(s) \subseteq S
         /\ \A i \in 1..Len(s) : s[i] \in Elems(s)
         /\ \A x \in Elems(s) : \E i \in 1..Len(s) : s[i] = x
<1>1. DOMAIN s = 1..Len(s)
  BY LenProperties
<1>2. \A i \in 1..Len(s) : s[i] \in S
  BY ElementOfSeq
<1> QED BY <1>1, <1>2 DEF Elems, SE!ToSet

\* The elements of a list made of two are those of both.
LEMMA ElemsOfJoin ==
  ASSUME NEW S, NEW s \in Seq(S), NEW r \in Seq(S)
  PROVE  Elems(s \o r) = Elems(s) \cup Elems(r)
<1> DEFINE n == Len(s) + Len(r)
           q == s \o r
<1>1. Len(s) \in Nat /\ Len(r) \in Nat
  BY LenProperties
<1>2. q \in Seq(S) /\ Len(q) = n /\ \A j \in 1..n : q[j] = IF j <= Len(s) THEN s[j] ELSE r[j - Len(s)]
  BY ConcatProperties
<1> HIDE DEF q
<1>3. ASSUME NEW x \in Elems(q) PROVE x \in Elems(s) \cup Elems(r)
  <2>1. PICK j \in 1..n : q[j] = x
    BY <1>2, <1>3, ElemsFacts
  <2>2. j <= Len(s) => j \in 1..Len(s)
    BY <1>1
  <2>3. ~ j <= Len(s) => j - Len(s) \in 1..Len(r)
    BY <1>1
  <2>4. x \in {s[i] : i \in 1..Len(s)} \/ x \in {r[i] : i \in 1..Len(r)}
    BY <1>2, <2>1, <2>2, <2>3
  <2> QED BY <2>4, ElemsFacts
<1>4. ASSUME NEW x \in Elems(s) PROVE x \in Elems(q)
  <2>1. PICK i \in 1..Len(s) : s[i] = x
    BY ElemsFacts
  <2>2. i \in 1..n /\ q[i] = x
    BY <1>1, <1>2, <2>1
  <2> QED BY <1>2, <2>2, ElemsFacts
<1>5. ASSUME NEW x \in Elems(r) PROVE x \in Elems(q)
  <2>1. PICK i \in 1..Len(r) : r[i] = x
    BY ElemsFacts
  <2> DEFINE j == Len(s) + i
  <2>2. j \in 1..n /\ ~ (j <= Len(s)) /\ j - Len(s) = i
    BY <1>1
  <2> HIDE DEF j
  <2>3. q[j] = x
    BY <1>2, <2>1, <2>2
  <2> QED BY <1>2, <2>2, <2>3, ElemsFacts
<1> QED BY <1>3, <1>4, <1>5 DEF q

\* The elements of a list of one, and of the empty list
LEMMA ElemsOfOne ==
  ASSUME NEW x
  PROVE  Elems(<<x>>) = {x} /\ Elems(<<>>) = {}
BY DEF Elems, SE!ToSet

\* A join ascends when its parts do and one is below the other.
LEMMA AscendingJoin ==
  ASSUME NEW s \in Seq(Keys), NEW r \in Seq(Keys)
  PROVE  Ascending(s \o r) <=> /\ Ascending(s) /\ Ascending(r)
                               /\ \A x \in Elems(s), y \in Elems(r) : x < y
<1> DEFINE n == Len(s) + Len(r)
           q == s \o r
<1>1. Len(s) \in Nat /\ Len(r) \in Nat
  BY LenProperties
<1>2. q \in Seq(Keys) /\ Len(q) = n /\ \A j \in 1..n : q[j] = IF j <= Len(s) THEN s[j] ELSE r[j - Len(s)]
  BY ConcatProperties
<1> HIDE DEF q
<1>3. \A i \in 1..Len(s) : i \in 1..n /\ q[i] = s[i]
  BY <1>1, <1>2
<1>4. ASSUME NEW i \in 1..Len(r) PROVE Len(s) + i \in 1..n /\ q[Len(s) + i] = r[i]
  <2> DEFINE j == Len(s) + i
  <2>1. j \in 1..n /\ ~ (j <= Len(s)) /\ j - Len(s) = i
    BY <1>1
  <2> HIDE DEF j
  <2>2. q[j] = r[i]
    BY <1>2, <2>1
  <2> QED BY <2>1, <2>2 DEF j
<1>5. ASSUME Ascending(q)
      PROVE  /\ Ascending(s) /\ Ascending(r)
             /\ \A x \in Elems(s), y \in Elems(r) : x < y
  <2>1. \A i, j \in 1..n : i < j => q[i] < q[j]
    BY <1>2, <1>5 DEF Ascending
  <2>2. ASSUME NEW i \in 1..Len(s), NEW j \in 1..Len(s), i < j PROVE s[i] < s[j]
    BY <1>3, <2>1, <2>2
  <2>3. ASSUME NEW i \in 1..Len(r), NEW j \in 1..Len(r), i < j PROVE r[i] < r[j]
    <3>1. Len(s) + i < Len(s) + j
      BY <1>1, <2>3
    <3> QED BY <1>4, <2>1, <3>1
  <2>4. ASSUME NEW x \in Elems(s), NEW y \in Elems(r) PROVE x < y
    <3>1. PICK i \in 1..Len(s) : s[i] = x
      BY ElemsFacts
    <3>2. PICK j \in 1..Len(r) : r[j] = y
      BY ElemsFacts
    <3>3. i < Len(s) + j
      BY <1>1
    <3> QED BY <1>3, <1>4, <2>1, <3>1, <3>2, <3>3
  <2> QED BY <2>2, <2>3, <2>4 DEF Ascending
<1>6. ASSUME Ascending(s), Ascending(r), \A x \in Elems(s), y \in Elems(r) : x < y
      PROVE  Ascending(q)
  <2>1. ASSUME NEW i \in 1..n, NEW j \in 1..n, i < j PROVE q[i] < q[j]
    <3>1. CASE j <= Len(s)
      <4>1. i \in 1..Len(s) /\ j \in 1..Len(s)
        BY <1>1, <2>1, <3>1
      <4> QED BY <1>3, <1>6, <2>1, <4>1 DEF Ascending
    <3>2. CASE ~ (i <= Len(s))
      <4> DEFINE k == i - Len(s)
                 l == j - Len(s)
      <4>1. k \in 1..Len(r) /\ l \in 1..Len(r) /\ k < l /\ ~ (j <= Len(s))
        BY <1>1, <2>1, <3>2
      <4>2. q[i] = r[k] /\ q[j] = r[l]
        BY <1>2, <3>2, <4>1
      <4> HIDE DEF k, l
      <4> QED BY <1>6, <4>1, <4>2 DEF Ascending
    <3>3. CASE i <= Len(s) /\ ~ (j <= Len(s))
      <4> DEFINE l == j - Len(s)
      <4>1. i \in 1..Len(s) /\ l \in 1..Len(r)
        BY <1>1, <3>3
      <4>2. q[i] = s[i] /\ q[j] = r[l]
        BY <1>2, <3>3
      <4> HIDE DEF l
      <4>3. s[i] \in Elems(s) /\ r[l] \in Elems(r)
        BY <4>1, ElemsFacts
      <4> QED BY <1>6, <4>2, <4>3
    <3> QED BY <3>1, <3>2, <3>3
  <2> QED BY <1>2, <2>1 DEF Ascending
<1> QED BY <1>5, <1>6 DEF q

\* Lists of at most one element ascend.
LEMMA AscendingOne ==
  ASSUME NEW x
  PROVE  Ascending(<<x>>) /\ Ascending(<<>>)
BY DEF Ascending

\* Where the elements of a join are
LEMMA JoinPositions ==
  ASSUME NEW S, NEW s \in Seq(S), NEW r \in Seq(S)
  PROVE  /\ s \o r \in Seq(S) /\ Len(s \o r) = Len(s) + Len(r)
         /\ \A i \in 1..Len(s) : (s \o r)[i] = s[i]
         /\ \A i \in 1..Len(r) : (s \o r)[Len(s) + i] = r[i]
<1> DEFINE n == Len(s) + Len(r)
           q == s \o r
<1>1. Len(s) \in Nat /\ Len(r) \in Nat
  BY LenProperties
<1>2. q \in Seq(S) /\ Len(q) = n /\ \A j \in 1..n : q[j] = IF j <= Len(s) THEN s[j] ELSE r[j - Len(s)]
  BY ConcatProperties
<1> HIDE DEF q
<1>3. \A i \in 1..Len(s) : q[i] = s[i]
  BY <1>1, <1>2
<1>4. ASSUME NEW i \in 1..Len(r) PROVE q[Len(s) + i] = r[i]
  <2> DEFINE j == Len(s) + i
  <2>1. j \in 1..n /\ ~ (j <= Len(s)) /\ j - Len(s) = i
    BY <1>1
  <2> HIDE DEF j
  <2>2. q[j] = r[i]
    BY <1>2, <2>1
  <2> QED BY <2>2 DEF j
<1> QED BY <1>2, <1>3, <1>4 DEF q

\* A list of one element
LEMMA OneElement ==
  ASSUME NEW S, NEW e \in S
  PROVE  <<e>> \in Seq(S) /\ Len(<<e>>) = 1 /\ <<e>>[1] = e
OBVIOUS

\* s is u followed by v ...
Joined(s, u, v) ==
  /\ Len(s) = Len(u) + Len(v) /\ Elems(s) = Elems(u) \cup Elems(v)
  /\ \A i \in 1..Len(u) : s[i] = u[i]
  /\ \A i \in 1..Len(v) : s[Len(u) + i] = v[i]

\* ... and s is u, e and v.
JoinedAround(s, u, e, v) ==
  /\ Len(s) = Len(u) + 1 + Len(v) /\ Elems(s) = Elems(u) \cup {e} \cup Elems(v)
  /\ Ascending(s) <=> /\ Ascending(u) /\ Ascending(v)
                      /\ \A x \in Elems(u) : x < e
                      /\ \A x \in Elems(v) : e < x
  /\ \A i \in 1..Len(u) : s[i] = u[i]
  /\ s[Len(u) + 1] = e
  /\ \A i \in 1..Len(v) : s[Len(u) + 1 + i] = v[i]

\* For the keys of two leaves this says when the keys ascend ...
JoinedKeys(k, u, v) ==
  /\ Joined(k, u, v)
  /\ Ascending(k) <=> /\ Ascending(u) /\ Ascending(v)
                      /\ \A x \in Elems(u), y \in Elems(v) : x < y

\* ... which they do in the parts, if sep is between them.
Below(u, sep, v) == (\A x \in Elems(u) : x < sep) /\ (\A x \in Elems(v) : sep <= x)

\* Concatenation joins.
LEMMA JoinIsJoined ==
  ASSUME NEW S, NEW u \in Seq(S), NEW v \in Seq(S)
  PROVE  Joined(u \o v, u, v)
<1> DEFINE s == u \o v
<1>1. /\ Len(s) = Len(u) + Len(v)
      /\ \A i \in 1..Len(u) : s[i] = u[i]
      /\ \A i \in 1..Len(v) : s[Len(u) + i] = v[i]
  BY JoinPositions
<1>2. Elems(s) = Elems(u) \cup Elems(v)
  BY ElemsOfJoin
<1> HIDE DEF s
<1>3. Joined(s, u, v)
  BY <1>1, <1>2 DEF Joined
<1> QED BY <1>3 DEF s

\* Two lists of keys with a key between them
LEMMA JoinIsAround ==
  ASSUME NEW u \in Seq(Keys), NEW v \in Seq(Keys), NEW e \in Keys, Keys \subseteq Int
  PROVE  JoinedAround((u \o <<e>>) \o v, u, e, v) /\ (u \o <<e>>) \o v \in Seq(Keys)
<1> DEFINE o == <<e>>
           w == u \o o
           s == w \o v
<1>1. /\ o \in Seq(Keys) /\ Len(o) = 1 /\ o[1] = e /\ Elems(o) = {e} /\ Ascending(o)
  BY OneElement, ElemsOfOne, AscendingOne
<1>2. Len(u) \in Nat /\ Len(v) \in Nat /\ Elems(u) \subseteq Int /\ Elems(v) \subseteq Int
  <2>1. Elems(u) \subseteq Keys /\ Elems(v) \subseteq Keys
    BY ElemsFacts
  <2> QED BY <2>1, LenProperties
<1> HIDE DEF o
<1>3. /\ w \in Seq(Keys) /\ Len(w) = Len(u) + Len(o)
      /\ \A i \in 1..Len(u) : w[i] = u[i]
      /\ \A i \in 1..Len(o) : w[Len(u) + i] = o[i]
  <2>1. o \in Seq(Keys)
    BY <1>1
  <2> QED BY <2>1, JoinPositions
<1>4. Elems(w) = Elems(u) \cup Elems(o)
  BY <1>1, ElemsOfJoin
<1>5. Ascending(w) <=> Ascending(u) /\ Ascending(o) /\ \A x \in Elems(u), y \in Elems(o) : x < y
  BY <1>1, AscendingJoin
<1>6. Len(w) = Len(u) + 1 /\ w[Len(u) + 1] = e
  BY <1>1, <1>3
<1> HIDE DEF w
<1>7. /\ s \in Seq(Keys) /\ Len(s) = Len(w) + Len(v)
      /\ \A i \in 1..Len(w) : s[i] = w[i]
      /\ \A i \in 1..Len(v) : s[Len(w) + i] = v[i]
  <2>1. w \in Seq(Keys)
    BY <1>3
  <2> QED BY <2>1, JoinPositions
<1>8. Elems(s) = Elems(w) \cup Elems(v)
  BY <1>3, ElemsOfJoin
<1>9. Ascending(s) <=> Ascending(w) /\ Ascending(v) /\ \A x \in Elems(w), y \in Elems(v) : x < y
  BY <1>3, AscendingJoin
<1> HIDE DEF s
<1>10. /\ Ascending(s) <=> /\ Ascending(u) /\ Ascending(v)
                           /\ \A x \in Elems(u) : x < e
                           /\ \A x \in Elems(v) : e < x
  <2>1. e \in Int
    OBVIOUS
  <2>2. (\A x \in Elems(u) : x < e) /\ (\A x \in Elems(v) : e < x)
        => \A x \in Elems(w), y \in Elems(v) : x < y
    BY <1>1, <1>2, <1>4, <2>1
  <2> QED BY <1>1, <1>4, <1>5, <1>9, <2>2
<1>11. \A i \in 1..Len(u) : s[i] = u[i]
  BY <1>2, <1>3, <1>6, <1>7
<1>12. s[Len(u) + 1] = e
  <2>1. Len(u) + 1 \in 1..Len(w)
    BY <1>2, <1>6
  <2> QED BY <1>6, <1>7, <2>1
<1>13. \A i \in 1..Len(v) : s[Len(u) + 1 + i] = v[i]
  BY <1>6, <1>7
<1>14. Len(s) = Len(u) + 1 + Len(v)
  BY <1>6, <1>7
<1>15. Elems(s) = Elems(u) \cup {e} \cup Elems(v)
  BY <1>1, <1>4, <1>8
<1>16. JoinedAround(s, u, e, v)
  BY <1>10, <1>11, <1>12, <1>13, <1>14, <1>15 DEF JoinedAround
<1> QED BY <1>7, <1>16 DEF s, w, o

\* Two lists of keys, joined
LEMMA JoinIsJoinedKeys ==
  ASSUME NEW u \in Seq(Keys), NEW v \in Seq(Keys)
  PROVE  JoinedKeys(u \o v, u, v) /\ u \o v \in Seq(Keys)
<1>1. Joined(u \o v, u, v)
  BY JoinIsJoined
<1>2. u \o v \in Seq(Keys)
  BY JoinPositions
<1> QED BY <1>1, <1>2, AscendingJoin DEF JoinedKeys

-----------------------------------------------------------------------------
(* Heaps *)

\* What the types of a heap say of its nodes
LEMMA NodeTypes ==
  ASSUME NEW m, NEW g, Typed(m, g), NEW a \in DOMAIN m
  PROVE  /\ a \in Nat /\ a # Null
         /\ Leaf(m, a) \in BOOLEAN /\ Ks(m, a) \in Seq(Keys) /\ Ps(m, a) \in Seq(Nat)
         /\ Nx(m, a) \in Nat /\ Pv(m, a) \in Nat /\ Up(m, a) \in Nat
         /\ Ht(g, a) \in Nat /\ Lo(g, a) \in Int /\ Hi(g, a) \in Int
<1>1. m[a] \in NodeSet /\ g[a] \in Place /\ a \in Nat \ {Null}
  BY DEF Typed
<1> QED BY <1>1 DEF NodeSet, Place, Leaf, Ks, Ps, Nx, Pv, Up, Ht, Lo, Hi

\* In the heap m the siblings G, children of the node p, hold what in the heap
\* m2 the siblings G2 hold; the rest of the two heaps is the same.
Regrouped(m, g, m2, g2, G, G2, p, lf, lev) ==
  LET D == DOMAIN m
      rest == D \ G
  IN  /\ G \subseteq D /\ G # {} /\ DOMAIN m2 = rest \cup G2 /\ rest \cap G2 = {}
      /\ p \in rest /\ ~ Leaf(m, p)
      /\ \A c \in G : Up(m, c) = p /\ Ht(g, c) = lev /\ Leaf(m, c) = lf
      /\ \A c \in G2 : Up(m2, c) = p /\ Ht(g2, c) = lev /\ Leaf(m2, c) = lf
      /\ \A c \in rest : /\ Lo(g2, c) = Lo(g, c) /\ Hi(g2, c) = Hi(g, c)
                         /\ Ht(g2, c) = Ht(g, c) /\ Leaf(m2, c) = Leaf(m, c)
      /\ \A c \in rest : Up(m, c) \notin G => Up(m2, c) = Up(m, c)
      /\ \A c \in rest : Up(m, c) \in G =>
           Up(m2, c) \in G2 /\ HasChild(m2, g2, Up(m2, c), c, Lo(g, c), Hi(g, c))
      /\ \A c \in rest \ {p} : ~ Leaf(m, c) =>
           \A x, l, h : HasChild(m2, g2, c, x, l, h) <=> HasChild(m, g, c, x, l, h)
      /\ \A x, l, h : HasChild(m2, g2, p, x, l, h) <=>
           \/ x \notin G /\ x \notin G2 /\ HasChild(m, g, p, x, l, h)
           \/ x \in G2 /\ l = Lo(g2, x) /\ h = Hi(g2, x)
      /\ ~ lf => \A c \in G2 : \A x, l, h : HasChild(m2, g2, c, x, l, h) =>
           Up(m2, x) = c /\ \E a \in G : HasChild(m, g, a, x, l, h)

\* The tree stays one when siblings are regrouped.
LEMMA RegroupedTree ==
  ASSUME NEW m, NEW root, NEW g, NEW m2, NEW g2, NEW G, NEW G2, NEW p, NEW lf, NEW lev,
         Typed(m, g), Parental(m, g), Owned(m, root, g), Rooted(m, root, g),
         Regrouped(m, g, m2, g2, G, G2, p, lf, lev)
  PROVE  Parental(m2, g2) /\ Owned(m2, root, g2) /\ Rooted(m2, root, g2)
<1> DEFINE D == DOMAIN m
           rest == D \ G
<1>1. \A a \in D : a # Null /\ Ht(g, a) \in Nat
  BY NodeTypes
<1>2. root \in D /\ Up(m, root) = Null
  BY DEF Rooted
<1>3. root \notin G /\ root \in rest
  BY <1>1, <1>2 DEF Regrouped
<1>4. \A c \in G : Ht(g, p) = Ht(g, c) + 1
  BY <1>3 DEF Regrouped, Owned, Parental
<1>5. Ht(g, p) = lev + 1
  BY <1>4 DEF Regrouped
<1>6. \A c \in DOMAIN m2 : c \in rest \/ c \in G2
  BY DEF Regrouped
<1>7. Parental(m2, g2)
  <2> SUFFICES ASSUME NEW a \in DOMAIN m2, ~ Leaf(m2, a), NEW c, NEW l, NEW h,
                      HasChild(m2, g2, a, c, l, h)
               PROVE  /\ c \in DOMAIN m2 /\ Up(m2, c) = a /\ Ht(g2, a) = Ht(g2, c) + 1
                      /\ l = Lo(g2, c) /\ h = Hi(g2, c)
    BY DEF Parental
  <2>1. CASE a \in rest \ {p}
    <3>1. a \in D /\ ~ Leaf(m, a) /\ HasChild(m, g, a, c, l, h)
      BY <2>1 DEF Regrouped
    <3>2. /\ c \in D /\ Up(m, c) = a /\ Ht(g, a) = Ht(g, c) + 1
          /\ l = Lo(g, c) /\ h = Hi(g, c)
      BY <3>1 DEF Parental
    <3>3. c \in rest /\ Up(m2, c) = a
      BY <2>1, <3>2 DEF Regrouped
    <3> QED BY <2>1, <3>2, <3>3 DEF Regrouped
  <2>2. CASE a = p
    <3>1. CASE c \in G2
      BY <1>5, <2>2, <3>1 DEF Regrouped
    <3>2. CASE c \notin G2
      <4>1. c \notin G /\ HasChild(m, g, p, c, l, h) /\ p \in D /\ p \notin G /\ ~ Leaf(m, p)
        BY <2>2, <3>2 DEF Regrouped
      <4>2. /\ c \in D /\ Up(m, c) = p /\ Ht(g, p) = Ht(g, c) + 1
            /\ l = Lo(g, c) /\ h = Hi(g, c)
        BY <4>1 DEF Parental
      <4> QED BY <2>2, <4>1, <4>2 DEF Regrouped
    <3> QED BY <3>1, <3>2
  <2>3. CASE a \in G2
    <3>1. Up(m2, c) = a /\ lf = Leaf(m2, a) /\ Ht(g2, a) = lev
      BY <2>3 DEF Regrouped
    <3>2. PICK b \in G : HasChild(m, g, b, c, l, h)
      BY <2>3, <3>1 DEF Regrouped
    <3>3. b \in D /\ ~ Leaf(m, b) /\ Ht(g, b) = lev
      BY <3>1 DEF Regrouped
    <3>4. /\ c \in D /\ Up(m, c) = b /\ Ht(g, b) = Ht(g, c) + 1
          /\ l = Lo(g, c) /\ h = Hi(g, c)
      BY <3>2, <3>3 DEF Parental
    <3>5. c \in rest
      BY <3>4 DEF Regrouped
    <3> QED BY <3>1, <3>3, <3>4, <3>5 DEF Regrouped
  <2> QED BY <1>6, <2>1, <2>2, <2>3
<1>8. Owned(m2, root, g2)
  <2> SUFFICES ASSUME NEW c \in DOMAIN m2 \ {root}
               PROVE  /\ Up(m2, c) \in DOMAIN m2 /\ ~ Leaf(m2, Up(m2, c))
                      /\ HasChild(m2, g2, Up(m2, c), c, Lo(g2, c), Hi(g2, c))
    BY DEF Owned
  <2>1. CASE c \in G2
    BY <2>1 DEF Regrouped
  <2>2. CASE c \in rest
    <3>1. /\ Up(m, c) \in D /\ ~ Leaf(m, Up(m, c))
          /\ HasChild(m, g, Up(m, c), c, Lo(g, c), Hi(g, c))
      BY <2>2 DEF Owned
    <3>2. Lo(g2, c) = Lo(g, c) /\ Hi(g2, c) = Hi(g, c)
      BY <2>2 DEF Regrouped
    <3>3. CASE Up(m, c) \in G
      <4>1. Up(m2, c) \in G2 /\ HasChild(m2, g2, Up(m2, c), c, Lo(g, c), Hi(g, c))
        BY <2>2, <3>3 DEF Regrouped
      <4>2. Leaf(m2, Up(m2, c)) = lf /\ Leaf(m, Up(m, c)) = lf
        BY <3>3, <4>1 DEF Regrouped
      <4> QED BY <3>1, <3>2, <4>1, <4>2 DEF Regrouped
    <3>4. CASE Up(m, c) \notin G
      <4>1. Up(m2, c) = Up(m, c)
        BY <2>2, <3>4 DEF Regrouped
      <4>2. c \notin G /\ c \notin G2
        BY <2>2 DEF Regrouped
      <4>3. CASE Up(m, c) = p
        <5>1. HasChild(m2, g2, p, c, Lo(g, c), Hi(g, c))
          BY <3>1, <4>2, <4>3 DEF Regrouped
        <5> QED BY <3>2, <4>1, <4>3, <5>1 DEF Regrouped
      <4>4. CASE Up(m, c) # p
        <5>1. Up(m, c) \in rest \ {p}
          BY <3>1, <3>4, <4>4
        <5>2. HasChild(m2, g2, Up(m, c), c, Lo(g, c), Hi(g, c))
          BY <3>1, <5>1 DEF Regrouped
        <5> QED BY <3>1, <3>2, <4>1, <5>1, <5>2 DEF Regrouped
      <4> QED BY <4>3, <4>4
    <3> QED BY <3>3, <3>4
  <2> QED BY <1>6, <2>1, <2>2
<1>9. Rooted(m2, root, g2)
  <2>1. root \in DOMAIN m2 /\ Up(m2, root) = Null
    <3>1. Null \notin G
      BY <1>1 DEF Regrouped
    <3> QED BY <1>2, <1>3, <3>1 DEF Regrouped
  <2>2. Lo(g2, root) = IntMin /\ Hi(g2, root) = High /\ Ht(g2, root) = Ht(g, root)
    BY <1>3 DEF Regrouped, Rooted
  <2>3. ASSUME NEW a \in DOMAIN m2 \ {root} PROVE Ht(g2, a) < Ht(g, root)
    <3>1. CASE a \in rest
      BY <3>1 DEF Regrouped, Rooted
    <3>2. CASE a \in G2
      <4>1. PICK c \in G : c \in D /\ c # root /\ Ht(g, c) = lev
        BY <1>3 DEF Regrouped
      <4>2. Ht(g, c) < Ht(g, root)
        BY <4>1 DEF Rooted
      <4> QED BY <3>2, <4>1, <4>2 DEF Regrouped
    <3> QED BY <1>6, <3>1, <3>2
  <2> QED BY <2>1, <2>2, <2>3 DEF Rooted
<1> QED BY <1>7, <1>8, <1>9

\* The nodes G2 lie where G did, between lo and hi.
RegroupedRange(m, g, g2, G, G2, lev, lo, hi) ==
  /\ \A x \in DOMAIN m \ G : Ht(g, x) = lev => Hi(g, x) <= lo \/ hi <= Lo(g, x)
  /\ \A c \in G2 : lo <= Lo(g2, c) /\ Hi(g2, c) <= hi
  /\ \A b, c \in G2 : b # c => Hi(g2, b) <= Lo(g2, c) \/ Hi(g2, c) <= Lo(g2, b)

\* Regrouping nodes keeps the ranges of each height apart.
LEMMA RegroupedApart ==
  ASSUME NEW m, NEW g, NEW m2, NEW g2, NEW G, NEW G2, NEW p, NEW lf, NEW lev,
         NEW lo \in Int, NEW hi \in Int, Typed(m, g), Typed(m2, g2), Apart(m, g),
         Regrouped(m, g, m2, g2, G, G2, p, lf, lev), RegroupedRange(m, g, g2, G, G2, lev, lo, hi)
  PROVE  Apart(m2, g2)
<1> DEFINE D == DOMAIN m
           rest == D \ G
<1>1. \A c \in DOMAIN m2 : c \in rest \/ c \in G2
  BY DEF Regrouped
<1>2. \A c \in DOMAIN m2 : Lo(g2, c) \in Int /\ Hi(g2, c) \in Int
  BY NodeTypes
<1>3. \A c \in rest : Lo(g2, c) = Lo(g, c) /\ Hi(g2, c) = Hi(g, c) /\ Ht(g2, c) = Ht(g, c)
  BY DEF Regrouped
<1>4. \A c \in G2 : Ht(g2, c) = lev
  BY DEF Regrouped
<1>5. ASSUME NEW b \in rest, NEW c \in DOMAIN m2, b # c, Ht(g2, b) = Ht(g2, c)
      PROVE  Hi(g2, b) <= Lo(g2, c) \/ Hi(g2, c) <= Lo(g2, b)
  <2>1. b \in DOMAIN m2
    BY DEF Regrouped
  <2>2. CASE c \in rest
    BY <1>3, <1>5, <2>2 DEF Apart
  <2>3. CASE c \in G2
    <3>1. Hi(g2, b) <= lo \/ hi <= Lo(g2, b)
      BY <1>3, <1>4, <1>5, <2>3 DEF RegroupedRange
    <3>2. lo <= Lo(g2, c) /\ Hi(g2, c) <= hi
      BY <2>3 DEF RegroupedRange
    <3> QED BY <1>2, <2>1, <3>1, <3>2
  <2> QED BY <1>1, <2>2, <2>3
<1>6. ASSUME NEW b \in G2, NEW c \in G2, b # c
      PROVE  Hi(g2, b) <= Lo(g2, c) \/ Hi(g2, c) <= Lo(g2, b)
  BY <1>6 DEF RegroupedRange
<1> QED BY <1>1, <1>5, <1>6 DEF Apart

-----------------------------------------------------------------------------
(* The three ways of regrouping: one node divided into two, two neighbours *)
(* united into one, and the border between two moved.                      *)

Divided(m, g, m2, g2, a, b, p) ==
  /\ Regrouped(m, g, m2, g2, {a}, {a, b}, p, Leaf(m, a), Ht(g, a)) /\ a # b
  /\ Lo(g2, a) = Lo(g, a) /\ Hi(g2, b) = Hi(g, a) /\ Hi(g2, a) = Lo(g2, b)
  /\ Pv(m2, a) = Pv(m, a)
  /\ \A x \in DOMAIN m \ {a} : Nx(m2, x) = Nx(m, x)
  /\ IF Leaf(m, a)
     THEN /\ Nx(m2, a) = b /\ Pv(m2, b) = a /\ Nx(m2, b) = Nx(m, a)
          /\ \A x \in DOMAIN m \ {a} : Pv(m2, x) = IF x = Nx(m, a) THEN b ELSE Pv(m, x)
     ELSE /\ Nx(m2, a) = Nx(m, a) /\ Pv(m2, b) = Null /\ Nx(m2, b) = Null
          /\ \A x \in DOMAIN m \ {a} : Pv(m2, x) = Pv(m, x)

United(m, g, m2, g2, a, b, p) ==
  /\ Regrouped(m, g, m2, g2, {a, b}, {a}, p, Leaf(m, a), Ht(g, a)) /\ a # b
  /\ Lo(g2, a) = Lo(g, a) /\ Hi(g2, a) = Hi(g, b) /\ Hi(g, a) = Lo(g, b)
  /\ Pv(m2, a) = Pv(m, a)
  /\ \A x \in DOMAIN m \ {a, b} : Nx(m2, x) = Nx(m, x)
  /\ IF Leaf(m, a)
     THEN /\ Nx(m2, a) = Nx(m, b)
          /\ \A x \in DOMAIN m \ {a, b} : Pv(m2, x) = IF x = Nx(m, b) THEN a ELSE Pv(m, x)
     ELSE /\ Nx(m2, a) = Nx(m, a)
          /\ \A x \in DOMAIN m \ {a, b} : Pv(m2, x) = Pv(m, x)

Shifted(m, g, m2, g2, a, b, p) ==
  /\ Regrouped(m, g, m2, g2, {a, b}, {a, b}, p, Leaf(m, a), Ht(g, a)) /\ a # b
  /\ Lo(g2, a) = Lo(g, a) /\ Hi(g2, b) = Hi(g, b)
  /\ Hi(g, a) = Lo(g, b) /\ Hi(g2, a) = Lo(g2, b)
  /\ \A x \in DOMAIN m : Nx(m2, x) = Nx(m, x) /\ Pv(m2, x) = Pv(m, x)

NonEmpty(m, g) == \A a \in DOMAIN m : IntMin <= Lo(g, a) /\ Lo(g, a) < Hi(g, a) /\ Hi(g, a) <= High
LeavesLow(m, g) == \A a \in DOMAIN m : Leaf(m, a) <=> Ht(g, a) = 0

\* Keys are numbers from IntMin to IntMax, and High is above them all.
LEMMA KeysAreInts ==
  /\ Keys \subseteq IntMin..IntMax /\ Keys \subseteq Int
  /\ IntMin \in Int /\ IntMax \in Int /\ High \in Int /\ High = IntMax + 1
BY BPTAssumption DEF High

\* What nodes that fit their places say of the places
LEMMA FitsFacts ==
  ASSUME NEW m, NEW g, Typed(m, g), \A a \in DOMAIN m : Fits(m, g, a)
  PROVE  NonEmpty(m, g) /\ LeavesLow(m, g)
<1>1. \A a \in DOMAIN m : Ht(g, a) \in Nat
  BY NodeTypes
<1> QED BY <1>1 DEF Fits, LeafFits, InnerFits, NonEmpty, LeavesLow

\* Dividing a node keeps the ranges apart and the leaves linked.
LEMMA DividedHeap ==
  ASSUME NEW m, NEW g, NEW m2, NEW g2, NEW a, NEW b, NEW p,
         Typed(m, g), Typed(m2, g2), NonEmpty(m, g), NonEmpty(m2, g2), LeavesLow(m, g),
         Apart(m, g), Linked(m, g), Divided(m, g, m2, g2, a, b, p)
  PROVE  Apart(m2, g2) /\ Linked(m2, g2)
<1> DEFINE D == DOMAIN m
           rest == D \ {a}
<1>1. /\ a \in D /\ b \notin rest /\ DOMAIN m2 = rest \cup {a, b} /\ a # b /\ b \notin D
  BY DEF Divided, Regrouped
<1>2. \A c \in D : Lo(g, c) \in Int /\ Hi(g, c) \in Int /\ c # Null
  BY NodeTypes
<1>3. \A c \in DOMAIN m2 : Lo(g2, c) \in Int /\ Hi(g2, c) \in Int /\ c # Null
  BY NodeTypes
<1>4. /\ Lo(g2, a) = Lo(g, a) /\ Hi(g2, b) = Hi(g, a) /\ Hi(g2, a) = Lo(g2, b)
      /\ Leaf(m2, a) = Leaf(m, a) /\ Leaf(m2, b) = Leaf(m, a)
      /\ Ht(g2, a) = Ht(g, a) /\ Ht(g2, b) = Ht(g, a)
      /\ Pv(m2, a) = Pv(m, a)
  BY DEF Divided, Regrouped
<1>5. \A c \in rest : /\ Lo(g2, c) = Lo(g, c) /\ Hi(g2, c) = Hi(g, c)
                      /\ Ht(g2, c) = Ht(g, c) /\ Leaf(m2, c) = Leaf(m, c)
                      /\ Nx(m2, c) = Nx(m, c)
  BY DEF Divided, Regrouped
<1>6. \A c \in DOMAIN m2 : Lo(g2, c) < Hi(g2, c)
  BY DEF NonEmpty
<1>7. Apart(m2, g2)
  <2>1. RegroupedRange(m, g, g2, {a}, {a, b}, Ht(g, a), Lo(g, a), Hi(g, a))
    <3>1. \A x \in rest : Ht(g, x) = Ht(g, a) => Hi(g, x) <= Lo(g, a) \/ Hi(g, a) <= Lo(g, x)
      BY <1>1 DEF Apart
    <3>2. Lo(g, a) <= Lo(g2, b) /\ Hi(g2, a) <= Hi(g, a)
      BY <1>1, <1>2, <1>3, <1>4, <1>6
    <3> QED BY <1>1, <1>2, <1>3, <1>4, <3>1, <3>2 DEF RegroupedRange
  <2>2. Regrouped(m, g, m2, g2, {a}, {a, b}, p, Leaf(m, a), Ht(g, a))
    BY DEF Divided
  <2> QED BY <1>1, <1>2, <2>1, <2>2, RegroupedApart
<1>8. Linked(m2, g2)
  <2>1. CASE ~ Leaf(m, a)
    <3>1. /\ Nx(m2, a) = Nx(m, a) /\ Pv(m2, b) = Null /\ Nx(m2, b) = Null
          /\ \A x \in rest : Pv(m2, x) = Pv(m, x)
      BY <2>1 DEF Divided
    <3>2. Nx(m, a) = Null /\ Pv(m, a) = Null
      BY <1>1, <2>1 DEF Linked
    <3>3. ASSUME NEW c \in rest, Leaf(m, c) PROVE NextOK(m2, g2, c) /\ PrevOK(m2, g2, c)
      <4>1. NextOK(m, g, c) /\ PrevOK(m, g, c)
        BY <3>3 DEF Linked
      <4> QED BY <1>1, <1>5, <2>1, <3>1, <4>1 DEF NextOK, PrevOK
    <3>4. \A c \in rest : ~ Leaf(m, c) => Nx(m, c) = Null /\ Pv(m, c) = Null
      BY DEF Linked
    <3> QED BY <1>1, <1>4, <1>5, <2>1, <3>1, <3>2, <3>3, <3>4 DEF Linked
  <2>2. CASE Leaf(m, a)
    <3> DEFINE n == Nx(m, a)
    <3>1. /\ Nx(m2, a) = b /\ Pv(m2, b) = a /\ Nx(m2, b) = n
          /\ \A x \in rest : Pv(m2, x) = IF x = n THEN b ELSE Pv(m, x)
      BY <2>2 DEF Divided
    <3>2. NextOK(m, g, a) /\ PrevOK(m, g, a)
      BY <1>1, <2>2 DEF Linked
    <3>3. n # a /\ (n # Null => n \in rest)
      BY <1>1, <1>2, <3>2 DEF NextOK, NonEmpty
    <3>4. NextOK(m2, g2, a) /\ PrevOK(m2, g2, b)
      BY <1>1, <1>3, <1>4, <2>2, <3>1 DEF NextOK, PrevOK
    <3>5. NextOK(m2, g2, b)
      BY <1>1, <1>3, <1>4, <1>5, <2>2, <3>1, <3>2, <3>3 DEF NextOK
    <3>6. PrevOK(m2, g2, a)
      <4>1. Pv(m, a) # a
        BY <1>1, <1>2, <3>2 DEF PrevOK, NonEmpty
      <4> QED BY <1>1, <1>3, <1>4, <1>5, <2>2, <3>1, <3>2, <4>1 DEF PrevOK
    <3>7. ASSUME NEW c \in rest, Leaf(m, c) PROVE NextOK(m2, g2, c) /\ PrevOK(m2, g2, c)
      <4>1. NextOK(m, g, c) /\ PrevOK(m, g, c)
        BY <3>7 DEF Linked
      <4>2. Nx(m, c) # n \/ n = Null
        BY <1>1, <3>2, <4>1 DEF NextOK
      <4>3. NextOK(m2, g2, c)
        BY <1>1, <1>4, <1>5, <2>2, <3>1, <4>1, <4>2 DEF NextOK
      <4>4. CASE c = n
        <5>1. Pv(m2, c) = b /\ b # Null /\ Lo(g2, c) = Hi(g, a)
          BY <1>1, <1>3, <1>5, <3>1, <3>2, <4>4, <3>7, <1>2 DEF NextOK
        <5> QED BY <1>1, <1>4, <2>2, <3>1, <4>3, <4>4, <5>1 DEF PrevOK
      <4>5. CASE c # n
        <5>1. Pv(m, c) # a
          BY <1>1, <1>2, <4>1, <4>5 DEF PrevOK
        <5>2. Pv(m2, c) = Pv(m, c) /\ Lo(g2, c) = Lo(g, c)
          BY <1>5, <3>1, <4>5
        <5>3. Pv(m, c) # Null => Pv(m, c) \in rest
          BY <4>1, <5>1 DEF PrevOK
        <5> QED BY <1>1, <1>5, <4>1, <4>3, <5>2, <5>3 DEF PrevOK
      <4> QED BY <4>3, <4>4, <4>5
    <3>8. \A c \in rest : ~ Leaf(m, c) => Nx(m, c) = Null /\ Pv(m, c) = Null
      BY DEF Linked
    <3>9. n # Null => Leaf(m, n)
      BY <3>2 DEF NextOK
    <3>10. \A c \in rest : ~ Leaf(m, c) => Nx(m2, c) = Null /\ Pv(m2, c) = Null
      BY <1>2, <1>5, <3>1, <3>8, <3>9
    <3>11. \A c \in rest : Leaf(m, c) => NextOK(m2, g2, c) /\ PrevOK(m2, g2, c)
      BY <3>7
    <3> QED BY <1>1, <1>4, <1>5, <2>2, <3>4, <3>5, <3>6, <3>10, <3>11 DEF Linked
  <2> QED BY <2>1, <2>2
<1> QED BY <1>7, <1>8

\* Of two neighbours with leaves, the left one leads to the right one.
LEMMA NextIsNeighbour ==
  ASSUME NEW m, NEW g, Typed(m, g), NonEmpty(m, g), LeavesLow(m, g), Apart(m, g), Linked(m, g),
         NEW a \in DOMAIN m, NEW b \in DOMAIN m, Leaf(m, a), Leaf(m, b), Hi(g, a) = Lo(g, b)
  PROVE  Nx(m, a) = b /\ Pv(m, b) = a
<1>1. \A c \in DOMAIN m : Lo(g, c) \in Int /\ Hi(g, c) \in Int /\ c # Null
  BY NodeTypes
<1>2. \A c \in DOMAIN m : IntMin <= Lo(g, c) /\ Lo(g, c) < Hi(g, c) /\ Hi(g, c) <= High
  BY DEF NonEmpty
<1>3. IntMin \in Int /\ High \in Int
  BY KeysAreInts
<1>4. NextOK(m, g, a)
  BY DEF Linked
<1>5. Nx(m, a) # Null
  BY <1>1, <1>2, <1>3, <1>4 DEF NextOK
<1>6. /\ Nx(m, a) \in DOMAIN m /\ Leaf(m, Nx(m, a)) /\ Lo(g, Nx(m, a)) = Lo(g, b)
      /\ Pv(m, Nx(m, a)) = a
  BY <1>4, <1>5 DEF NextOK
<1>7. Ht(g, b) = 0 /\ Ht(g, Nx(m, a)) = 0
  BY <1>6 DEF LeavesLow
<1>8. Nx(m, a) # b => Hi(g, b) <= Lo(g, b) \/ Hi(g, Nx(m, a)) <= Lo(g, Nx(m, a))
  BY <1>6, <1>7 DEF Apart
<1>9. Nx(m, a) = b
  BY <1>1, <1>2, <1>6, <1>8
<1> QED BY <1>6, <1>9

\* Uniting neighbours keeps the ranges apart and the leaves linked.
LEMMA UnitedHeap ==
  ASSUME NEW m, NEW g, NEW m2, NEW g2, NEW a, NEW b, NEW p,
         Typed(m, g), Typed(m2, g2), NonEmpty(m, g), NonEmpty(m2, g2), LeavesLow(m, g),
         Apart(m, g), Linked(m, g), United(m, g, m2, g2, a, b, p)
  PROVE  Apart(m2, g2) /\ Linked(m2, g2)
<1> DEFINE D == DOMAIN m
           rest == D \ {a, b}
<1>1. /\ a \in D /\ b \in D /\ DOMAIN m2 = rest \cup {a} /\ a # b
  BY DEF United, Regrouped
<1>2. \A c \in D : Lo(g, c) \in Int /\ Hi(g, c) \in Int /\ c # Null
  BY NodeTypes
<1>3. \A c \in D : Lo(g, c) < Hi(g, c)
  BY DEF NonEmpty
<1>4. /\ Lo(g2, a) = Lo(g, a) /\ Hi(g2, a) = Hi(g, b) /\ Hi(g, a) = Lo(g, b)
      /\ Leaf(m2, a) = Leaf(m, a) /\ Leaf(m, b) = Leaf(m, a)
      /\ Ht(g2, a) = Ht(g, a) /\ Ht(g, b) = Ht(g, a)
      /\ Pv(m2, a) = Pv(m, a)
  BY DEF United, Regrouped
<1>5. \A c \in rest : /\ Lo(g2, c) = Lo(g, c) /\ Hi(g2, c) = Hi(g, c)
                      /\ Ht(g2, c) = Ht(g, c) /\ Leaf(m2, c) = Leaf(m, c)
                      /\ Nx(m2, c) = Nx(m, c)
  BY DEF United, Regrouped
<1>6. Apart(m2, g2)
  <2>1. ASSUME NEW x \in rest, Ht(g, x) = Ht(g, a)
        PROVE  Hi(g, x) <= Lo(g, a) \/ Hi(g, b) <= Lo(g, x)
    <3>1. Hi(g, x) <= Lo(g, a) \/ Hi(g, a) <= Lo(g, x)
      BY <1>1, <2>1 DEF Apart
    <3>2. Hi(g, x) <= Lo(g, b) \/ Hi(g, b) <= Lo(g, x)
      BY <1>1, <1>4, <2>1 DEF Apart
    <3>3. Lo(g, x) < Hi(g, x) /\ Lo(g, x) \in Int /\ Hi(g, x) \in Int
      BY <1>2, <1>3
    <3> QED BY <1>1, <1>2, <1>4, <3>1, <3>2, <3>3
  <2>2. RegroupedRange(m, g, g2, {a, b}, {a}, Ht(g, a), Lo(g, a), Hi(g, b))
    BY <1>1, <1>2, <1>4, <2>1 DEF RegroupedRange
  <2>3. Regrouped(m, g, m2, g2, {a, b}, {a}, p, Leaf(m, a), Ht(g, a))
    BY DEF United
  <2> QED BY <1>1, <1>2, <2>2, <2>3, RegroupedApart
<1>7. Linked(m2, g2)
  <2>1. CASE ~ Leaf(m, a)
    <3>1. /\ Nx(m2, a) = Nx(m, a)
          /\ \A x \in rest : Pv(m2, x) = Pv(m, x)
      BY <2>1 DEF United
    <3>2. Nx(m, a) = Null /\ Pv(m, a) = Null
      BY <1>1, <2>1 DEF Linked
    <3>3. ASSUME NEW c \in rest, Leaf(m, c) PROVE NextOK(m2, g2, c) /\ PrevOK(m2, g2, c)
      <4>1. NextOK(m, g, c) /\ PrevOK(m, g, c)
        BY <3>3 DEF Linked
      <4>2. Nx(m, c) \in rest \cup {Null} /\ Pv(m, c) \in rest \cup {Null}
        BY <1>1, <1>4, <2>1, <4>1 DEF NextOK, PrevOK
      <4> QED BY <1>1, <1>5, <3>1, <4>1, <4>2 DEF NextOK, PrevOK
    <3>4. \A c \in rest : ~ Leaf(m, c) => Nx(m, c) = Null /\ Pv(m, c) = Null
      BY DEF Linked
    <3> QED BY <1>1, <1>4, <1>5, <2>1, <3>1, <3>2, <3>3, <3>4 DEF Linked
  <2>2. CASE Leaf(m, a)
    <3> DEFINE n == Nx(m, b)
    <3>1. /\ Nx(m2, a) = n
          /\ \A x \in rest : Pv(m2, x) = IF x = n THEN a ELSE Pv(m, x)
      BY <2>2 DEF United
    <3>2. /\ NextOK(m, g, a) /\ PrevOK(m, g, a) /\ NextOK(m, g, b) /\ PrevOK(m, g, b)
      BY <1>1, <1>4, <2>2 DEF Linked
    <3>3. Nx(m, a) = b /\ Pv(m, b) = a
      <4>1. Leaf(m, b)
        BY <1>4, <2>2
      <4>2. a \in DOMAIN m /\ b \in DOMAIN m /\ Hi(g, a) = Lo(g, b)
        BY <1>1, <1>4
      <4> QED BY <2>2, <4>1, <4>2, NextIsNeighbour
    <3>4. n # a /\ n # b /\ (n # Null => n \in rest)
      BY <1>1, <1>2, <1>3, <1>4, <3>2 DEF NextOK
    <3>5. NextOK(m2, g2, a)
      BY <1>1, <1>2, <1>4, <1>5, <2>2, <3>1, <3>2, <3>4 DEF NextOK
    <3>6. Pv(m, a) # a /\ Pv(m, a) # b
      BY <1>1, <1>2, <1>3, <1>4, <3>2, <3>4 DEF PrevOK
    <3>7. PrevOK(m2, g2, a)
      BY <1>1, <1>2, <1>4, <1>5, <2>2, <3>1, <3>2, <3>6 DEF PrevOK
    <3>8. ASSUME NEW c \in rest, Leaf(m, c) PROVE NextOK(m2, g2, c) /\ PrevOK(m2, g2, c)
      <4>1. NextOK(m, g, c) /\ PrevOK(m, g, c)
        BY <3>8 DEF Linked
      <4>2. Nx(m, c) # b /\ (Nx(m, c) # n \/ n = Null)
        BY <1>1, <1>2, <3>2, <3>3, <4>1 DEF NextOK
      <4>3. NextOK(m2, g2, c)
        <5>1. CASE Nx(m, c) = Null
          BY <1>5, <4>1, <5>1 DEF NextOK
        <5>2. CASE Nx(m, c) = a
          BY <1>1, <1>2, <1>4, <1>5, <2>2, <4>1, <5>2 DEF NextOK
        <5>3. CASE Nx(m, c) # Null /\ Nx(m, c) # a
          <6>1. Nx(m, c) \in rest
            BY <4>1, <4>2, <5>3 DEF NextOK
          <6> QED BY <1>1, <1>5, <3>1, <4>1, <4>2, <5>3, <6>1 DEF NextOK
        <5> QED BY <5>1, <5>2, <5>3
      <4>4. CASE c = n
        <5>1. Pv(m2, c) = a /\ a # Null /\ Lo(g2, c) = Hi(g, b)
          BY <1>1, <1>2, <1>5, <3>1, <3>2, <4>4 DEF NextOK
        <5> QED BY <1>1, <1>4, <2>2, <3>1, <4>3, <4>4, <5>1 DEF PrevOK
      <4>5. CASE c # n
        <5>1. Pv(m, c) # a /\ Pv(m, c) # b
          BY <1>1, <1>2, <3>3, <4>1, <4>5 DEF PrevOK
        <5>2. Pv(m2, c) = Pv(m, c) /\ Lo(g2, c) = Lo(g, c)
          BY <1>5, <3>1, <4>5
        <5>3. Pv(m, c) # Null => Pv(m, c) \in rest
          BY <4>1, <5>1 DEF PrevOK
        <5> QED BY <1>1, <1>5, <4>1, <4>3, <5>2, <5>3 DEF PrevOK
      <4> QED BY <4>3, <4>4, <4>5
    <3>9. \A c \in rest : ~ Leaf(m, c) => Nx(m2, c) = Null /\ Pv(m2, c) = Null
      <4>1. \A c \in rest : ~ Leaf(m, c) => Nx(m, c) = Null /\ Pv(m, c) = Null
        BY DEF Linked
      <4>2. n # Null => Leaf(m, n)
        BY <3>2 DEF NextOK
      <4> QED BY <1>2, <1>5, <3>1, <4>1, <4>2
    <3>10. \A c \in rest : Leaf(m, c) => NextOK(m2, g2, c) /\ PrevOK(m2, g2, c)
      BY <3>8
    <3> QED BY <1>1, <1>4, <1>5, <2>2, <3>5, <3>7, <3>9, <3>10 DEF Linked
  <2> QED BY <2>1, <2>2
<1> QED BY <1>6, <1>7

\* Moving the border of neighbours keeps the ranges apart and the leaves linked.
LEMMA ShiftedHeap ==
  ASSUME NEW m, NEW g, NEW m2, NEW g2, NEW a, NEW b, NEW p,
         Typed(m, g), Typed(m2, g2), NonEmpty(m, g), NonEmpty(m2, g2), LeavesLow(m, g),
         Apart(m, g), Linked(m, g), Shifted(m, g, m2, g2, a, b, p)
  PROVE  Apart(m2, g2) /\ Linked(m2, g2)
<1> DEFINE D == DOMAIN m
           rest == D \ {a, b}
<1>1. /\ a \in D /\ b \in D /\ DOMAIN m2 = D /\ a # b
  BY DEF Shifted, Regrouped
<1>2. \A c \in D : /\ Lo(g, c) \in Int /\ Hi(g, c) \in Int /\ c # Null
                   /\ Lo(g2, c) \in Int /\ Hi(g2, c) \in Int
  BY <1>1, NodeTypes
<1>3. \A c \in D : Lo(g, c) < Hi(g, c) /\ Lo(g2, c) < Hi(g2, c)
  BY <1>1 DEF NonEmpty
<1>4. /\ Lo(g2, a) = Lo(g, a) /\ Hi(g2, b) = Hi(g, b)
      /\ Hi(g, a) = Lo(g, b) /\ Hi(g2, a) = Lo(g2, b)
      /\ Leaf(m, b) = Leaf(m, a) /\ Ht(g, b) = Ht(g, a)
      /\ \A c \in D : Leaf(m2, c) = Leaf(m, c) /\ Ht(g2, c) = Ht(g, c)
  BY DEF Shifted, Regrouped
<1>5. \A c \in rest : Lo(g2, c) = Lo(g, c) /\ Hi(g2, c) = Hi(g, c)
  BY DEF Shifted, Regrouped
<1>6. \A c \in D : Nx(m2, c) = Nx(m, c) /\ Pv(m2, c) = Pv(m, c)
  BY DEF Shifted
<1>7. Apart(m2, g2)
  <2>1. ASSUME NEW x \in rest, Ht(g, x) = Ht(g, a)
        PROVE  Hi(g, x) <= Lo(g, a) \/ Hi(g, b) <= Lo(g, x)
    <3>1. Hi(g, x) <= Lo(g, a) \/ Hi(g, a) <= Lo(g, x)
      BY <1>1, <2>1 DEF Apart
    <3>2. Hi(g, x) <= Lo(g, b) \/ Hi(g, b) <= Lo(g, x)
      BY <1>1, <1>4, <2>1 DEF Apart
    <3>3. Lo(g, x) < Hi(g, x) /\ Lo(g, x) \in Int /\ Hi(g, x) \in Int
      BY <1>2, <1>3
    <3> QED BY <1>1, <1>2, <1>4, <3>1, <3>2, <3>3
  <2>2. RegroupedRange(m, g, g2, {a, b}, {a, b}, Ht(g, a), Lo(g, a), Hi(g, b))
    <3>1. /\ Lo(g, a) <= Lo(g2, a) /\ Hi(g2, b) <= Hi(g, b)
          /\ Lo(g, a) <= Lo(g2, b) /\ Hi(g2, a) <= Hi(g, b)
      BY <1>1, <1>2, <1>3, <1>4
    <3> QED BY <1>1, <1>2, <1>4, <2>1, <3>1 DEF RegroupedRange
  <2>3. Regrouped(m, g, m2, g2, {a, b}, {a, b}, p, Leaf(m, a), Ht(g, a))
    BY DEF Shifted
  <2> QED BY <1>1, <1>2, <2>2, <2>3, RegroupedApart
<1>8. Linked(m2, g2)
  <2>1. ASSUME Leaf(m, a) PROVE Nx(m, a) = b /\ Pv(m, b) = a
    <3>1. Leaf(m, b)
      BY <1>4, <2>1
    <3>2. a \in DOMAIN m /\ b \in DOMAIN m /\ Hi(g, a) = Lo(g, b)
      BY <1>1, <1>4
    <3> QED BY <2>1, <3>1, <3>2, NextIsNeighbour
  <2>2. ASSUME NEW c \in D, Leaf(m, c) PROVE NextOK(m2, g2, c) /\ PrevOK(m2, g2, c)
    <3>1. NextOK(m, g, c) /\ PrevOK(m, g, c)
      BY <2>2 DEF Linked
    <3>2. NextOK(m2, g2, c)
      <4>1. CASE c = a
        BY <1>1, <1>2, <1>4, <1>6, <2>1, <2>2, <4>1 DEF NextOK
      <4>2. CASE c # a
        <5>1. Nx(m, c) # b
          BY <1>1, <1>4, <2>1, <3>1, <1>2, <4>2 DEF NextOK
        <5>2. Hi(g2, c) = Hi(g, c)
          BY <1>4, <1>5, <4>2
        <5>3. Nx(m, c) # Null => Lo(g2, Nx(m, c)) = Lo(g, Nx(m, c))
          BY <1>4, <1>5, <3>1, <5>1 DEF NextOK
        <5> QED BY <1>1, <1>4, <1>6, <3>1, <5>2, <5>3 DEF NextOK
      <4> QED BY <4>1, <4>2
    <3>3. PrevOK(m2, g2, c)
      <4>1. CASE c = b
        BY <1>1, <1>2, <1>4, <1>6, <2>1, <2>2, <4>1 DEF PrevOK
      <4>2. CASE c # b
        <5>1. Pv(m, c) # a
          BY <1>1, <1>4, <2>1, <3>1, <1>2, <4>2 DEF PrevOK
        <5>2. Lo(g2, c) = Lo(g, c)
          BY <1>4, <1>5, <4>2
        <5>3. Pv(m, c) # Null => Hi(g2, Pv(m, c)) = Hi(g, Pv(m, c))
          BY <1>4, <1>5, <3>1, <5>1 DEF PrevOK
        <5> QED BY <1>1, <1>4, <1>6, <3>1, <5>2, <5>3 DEF PrevOK
      <4> QED BY <4>1, <4>2
    <3> QED BY <3>2, <3>3
  <2>3. \A c \in D : ~ Leaf(m, c) => Nx(m2, c) = Null /\ Pv(m2, c) = Null
    BY <1>6 DEF Linked
  <2>4. \A c \in D : Leaf(m, c) => NextOK(m2, g2, c) /\ PrevOK(m2, g2, c)
    BY <2>2
  <2> QED BY <1>1, <1>4, <2>3, <2>4 DEF Linked
<1> QED BY <1>7, <1>8

-----------------------------------------------------------------------------
(* Nodes *)

\* The bounds of an internal node's children ascend.
LEMMA BoundsAscend ==
  ASSUME NEW k \in Seq(Keys), NEW q, NEW lo \in Int, NEW hi \in Int, InnerFits(k, q, lo, hi)
  PROVE  /\ \A i \in 0..(Len(k) + 1) : Bound(k, lo, hi, i) \in Int
         /\ \A i, j \in 0..(Len(k) + 1) : i < j => Bound(k, lo, hi, i) < Bound(k, lo, hi, j)
<1>1. Len(k) \in Nat /\ Elems(k) \subseteq Keys /\ \A i \in 1..Len(k) : k[i] \in Elems(k)
  BY LenProperties, ElemsFacts
<1>2. \A i \in 1..Len(k) : k[i] \in Int
  BY <1>1, KeysAreInts
<1>3. /\ lo < hi /\ \A i, j \in 1..Len(k) : i < j => k[i] < k[j]
      /\ \A x \in Elems(k) : lo < x /\ x < hi
  BY DEF InnerFits, Ascending
<1>4. \A i \in 0..(Len(k) + 1) : Bound(k, lo, hi, i) \in Int
  BY <1>1, <1>2 DEF Bound
<1>5. ASSUME NEW i \in 0..(Len(k) + 1), NEW j \in 0..(Len(k) + 1), i < j
      PROVE  Bound(k, lo, hi, i) < Bound(k, lo, hi, j)
  <2>1. (i = 0 \/ i \in 1..Len(k)) /\ (j \in 1..Len(k) \/ j > Len(k)) /\ j # 0
    BY <1>1, <1>5
  <2> QED BY <1>1, <1>2, <1>3, <1>5, <2>1 DEF Bound
<1> QED BY <1>4, <1>5

\* The children of an internal node are those of two others.
JoinedSlots(k, q, lo, hi, u, p, sep, v, r) ==
  \A c, l, h : Slot(k, q, lo, hi, c, l, h) <=>
                Slot(u, p, lo, sep, c, l, h) \/ Slot(v, r, sep, hi, c, l, h)

\* An internal node's contents divided at the key sep
LEMMA InnerParts ==
  ASSUME NEW u \in Seq(Keys), NEW v \in Seq(Keys), NEW sep \in Keys,
         NEW p \in Seq(Nat), NEW r \in Seq(Nat), Len(p) = Len(u) + 1, Len(r) = Len(v) + 1,
         NEW lo \in Int, NEW hi \in Int, NEW k, NEW q,
         JoinedAround(k, u, sep, v), Joined(q, p, r)
  PROVE  /\ InnerFits(k, q, lo, hi) <=> InnerFits(u, p, lo, sep) /\ InnerFits(v, r, sep, hi)
         /\ JoinedSlots(k, q, lo, hi, u, p, sep, v, r)
<1>1. /\ Len(k) = Len(u) + 1 + Len(v) /\ Elems(k) = Elems(u) \cup {sep} \cup Elems(v)
      /\ Ascending(k) <=> /\ Ascending(u) /\ Ascending(v)
                          /\ \A x \in Elems(u) : x < sep
                          /\ \A x \in Elems(v) : sep < x
      /\ \A i \in 1..Len(u) : k[i] = u[i]
      /\ k[Len(u) + 1] = sep
      /\ \A i \in 1..Len(v) : k[Len(u) + 1 + i] = v[i]
  BY DEF JoinedAround
<1>2. Len(u) \in Nat /\ Len(v) \in Nat /\ Elems(u) \subseteq Keys /\ Elems(v) \subseteq Keys
  BY LenProperties, ElemsFacts
<1>3. /\ Len(q) = Len(p) + Len(r)
      /\ \A i \in 1..Len(p) : q[i] = p[i]
      /\ \A i \in 1..Len(r) : q[Len(p) + i] = r[i]
  BY DEF Joined
<1>4. IntMin \in Int /\ High \in Int /\ Keys \subseteq Int
  BY KeysAreInts
<1>5. InnerFits(k, q, lo, hi) <=> InnerFits(u, p, lo, sep) /\ InnerFits(v, r, sep, hi)
  <2>1. ASSUME InnerFits(k, q, lo, hi) PROVE InnerFits(u, p, lo, sep) /\ InnerFits(v, r, sep, hi)
    <3>1. /\ IntMin <= lo /\ lo < sep /\ sep < hi /\ hi <= High
          /\ \A x \in Elems(u) : lo < x /\ x < sep
          /\ \A x \in Elems(v) : sep < x /\ x < hi
          /\ Ascending(u) /\ Ascending(v)
      BY <1>1, <2>1 DEF InnerFits
    <3>2. sep <= High /\ IntMin <= sep
      BY <1>4, <3>1
    <3> QED BY <3>1, <3>2 DEF InnerFits
  <2>2. ASSUME InnerFits(u, p, lo, sep), InnerFits(v, r, sep, hi) PROVE InnerFits(k, q, lo, hi)
    <3>1. /\ IntMin <= lo /\ lo < sep /\ sep < hi /\ hi <= High
          /\ \A x \in Elems(u) : lo < x /\ x < sep
          /\ \A x \in Elems(v) : sep < x /\ x < hi
          /\ Ascending(u) /\ Ascending(v)
      BY <2>2 DEF InnerFits
    <3>2. Ascending(k)
      BY <1>1, <3>1
    <3>3. ASSUME NEW x \in Elems(k) PROVE lo < x /\ x < hi
      <4>1. x \in Int /\ sep \in Int
        BY <1>1, <1>2, <1>4
      <4>2. lo < sep /\ sep < hi /\ (x \in Elems(u) \/ x = sep \/ x \in Elems(v))
        BY <1>1, <3>1
      <4> QED BY <3>1, <4>1, <4>2
    <3>4. lo < hi
      BY <1>4, <3>1
    <3>5. Len(q) = Len(k) + 1
      BY <1>1, <1>2, <1>3
    <3> QED BY <3>1, <3>2, <3>3, <3>4, <3>5 DEF InnerFits
  <2> QED BY <2>1, <2>2
<1>6. \A i \in 0..(Len(u) + 1) : Bound(k, lo, hi, i) = Bound(u, lo, sep, i)
  BY <1>1, <1>2 DEF Bound
<1>7. \A i \in 0..(Len(v) + 1) : Bound(k, lo, hi, Len(u) + 1 + i) = Bound(v, sep, hi, i)
  <2> SUFFICES ASSUME NEW i \in 0..(Len(v) + 1)
               PROVE  Bound(k, lo, hi, Len(u) + 1 + i) = Bound(v, sep, hi, i)
    OBVIOUS
  <2> DEFINE j == Len(u) + 1 + i
  <2>1. j \in Nat /\ j # 0 /\ (j <= Len(k) <=> i <= Len(v)) /\ (i = 0 => j = Len(u) + 1)
        /\ (i # 0 => i \in 1..Len(v) \/ i > Len(v))
    BY <1>1, <1>2
  <2>2. i \in 1..Len(v) => k[j] = v[i]
    BY <1>1
  <2> HIDE DEF j
  <2>3. i = 0 => k[j] = sep
    BY <1>1, <2>1
  <2>4. Bound(k, lo, hi, j) = IF j <= Len(k) THEN k[j] ELSE hi
    BY <2>1 DEF Bound
  <2>5. Bound(v, sep, hi, i) = IF i = 0 THEN sep ELSE IF i <= Len(v) THEN v[i] ELSE hi
    BY DEF Bound
  <2>6. Bound(k, lo, hi, j) = Bound(v, sep, hi, i)
    BY <1>2, <2>1, <2>2, <2>3, <2>4, <2>5
  <2> QED BY <2>6 DEF j
<1>8. ASSUME NEW c, NEW l, NEW h
      PROVE  Slot(k, q, lo, hi, c, l, h) <=>
               Slot(u, p, lo, sep, c, l, h) \/ Slot(v, r, sep, hi, c, l, h)
  <2>1. ASSUME Slot(u, p, lo, sep, c, l, h) PROVE Slot(k, q, lo, hi, c, l, h)
    <3>1. PICK i \in 1..Len(p) : /\ c = p[i] /\ l = Bound(u, lo, sep, i - 1)
                                 /\ h = Bound(u, lo, sep, i)
      BY <2>1 DEF Slot
    <3>2. i \in 1..Len(q) /\ i \in 0..(Len(u) + 1) /\ i - 1 \in 0..(Len(u) + 1)
      BY <1>2, <1>3
    <3>3. c = q[i] /\ l = Bound(k, lo, hi, i - 1) /\ h = Bound(k, lo, hi, i)
      BY <1>3, <1>6, <3>1, <3>2
    <3> QED BY <3>2, <3>3 DEF Slot
  <2>2. ASSUME Slot(v, r, sep, hi, c, l, h) PROVE Slot(k, q, lo, hi, c, l, h)
    <3>1. PICK i \in 1..Len(r) : /\ c = r[i] /\ l = Bound(v, sep, hi, i - 1)
                                 /\ h = Bound(v, sep, hi, i)
      BY <2>2 DEF Slot
    <3> DEFINE j == Len(p) + i
    <3>2. /\ j \in 1..Len(q) /\ i \in 0..(Len(v) + 1) /\ i - 1 \in 0..(Len(v) + 1)
          /\ Len(u) + 1 + i = j /\ Len(u) + 1 + (i - 1) = j - 1
      BY <1>2, <1>3
    <3>3. c = q[j]
      BY <1>3, <3>1
    <3>4. Bound(k, lo, hi, j) = Bound(v, sep, hi, i)
      BY <1>7, <3>2
    <3>5. Bound(k, lo, hi, j - 1) = Bound(v, sep, hi, i - 1)
      BY <1>7, <3>2
    <3> HIDE DEF j
    <3> QED BY <3>1, <3>2, <3>3, <3>4, <3>5 DEF Slot
  <2>3. ASSUME Slot(k, q, lo, hi, c, l, h)
        PROVE  Slot(u, p, lo, sep, c, l, h) \/ Slot(v, r, sep, hi, c, l, h)
    <3>1. PICK j \in 1..Len(q) : /\ c = q[j] /\ l = Bound(k, lo, hi, j - 1)
                                 /\ h = Bound(k, lo, hi, j)
      BY <2>3 DEF Slot
    <3>2. CASE j <= Len(p)
      <4>1. j \in 1..Len(p) /\ j \in 0..(Len(u) + 1) /\ j - 1 \in 0..(Len(u) + 1)
        BY <1>2, <1>3, <3>2
      <4>2. c = p[j] /\ l = Bound(u, lo, sep, j - 1) /\ h = Bound(u, lo, sep, j)
        BY <1>3, <1>6, <3>1, <4>1
      <4> QED BY <4>1, <4>2 DEF Slot
    <3>3. CASE j > Len(p)
      <4> DEFINE i == j - Len(p)
      <4>1. /\ i \in 1..Len(r) /\ i \in 0..(Len(v) + 1) /\ i - 1 \in 0..(Len(v) + 1)
            /\ Len(p) + i = j /\ Len(u) + 1 + i = j /\ Len(u) + 1 + (i - 1) = j - 1
        <5>1. Len(p) \in Nat /\ Len(r) \in Nat /\ j \in Nat /\ j <= Len(p) + Len(r)
          BY <1>2, <1>3
        <5> QED BY <1>2, <3>3, <5>1
      <4> HIDE DEF i
      <4>2. c = r[i]
        BY <1>3, <3>1, <4>1
      <4>3. Bound(k, lo, hi, j) = Bound(v, sep, hi, i)
        BY <1>7, <4>1
      <4>4. Bound(k, lo, hi, j - 1) = Bound(v, sep, hi, i - 1)
        BY <1>7, <4>1
      <4> QED BY <3>1, <4>1, <4>2, <4>3, <4>4 DEF Slot
    <3> QED BY <1>2, <1>3, <3>2, <3>3
  <2> QED BY <2>1, <2>2, <2>3
<1> QED BY <1>5, <1>8 DEF JoinedSlots

\* The converse: the bounds say that the contents fit.
LEMMA BoundsFit ==
  ASSUME NEW k \in Seq(Keys), NEW q, NEW lo \in Int, NEW hi \in Int,
         IntMin <= lo, hi <= High, Len(q) = Len(k) + 1,
         \A i, j \in 0..(Len(k) + 1) : i < j => Bound(k, lo, hi, i) < Bound(k, lo, hi, j)
  PROVE  InnerFits(k, q, lo, hi)
<1>1. Len(k) \in Nat /\ \A x \in Elems(k) : \E i \in 1..Len(k) : k[i] = x
  BY LenProperties, ElemsFacts
<1>2. /\ Bound(k, lo, hi, 0) = lo /\ Bound(k, lo, hi, Len(k) + 1) = hi
      /\ \A i \in 1..Len(k) : Bound(k, lo, hi, i) = k[i]
  BY <1>1 DEF Bound
<1>3. \A i \in 1..Len(k) : lo < k[i] /\ k[i] < hi
  <2> SUFFICES ASSUME NEW i \in 1..Len(k) PROVE lo < k[i] /\ k[i] < hi
    OBVIOUS
  <2> DEFINE j == Len(k) + 1
  <2>1. i \in 0..j /\ 0 \in 0..j /\ j \in 0..j /\ 0 < i /\ i < j
    BY <1>1
  <2> QED BY <1>2, <2>1
<1>4. Ascending(k)
  <2> SUFFICES ASSUME NEW i \in 1..Len(k), NEW j \in 1..Len(k), i < j PROVE k[i] < k[j]
    BY DEF Ascending
  <2>1. i \in 0..(Len(k) + 1) /\ j \in 0..(Len(k) + 1)
    BY <1>1
  <2> QED BY <1>2, <2>1
<1>5. lo < hi
  <2> DEFINE j == Len(k) + 1
  <2>1. 0 \in 0..j /\ j \in 0..j /\ 0 < j
    BY <1>1
  <2> QED BY <1>2, <2>1
<1>6. \A x \in Elems(k) : lo < x /\ x < hi
  BY <1>1, <1>3
<1> QED BY <1>4, <1>5, <1>6 DEF InnerFits

Distinct(q) == \A i, j \in 1..Len(q) : q[i] = q[j] => i = j

\* s is r with e put at the position i, without its i-th element, or with e as
\* its i-th element.
PutAt(s, r, i, e) ==
  /\ Len(s) = Len(r) + 1
  /\ \A j \in 1..(Len(r) + 1) : s[j] = IF j < i THEN r[j] ELSE IF j = i THEN e ELSE r[j - 1]
TakenAt(s, r, i) ==
  /\ Len(s) = Len(r) - 1
  /\ \A j \in 1..(Len(r) - 1) : s[j] = IF j < i THEN r[j] ELSE r[j + 1]

SetAt(s, r, i, e) == Len(s) = Len(r) /\ \A j \in 1..Len(r) : s[j] = IF j = i THEN e ELSE r[j]

\* In the parent of a divided node, the new child b follows the child that keeps
\* the keys below sep.
LEMMA Widened ==
  ASSUME NEW k \in Seq(Keys), NEW q \in Seq(Nat), NEW lo \in Int, NEW hi \in Int,
         InnerFits(k, q, lo, hi), Distinct(q),
         NEW i \in 1..Len(q), NEW sep \in Keys, NEW b,
         Bound(k, lo, hi, i - 1) < sep, sep < Bound(k, lo, hi, i),
         NEW k2 \in Seq(Keys), NEW q2, PutAt(k2, k, i, sep), PutAt(q2, q, i + 1, b)
  PROVE  /\ InnerFits(k2, q2, lo, hi)
         /\ \A c, l, h : Slot(k2, q2, lo, hi, c, l, h) <=>
              \/ c # q[i] /\ Slot(k, q, lo, hi, c, l, h)
              \/ c = q[i] /\ l = Bound(k, lo, hi, i - 1) /\ h = sep
              \/ c = b /\ l = sep /\ h = Bound(k, lo, hi, i)
<1> DEFINE n == Len(k)
           B(j) == Bound(k, lo, hi, j)
           B2(j) == Bound(k2, lo, hi, j)
<1>1. /\ n \in Nat /\ Len(q) = n + 1 /\ Len(k2) = n + 1 /\ Len(q2) = n + 2 /\ sep \in Int
      /\ IntMin <= lo /\ hi <= High
  BY LenProperties, KeysAreInts DEF InnerFits, PutAt
<1>2. /\ \A j \in 0..(n + 1) : B(j) \in Int
      /\ \A j, x \in 0..(n + 1) : j < x => B(j) < B(x)
  BY BoundsAscend
<1>3. \A j \in 0..(n + 2) : B2(j) = IF j < i THEN B(j) ELSE IF j = i THEN sep ELSE B(j - 1)
  <2> SUFFICES ASSUME NEW j \in 0..(n + 2)
               PROVE  B2(j) = IF j < i THEN B(j) ELSE IF j = i THEN sep ELSE B(j - 1)
    OBVIOUS
  <2>1. j \in 1..(n + 1) => k2[j] = IF j < i THEN k[j] ELSE IF j = i THEN sep ELSE k[j - 1]
    BY DEF PutAt
  <2>2. i \in 1..(n + 1) /\ (j = 0 \/ j \in 1..(n + 1) \/ j = n + 2)
    BY <1>1
  <2>3. B2(j) = IF j = 0 THEN lo ELSE IF j <= n + 1 THEN k2[j] ELSE hi
    BY <1>1 DEF Bound
  <2>4. B(j) = IF j = 0 THEN lo ELSE IF j <= n THEN k[j] ELSE hi
    BY DEF Bound
  <2>5. B(j - 1) = IF j - 1 = 0 THEN lo ELSE IF j - 1 <= n THEN k[j - 1] ELSE hi
    BY DEF Bound
  <2>6. n \in Nat
    BY <1>1
  <2> HIDE DEF B, B2, n
  <2>7. CASE j < i
    BY <2>1, <2>2, <2>3, <2>4, <2>6, <2>7
  <2>8. CASE j = i
    BY <2>1, <2>2, <2>3, <2>6, <2>8
  <2>9. CASE j > i
    BY <2>1, <2>2, <2>3, <2>5, <2>6, <2>9
  <2> QED BY <2>2, <2>6, <2>7, <2>8, <2>9
<1>4. InnerFits(k2, q2, lo, hi)
  <2>1. ASSUME NEW x \in 0..(n + 2), NEW y \in 0..(n + 2), x < y PROVE B2(x) < B2(y)
    <3>1. /\ (x < i => x \in 0..(n + 1)) /\ (x > i => x - 1 \in 0..(n + 1))
          /\ (y < i => y \in 0..(n + 1)) /\ (y > i => y - 1 \in 0..(n + 1))
          /\ i \in 0..(n + 1) /\ i - 1 \in 0..(n + 1)
      BY <1>1, SMTT(30)
    <3>2. x < i => x = i - 1 \/ B(x) < B(i - 1)
      BY <1>1, <1>2, <3>1
    <3>3. y > i => y - 1 = i \/ B(i) < B(y - 1)
      BY <1>1, <1>2, <3>1
    <3>4. /\ (x < i => B(x) \in Int /\ B(x) < sep) /\ (y > i => B(y - 1) \in Int /\ sep < B(y - 1))
      <4> HIDE DEF B
      <4>1. B(i - 1) \in Int /\ B(i) \in Int /\ B(i - 1) < sep /\ sep < B(i)
        BY <1>2, <3>1 DEF B
      <4>0. sep \in Int
        BY <1>1
      <4>2. ASSUME x < i PROVE B(x) \in Int /\ B(x) < sep
        <5>1. B(x) \in Int
          BY <1>2, <3>1, <4>2
        <5>2. B(x) = B(i - 1) \/ B(x) < B(i - 1)
          BY <3>2, <4>2
        <5> QED BY <4>0, <4>1, <5>1, <5>2, SMTT(30)
      <4>3. ASSUME y > i PROVE B(y - 1) \in Int /\ sep < B(y - 1)
        <5>1. B(y - 1) \in Int
          BY <1>2, <3>1, <4>3
        <5>2. B(y - 1) = B(i) \/ B(i) < B(y - 1)
          BY <3>3, <4>3
        <5> QED BY <4>0, <4>1, <5>1, <5>2, SMTT(30)
      <4> QED BY <4>2, <4>3
    <3> HIDE DEF B, B2
    <3>5. CASE x < i /\ y > i
      BY <1>1, <1>3, <2>1, <3>4, <3>5
    <3>6. CASE x < i /\ y <= i
      BY <1>1, <1>2, <1>3, <2>1, <3>1, <3>4, <3>6, SMTT(30)
    <3>7. CASE x = i
      BY <1>1, <1>3, <2>1, <3>4, <3>7
    <3>8. CASE x > i
      <4>1. y > i /\ x - 1 < y - 1
        BY <1>1, <2>1, <3>8
      <4>2. B2(x) = B(x - 1) /\ B2(y) = B(y - 1)
        BY <1>1, <1>3, <3>8, <4>1
      <4> QED BY <1>2, <3>1, <3>8, <4>1, <4>2
    <3> QED BY <1>1, <3>5, <3>6, <3>7, <3>8
  <2>2. Len(q2) = Len(k2) + 1 /\ n + 2 = Len(k2) + 1
    BY <1>1
  <2> QED BY <1>1, <2>1, <2>2, BoundsFit
<1>5. \A j \in 1..(n + 2) : q2[j] = IF j <= i THEN q[j] ELSE IF j = i + 1 THEN b ELSE q[j - 1]
  BY <1>1 DEF PutAt
<1> HIDE DEF B, B2
<1>6. ASSUME NEW c, NEW l, NEW h
      PROVE  Slot(k2, q2, lo, hi, c, l, h) <=>
              \/ c # q[i] /\ Slot(k, q, lo, hi, c, l, h)
              \/ c = q[i] /\ l = B(i - 1) /\ h = sep
              \/ c = b /\ l = sep /\ h = B(i)
  <2>0. /\ Slot(k, q, lo, hi, c, l, h) <=>
            \E j \in 1..(n + 1) : c = q[j] /\ l = B(j - 1) /\ h = B(j)
        /\ Slot(k2, q2, lo, hi, c, l, h) <=>
            \E j \in 1..(n + 2) : c = q2[j] /\ l = B2(j - 1) /\ h = B2(j)
    BY <1>1 DEF Slot, B, B2
  <2>1. ASSUME Slot(k2, q2, lo, hi, c, l, h)
        PROVE  \/ c # q[i] /\ Slot(k, q, lo, hi, c, l, h)
               \/ c = q[i] /\ l = B(i - 1) /\ h = sep
               \/ c = b /\ l = sep /\ h = B(i)
    <3>1. PICK j \in 1..(n + 2) : c = q2[j] /\ l = B2(j - 1) /\ h = B2(j)
      BY <2>0, <2>1
    <3>2. CASE j < i
      <4>1. c = q[j] /\ l = B(j - 1) /\ h = B(j) /\ j \in 1..(n + 1)
        BY <1>1, <1>3, <1>5, <3>1, <3>2
      <4>2. c # q[i]
        BY <1>1, <3>2, <4>1 DEF Distinct
      <4> QED BY <2>0, <4>1, <4>2
    <3>3. CASE j = i
      BY <1>1, <1>3, <1>5, <3>1, <3>3
    <3>4. CASE j = i + 1
      BY <1>1, <1>3, <1>5, <3>1, <3>4
    <3>5. CASE j > i + 1
      <4> DEFINE x == j - 1
      <4>1. /\ x \in 1..(n + 1) /\ x # i /\ j - 1 = x /\ j \in 0..(n + 2) /\ x \in 0..(n + 2)
            /\ ~ (j < i) /\ j # i /\ j # i + 1 /\ ~ (x < i) /\ ~ (j <= i)
        BY <1>1, <3>5
      <4>2. c = q[x] /\ l = B(x - 1) /\ h = B(x)
        <5> HIDE DEF x
        <5> QED BY <1>3, <1>5, <3>1, <4>1
      <4> HIDE DEF x
      <4>3. c # q[i]
        BY <1>1, <4>1, <4>2 DEF Distinct
      <4> QED BY <2>0, <4>1, <4>2, <4>3
    <3> QED BY <1>1, <3>2, <3>3, <3>4, <3>5
  <2>2. ASSUME c # q[i], Slot(k, q, lo, hi, c, l, h) PROVE Slot(k2, q2, lo, hi, c, l, h)
    <3>1. PICK j \in 1..(n + 1) : c = q[j] /\ l = B(j - 1) /\ h = B(j)
      BY <2>0, <2>2
    <3>2. CASE j < i
      <4>1. /\ j \in 1..(n + 2) /\ j \in 0..(n + 2) /\ j - 1 \in 0..(n + 2) /\ j - 1 < i
            /\ j <= i
        BY <1>1, <3>2, SMTT(30)
      <4>2. c = q2[j] /\ l = B2(j - 1) /\ h = B2(j)
        BY <1>3, <1>5, <3>1, <3>2, <4>1
      <4> QED BY <2>0, <4>1, <4>2
    <3>3. CASE j > i
      <4> DEFINE x == j + 1
      <4>1. /\ x \in 1..(n + 2) /\ x \in 0..(n + 2) /\ j \in 0..(n + 2) /\ x - 1 = j
            /\ ~ (x < i) /\ x # i /\ x # i + 1 /\ ~ (x <= i) /\ ~ (j < i) /\ j # i
        BY <1>1, <3>3, SMTT(30)
      <4> HIDE DEF x
      <4>2. c = q2[x] /\ l = B2(x - 1) /\ h = B2(x)
        BY <1>3, <1>5, <3>1, <4>1
      <4> QED BY <2>0, <4>1, <4>2
    <3>4. j # i
      BY <2>2, <3>1
    <3> QED BY <1>1, <3>2, <3>3, <3>4
  <2>3. ASSUME c = q[i], l = B(i - 1), h = sep PROVE Slot(k2, q2, lo, hi, c, l, h)
    <3>1. i \in 1..(n + 2) /\ i \in 0..(n + 2) /\ i - 1 \in 0..(n + 2) /\ i - 1 < i /\ i <= i
      BY <1>1
    <3>2. c = q2[i] /\ l = B2(i - 1) /\ h = B2(i)
      BY <1>3, <1>5, <2>3, <3>1
    <3> QED BY <2>0, <3>1, <3>2
  <2>4. ASSUME c = b, l = sep, h = B(i) PROVE Slot(k2, q2, lo, hi, c, l, h)
    <3> DEFINE x == i + 1
    <3>1. /\ x \in 1..(n + 2) /\ x \in 0..(n + 2) /\ i \in 0..(n + 2) /\ x - 1 = i
          /\ ~ (x < i) /\ x # i /\ x = i + 1 /\ ~ (i < i) /\ ~ (x <= i)
      BY <1>1
    <3> HIDE DEF x
    <3>2. c = q2[x] /\ l = B2(x - 1) /\ h = B2(x)
      BY <1>3, <1>5, <2>4, <3>1
    <3> QED BY <2>0, <3>1, <3>2
  <2> QED BY <2>1, <2>2, <2>3, <2>4
<1> QED BY <1>4, <1>6 DEF B

\* In the parent of two united neighbours, the right one is no longer a child.
LEMMA Narrowed ==
  ASSUME NEW k \in Seq(Keys), NEW q \in Seq(Nat), NEW lo \in Int, NEW hi \in Int,
         InnerFits(k, q, lo, hi), Distinct(q), NEW i \in 1..Len(k),
         NEW k2 \in Seq(Keys), NEW q2, TakenAt(k2, k, i), TakenAt(q2, q, i + 1)
  PROVE  /\ InnerFits(k2, q2, lo, hi)
         /\ \A c, l, h : Slot(k2, q2, lo, hi, c, l, h) <=>
              \/ c # q[i] /\ c # q[i + 1] /\ Slot(k, q, lo, hi, c, l, h)
              \/ c = q[i] /\ l = Bound(k, lo, hi, i - 1) /\ h = Bound(k, lo, hi, i + 1)
<1> DEFINE n == Len(k)
           B(j) == Bound(k, lo, hi, j)
           B2(j) == Bound(k2, lo, hi, j)
<1>1. /\ n \in Nat /\ Len(q) = n + 1 /\ Len(k2) = n - 1 /\ Len(q2) = n
      /\ IntMin <= lo /\ hi <= High
  BY LenProperties DEF InnerFits, TakenAt
<1>2. /\ \A j \in 0..(n + 1) : B(j) \in Int
      /\ \A j, x \in 0..(n + 1) : j < x => B(j) < B(x)
  BY BoundsAscend
<1>3. \A j \in 0..n : B2(j) = IF j < i THEN B(j) ELSE B(j + 1)
  <2> SUFFICES ASSUME NEW j \in 0..n PROVE B2(j) = IF j < i THEN B(j) ELSE B(j + 1)
    OBVIOUS
  <2>1. j \in 1..(n - 1) => k2[j] = IF j < i THEN k[j] ELSE k[j + 1]
    BY DEF TakenAt
  <2>2. i \in 1..n /\ (j = 0 \/ j \in 1..(n - 1) \/ j = n)
    <3>1. n \in Nat /\ i \in 1..n
      BY <1>1
    <3> HIDE DEF n
    <3> QED BY <3>1
  <2>3. B2(j) = IF j = 0 THEN lo ELSE IF j <= n - 1 THEN k2[j] ELSE hi
    BY <1>1 DEF Bound
  <2>4. B(j) = IF j = 0 THEN lo ELSE IF j <= n THEN k[j] ELSE hi
    BY DEF Bound
  <2>5. B(j + 1) = IF j + 1 = 0 THEN lo ELSE IF j + 1 <= n THEN k[j + 1] ELSE hi
    BY DEF Bound
  <2>6. n \in Nat
    BY <1>1
  <2> HIDE DEF B, B2, n
  <2>7. CASE j < i
    BY <2>1, <2>2, <2>3, <2>4, <2>6, <2>7
  <2>8. CASE j >= i
    BY <2>1, <2>2, <2>3, <2>5, <2>6, <2>8
  <2> QED BY <2>2, <2>6, <2>7, <2>8
<1>4. InnerFits(k2, q2, lo, hi)
  <2>1. ASSUME NEW x \in 0..n, NEW y \in 0..n, x < y PROVE B2(x) < B2(y)
    <3>1. /\ x \in 0..(n + 1) /\ y \in 0..(n + 1) /\ x + 1 \in 0..(n + 1) /\ y + 1 \in 0..(n + 1)
          /\ x < y + 1 /\ x + 1 < y + 1
      BY <1>1, <2>1
    <3> HIDE DEF B, B2
    <3>2. B(x) < B(y) /\ B(x) < B(y + 1) /\ B(x + 1) < B(y + 1)
      BY <1>2, <2>1, <3>1 DEF B
    <3>3. /\ B2(x) = IF x < i THEN B(x) ELSE B(x + 1)
          /\ B2(y) = IF y < i THEN B(y) ELSE B(y + 1)
      BY <1>3
    <3>4. y < i => x < i
      BY <1>1, <2>1
    <3> QED BY <3>2, <3>3, <3>4
  <2>2. Len(q2) = Len(k2) + 1 /\ n = Len(k2) + 1
    BY <1>1
  <2> QED BY <1>1, <2>1, <2>2, BoundsFit
<1>5. \A j \in 1..n : q2[j] = IF j <= i THEN q[j] ELSE q[j + 1]
  <2> SUFFICES ASSUME NEW j \in 1..n PROVE q2[j] = IF j <= i THEN q[j] ELSE q[j + 1]
    OBVIOUS
  <2>1. j \in 1..(Len(q) - 1) /\ (j < i + 1 <=> j <= i)
    BY <1>1
  <2> QED BY <2>1 DEF TakenAt
<1> HIDE DEF B, B2
<1>6. ASSUME NEW c, NEW l, NEW h
      PROVE  Slot(k2, q2, lo, hi, c, l, h) <=>
              \/ c # q[i] /\ c # q[i + 1] /\ Slot(k, q, lo, hi, c, l, h)
              \/ c = q[i] /\ l = B(i - 1) /\ h = B(i + 1)
  <2>0. /\ Slot(k, q, lo, hi, c, l, h) <=>
            \E j \in 1..(n + 1) : c = q[j] /\ l = B(j - 1) /\ h = B(j)
        /\ Slot(k2, q2, lo, hi, c, l, h) <=>
            \E j \in 1..n : c = q2[j] /\ l = B2(j - 1) /\ h = B2(j)
    BY <1>1 DEF Slot, B, B2
  <2>1. ASSUME Slot(k2, q2, lo, hi, c, l, h)
        PROVE  \/ c # q[i] /\ c # q[i + 1] /\ Slot(k, q, lo, hi, c, l, h)
               \/ c = q[i] /\ l = B(i - 1) /\ h = B(i + 1)
    <3>1. PICK j \in 1..n : c = q2[j] /\ l = B2(j - 1) /\ h = B2(j)
      BY <2>0, <2>1
    <3>2. CASE j < i
      <4>1. /\ j - 1 \in 0..n /\ j \in 0..n /\ j - 1 < i /\ j <= i /\ j \in 1..(n + 1)
            /\ i + 1 \in 1..(n + 1) /\ i \in 1..(n + 1) /\ j # i + 1
        BY <1>1, <3>2, SMTT(30)
      <4>2. c = q[j] /\ l = B(j - 1) /\ h = B(j)
        BY <1>3, <1>5, <3>1, <3>2, <4>1
      <4>3. c # q[i] /\ c # q[i + 1]
        BY <1>1, <3>2, <4>1, <4>2 DEF Distinct
      <4> QED BY <2>0, <4>1, <4>2, <4>3
    <3>3. CASE j = i
      BY <1>1, <1>3, <1>5, <3>1, <3>3
    <3>4. CASE j > i
      <4> DEFINE x == j + 1
      <4>1. /\ x \in 1..(n + 1) /\ x # i /\ x # i + 1 /\ x - 1 = j /\ j \in 0..n /\ j - 1 \in 0..n
            /\ ~ (j < i) /\ ~ (j <= i) /\ ~ (j - 1 < i) /\ (j - 1) + 1 = j
            /\ i + 1 \in 1..(n + 1) /\ i \in 1..(n + 1)
        BY <1>1, <3>4, SMTT(30)
      <4>2. c = q[x] /\ l = B(j) /\ h = B(x)
        BY <1>3, <1>5, <3>1, <4>1
      <4> HIDE DEF x
      <4>3. c # q[i] /\ c # q[i + 1]
        BY <1>1, <4>1, <4>2 DEF Distinct
      <4> QED BY <2>0, <4>1, <4>2, <4>3
    <3> QED BY <1>1, <3>2, <3>3, <3>4
  <2>2. ASSUME c # q[i], c # q[i + 1], Slot(k, q, lo, hi, c, l, h)
        PROVE  Slot(k2, q2, lo, hi, c, l, h)
    <3>1. PICK j \in 1..(n + 1) : c = q[j] /\ l = B(j - 1) /\ h = B(j)
      BY <2>0, <2>2
    <3>2. CASE j < i
      <4>1. /\ j \in 1..n /\ j \in 0..n /\ j - 1 \in 0..n /\ j - 1 < i /\ j <= i
        BY <1>1, <3>2
      <4>2. c = q2[j] /\ l = B2(j - 1) /\ h = B2(j)
        BY <1>3, <1>5, <3>1, <3>2, <4>1
      <4> QED BY <2>0, <4>1, <4>2
    <3>3. CASE j > i + 1
      <4> DEFINE x == j - 1
                 y == j - 2
      <4>1. /\ x \in 1..n /\ x \in 0..n /\ y \in 0..n /\ x - 1 = y /\ x + 1 = j /\ y + 1 = x
            /\ j - 1 = x /\ ~ (x < i) /\ ~ (x <= i) /\ ~ (y < i)
        BY <1>1, <3>3
      <4> HIDE DEF x, y
      <4>2. c = q2[x] /\ l = B2(x - 1) /\ h = B2(x)
        BY <1>3, <1>5, <3>1, <4>1
      <4> QED BY <2>0, <4>1, <4>2
    <3>4. j # i /\ j # i + 1
      BY <2>2, <3>1
    <3> QED BY <1>1, <3>2, <3>3, <3>4
  <2>3. ASSUME c = q[i], l = B(i - 1), h = B(i + 1) PROVE Slot(k2, q2, lo, hi, c, l, h)
    <3>1. i \in 1..n /\ i \in 0..n /\ i - 1 \in 0..n /\ i - 1 < i /\ i <= i /\ ~ (i < i)
      BY <1>1
    <3>2. c = q2[i] /\ l = B2(i - 1) /\ h = B2(i)
      BY <1>3, <1>5, <2>3, <3>1
    <3> QED BY <2>0, <3>1, <3>2
  <2> QED BY <2>1, <2>2, <2>3
<1> QED BY <1>4, <1>6 DEF B

\* In the parent of two neighbours, the key between them is replaced.
LEMMA Rekeyed ==
  ASSUME NEW k \in Seq(Keys), NEW q \in Seq(Nat), NEW lo \in Int, NEW hi \in Int,
         InnerFits(k, q, lo, hi), Distinct(q), NEW i \in 1..Len(k), NEW sep \in Keys,
         Bound(k, lo, hi, i - 1) < sep, sep < Bound(k, lo, hi, i + 1),
         NEW k2 \in Seq(Keys), SetAt(k2, k, i, sep)
  PROVE  /\ InnerFits(k2, q, lo, hi)
         /\ \A c, l, h : Slot(k2, q, lo, hi, c, l, h) <=>
              \/ c # q[i] /\ c # q[i + 1] /\ Slot(k, q, lo, hi, c, l, h)
              \/ c = q[i] /\ l = Bound(k, lo, hi, i - 1) /\ h = sep
              \/ c = q[i + 1] /\ l = sep /\ h = Bound(k, lo, hi, i + 1)
<1> DEFINE n == Len(k)
           B(j) == Bound(k, lo, hi, j)
           B2(j) == Bound(k2, lo, hi, j)
<1>0. n \in Nat /\ Len(k2) = n /\ \A j \in 1..n : k2[j] = IF j = i THEN sep ELSE k[j]
  BY LenProperties DEF SetAt
<1>1. /\ n \in Nat /\ Len(q) = n + 1 /\ sep \in Int /\ IntMin <= lo /\ hi <= High
  BY <1>0, KeysAreInts DEF InnerFits
<1>2. /\ \A j \in 0..(n + 1) : B(j) \in Int
      /\ \A j, x \in 0..(n + 1) : j < x => B(j) < B(x)
  BY BoundsAscend
<1>3. \A j \in 0..(n + 1) : B2(j) = IF j = i THEN sep ELSE B(j)
  BY <1>0 DEF Bound
<1>4. InnerFits(k2, q, lo, hi)
  <2>1. ASSUME NEW x \in 0..(n + 1), NEW y \in 0..(n + 1), x < y PROVE B2(x) < B2(y)
    <3> HIDE DEF B, B2
    <3>1. i - 1 \in 0..(n + 1) /\ i + 1 \in 0..(n + 1) /\ i \in 0..(n + 1)
      BY <1>1, SMTT(30)
    <3>2. B(i - 1) \in Int /\ B(i + 1) \in Int /\ B(x) \in Int /\ B(y) \in Int
          /\ B(i - 1) < sep /\ sep < B(i + 1) /\ B(x) < B(y)
      BY <1>2, <2>1, <3>1 DEF B
    <3>3. CASE x = i
      <4>1. B2(x) = sep /\ B2(y) = B(y) /\ i + 1 <= y
        BY <1>3, <2>1, <3>3
      <4>2. CASE y = i + 1
        BY <3>2, <4>1, <4>2
      <4>3. CASE i + 1 < y
        <5>1. B(i + 1) < B(y)
          BY <1>2, <3>1, <4>3
        <5>2. sep < B(y)
          BY <1>1, <3>2, <5>1, SMTT(30)
        <5> QED BY <4>1, <5>2
      <4> QED BY <4>1, <4>2, <4>3
    <3>4. CASE y = i
      <4>1. B2(y) = sep /\ B2(x) = B(x) /\ x <= i - 1
        BY <1>3, <2>1, <3>4
      <4>2. CASE x = i - 1
        BY <3>2, <4>1, <4>2
      <4>3. CASE x < i - 1
        <5>1. B(x) < B(i - 1)
          BY <1>2, <3>1, <4>3
        <5>2. B(x) < sep
          BY <1>1, <3>2, <5>1, SMTT(30)
        <5> QED BY <4>1, <5>2
      <4> QED BY <4>1, <4>2, <4>3
    <3>5. CASE x # i /\ y # i
      BY <1>3, <3>2, <3>5
    <3> QED BY <3>3, <3>4, <3>5
  <2>2. Len(q) = Len(k2) + 1 /\ n + 1 = Len(k2) + 1
    BY <1>0, <1>1
  <2> QED BY <1>1, <2>1, <2>2, BoundsFit
<1>5. ASSUME NEW c, NEW l, NEW h
      PROVE  Slot(k2, q, lo, hi, c, l, h) <=>
              \/ c # q[i] /\ c # q[i + 1] /\ Slot(k, q, lo, hi, c, l, h)
              \/ c = q[i] /\ l = B(i - 1) /\ h = sep
              \/ c = q[i + 1] /\ l = sep /\ h = B(i + 1)
  <2>1. /\ Slot(k, q, lo, hi, c, l, h) <=>
            \E j \in 1..(n + 1) : c = q[j] /\ l = B(j - 1) /\ h = B(j)
        /\ Slot(k2, q, lo, hi, c, l, h) <=>
            \E j \in 1..(n + 1) : c = q[j] /\ l = B2(j - 1) /\ h = B2(j)
    BY <1>1 DEF Slot
  <2> HIDE DEF B, B2
  <2>2. i \in 1..(n + 1) /\ i + 1 \in 1..(n + 1) /\ i # i + 1
    BY <1>1
  <2>3. /\ B2(i - 1) = B(i - 1) /\ B2(i) = sep /\ B2((i + 1) - 1) = sep /\ B2(i + 1) = B(i + 1)
    BY <1>1, <1>3
  <2>4. \A j \in 1..(n + 1) : j # i /\ j # i + 1 => B2(j - 1) = B(j - 1) /\ B2(j) = B(j)
    BY <1>1, <1>3
  <2>5. \A j \in 1..(n + 1) : (q[j] = q[i] => j = i) /\ (q[j] = q[i + 1] => j = i + 1)
    BY <1>1, <2>2 DEF Distinct
  <2> QED BY <2>1, <2>2, <2>3, <2>4, <2>5
<1> QED BY <1>4, <1>5

\* In a leaf d is stored under the key x.
Entry(k, q, x, d) == \E i \in 1..Len(k) : k[i] = x /\ q[i] = d

\* A sequence of known elements
LEMMA SeqOf ==
  ASSUME NEW S, NEW T, NEW s \in Seq(S), \A i \in 1..Len(s) : s[i] \in T
  PROVE  s \in Seq(T)
<1>1. Len(s) \in Nat /\ s \in [1..Len(s) -> S]
  BY LenProperties
<1>2. s \in [1..Len(s) -> T]
  BY <1>1
<1> QED BY <1>1, <1>2, SeqDef

\* What is stored in a leaf is what is stored in two others.
JoinedEntries(k, q, u, p, v, r) ==
  \A x, d : Entry(k, q, x, d) <=> Entry(u, p, x, d) \/ Entry(v, r, x, d)

\* The keys and the data of a leaf divided at sep
LEMMA LeafParts ==
  ASSUME NEW u \in Seq(Keys), NEW v \in Seq(Keys), NEW sep \in Keys,
         NEW p \in Seq(Nat), NEW r \in Seq(Nat), Len(p) = Len(u), Len(r) = Len(v),
         NEW lo \in Int, NEW hi \in Int, NEW k, NEW q \in Seq(Nat),
         JoinedKeys(k, u, v), Joined(q, p, r)
  PROVE  /\ LeafFits(u, p, lo, sep) /\ LeafFits(v, r, sep, hi) => LeafFits(k, q, lo, hi)
         /\ LeafFits(k, q, lo, hi) /\ lo < sep /\ sep < hi /\ Below(u, sep, v)
            => LeafFits(u, p, lo, sep) /\ LeafFits(v, r, sep, hi)
         /\ JoinedEntries(k, q, u, p, v, r)
<1>1. /\ Len(u) \in Nat /\ Len(v) \in Nat /\ Elems(u) \subseteq Int /\ Elems(v) \subseteq Int
      /\ IntMin \in Int /\ High \in Int /\ sep \in Int
  <2>1. Elems(u) \subseteq Keys /\ Elems(v) \subseteq Keys /\ Keys \subseteq Int
    BY ElemsFacts, KeysAreInts
  <2> QED BY <2>1, LenProperties, KeysAreInts
<1>2. /\ Len(k) = Len(u) + Len(v) /\ Elems(k) = Elems(u) \cup Elems(v)
      /\ \A i \in 1..Len(u) : k[i] = u[i]
      /\ \A i \in 1..Len(v) : k[Len(u) + i] = v[i]
  BY DEF Joined, JoinedKeys
<1>3. /\ Len(q) = Len(u) + Len(v)
      /\ \A i \in 1..Len(u) : q[i] = p[i]
      /\ \A i \in 1..Len(v) : q[Len(u) + i] = r[i]
  BY DEF Joined
<1>4. \A j \in 1..(Len(u) + Len(v)) :
        j \in 1..Len(u) \/ \E i \in 1..Len(v) : j = Len(u) + i
  <2> SUFFICES ASSUME NEW j \in 1..(Len(u) + Len(v)), j \notin 1..Len(u)
               PROVE  \E i \in 1..Len(v) : j = Len(u) + i
    OBVIOUS
  <2>1. j - Len(u) \in 1..Len(v) /\ j = Len(u) + (j - Len(u))
    BY <1>1
  <2> QED BY <2>1
<1>5. \A i \in 1..Len(u) : i \in 1..(Len(u) + Len(v))
  BY <1>1
<1>6. \A i \in 1..Len(v) : Len(u) + i \in 1..(Len(u) + Len(v))
  BY <1>1
<1>7. q \in Seq(AllData) <=> p \in Seq(AllData) /\ r \in Seq(AllData)
  <2>1. ASSUME q \in Seq(AllData) PROVE p \in Seq(AllData) /\ r \in Seq(AllData)
    <3>1. \A j \in 1..(Len(u) + Len(v)) : q[j] \in AllData
      BY <1>3, <2>1, ElementOfSeq
    <3>2. \A i \in 1..Len(p) : p[i] \in AllData
      BY <1>3, <1>5, <3>1
    <3>3. \A i \in 1..Len(r) : r[i] \in AllData
      BY <1>3, <1>6, <3>1
    <3> QED BY <3>2, <3>3, SeqOf
  <2>2. ASSUME p \in Seq(AllData), r \in Seq(AllData) PROVE q \in Seq(AllData)
    <3>1. \A i \in 1..Len(u) : p[i] \in AllData
      BY <2>2, ElementOfSeq
    <3>2. \A i \in 1..Len(v) : r[i] \in AllData
      BY <2>2, ElementOfSeq
    <3>3. ASSUME NEW j \in 1..Len(q) PROVE q[j] \in AllData
      <4>1. CASE j \in 1..Len(u)
        BY <1>3, <3>1, <4>1
      <4>2. CASE j \notin 1..Len(u)
        <5>1. PICK i \in 1..Len(v) : j = Len(u) + i
          BY <1>3, <1>4, <4>2
        <5> QED BY <1>3, <3>2, <5>1
      <4> QED BY <4>1, <4>2
    <3> QED BY <3>3, SeqOf
  <2> QED BY <2>1, <2>2
<1>8. ASSUME LeafFits(u, p, lo, sep), LeafFits(v, r, sep, hi) PROVE LeafFits(k, q, lo, hi)
  <2>1. /\ IntMin <= lo /\ lo < sep /\ sep < hi /\ hi <= High
        /\ Ascending(u) /\ Ascending(v)
        /\ \A x \in Elems(u) : lo <= x /\ x < sep
        /\ \A x \in Elems(v) : sep <= x /\ x < hi
        /\ p \in Seq(AllData) /\ r \in Seq(AllData)
    BY <1>8 DEF LeafFits
  <2>2. \A x \in Elems(u), y \in Elems(v) : x < y
    BY <1>1, <2>1
  <2>3. Ascending(k)
    BY <2>1, <2>2 DEF JoinedKeys
  <2>4. \A x \in Elems(u) : lo <= x /\ x < hi
    BY <1>1, <2>1
  <2>5. \A x \in Elems(v) : lo <= x /\ x < hi
    BY <1>1, <2>1
  <2>6. lo < hi
    BY <1>1, <2>1
  <2>7. q \in Seq(AllData)
    BY <1>7, <2>1
  <2> QED BY <1>2, <1>3, <2>1, <2>3, <2>4, <2>5, <2>6, <2>7 DEF LeafFits
<1>9. ASSUME LeafFits(k, q, lo, hi), lo < sep, sep < hi, Below(u, sep, v)
      PROVE  LeafFits(u, p, lo, sep) /\ LeafFits(v, r, sep, hi)
  <2>1. /\ IntMin <= lo /\ hi <= High
        /\ Ascending(u) /\ Ascending(v)
        /\ \A x \in Elems(u) : lo <= x /\ x < sep
        /\ \A x \in Elems(v) : sep <= x /\ x < hi
        /\ p \in Seq(AllData) /\ r \in Seq(AllData)
    BY <1>2, <1>7, <1>9 DEF LeafFits, JoinedKeys, Below
  <2>2. IntMin <= sep /\ sep <= High
    BY <1>1, <1>9, <2>1
  <2> QED BY <1>9, <2>1, <2>2 DEF LeafFits
<1>10. ASSUME NEW x, NEW d
       PROVE  Entry(k, q, x, d) <=> Entry(u, p, x, d) \/ Entry(v, r, x, d)
  <2>1. ASSUME Entry(k, q, x, d) PROVE Entry(u, p, x, d) \/ Entry(v, r, x, d)
    <3>1. PICK j \in 1..(Len(u) + Len(v)) : k[j] = x /\ q[j] = d
      BY <1>2, <2>1 DEF Entry
    <3>2. CASE j \in 1..Len(u)
      BY <1>2, <1>3, <3>1, <3>2 DEF Entry
    <3>3. CASE j \notin 1..Len(u)
      <4>1. PICK i \in 1..Len(v) : j = Len(u) + i
        BY <1>4, <3>3
      <4>2. v[i] = x /\ r[i] = d
        BY <1>2, <1>3, <3>1, <4>1
      <4> QED BY <4>2 DEF Entry
    <3> QED BY <3>2, <3>3
  <2>2. ASSUME Entry(u, p, x, d) PROVE Entry(k, q, x, d)
    BY <1>2, <1>3, <1>5, <2>2 DEF Entry
  <2>3. ASSUME Entry(v, r, x, d) PROVE Entry(k, q, x, d)
    <3>1. PICK i \in 1..Len(v) : v[i] = x /\ r[i] = d
      BY <2>3 DEF Entry
    <3>2. Len(u) + i \in 1..Len(k) /\ k[Len(u) + i] = x /\ q[Len(u) + i] = d
      BY <1>2, <1>3, <1>6, <3>1
    <3> QED BY <3>2 DEF Entry
  <2> QED BY <2>1, <2>2, <2>3
<1> QED BY <1>8, <1>9, <1>10 DEF JoinedEntries

\* A key put between those of a leaf that are below it and those above it
LEMMA LeafPut ==
  ASSUME NEW k \in Seq(Keys), NEW q \in Seq(Nat), NEW lo \in Int, NEW hi \in Int,
         LeafFits(k, q, lo, hi), NEW i \in 1..(Len(k) + 1), NEW x \in Keys, NEW d \in AllData,
         lo <= x, x < hi,
         \A j \in 1..(i - 1) : k[j] < x, \A j \in i..Len(k) : x < k[j],
         NEW k2 \in Seq(Keys), NEW q2 \in Seq(Nat), PutAt(k2, k, i, x), PutAt(q2, q, i, d)
  PROVE  /\ LeafFits(k2, q2, lo, hi)
         /\ \A y, e : Entry(k2, q2, y, e) <=> Entry(k, q, y, e) \/ (y = x /\ e = d)
<1> DEFINE n == Len(k)
<1>1. /\ n \in Nat /\ Len(q) = n /\ Len(k2) = n + 1 /\ Len(q2) = n + 1 /\ x \in Int
      /\ IntMin <= lo /\ hi <= High /\ lo < hi /\ q \in Seq(AllData)
  BY LenProperties, KeysAreInts DEF LeafFits, PutAt
<1>2. \A j \in 1..n : k[j] \in Int /\ k[j] \in Elems(k)
  <2>1. Elems(k) \subseteq Keys /\ Keys \subseteq Int
    BY ElemsFacts, KeysAreInts
  <2> QED BY <2>1, ElemsFacts
<1>3. /\ \A j \in 1..n : lo <= k[j] /\ k[j] < hi
      /\ \A a, b \in 1..n : a < b => k[a] < k[b]
  BY <1>2 DEF LeafFits, Ascending
<1>4. \A j \in 1..(n + 1) : k2[j] = IF j < i THEN k[j] ELSE IF j = i THEN x ELSE k[j - 1]
  BY DEF PutAt
<1>5. \A j \in 1..(n + 1) : q2[j] = IF j < i THEN q[j] ELSE IF j = i THEN d ELSE q[j - 1]
  BY <1>1 DEF PutAt
<1>6. \A j \in 1..(n + 1) : /\ j < i => j \in 1..n /\ k2[j] = k[j] /\ q2[j] = q[j] /\ k[j] < x
                            /\ j = i => k2[j] = x /\ q2[j] = d
                            /\ j > i => /\ j - 1 \in 1..n /\ k2[j] = k[j - 1]
                                        /\ q2[j] = q[j - 1] /\ x < k[j - 1]
  <2> SUFFICES ASSUME NEW j \in 1..(n + 1)
               PROVE  /\ j < i => j \in 1..n /\ k2[j] = k[j] /\ q2[j] = q[j] /\ k[j] < x
                      /\ j = i => k2[j] = x /\ q2[j] = d
                      /\ j > i => /\ j - 1 \in 1..n /\ k2[j] = k[j - 1]
                                  /\ q2[j] = q[j - 1] /\ x < k[j - 1]
    OBVIOUS
  <2>1. CASE j < i
    <3>1. j \in 1..n /\ j \in 1..(i - 1) /\ j # i
      BY <1>1, <2>1
    <3> QED BY <1>4, <1>5, <2>1, <3>1
  <2>2. CASE j = i
    <3>1. ~ (j < i) /\ ~ (j > i)
      BY <2>2
    <3> QED BY <1>4, <1>5, <2>2, <3>1
  <2>3. CASE j > i
    <3>1. j - 1 \in 1..n /\ j - 1 \in i..n /\ j # i /\ ~ (j < i)
      BY <1>1, <2>3
    <3> QED BY <1>4, <1>5, <2>3, <3>1
  <2> QED BY <1>1, <2>1, <2>2, <2>3
<1> HIDE DEF n
<1>7. Ascending(k2)
  <2> SUFFICES ASSUME NEW a \in 1..(n + 1), NEW b \in 1..(n + 1), a < b PROVE k2[a] < k2[b]
    BY <1>1 DEF Ascending
  <2>1. i \in Int
    OBVIOUS
  <2>2. a < i => a \in 1..n /\ k2[a] = k[a] /\ k[a] < x
    BY <1>6
  <2>3. b > i => b - 1 \in 1..n /\ k2[b] = k[b - 1] /\ x < k[b - 1]
    BY <1>6
  <2>4. CASE b < i
    <3>1. b \in 1..n /\ k2[b] = k[b] /\ a < i
      BY <1>6, <2>1, <2>4
    <3> QED BY <1>3, <2>2, <3>1
  <2>5. CASE b = i
    <3>1. k2[b] = x /\ a < i
      BY <1>6, <2>5
    <3> QED BY <2>2, <3>1
  <2>6. CASE b > i /\ a > i
    <3>1. a - 1 \in 1..n /\ a - 1 < b - 1 /\ k2[a] = k[a - 1]
      BY <1>6, <2>6
    <3> QED BY <1>3, <2>3, <2>6, <3>1
  <2>7. CASE b > i /\ a = i
    <3>1. k2[a] = x
      BY <1>6, <2>7
    <3> QED BY <2>3, <2>7, <3>1
  <2>8. CASE b > i /\ a < i
    <3>1. k[a] \in Int /\ k[b - 1] \in Int
      BY <1>2, <2>2, <2>3, <2>8 DEF n
    <3>2. k[a] < k[b - 1]
      <4> DEFINE y == k[a]
                 z == k[b - 1]
      <4>1. y \in Int /\ z \in Int /\ y < x /\ x < z /\ x \in Int
        BY <1>1, <2>2, <2>3, <2>8, <3>1
      <4> HIDE DEF y, z
      <4>2. y < z
        BY <4>1
      <4> QED BY <4>2 DEF y, z
    <3> QED BY <2>2, <2>3, <2>8, <3>2
  <2> QED BY <2>1, <2>4, <2>5, <2>6, <2>7, <2>8
<1>8. \A y \in Elems(k2) : lo <= y /\ y < hi
  <2>1. ASSUME NEW j \in 1..(n + 1) PROVE lo <= k2[j] /\ k2[j] < hi
    <3>1. j < i \/ j = i \/ j > i
      BY <1>1
    <3> QED BY <1>3, <1>6, <3>1
  <2>2. \A y \in Elems(k2) : \E j \in 1..Len(k2) : k2[j] = y
    BY ElemsFacts
  <2> QED BY <1>1, <2>1, <2>2
<1>9. q2 \in Seq(AllData)
  <2>1. \A j \in 1..n : q[j] \in AllData
    BY <1>1, ElementOfSeq
  <2>2. ASSUME NEW j \in 1..Len(q2) PROVE q2[j] \in AllData
    <3>1. j \in 1..(n + 1) /\ (j < i \/ j = i \/ j > i)
      BY <1>1
    <3> QED BY <1>6, <2>1, <3>1
  <2> QED BY <2>2, SeqOf
<1>10. LeafFits(k2, q2, lo, hi)
  BY <1>1, <1>7, <1>8, <1>9 DEF LeafFits
<1>11. ASSUME NEW y, NEW e
       PROVE  Entry(k2, q2, y, e) <=> Entry(k, q, y, e) \/ (y = x /\ e = d)
  <2>1. /\ Entry(k2, q2, y, e) <=> \E j \in 1..(n + 1) : k2[j] = y /\ q2[j] = e
        /\ Entry(k, q, y, e) <=> \E j \in 1..n : k[j] = y /\ q[j] = e
    BY <1>1 DEF Entry, n
  <2>2. ASSUME NEW j \in 1..(n + 1), k2[j] = y, q2[j] = e
        PROVE  Entry(k, q, y, e) \/ (y = x /\ e = d)
    <3>1. CASE j < i
      BY <1>6, <2>1, <2>2, <3>1
    <3>2. CASE j = i
      BY <1>6, <2>2, <3>2
    <3>3. CASE j > i
      <4>1. j - 1 \in 1..n /\ k[j - 1] = y /\ q[j - 1] = e
        BY <1>6, <2>2, <3>3
      <4> QED BY <2>1, <4>1
    <3> QED BY <1>1, <3>1, <3>2, <3>3
  <2>3. ASSUME NEW j \in 1..n, k[j] = y, q[j] = e PROVE Entry(k2, q2, y, e)
    <3>1. CASE j < i
      <4>1. j \in 1..(n + 1)
        BY <1>1
      <4> QED BY <1>4, <1>5, <2>1, <2>3, <3>1, <4>1
    <3>2. CASE j >= i
      <4> DEFINE a == j + 1
      <4>1. a \in 1..(n + 1) /\ ~ (a < i) /\ a # i /\ a - 1 = j
        BY <1>1, <3>2
      <4> HIDE DEF a
      <4>2. k2[a] = y /\ q2[a] = e
        BY <1>4, <1>5, <2>3, <4>1
      <4> QED BY <2>1, <4>1, <4>2
    <3> QED BY <1>1, <3>1, <3>2
  <2>4. ASSUME y = x, e = d PROVE Entry(k2, q2, y, e)
    <3>1. i \in 1..(n + 1) /\ ~ (i < i)
      BY <1>1 DEF n
    <3>2. k2[i] = y /\ q2[i] = e
      BY <1>4, <1>5, <2>4, <3>1
    <3> QED BY <2>1, <3>1, <3>2
  <2> QED BY <2>1, <2>2, <2>3, <2>4
<1> QED BY <1>10, <1>11

\* A key taken from a leaf
LEMMA LeafTaken ==
  ASSUME NEW k \in Seq(Keys), NEW q \in Seq(Nat), NEW lo \in Int, NEW hi \in Int,
         LeafFits(k, q, lo, hi), NEW i \in 1..Len(k),
         NEW k2 \in Seq(Keys), NEW q2 \in Seq(Nat), TakenAt(k2, k, i), TakenAt(q2, q, i)
  PROVE  /\ LeafFits(k2, q2, lo, hi)
         /\ \A y, e : Entry(k2, q2, y, e) <=> Entry(k, q, y, e) /\ y # k[i]
<1> DEFINE n == Len(k)
<1>1. /\ n \in Nat /\ i \in 1..n /\ Len(q) = n /\ Len(k2) = n - 1 /\ Len(q2) = n - 1
      /\ IntMin <= lo /\ hi <= High /\ lo < hi /\ q \in Seq(AllData)
  BY LenProperties DEF LeafFits, TakenAt
<1>2. \A j \in 1..n : k[j] \in Int /\ k[j] \in Elems(k)
  <2>1. Elems(k) \subseteq Keys /\ Keys \subseteq Int
    BY ElemsFacts, KeysAreInts
  <2> QED BY <2>1, ElemsFacts
<1>3. /\ \A j \in 1..n : lo <= k[j] /\ k[j] < hi
      /\ \A a, b \in 1..n : a < b => k[a] < k[b]
  BY <1>2 DEF LeafFits, Ascending
<1>4. \A j \in 1..(n - 1) : k2[j] = IF j < i THEN k[j] ELSE k[j + 1]
  BY DEF TakenAt
<1>5. \A j \in 1..(n - 1) : q2[j] = IF j < i THEN q[j] ELSE q[j + 1]
  BY <1>1 DEF TakenAt
<1> HIDE DEF n
<1>6. \A j \in 1..(n - 1) : j \in 1..n /\ j + 1 \in 1..n
  BY <1>1
<1>7. Ascending(k2)
  <2> SUFFICES ASSUME NEW a \in 1..(n - 1), NEW b \in 1..(n - 1), a < b PROVE k2[a] < k2[b]
    BY <1>1 DEF Ascending
  <2>1. a \in 1..n /\ b \in 1..n /\ a + 1 \in 1..n /\ b + 1 \in 1..n
    BY <1>6
  <2>2. k[a] < k[b] /\ k[a] < k[b + 1] /\ k[a + 1] < k[b + 1]
    <3>1. a + 1 < b + 1 /\ a < b + 1
      OBVIOUS
    <3> QED BY <1>3, <2>1, <3>1
  <2>3. k2[a] = IF a < i THEN k[a] ELSE k[a + 1]
    BY <1>4
  <2>4. k2[b] = IF b < i THEN k[b] ELSE k[b + 1]
    BY <1>4
  <2>5. b < i => a < i
    BY <1>1
  <2> QED BY <2>2, <2>3, <2>4, <2>5
<1>8. \A y \in Elems(k2) : lo <= y /\ y < hi
  <2>1. \A j \in 1..(n - 1) : lo <= k2[j] /\ k2[j] < hi
    BY <1>3, <1>4, <1>6
  <2>2. \A y \in Elems(k2) : \E j \in 1..Len(k2) : k2[j] = y
    BY ElemsFacts
  <2> QED BY <1>1, <2>1, <2>2
<1>9. q2 \in Seq(AllData)
  <2>1. \A j \in 1..n : q[j] \in AllData
    BY <1>1, ElementOfSeq
  <2>2. \A j \in 1..Len(q2) : q2[j] \in AllData
    BY <1>1, <1>5, <1>6, <2>1
  <2> QED BY <2>2, SeqOf
<1>10. LeafFits(k2, q2, lo, hi)
  BY <1>1, <1>7, <1>8, <1>9 DEF LeafFits
<1>11. ASSUME NEW y, NEW e
       PROVE  Entry(k2, q2, y, e) <=> Entry(k, q, y, e) /\ y # k[i]
  <2>1. /\ Entry(k2, q2, y, e) <=> \E j \in 1..(n - 1) : k2[j] = y /\ q2[j] = e
        /\ Entry(k, q, y, e) <=> \E j \in 1..n : k[j] = y /\ q[j] = e
    BY <1>1 DEF Entry, n
  <2>2. ASSUME NEW j \in 1..(n - 1), k2[j] = y, q2[j] = e
        PROVE  Entry(k, q, y, e) /\ y # k[i]
    <3>1. CASE j < i
      <4>1. k[j] = y /\ q[j] = e /\ j \in 1..n /\ y < k[i] /\ y \in Int
        BY <1>1, <1>2, <1>3, <1>4, <1>5, <1>6, <2>2, <3>1
      <4>2. y # k[i]
        BY <1>1, <1>2, <4>1, SMTT(30)
      <4> QED BY <2>1, <4>1, <4>2
    <3>2. CASE j >= i
      <4> DEFINE a == j + 1
      <4>1. a \in 1..n /\ ~ (j < i) /\ i < a
        BY <1>1, <1>6, <3>2
      <4>2. k[a] = y /\ q[a] = e
        BY <1>4, <1>5, <2>2, <4>1
      <4> HIDE DEF a
      <4>3. k[i] < y /\ y \in Int
        BY <1>1, <1>2, <1>3, <4>1, <4>2
      <4>4. y # k[i]
        BY <1>1, <1>2, <4>3
      <4> QED BY <2>1, <4>1, <4>2, <4>4
    <3> QED BY <1>1, <3>1, <3>2
  <2>3. ASSUME NEW j \in 1..n, k[j] = y, q[j] = e, y # k[i] PROVE Entry(k2, q2, y, e)
    <3>1. CASE j < i
      <4>1. j \in 1..(n - 1)
        BY <1>1, <3>1
      <4> QED BY <1>4, <1>5, <2>1, <2>3, <3>1, <4>1
    <3>2. CASE j > i
      <4> DEFINE a == j - 1
      <4>1. a \in 1..(n - 1) /\ ~ (a < i) /\ a + 1 = j
        BY <1>1, <3>2
      <4> HIDE DEF a
      <4>2. k2[a] = y /\ q2[a] = e
        BY <1>4, <1>5, <2>3, <4>1
      <4> QED BY <2>1, <4>1, <4>2
    <3>3. j # i
      BY <2>3
    <3> QED BY <1>1, <3>1, <3>2, <3>3
  <2> QED BY <2>1, <2>2, <2>3
<1> QED BY <1>10, <1>11

\* The range of a slot lies in the range of its node.
LEMMA SlotRange ==
  ASSUME NEW k \in Seq(Keys), NEW q \in Seq(Nat), NEW lo \in Int, NEW hi \in Int,
         InnerFits(k, q, lo, hi), NEW c, NEW l, NEW h, Slot(k, q, lo, hi, c, l, h)
  PROVE  l \in Int /\ h \in Int /\ lo <= l /\ l < h /\ h <= hi
<1>1. PICK i \in 1..Len(q) : l = Bound(k, lo, hi, i - 1) /\ h = Bound(k, lo, hi, i)
  BY DEF Slot
<1> DEFINE n == Len(k) + 1
           B(j) == Bound(k, lo, hi, j)
<1>2. Len(k) \in Nat /\ Len(q) = n
  BY LenProperties DEF InnerFits
<1>3. /\ \A j \in 0..n : B(j) \in Int
      /\ \A j, x \in 0..n : j < x => B(j) < B(x)
  BY BoundsAscend
<1>4. B(0) = lo /\ B(n) = hi
  BY <1>2 DEF Bound
<1>5. n \in Nat
  BY <1>2
<1>6. i \in 1..n /\ l = B(i - 1) /\ h = B(i)
  BY <1>1, <1>2
<1> HIDE DEF B, n
<1>7. i - 1 \in 0..n /\ i \in 0..n /\ 0 \in 0..n /\ n \in 0..n
  BY <1>5, <1>6
<1>8. l \in Int /\ h \in Int /\ l < h
  BY <1>3, <1>6, <1>7
<1>9. lo <= l
  <2>1. CASE i - 1 = 0
    BY <1>4, <1>6, <2>1
  <2>2. CASE i - 1 # 0
    <3>1. B(0) < B(i - 1)
      BY <1>3, <1>7, <2>2
    <3> QED BY <1>4, <1>6, <1>8, <3>1
  <2> QED BY <2>1, <2>2
<1>10. h <= hi
  <2>1. CASE i = n
    BY <1>4, <1>6, <2>1
  <2>2. CASE i # n
    <3>1. B(i) < B(n)
      BY <1>3, <1>5, <1>6, <1>7, <2>2
    <3> QED BY <1>4, <1>6, <1>8, <3>1
  <2> QED BY <2>1, <2>2
<1> QED BY <1>8, <1>9, <1>10

-----------------------------------------------------------------------------
(* Nodes in heaps *)

Has(m, x, d) == \E a \in DOMAIN m : Leaf(m, a) /\ Entry(Ks(m, a), Ps(m, a), x, d)

SameEntries(m, m2) == \A x, d : Has(m2, x, d) <=> Has(m, x, d)

\* What the shape of a heap says of the children of an internal node
LEMMA ChildFacts ==
  ASSUME NEW m, NEW root, NEW g, Shape(m, root, g), NEW a \in DOMAIN m, ~ Leaf(m, a)
  PROVE  LET k == Ks(m, a)
             q == Ps(m, a)
         IN  /\ k \in Seq(Keys) /\ q \in Seq(Nat) /\ InnerFits(k, q, Lo(g, a), Hi(g, a))
             /\ Len(k) \in Nat /\ Len(q) = Len(k) + 1 /\ Distinct(q)
             /\ \A i \in 1..Len(q) :
                  /\ q[i] \in DOMAIN m /\ Up(m, q[i]) = a /\ Ht(g, a) = Ht(g, q[i]) + 1
                  /\ Lo(g, q[i]) = Bound(k, Lo(g, a), Hi(g, a), i - 1)
                  /\ Hi(g, q[i]) = Bound(k, Lo(g, a), Hi(g, a), i)
<1> DEFINE k == Ks(m, a)
           q == Ps(m, a)
           lo == Lo(g, a)
           hi == Hi(g, a)
<1>1. Typed(m, g) /\ Fits(m, g, a) /\ Parental(m, g)
  BY DEF Shape
<1>2. k \in Seq(Keys) /\ q \in Seq(Nat) /\ lo \in Int /\ hi \in Int
  BY <1>1, NodeTypes
<1>3. InnerFits(k, q, lo, hi)
  BY <1>1 DEF Fits
<1>4. Len(k) \in Nat /\ Len(q) = Len(k) + 1
  BY <1>2, <1>3, LenProperties DEF InnerFits
<1>5. \A c, l, h : Slot(k, q, lo, hi, c, l, h) =>
        /\ c \in DOMAIN m /\ Up(m, c) = a /\ Ht(g, a) = Ht(g, c) + 1
        /\ l = Lo(g, c) /\ h = Hi(g, c)
  BY <1>1 DEF Parental, HasChild
<1> HIDE DEF k, q, lo, hi
<1>6. \A i \in 1..Len(q) : Slot(k, q, lo, hi, q[i], Bound(k, lo, hi, i - 1), Bound(k, lo, hi, i))
  BY DEF Slot
<1>7. \A i \in 1..Len(q) :
        /\ q[i] \in DOMAIN m /\ Up(m, q[i]) = a /\ Ht(g, a) = Ht(g, q[i]) + 1
        /\ Lo(g, q[i]) = Bound(k, lo, hi, i - 1) /\ Hi(g, q[i]) = Bound(k, lo, hi, i)
  BY <1>5, <1>6
<1>8. Distinct(q)
  <2> SUFFICES ASSUME NEW i \in 1..Len(q), NEW j \in 1..Len(q), q[i] = q[j], i < j PROVE FALSE
    BY <1>4 DEF Distinct
  <2>1. /\ i \in 0..(Len(k) + 1) /\ j \in 0..(Len(k) + 1)
    BY <1>4
  <2>2. Bound(k, lo, hi, i) < Bound(k, lo, hi, j) /\ Bound(k, lo, hi, i) \in Int
    BY <1>2, <1>3, <2>1, BoundsAscend
  <2>3. Bound(k, lo, hi, i) = Bound(k, lo, hi, j)
    BY <1>7
  <2> QED BY <2>2, <2>3
<1> QED BY <1>2, <1>3, <1>4, <1>7, <1>8 DEF k, q, lo, hi

\* ... and of the parent of a node
LEMMA ParentFacts ==
  ASSUME NEW m, NEW root, NEW g, Shape(m, root, g), NEW c \in DOMAIN m, c # root
  PROVE  /\ Up(m, c) \in DOMAIN m /\ Up(m, c) # c /\ ~ Leaf(m, Up(m, c))
         /\ \E i \in 1..Len(Ps(m, Up(m, c))) : Ps(m, Up(m, c))[i] = c
<1>1. /\ Up(m, c) \in DOMAIN m /\ ~ Leaf(m, Up(m, c))
      /\ HasChild(m, g, Up(m, c), c, Lo(g, c), Hi(g, c))
  BY DEF Shape, Owned
<1>2. \E i \in 1..Len(Ps(m, Up(m, c))) : Ps(m, Up(m, c))[i] = c
  BY <1>1 DEF HasChild, Slot
<1>3. Ht(g, Up(m, c)) = Ht(g, c) + 1
  BY <1>1 DEF Shape, Parental
<1>4. Ht(g, c) \in Nat
  BY NodeTypes DEF Shape
<1>5. Up(m, c) # c
  BY <1>3, <1>4
<1> QED BY <1>1, <1>2, <1>5

\* A child found by its slot
LEMMA SlotElem ==
  ASSUME NEW k, NEW q \in Seq(Nat), NEW lo, NEW hi, NEW c, NEW l, NEW h, Slot(k, q, lo, hi, c, l, h)
  PROVE  c \in Elems(q)
BY ElemsFacts DEF Slot

\* An element of an internal node's children is a child with a slot.
LEMMA ElemSlot ==
  ASSUME NEW k, NEW q \in Seq(Nat), NEW lo, NEW hi, NEW c \in Elems(q)
  PROVE  \E l, h : Slot(k, q, lo, hi, c, l, h)
<1>1. PICK i \in 1..Len(q) : q[i] = c
  BY ElemsFacts
<1>2. Slot(k, q, lo, hi, c, Bound(k, lo, hi, i - 1), Bound(k, lo, hi, i))
  BY <1>1 DEF Slot
<1> QED BY <1>2

-----------------------------------------------------------------------------
(* Dividing a node a into a and a new right sibling b at the key sep; a is *)
(* the i-th child of p.                                                    *)

Divides(m, m2, a, b, p, i, sep) ==
  LET D == DOMAIN m
  IN  /\ b \notin D /\ b \in Nat \ {Null} /\ m2 \in [D \cup {b} -> NodeSet]
      /\ \A c \in D : Leaf(m2, c) = Leaf(m, c)
      /\ Leaf(m2, b) = Leaf(m, a)
      /\ \A c \in D \ {a, p} : Ks(m2, c) = Ks(m, c) /\ Ps(m2, c) = Ps(m, c)
      /\ PutAt(Ks(m2, p), Ks(m, p), i, sep) /\ PutAt(Ps(m2, p), Ps(m, p), i + 1, b)
      /\ Joined(Ps(m, a), Ps(m2, a), Ps(m2, b))
      /\ Up(m2, b) = p
      /\ \A c \in D : Up(m2, c) = IF ~ Leaf(m, a) /\ c \in Elems(Ps(m2, b)) THEN b ELSE Up(m, c)
      /\ Pv(m2, a) = Pv(m, a)
      /\ \A x \in D \ {a} : Nx(m2, x) = Nx(m, x)
      /\ IF Leaf(m, a)
         THEN /\ JoinedKeys(Ks(m, a), Ks(m2, a), Ks(m2, b)) /\ Below(Ks(m2, a), sep, Ks(m2, b))
              /\ Len(Ps(m2, a)) = Len(Ks(m2, a)) /\ Len(Ps(m2, b)) = Len(Ks(m2, b))
              /\ Nx(m2, a) = b /\ Pv(m2, b) = a /\ Nx(m2, b) = Nx(m, a)
              /\ \A x \in D \ {a} : Pv(m2, x) = IF x = Nx(m, a) THEN b ELSE Pv(m, x)
         ELSE /\ JoinedAround(Ks(m, a), Ks(m2, a), sep, Ks(m2, b))
              /\ Len(Ps(m2, a)) = Len(Ks(m2, a)) + 1 /\ Len(Ps(m2, b)) = Len(Ks(m2, b)) + 1
              /\ Nx(m2, a) = Nx(m, a) /\ Pv(m2, b) = Null /\ Nx(m2, b) = Null
              /\ \A x \in D \ {a} : Pv(m2, x) = Pv(m, x)

DividedPlaces(g, D, a, b, sep) ==
  [c \in D \cup {b} |-> IF c = a THEN [g[a] EXCEPT !.high = sep]
                        ELSE IF c = b THEN [g[a] EXCEPT !.low = sep] ELSE g[c]]

PlacesDivided(g, g2, D, a, b, sep) ==
  /\ g2 \in [D \cup {b} -> Place]
  /\ Ht(g2, a) = Ht(g, a) /\ Ht(g2, b) = Ht(g, a)
  /\ Lo(g2, a) = Lo(g, a) /\ Hi(g2, a) = sep /\ Lo(g2, b) = sep /\ Hi(g2, b) = Hi(g, a)
  /\ \A c \in D \ {a} : Ht(g2, c) = Ht(g, c) /\ Lo(g2, c) = Lo(g, c) /\ Hi(g2, c) = Hi(g, c)

\* The places after a division, written out
LEMMA DividedPlaceFacts ==
  ASSUME NEW g, NEW D, g \in [D -> Place], NEW a \in D, NEW b, b \notin D, NEW sep \in Int
  PROVE  PlacesDivided(g, DividedPlaces(g, D, a, b, sep), D, a, b, sep)
<1> DEFINE g2 == DividedPlaces(g, D, a, b, sep)
<1>1. g[a] \in Place /\ \A c \in D : g[c] \in Place
  OBVIOUS
<1>2. /\ [g[a] EXCEPT !.high = sep] \in Place /\ [g[a] EXCEPT !.low = sep] \in Place
  BY <1>1 DEF Place
<1>3. g2 \in [D \cup {b} -> Place]
  BY <1>1, <1>2 DEF DividedPlaces
<1>4. g2[a] = [g[a] EXCEPT !.high = sep] /\ g2[b] = [g[a] EXCEPT !.low = sep]
  BY DEF DividedPlaces
<1>5. \A c \in D \ {a} : g2[c] = g[c]
  BY DEF DividedPlaces
<1> HIDE DEF g2
<1>6. /\ Ht(g2, a) = Ht(g, a) /\ Ht(g2, b) = Ht(g, a)
      /\ Lo(g2, a) = Lo(g, a) /\ Hi(g2, a) = sep /\ Lo(g2, b) = sep /\ Hi(g2, b) = Hi(g, a)
  BY <1>1, <1>4 DEF Ht, Lo, Hi, Place
<1>7. \A c \in D \ {a} : Ht(g2, c) = Ht(g, c) /\ Lo(g2, c) = Lo(g, c) /\ Hi(g2, c) = Hi(g, c)
  BY <1>5 DEF Ht, Lo, Hi
<1> QED BY <1>3, <1>6, <1>7 DEF g2, PlacesDivided

\* Dividing a node keeps the shape of the tree and what it stores.
LEMMA DivideKeepsShape ==
  ASSUME NEW m, NEW root, NEW g, Shape(m, root, g),
         NEW a \in DOMAIN m, a # root, NEW b, NEW i \in 1..Len(Ps(m, Up(m, a))),
         Ps(m, Up(m, a))[i] = a, NEW sep \in Keys, Lo(g, a) < sep, sep < Hi(g, a),
         NEW m2, Divides(m, m2, a, b, Up(m, a), i, sep)
  PROVE  /\ Shape(m2, root, DividedPlaces(g, DOMAIN m, a, b, sep))
         /\ SameEntries(m, m2)
<1> DEFINE D == DOMAIN m
           p == Up(m, a)
           g2 == DividedPlaces(g, D, a, b, sep)
<1>1. /\ Typed(m, g) /\ Parental(m, g) /\ Owned(m, root, g) /\ Rooted(m, root, g)
      /\ Apart(m, g) /\ Linked(m, g) /\ \A c \in D : Fits(m, g, c)
  BY DEF Shape
<1>2. /\ b \notin D /\ b \in Nat \ {Null} /\ m2 \in [D \cup {b} -> NodeSet]
      /\ \A c \in D : Leaf(m2, c) = Leaf(m, c)
      /\ Leaf(m2, b) = Leaf(m, a)
      /\ \A c \in D \ {a, p} : Ks(m2, c) = Ks(m, c) /\ Ps(m2, c) = Ps(m, c)
      /\ PutAt(Ks(m2, p), Ks(m, p), i, sep) /\ PutAt(Ps(m2, p), Ps(m, p), i + 1, b)
      /\ Joined(Ps(m, a), Ps(m2, a), Ps(m2, b))
      /\ Up(m2, b) = p
      /\ \A c \in D : Up(m2, c) = IF ~ Leaf(m, a) /\ c \in Elems(Ps(m2, b)) THEN b ELSE Up(m, c)
  BY DEF Divides
<1>3. g \in [D -> Place] /\ IsFiniteSet(D) /\ D \subseteq Nat \ {Null} /\ sep \in Int
  BY <1>1, KeysAreInts DEF Typed
<1>4. /\ g2 \in [D \cup {b} -> Place]
      /\ Ht(g2, a) = Ht(g, a) /\ Ht(g2, b) = Ht(g, a)
      /\ Lo(g2, a) = Lo(g, a) /\ Hi(g2, a) = sep /\ Lo(g2, b) = sep /\ Hi(g2, b) = Hi(g, a)
      /\ \A c \in D \ {a} : Ht(g2, c) = Ht(g, c) /\ Lo(g2, c) = Lo(g, c) /\ Hi(g2, c) = Hi(g, c)
  <2>1. PlacesDivided(g, g2, D, a, b, sep)
    BY <1>2, <1>3, DividedPlaceFacts
  <2> HIDE DEF g2
  <2> QED BY <2>1 DEF PlacesDivided
<1> HIDE DEF g2
<1>5. DOMAIN m2 = D \cup {b}
  BY <1>2
<1>6. Typed(m2, g2)
  <2>1. IsFiniteSet(D \cup {b})
    BY <1>3, FS_AddElement
  <2> QED BY <1>2, <1>3, <1>4, <1>5, <2>1 DEF Typed
<1>7. p \in D /\ p # a /\ ~ Leaf(m, p)
  BY ParentFacts
<1>8. \A c \in D \cup {b} : Ks(m2, c) \in Seq(Keys) /\ Ps(m2, c) \in Seq(Nat)
  BY <1>5, <1>6, NodeTypes
<1>9. \A c \in D : /\ Ks(m, c) \in Seq(Keys) /\ Ps(m, c) \in Seq(Nat) /\ Leaf(m, c) \in BOOLEAN
                   /\ Lo(g, c) \in Int /\ Hi(g, c) \in Int /\ Ht(g, c) \in Nat
  BY <1>1, NodeTypes
<1>10. /\ InnerFits(Ks(m2, p), Ps(m2, p), Lo(g, p), Hi(g, p))
       /\ \A c, l, h : Slot(Ks(m2, p), Ps(m2, p), Lo(g, p), Hi(g, p), c, l, h) <=>
              \/ c # a /\ Slot(Ks(m, p), Ps(m, p), Lo(g, p), Hi(g, p), c, l, h)
              \/ c = a /\ l = Lo(g, a) /\ h = sep
              \/ c = b /\ l = sep /\ h = Hi(g, a)
  <2> DEFINE k == Ks(m, p)
             q == Ps(m, p)
             k2 == Ks(m2, p)
             q2 == Ps(m2, p)
             lo == Lo(g, p)
             hi == Hi(g, p)
  <2>1. /\ k \in Seq(Keys) /\ q \in Seq(Nat) /\ InnerFits(k, q, lo, hi) /\ Distinct(q)
        /\ \A j \in 1..Len(q) : /\ Lo(g, q[j]) = Bound(k, lo, hi, j - 1)
                                /\ Hi(g, q[j]) = Bound(k, lo, hi, j)
    BY <1>7, ChildFacts
  <2>2. /\ lo \in Int /\ hi \in Int /\ k2 \in Seq(Keys) /\ PutAt(k2, k, i, sep)
        /\ PutAt(q2, q, i + 1, b) /\ i \in 1..Len(q) /\ q[i] = a
    BY <1>2, <1>7, <1>8, <1>9
  <2> HIDE DEF k, q, k2, q2, lo, hi
  <2>3. Lo(g, a) = Bound(k, lo, hi, i - 1) /\ Hi(g, a) = Bound(k, lo, hi, i)
    BY <2>1, <2>2
  <2>4. Bound(k, lo, hi, i - 1) < sep /\ sep < Bound(k, lo, hi, i)
    BY <2>3
  <2>5. /\ InnerFits(k2, q2, lo, hi)
        /\ \A c, l, h : Slot(k2, q2, lo, hi, c, l, h) <=>
              \/ c # q[i] /\ Slot(k, q, lo, hi, c, l, h)
              \/ c = q[i] /\ l = Bound(k, lo, hi, i - 1) /\ h = sep
              \/ c = b /\ l = sep /\ h = Bound(k, lo, hi, i)
    BY <2>1, <2>2, <2>4, Widened
  <2> QED BY <2>2, <2>3, <2>5 DEF k, q, k2, q2, lo, hi
<1>11. /\ Fits(m2, g2, a) /\ Fits(m2, g2, b)
       /\ Leaf(m, a) => \A x, d : Entry(Ks(m, a), Ps(m, a), x, d) <=>
                          Entry(Ks(m2, a), Ps(m2, a), x, d) \/ Entry(Ks(m2, b), Ps(m2, b), x, d)
       /\ ~ Leaf(m, a) => \A c, l, h :
            HasChild(m, g, a, c, l, h) <=> HasChild(m2, g2, a, c, l, h) \/ HasChild(m2, g2, b, c, l, h)
  <2> DEFINE k == Ks(m, a)
             q == Ps(m, a)
             u == Ks(m2, a)
             v == Ks(m2, b)
             r == Ps(m2, a)
             s == Ps(m2, b)
             lo == Lo(g, a)
             hi == Hi(g, a)
  <2>1. /\ k \in Seq(Keys) /\ q \in Seq(Nat) /\ u \in Seq(Keys) /\ v \in Seq(Keys)
        /\ r \in Seq(Nat) /\ s \in Seq(Nat) /\ lo \in Int /\ hi \in Int
        /\ lo < sep /\ sep < hi /\ Joined(q, r, s)
    BY <1>2, <1>8, <1>9
  <2>2. CASE Leaf(m, a)
    <3>1. /\ JoinedKeys(k, u, v) /\ Below(u, sep, v)
          /\ Len(r) = Len(u) /\ Len(s) = Len(v)
      BY <2>2 DEF Divides
    <3>2. Ht(g, a) = 0 /\ LeafFits(k, q, lo, hi)
      BY <1>1, <2>2 DEF Fits
    <3>3. Leaf(m2, a) /\ Leaf(m2, b)
      BY <1>2, <2>2
    <3> HIDE DEF k, q, u, v, r, s, lo, hi
    <3>4. /\ LeafFits(u, r, lo, sep) /\ LeafFits(v, s, sep, hi)
          /\ JoinedEntries(k, q, u, r, v, s)
      BY <2>1, <3>1, <3>2, LeafParts
    <3> QED BY <1>4, <2>2, <3>2, <3>3, <3>4 DEF Fits, JoinedEntries, k, q, u, v, r, s, lo, hi
  <2>3. CASE ~ Leaf(m, a)
    <3>1. JoinedAround(k, u, sep, v) /\ Len(r) = Len(u) + 1 /\ Len(s) = Len(v) + 1
      BY <2>3 DEF Divides
    <3>2. Ht(g, a) > 0 /\ InnerFits(k, q, lo, hi)
      BY <1>1, <2>3 DEF Fits
    <3>3. ~ Leaf(m2, a) /\ ~ Leaf(m2, b)
      BY <1>2, <2>3
    <3> HIDE DEF k, q, u, v, r, s, lo, hi
    <3>4. /\ InnerFits(k, q, lo, hi) <=> InnerFits(u, r, lo, sep) /\ InnerFits(v, s, sep, hi)
          /\ JoinedSlots(k, q, lo, hi, u, r, sep, v, s)
      BY <2>1, <3>1, InnerParts
    <3> QED BY <1>4, <2>3, <3>2, <3>3, <3>4 DEF HasChild, Fits, JoinedSlots, k, q, u, v, r, s, lo, hi
  <2> QED BY <1>9, <2>2, <2>3
<1>12. \A c \in D \ {a, p} : /\ Fits(m2, g2, c) <=> Fits(m, g, c)
                             /\ \A x, l, h : HasChild(m2, g2, c, x, l, h) <=> HasChild(m, g, c, x, l, h)
  BY <1>2, <1>4 DEF Fits, HasChild
<1>13. Fits(m2, g2, p)
  <2>1. Ht(g, p) > 0 /\ ~ Leaf(m2, p) /\ Ht(g2, p) = Ht(g, p) /\ Lo(g2, p) = Lo(g, p) /\ Hi(g2, p) = Hi(g, p)
    BY <1>1, <1>2, <1>4, <1>7 DEF Fits
  <2> QED BY <1>10, <2>1 DEF Fits
<1>14. \A c \in DOMAIN m2 : Fits(m2, g2, c)
  BY <1>1, <1>5, <1>11, <1>12, <1>13
<1>15. Regrouped(m, g, m2, g2, {a}, {a, b}, p, Leaf(m, a), Ht(g, a))
  <2>1. \A c \in {a, b} : Up(m2, c) = p /\ Ht(g2, c) = Ht(g, a) /\ Leaf(m2, c) = Leaf(m, a)
    <3>1. ~ Leaf(m, a) => a \notin Elems(Ps(m2, b))
      <4> SUFFICES ASSUME ~ Leaf(m, a), a \in Elems(Ps(m2, b)) PROVE FALSE
        OBVIOUS
      <4>1. PICK l, h : Slot(Ks(m2, b), Ps(m2, b), Lo(g2, b), Hi(g2, b), a, l, h)
        BY <1>8, ElemSlot
      <4>2. HasChild(m, g, a, a, l, h)
        BY <1>11, <4>1 DEF HasChild
      <4>3. Up(m, a) = a
        BY <1>1, <4>2 DEF Parental
      <4> QED BY <1>7, <4>3
    <3> QED BY <1>2, <1>4, <3>1
  <2>2. ASSUME NEW c \in D \ {a}, Up(m, c) # a PROVE Up(m2, c) = Up(m, c)
    <3>1. ~ Leaf(m, a) => c \notin Elems(Ps(m2, b))
      <4> SUFFICES ASSUME ~ Leaf(m, a), c \in Elems(Ps(m2, b)) PROVE FALSE
        OBVIOUS
      <4>1. PICK l, h : Slot(Ks(m2, b), Ps(m2, b), Lo(g2, b), Hi(g2, b), c, l, h)
        BY <1>8, ElemSlot
      <4>2. HasChild(m, g, a, c, l, h)
        BY <1>11, <4>1 DEF HasChild
      <4> QED BY <1>1, <2>2, <4>2 DEF Parental
    <3> QED BY <1>2, <3>1
  <2>3. ASSUME NEW c \in D \ {a}, Up(m, c) = a
        PROVE  Up(m2, c) \in {a, b} /\ HasChild(m2, g2, Up(m2, c), c, Lo(g, c), Hi(g, c))
    <3>1. c # root
      <4>1. a # Null
        BY <1>3
      <4> QED BY <1>1, <2>3, <4>1 DEF Rooted
    <3>2. ~ Leaf(m, a) /\ HasChild(m, g, a, c, Lo(g, c), Hi(g, c))
      BY <1>1, <2>3, <3>1 DEF Owned
    <3>3. CASE c \in Elems(Ps(m2, b))
      <4>1. PICK l, h : Slot(Ks(m2, b), Ps(m2, b), Lo(g2, b), Hi(g2, b), c, l, h)
        BY <1>8, <3>3, ElemSlot
      <4>2. HasChild(m2, g2, b, c, l, h)
        BY <4>1 DEF HasChild
      <4>3. l = Lo(g, c) /\ h = Hi(g, c)
        BY <1>1, <1>11, <3>2, <4>2 DEF Parental
      <4> QED BY <1>2, <3>2, <3>3, <4>2, <4>3
    <3>4. CASE c \notin Elems(Ps(m2, b))
      <4>1. ~ HasChild(m2, g2, b, c, Lo(g, c), Hi(g, c))
        BY <1>8, <3>4, SlotElem DEF HasChild
      <4> QED BY <1>2, <1>11, <2>3, <3>2, <3>4, <4>1
    <3> QED BY <3>3, <3>4
  <2>4. \A x, l, h : HasChild(m2, g2, p, x, l, h) <=>
           \/ x \notin {a} /\ x \notin {a, b} /\ HasChild(m, g, p, x, l, h)
           \/ x \in {a, b} /\ l = Lo(g2, x) /\ h = Hi(g2, x)
    <3>1. \A l, h : ~ HasChild(m, g, p, b, l, h)
      BY <1>1, <1>2, <1>7 DEF Parental
    <3>2. Lo(g2, p) = Lo(g, p) /\ Hi(g2, p) = Hi(g, p)
      BY <1>4, <1>7
    <3>3. a # b
      BY <1>2
    <3> QED BY <1>4, <1>10, <3>1, <3>2, <3>3 DEF HasChild
  <2>5. ASSUME ~ Leaf(m, a), NEW c \in {a, b}, NEW x, NEW l, NEW h, HasChild(m2, g2, c, x, l, h)
        PROVE  Up(m2, x) = c /\ HasChild(m, g, a, x, l, h)
    <3>1. HasChild(m, g, a, x, l, h)
      BY <1>11, <2>5
    <3>2. x \in D /\ Up(m, x) = a
      BY <1>1, <2>5, <3>1 DEF Parental
    <3>3. CASE c = b
      <4>1. x \in Elems(Ps(m2, b))
        BY <1>8, <2>5, <3>3, SlotElem DEF HasChild
      <4> QED BY <1>2, <2>5, <3>1, <3>2, <3>3, <4>1
    <3>4. CASE c = a
      <4>1. x \notin Elems(Ps(m2, b))
        <5> SUFFICES ASSUME x \in Elems(Ps(m2, b)) PROVE FALSE
          OBVIOUS
        <5>1. PICK l2, h2 : Slot(Ks(m2, b), Ps(m2, b), Lo(g2, b), Hi(g2, b), x, l2, h2)
          BY <1>8, ElemSlot
        <5>2. HasChild(m, g, a, x, l2, h2)
          BY <1>11, <2>5, <5>1 DEF HasChild
        <5>3. l2 = l /\ h2 = h
          BY <1>1, <2>5, <3>1, <5>2 DEF Parental
        <5>4. /\ Slot(Ks(m2, b), Ps(m2, b), sep, Hi(g, a), x, l, h)
              /\ Slot(Ks(m2, a), Ps(m2, a), Lo(g, a), sep, x, l, h)
          BY <1>4, <2>5, <3>4, <5>1, <5>3 DEF HasChild
        <5>5. ~ Leaf(m2, a) /\ ~ Leaf(m2, b)
          BY <1>2, <2>5
        <5>6. InnerFits(Ks(m2, b), Ps(m2, b), sep, Hi(g, a)) /\ InnerFits(Ks(m2, a), Ps(m2, a), Lo(g, a), sep)
          BY <1>4, <1>11, <5>5 DEF Fits
        <5>7. sep <= l /\ l < h
          BY <1>3, <1>8, <1>9, <5>4, <5>6, SlotRange
        <5>8. h <= sep
          BY <1>3, <1>8, <1>9, <5>4, <5>6, SlotRange
        <5>9. l \in Int /\ h \in Int
          BY <1>3, <1>8, <1>9, <5>4, <5>6, SlotRange
        <5> QED BY <1>3, <5>7, <5>8, <5>9
      <4> QED BY <1>2, <3>1, <3>2, <3>4, <4>1
    <3> QED BY <3>3, <3>4
  <2> QED BY <1>2, <1>4, <1>5, <1>7, <1>12, <2>1, <2>2, <2>3, <2>4, <2>5 DEF Regrouped
<1>16. Divided(m, g, m2, g2, a, b, p)
  <2>1. a # b
    BY <1>2
  <2>2. /\ Pv(m2, a) = Pv(m, a) /\ \A x \in D \ {a} : Nx(m2, x) = Nx(m, x)
        /\ IF Leaf(m, a)
           THEN /\ Nx(m2, a) = b /\ Pv(m2, b) = a /\ Nx(m2, b) = Nx(m, a)
                /\ \A x \in D \ {a} : Pv(m2, x) = IF x = Nx(m, a) THEN b ELSE Pv(m, x)
           ELSE /\ Nx(m2, a) = Nx(m, a) /\ Pv(m2, b) = Null /\ Nx(m2, b) = Null
                /\ \A x \in D \ {a} : Pv(m2, x) = Pv(m, x)
    BY DEF Divides
  <2> QED BY <1>4, <1>15, <2>1, <2>2 DEF Divided
<1>17. Parental(m2, g2) /\ Owned(m2, root, g2) /\ Rooted(m2, root, g2)
  BY <1>1, <1>15, RegroupedTree
<1>18. Apart(m2, g2) /\ Linked(m2, g2)
  <2>1. NonEmpty(m, g) /\ LeavesLow(m, g) /\ NonEmpty(m2, g2)
    BY <1>1, <1>6, <1>14, FitsFacts
  <2> QED BY <1>1, <1>6, <1>16, <2>1, DividedHeap
<1>19. SameEntries(m, m2)
  <2> SUFFICES ASSUME NEW x, NEW d PROVE Has(m2, x, d) <=> Has(m, x, d)
    BY DEF SameEntries
  <2>1. \A c \in D \ {a} : Leaf(m, c) => Ks(m2, c) = Ks(m, c) /\ Ps(m2, c) = Ps(m, c)
    BY <1>2, <1>7
  <2>2. Leaf(m2, a) = Leaf(m, a) /\ Leaf(m2, b) = Leaf(m, a) /\ \A c \in D : Leaf(m2, c) = Leaf(m, c)
    BY <1>2
  <2> QED BY <1>5, <1>11, <2>1, <2>2 DEF Has
<1> QED BY <1>6, <1>14, <1>17, <1>18, <1>19 DEF Shape, g2

-----------------------------------------------------------------------------
(* Uniting a node a with its right sibling b, which is deleted; a and b are *)
(* the children i and i + 1 of p.                                          *)

Unites(m, m2, a, b, p, i) ==
  LET D == DOMAIN m
  IN  /\ m2 \in [D \ {b} -> NodeSet]
      /\ \A c \in D \ {b} : Leaf(m2, c) = Leaf(m, c)
      /\ \A c \in D \ {a, b, p} : Ks(m2, c) = Ks(m, c) /\ Ps(m2, c) = Ps(m, c)
      /\ TakenAt(Ks(m2, p), Ks(m, p), i) /\ TakenAt(Ps(m2, p), Ps(m, p), i + 1)
      /\ Joined(Ps(m2, a), Ps(m, a), Ps(m, b))
      /\ \A c \in D \ {b} : Up(m2, c) = IF ~ Leaf(m, a) /\ c \in Elems(Ps(m, b)) THEN a ELSE Up(m, c)
      /\ Pv(m2, a) = Pv(m, a)
      /\ \A x \in D \ {a, b} : Nx(m2, x) = Nx(m, x)
      /\ IF Leaf(m, a)
         THEN /\ JoinedKeys(Ks(m2, a), Ks(m, a), Ks(m, b))
              /\ Nx(m2, a) = Nx(m, b)
              /\ \A x \in D \ {a, b} : Pv(m2, x) = IF x = Nx(m, b) THEN a ELSE Pv(m, x)
         ELSE /\ JoinedAround(Ks(m2, a), Ks(m, a), Ks(m, p)[i], Ks(m, b))
              /\ Nx(m2, a) = Nx(m, a)
              /\ \A x \in D \ {a, b} : Pv(m2, x) = Pv(m, x)

UnitedPlaces(g, D, a, b) ==
  [c \in D \ {b} |-> IF c = a THEN [g[a] EXCEPT !.high = g[b].high] ELSE g[c]]

PlacesUnited(g, g2, D, a, b) ==
  /\ g2 \in [D \ {b} -> Place]
  /\ Ht(g2, a) = Ht(g, a) /\ Lo(g2, a) = Lo(g, a) /\ Hi(g2, a) = Hi(g, b)
  /\ \A c \in D \ {a, b} : Ht(g2, c) = Ht(g, c) /\ Lo(g2, c) = Lo(g, c) /\ Hi(g2, c) = Hi(g, c)

\* The places after a union, written out
LEMMA UnitedPlaceFacts ==
  ASSUME NEW g, NEW D, g \in [D -> Place], NEW a \in D, NEW b \in D, a # b
  PROVE  PlacesUnited(g, UnitedPlaces(g, D, a, b), D, a, b)
<1> DEFINE g2 == UnitedPlaces(g, D, a, b)
<1>1. g[a] \in Place /\ g[b] \in Place /\ \A c \in D : g[c] \in Place
  OBVIOUS
<1>2. [g[a] EXCEPT !.high = g[b].high] \in Place
  BY <1>1 DEF Place
<1>3. g2 \in [D \ {b} -> Place]
  BY <1>1, <1>2 DEF UnitedPlaces
<1>4. g2[a] = [g[a] EXCEPT !.high = g[b].high]
  BY DEF UnitedPlaces
<1>5. \A c \in D \ {a, b} : g2[c] = g[c]
  BY DEF UnitedPlaces
<1> HIDE DEF g2
<1>6. Ht(g2, a) = Ht(g, a) /\ Lo(g2, a) = Lo(g, a) /\ Hi(g2, a) = Hi(g, b)
  BY <1>1, <1>4 DEF Ht, Lo, Hi, Place
<1>7. \A c \in D \ {a, b} : Ht(g2, c) = Ht(g, c) /\ Lo(g2, c) = Lo(g, c) /\ Hi(g2, c) = Hi(g, c)
  BY <1>5 DEF Ht, Lo, Hi
<1> QED BY <1>3, <1>6, <1>7 DEF g2, PlacesUnited

\* What the shape says of two neighbours, children i and i + 1 of p
Neighbours(m, g, a, b, p, i) ==
  /\ a \in DOMAIN m /\ b \in DOMAIN m /\ p \in DOMAIN m /\ a # b /\ a # p /\ b # p
  /\ ~ Leaf(m, p) /\ Up(m, a) = p /\ Up(m, b) = p
  /\ Ht(g, b) = Ht(g, a) /\ Leaf(m, b) = Leaf(m, a) /\ Hi(g, a) = Lo(g, b)
  /\ Ks(m, p) \in Seq(Keys) /\ Ps(m, p) \in Seq(Nat) /\ InnerFits(Ks(m, p), Ps(m, p), Lo(g, p), Hi(g, p))
  /\ Distinct(Ps(m, p)) /\ Len(Ps(m, p)) = Len(Ks(m, p)) + 1 /\ i \in 1..Len(Ks(m, p))
  /\ Ps(m, p)[i] = a /\ Ps(m, p)[i + 1] = b
  /\ Lo(g, a) = Bound(Ks(m, p), Lo(g, p), Hi(g, p), i - 1)
  /\ Hi(g, a) = Ks(m, p)[i]
  /\ Hi(g, b) = Bound(Ks(m, p), Lo(g, p), Hi(g, p), i + 1)
  /\ Lo(g, p) \in Int /\ Hi(g, p) \in Int

\* Children of one node on either side of one of its keys are neighbours.
LEMMA NeighbourFacts ==
  ASSUME NEW m, NEW root, NEW g, Shape(m, root, g), NEW p \in DOMAIN m, ~ Leaf(m, p),
         NEW i \in 1..Len(Ks(m, p)), NEW a, a = Ps(m, p)[i], NEW b, b = Ps(m, p)[i + 1]
  PROVE  Neighbours(m, g, a, b, p, i)
<1> DEFINE k == Ks(m, p)
           q == Ps(m, p)
           lo == Lo(g, p)
           hi == Hi(g, p)
<1>1. /\ k \in Seq(Keys) /\ q \in Seq(Nat) /\ InnerFits(k, q, lo, hi)
      /\ Len(k) \in Nat /\ Len(q) = Len(k) + 1 /\ Distinct(q)
      /\ \A j \in 1..Len(q) :
           /\ q[j] \in DOMAIN m /\ Up(m, q[j]) = p /\ Ht(g, p) = Ht(g, q[j]) + 1
           /\ Lo(g, q[j]) = Bound(k, lo, hi, j - 1)
           /\ Hi(g, q[j]) = Bound(k, lo, hi, j)
  BY ChildFacts
<1>2. i \in 1..Len(k) /\ a = q[i] /\ b = q[i + 1]
  OBVIOUS
<1>3. lo \in Int /\ hi \in Int
  BY NodeTypes DEF Shape
<1> HIDE DEF k, q, lo, hi
<1>4. i \in 1..Len(q) /\ i + 1 \in 1..Len(q) /\ i + 1 - 1 = i /\ i # i + 1
  BY <1>1, <1>2
<1>5. Bound(k, lo, hi, i) = k[i]
  BY <1>1, <1>2 DEF Bound
<1>6. /\ a \in DOMAIN m /\ Up(m, a) = p /\ Ht(g, p) = Ht(g, a) + 1
      /\ Lo(g, a) = Bound(k, lo, hi, i - 1) /\ Hi(g, a) = Bound(k, lo, hi, i)
  BY <1>1, <1>2, <1>4
<1>7. /\ b \in DOMAIN m /\ Up(m, b) = p /\ Ht(g, p) = Ht(g, b) + 1
      /\ Lo(g, b) = Bound(k, lo, hi, i) /\ Hi(g, b) = Bound(k, lo, hi, i + 1)
  BY <1>1, <1>2, <1>4
<1>8. a # b
  BY <1>1, <1>2, <1>4 DEF Distinct
<1>9. Ht(g, a) \in Nat /\ Ht(g, b) \in Nat /\ Ht(g, p) \in Nat /\ Leaf(m, a) \in BOOLEAN /\ Leaf(m, b) \in BOOLEAN
  BY <1>6, <1>7, NodeTypes DEF Shape
<1>10. Ht(g, b) = Ht(g, a) /\ a # p /\ b # p
  BY <1>6, <1>7, <1>9
<1>11. LeavesLow(m, g)
  BY FitsFacts DEF Shape
<1>12. Leaf(m, a) <=> Leaf(m, b)
  BY <1>6, <1>7, <1>10, <1>11 DEF LeavesLow
<1>13. Leaf(m, b) = Leaf(m, a)
  BY <1>9, <1>12
<1> QED BY <1>1, <1>2, <1>3, <1>5, <1>6, <1>7, <1>8, <1>10, <1>13 DEF Neighbours, k, q, lo, hi

\* Uniting neighbours keeps the shape of the tree and what it stores.
LEMMA UniteKeepsShape ==
  ASSUME NEW m, NEW root, NEW g, Shape(m, root, g), NEW a, NEW b, NEW p, NEW i,
         Neighbours(m, g, a, b, p, i), NEW m2, Unites(m, m2, a, b, p, i)
  PROVE  /\ Shape(m2, root, UnitedPlaces(g, DOMAIN m, a, b))
         /\ SameEntries(m, m2)
<1> DEFINE D == DOMAIN m
           g2 == UnitedPlaces(g, D, a, b)
<1>1. /\ Typed(m, g) /\ Parental(m, g) /\ Owned(m, root, g) /\ Rooted(m, root, g)
      /\ Apart(m, g) /\ Linked(m, g) /\ \A c \in D : Fits(m, g, c)
  BY DEF Shape
<1>2. /\ m2 \in [D \ {b} -> NodeSet]
      /\ \A c \in D \ {b} : Leaf(m2, c) = Leaf(m, c)
      /\ \A c \in D \ {a, b, p} : Ks(m2, c) = Ks(m, c) /\ Ps(m2, c) = Ps(m, c)
      /\ TakenAt(Ks(m2, p), Ks(m, p), i) /\ TakenAt(Ps(m2, p), Ps(m, p), i + 1)
      /\ Joined(Ps(m2, a), Ps(m, a), Ps(m, b))
      /\ \A c \in D \ {b} : Up(m2, c) = IF ~ Leaf(m, a) /\ c \in Elems(Ps(m, b)) THEN a ELSE Up(m, c)
  BY DEF Unites
<1>3. /\ a \in D /\ b \in D /\ p \in D /\ a # b /\ a # p /\ b # p
      /\ ~ Leaf(m, p) /\ Up(m, a) = p /\ Up(m, b) = p
      /\ Ht(g, b) = Ht(g, a) /\ Leaf(m, b) = Leaf(m, a) /\ Hi(g, a) = Lo(g, b)
  BY DEF Neighbours
<1>4. /\ g2 \in [D \ {b} -> Place]
      /\ Ht(g2, a) = Ht(g, a) /\ Lo(g2, a) = Lo(g, a) /\ Hi(g2, a) = Hi(g, b)
      /\ \A c \in D \ {a, b} : Ht(g2, c) = Ht(g, c) /\ Lo(g2, c) = Lo(g, c) /\ Hi(g2, c) = Hi(g, c)
  <2>1. g \in [D -> Place]
    BY <1>1 DEF Typed
  <2>2. PlacesUnited(g, g2, D, a, b)
    BY <1>3, <2>1, UnitedPlaceFacts
  <2> HIDE DEF g2
  <2> QED BY <2>2 DEF PlacesUnited
<1> HIDE DEF g2
<1>5. DOMAIN m2 = D \ {b}
  BY <1>2
<1>6. Typed(m2, g2)
  <2>1. IsFiniteSet(D \ {b}) /\ D \ {b} \subseteq Nat \ {Null}
    BY <1>1, FS_Subset DEF Typed
  <2> QED BY <1>2, <1>4, <1>5, <2>1 DEF Typed
<1>8. \A c \in D \ {b} : Ks(m2, c) \in Seq(Keys) /\ Ps(m2, c) \in Seq(Nat)
  BY <1>5, <1>6, NodeTypes
<1>9. \A c \in D : /\ Ks(m, c) \in Seq(Keys) /\ Ps(m, c) \in Seq(Nat) /\ Leaf(m, c) \in BOOLEAN
                   /\ Lo(g, c) \in Int /\ Hi(g, c) \in Int /\ Ht(g, c) \in Nat
  BY <1>1, NodeTypes
<1>10. /\ InnerFits(Ks(m2, p), Ps(m2, p), Lo(g, p), Hi(g, p))
       /\ \A c, l, h : Slot(Ks(m2, p), Ps(m2, p), Lo(g, p), Hi(g, p), c, l, h) <=>
              \/ c # a /\ c # b /\ Slot(Ks(m, p), Ps(m, p), Lo(g, p), Hi(g, p), c, l, h)
              \/ c = a /\ l = Lo(g, a) /\ h = Hi(g, b)
  <2> DEFINE k == Ks(m, p)
             q == Ps(m, p)
             k2 == Ks(m2, p)
             q2 == Ps(m2, p)
             lo == Lo(g, p)
             hi == Hi(g, p)
  <2>1. /\ k \in Seq(Keys) /\ q \in Seq(Nat) /\ InnerFits(k, q, lo, hi) /\ Distinct(q)
        /\ i \in 1..Len(k) /\ q[i] = a /\ q[i + 1] = b
        /\ Lo(g, a) = Bound(k, lo, hi, i - 1) /\ Hi(g, b) = Bound(k, lo, hi, i + 1)
        /\ lo \in Int /\ hi \in Int
    BY DEF Neighbours
  <2>2. k2 \in Seq(Keys) /\ TakenAt(k2, k, i) /\ TakenAt(q2, q, i + 1)
    BY <1>2, <1>3, <1>8
  <2> HIDE DEF k, q, k2, q2, lo, hi
  <2>3. /\ InnerFits(k2, q2, lo, hi)
        /\ \A c, l, h : Slot(k2, q2, lo, hi, c, l, h) <=>
              \/ c # q[i] /\ c # q[i + 1] /\ Slot(k, q, lo, hi, c, l, h)
              \/ c = q[i] /\ l = Bound(k, lo, hi, i - 1) /\ h = Bound(k, lo, hi, i + 1)
    BY <2>1, <2>2, Narrowed
  <2> QED BY <2>1, <2>3 DEF k, q, k2, q2, lo, hi
<1>11. /\ Fits(m2, g2, a)
       /\ Leaf(m, a) => JoinedEntries(Ks(m2, a), Ps(m2, a), Ks(m, a), Ps(m, a), Ks(m, b), Ps(m, b))
       /\ ~ Leaf(m, a) => \A c, l, h :
            HasChild(m2, g2, a, c, l, h) <=> HasChild(m, g, a, c, l, h) \/ HasChild(m, g, b, c, l, h)
  <2> DEFINE k == Ks(m2, a)
             q == Ps(m2, a)
             u == Ks(m, a)
             v == Ks(m, b)
             r == Ps(m, a)
             s == Ps(m, b)
             lo == Lo(g, a)
             hi == Hi(g, b)
             sep == Hi(g, a)
  <2>1. /\ k \in Seq(Keys) /\ q \in Seq(Nat) /\ u \in Seq(Keys) /\ v \in Seq(Keys)
        /\ r \in Seq(Nat) /\ s \in Seq(Nat) /\ lo \in Int /\ hi \in Int /\ Joined(q, r, s)
    BY <1>2, <1>3, <1>8, <1>9
  <2>2. sep \in Keys /\ sep = Ks(m, p)[i] /\ sep = Lo(g, b)
    BY ElementOfSeq DEF Neighbours
  <2>3. CASE Leaf(m, a)
    <3>1. JoinedKeys(k, u, v)
      BY <2>3 DEF Unites
    <3>2. Ht(g, a) = 0 /\ LeafFits(u, r, lo, sep) /\ LeafFits(v, s, sep, hi)
      BY <1>1, <1>3, <2>2, <2>3 DEF Fits
    <3>3. Leaf(m2, a)
      BY <1>2, <1>3, <2>3
    <3> HIDE DEF k, q, u, v, r, s, lo, hi, sep
    <3>4. Len(r) = Len(u) /\ Len(s) = Len(v)
      BY <3>2 DEF LeafFits
    <3>5. LeafFits(k, q, lo, hi) /\ JoinedEntries(k, q, u, r, v, s)
      BY <2>1, <2>2, <3>1, <3>2, <3>4, LeafParts
    <3> QED BY <1>4, <2>3, <3>2, <3>3, <3>5 DEF Fits, k, q, u, v, r, s, lo, hi
  <2>4. CASE ~ Leaf(m, a)
    <3>1. JoinedAround(k, u, sep, v)
      BY <2>2, <2>4 DEF Unites
    <3>2. Ht(g, a) > 0 /\ InnerFits(u, r, lo, sep) /\ InnerFits(v, s, sep, hi)
      BY <1>1, <1>3, <2>2, <2>4 DEF Fits
    <3>3. ~ Leaf(m2, a) /\ ~ Leaf(m, b)
      BY <1>2, <1>3, <2>4
    <3> HIDE DEF k, q, u, v, r, s, lo, hi, sep
    <3>4. Len(r) = Len(u) + 1 /\ Len(s) = Len(v) + 1
      BY <3>2 DEF InnerFits
    <3>5. /\ InnerFits(k, q, lo, hi) <=> InnerFits(u, r, lo, sep) /\ InnerFits(v, s, sep, hi)
          /\ JoinedSlots(k, q, lo, hi, u, r, sep, v, s)
      BY <2>1, <2>2, <3>1, <3>4, InnerParts
    <3>6. /\ Lo(g2, a) = lo /\ Hi(g2, a) = hi /\ Hi(g, a) = sep /\ Lo(g, b) = sep
          /\ Lo(g, a) = lo /\ Hi(g, b) = hi
      BY <1>4, <2>2 DEF lo, hi, sep
    <3>7. Fits(m2, g2, a)
      BY <1>4, <3>2, <3>3, <3>5, <3>6 DEF Fits, k, q
    <3>8. \A c, l, h :
            HasChild(m2, g2, a, c, l, h) <=> HasChild(m, g, a, c, l, h) \/ HasChild(m, g, b, c, l, h)
      BY <3>5, <3>6 DEF HasChild, JoinedSlots, k, q, u, v, r, s
    <3> QED BY <2>4, <3>7, <3>8
  <2> QED BY <1>3, <1>9, <2>3, <2>4
<1>12. \A c \in D \ {a, b, p} : /\ Fits(m2, g2, c) <=> Fits(m, g, c)
                                /\ \A x, l, h : HasChild(m2, g2, c, x, l, h) <=> HasChild(m, g, c, x, l, h)
  BY <1>2, <1>4 DEF Fits, HasChild
<1>13. Fits(m2, g2, p)
  <2>1. Ht(g, p) > 0 /\ ~ Leaf(m2, p) /\ Ht(g2, p) = Ht(g, p) /\ Lo(g2, p) = Lo(g, p) /\ Hi(g2, p) = Hi(g, p)
    BY <1>1, <1>2, <1>3, <1>4 DEF Fits
  <2> QED BY <1>10, <2>1 DEF Fits
<1>14. \A c \in DOMAIN m2 : Fits(m2, g2, c)
  BY <1>1, <1>5, <1>11, <1>12, <1>13
<1>15. Regrouped(m, g, m2, g2, {a, b}, {a}, p, Leaf(m, a), Ht(g, a))
  <2>1. Up(m2, a) = p /\ Ht(g2, a) = Ht(g, a) /\ Leaf(m2, a) = Leaf(m, a)
    <3>1. ~ Leaf(m, a) => a \notin Elems(Ps(m, b))
      <4> SUFFICES ASSUME ~ Leaf(m, a), a \in Elems(Ps(m, b)) PROVE FALSE
        OBVIOUS
      <4>1. PICK l, h : Slot(Ks(m, b), Ps(m, b), Lo(g, b), Hi(g, b), a, l, h)
        BY <1>3, <1>9, ElemSlot
      <4>2. HasChild(m, g, b, a, l, h)
        BY <4>1 DEF HasChild
      <4>3. Up(m, a) = b
        BY <1>1, <1>3, <4>2 DEF Parental
      <4> QED BY <1>3, <4>3
    <3> QED BY <1>2, <1>3, <1>4, <3>1
  <2>2. ASSUME NEW c \in D \ {a, b}, Up(m, c) \notin {a, b} PROVE Up(m2, c) = Up(m, c)
    <3>1. ~ Leaf(m, a) => c \notin Elems(Ps(m, b))
      <4> SUFFICES ASSUME ~ Leaf(m, a), c \in Elems(Ps(m, b)) PROVE FALSE
        OBVIOUS
      <4>1. PICK l, h : Slot(Ks(m, b), Ps(m, b), Lo(g, b), Hi(g, b), c, l, h)
        BY <1>3, <1>9, ElemSlot
      <4>2. HasChild(m, g, b, c, l, h)
        BY <4>1 DEF HasChild
      <4> QED BY <1>1, <1>3, <2>2, <4>2 DEF Parental
    <3> QED BY <1>2, <3>1
  <2>3. ASSUME NEW c \in D \ {a, b}, Up(m, c) \in {a, b}
        PROVE  Up(m2, c) = a /\ HasChild(m2, g2, a, c, Lo(g, c), Hi(g, c))
    <3>1. c # root
      <4>1. a # Null /\ b # Null
        BY <1>1, <1>3, NodeTypes
      <4> QED BY <1>1, <2>3, <4>1 DEF Rooted
    <3>2. ~ Leaf(m, a) /\ HasChild(m, g, Up(m, c), c, Lo(g, c), Hi(g, c))
      BY <1>1, <1>3, <2>3, <3>1 DEF Owned
    <3>3. HasChild(m2, g2, a, c, Lo(g, c), Hi(g, c))
      BY <1>11, <2>3, <3>2
    <3>4. CASE Up(m, c) = b
      <4>1. c \in Elems(Ps(m, b))
        BY <1>3, <1>9, <3>2, <3>4, SlotElem DEF HasChild
      <4> QED BY <1>2, <3>2, <3>3, <4>1
    <3>5. CASE Up(m, c) = a
      BY <1>2, <3>2, <3>3, <3>5
    <3> QED BY <2>3, <3>4, <3>5
  <2>4. \A x, l, h : HasChild(m2, g2, p, x, l, h) <=>
           \/ x \notin {a, b} /\ x \notin {a} /\ HasChild(m, g, p, x, l, h)
           \/ x \in {a} /\ l = Lo(g2, x) /\ h = Hi(g2, x)
    <3>1. Lo(g2, p) = Lo(g, p) /\ Hi(g2, p) = Hi(g, p)
      BY <1>3, <1>4
    <3> QED BY <1>4, <1>10, <3>1 DEF HasChild
  <2>5. ASSUME ~ Leaf(m, a), NEW c \in {a}, NEW x, NEW l, NEW h, HasChild(m2, g2, c, x, l, h)
        PROVE  Up(m2, x) = c /\ \E d \in {a, b} : HasChild(m, g, d, x, l, h)
    <3>1. HasChild(m, g, a, x, l, h) \/ HasChild(m, g, b, x, l, h)
      BY <1>11, <2>5
    <3>2. ~ Leaf(m, b) /\ ~ Leaf(m, a)
      BY <1>3, <2>5
    <3>3. CASE HasChild(m, g, a, x, l, h)
      <4>1. x \in D /\ Up(m, x) = a
        BY <1>1, <1>3, <3>2, <3>3 DEF Parental
      <4> QED BY <1>2, <1>3, <3>3, <4>1
    <3>4. CASE HasChild(m, g, b, x, l, h)
      <4>1. x \in D /\ Up(m, x) = b
        BY <1>1, <1>3, <3>2, <3>4 DEF Parental
      <4>2. x \in Elems(Ps(m, b))
        BY <1>3, <1>9, <3>4, SlotElem DEF HasChild
      <4> QED BY <1>2, <1>3, <3>2, <3>4, <4>1, <4>2
    <3> QED BY <3>1, <3>3, <3>4
  <2> QED BY <1>2, <1>3, <1>4, <1>5, <1>12, <2>1, <2>2, <2>3, <2>4, <2>5 DEF Regrouped
<1>16. United(m, g, m2, g2, a, b, p)
  <2>1. /\ Pv(m2, a) = Pv(m, a) /\ \A x \in D \ {a, b} : Nx(m2, x) = Nx(m, x)
        /\ IF Leaf(m, a)
           THEN /\ Nx(m2, a) = Nx(m, b)
                /\ \A x \in D \ {a, b} : Pv(m2, x) = IF x = Nx(m, b) THEN a ELSE Pv(m, x)
           ELSE /\ Nx(m2, a) = Nx(m, a)
                /\ \A x \in D \ {a, b} : Pv(m2, x) = Pv(m, x)
    BY DEF Unites
  <2> QED BY <1>3, <1>4, <1>15, <2>1 DEF United
<1>17. Parental(m2, g2) /\ Owned(m2, root, g2) /\ Rooted(m2, root, g2)
  BY <1>1, <1>15, RegroupedTree
<1>18. Apart(m2, g2) /\ Linked(m2, g2)
  <2>1. NonEmpty(m, g) /\ LeavesLow(m, g) /\ NonEmpty(m2, g2)
    BY <1>1, <1>6, <1>14, FitsFacts
  <2> QED BY <1>1, <1>6, <1>16, <2>1, UnitedHeap
<1>19. SameEntries(m, m2)
  <2> SUFFICES ASSUME NEW x, NEW d PROVE Has(m2, x, d) <=> Has(m, x, d)
    BY DEF SameEntries
  <2>1. \A c \in D \ {a, b} : Leaf(m, c) => Ks(m2, c) = Ks(m, c) /\ Ps(m2, c) = Ps(m, c)
    BY <1>2, <1>3
  <2>2. Leaf(m2, a) = Leaf(m, a) /\ \A c \in D \ {b} : Leaf(m2, c) = Leaf(m, c)
    BY <1>2, <1>3
  <2> QED BY <1>3, <1>5, <1>11, <2>1, <2>2 DEF Has, JoinedEntries
<1> QED BY <1>6, <1>14, <1>17, <1>18, <1>19 DEF Shape, g2

-----------------------------------------------------------------------------
(* Moving the border between the neighbours a and b from the key between   *)
(* them in p to sep; k and q are what the two hold together.               *)

ShiftParts(k, q, u, r, e, v, s, lf) ==
  /\ Joined(q, r, s)
  /\ IF lf THEN /\ JoinedKeys(k, u, v) /\ Len(r) = Len(u) /\ Len(s) = Len(v)
           ELSE JoinedAround(k, u, e, v) /\ Len(r) = Len(u) + 1 /\ Len(s) = Len(v) + 1

Shifts(m, m2, a, b, p, i, k, q, sep) ==
  LET D == DOMAIN m
  IN  /\ k \in Seq(Keys) /\ q \in Seq(Nat) /\ sep \in Keys /\ m2 \in [D -> NodeSet]
      /\ \A c \in D : Leaf(m2, c) = Leaf(m, c)
      /\ \A c \in D \ {a, b, p} : Ks(m2, c) = Ks(m, c) /\ Ps(m2, c) = Ps(m, c)
      /\ SetAt(Ks(m2, p), Ks(m, p), i, sep) /\ Ps(m2, p) = Ps(m, p)
      /\ ShiftParts(k, q, Ks(m, a), Ps(m, a), Ks(m, p)[i], Ks(m, b), Ps(m, b), Leaf(m, a))
      /\ ShiftParts(k, q, Ks(m2, a), Ps(m2, a), sep, Ks(m2, b), Ps(m2, b), Leaf(m, a))
      /\ Leaf(m, a) => Below(Ks(m2, a), sep, Ks(m2, b))
      /\ ~ Leaf(m, a) => /\ \A c \in Elems(Ps(m2, a)) : Up(m2, c) = a
                         /\ \A c \in Elems(Ps(m2, b)) : Up(m2, c) = b
      /\ \A c \in D : Leaf(m, a) \/ c \notin Elems(q) => Up(m2, c) = Up(m, c)
      /\ \A c \in D : Nx(m2, c) = Nx(m, c) /\ Pv(m2, c) = Pv(m, c)

ShiftedPlaces(g, D, a, b, sep) ==
  [c \in D |-> IF c = a THEN [g[a] EXCEPT !.high = sep]
               ELSE IF c = b THEN [g[b] EXCEPT !.low = sep] ELSE g[c]]

PlacesShifted(g, g2, D, a, b, sep) ==
  /\ g2 \in [D -> Place]
  /\ Ht(g2, a) = Ht(g, a) /\ Lo(g2, a) = Lo(g, a) /\ Hi(g2, a) = sep
  /\ Ht(g2, b) = Ht(g, b) /\ Lo(g2, b) = sep /\ Hi(g2, b) = Hi(g, b)
  /\ \A c \in D \ {a, b} : Ht(g2, c) = Ht(g, c) /\ Lo(g2, c) = Lo(g, c) /\ Hi(g2, c) = Hi(g, c)

\* The places after a border has moved, written out
LEMMA ShiftedPlaceFacts ==
  ASSUME NEW g, NEW D, g \in [D -> Place], NEW a \in D, NEW b \in D, a # b, NEW sep \in Int
  PROVE  PlacesShifted(g, ShiftedPlaces(g, D, a, b, sep), D, a, b, sep)
<1> DEFINE g2 == ShiftedPlaces(g, D, a, b, sep)
<1>1. g[a] \in Place /\ g[b] \in Place /\ \A c \in D : g[c] \in Place
  OBVIOUS
<1>2. [g[a] EXCEPT !.high = sep] \in Place /\ [g[b] EXCEPT !.low = sep] \in Place
  BY <1>1 DEF Place
<1>3. g2 \in [D -> Place]
  BY <1>1, <1>2 DEF ShiftedPlaces
<1>4. g2[a] = [g[a] EXCEPT !.high = sep] /\ g2[b] = [g[b] EXCEPT !.low = sep]
  BY DEF ShiftedPlaces
<1>5. \A c \in D \ {a, b} : g2[c] = g[c]
  BY DEF ShiftedPlaces
<1> HIDE DEF g2
<1>6. Ht(g2, a) = Ht(g, a) /\ Lo(g2, a) = Lo(g, a) /\ Hi(g2, a) = sep
  BY <1>1, <1>4 DEF Ht, Lo, Hi, Place
<1>7. Ht(g2, b) = Ht(g, b) /\ Lo(g2, b) = sep /\ Hi(g2, b) = Hi(g, b)
  BY <1>1, <1>4 DEF Ht, Lo, Hi, Place
<1>8. \A c \in D \ {a, b} : Ht(g2, c) = Ht(g, c) /\ Lo(g2, c) = Lo(g, c) /\ Hi(g2, c) = Hi(g, c)
  BY <1>5 DEF Ht, Lo, Hi
<1> QED BY <1>3, <1>6, <1>7, <1>8 DEF g2, PlacesShifted

\* Moving the border of neighbours keeps the shape of the tree and what it stores.
LEMMA ShiftKeepsShape ==
  ASSUME NEW m, NEW root, NEW g, Shape(m, root, g), NEW a, NEW b, NEW p, NEW i,
         Neighbours(m, g, a, b, p, i), NEW m2, NEW k1, NEW q1, NEW sep,
         Shifts(m, m2, a, b, p, i, k1, q1, sep), Lo(g, a) < sep, sep < Hi(g, b)
  PROVE  /\ Shape(m2, root, ShiftedPlaces(g, DOMAIN m, a, b, sep))
         /\ SameEntries(m, m2)
<1> DEFINE D == DOMAIN m
           g2 == ShiftedPlaces(g, D, a, b, sep)
<1>1. /\ Typed(m, g) /\ Parental(m, g) /\ Owned(m, root, g) /\ Rooted(m, root, g)
      /\ Apart(m, g) /\ Linked(m, g) /\ \A c \in D : Fits(m, g, c)
  BY DEF Shape
<1>2. /\ k1 \in Seq(Keys) /\ q1 \in Seq(Nat) /\ sep \in Keys /\ m2 \in [D -> NodeSet]
      /\ \A c \in D : Leaf(m2, c) = Leaf(m, c)
      /\ \A c \in D \ {a, b, p} : Ks(m2, c) = Ks(m, c) /\ Ps(m2, c) = Ps(m, c)
      /\ SetAt(Ks(m2, p), Ks(m, p), i, sep) /\ Ps(m2, p) = Ps(m, p)
      /\ ~ Leaf(m, a) => /\ \A c \in Elems(Ps(m2, a)) : Up(m2, c) = a
                         /\ \A c \in Elems(Ps(m2, b)) : Up(m2, c) = b
      /\ \A c \in D : Leaf(m, a) \/ c \notin Elems(q1) => Up(m2, c) = Up(m, c)
      /\ \A c \in D : Nx(m2, c) = Nx(m, c) /\ Pv(m2, c) = Pv(m, c)
  BY DEF Shifts
<1>3. /\ a \in D /\ b \in D /\ p \in D /\ a # b /\ a # p /\ b # p
      /\ ~ Leaf(m, p) /\ Up(m, a) = p /\ Up(m, b) = p
      /\ Ht(g, b) = Ht(g, a) /\ Leaf(m, b) = Leaf(m, a) /\ Hi(g, a) = Lo(g, b)
  BY DEF Neighbours
<1>4. /\ g2 \in [D -> Place]
      /\ Ht(g2, a) = Ht(g, a) /\ Lo(g2, a) = Lo(g, a) /\ Hi(g2, a) = sep
      /\ Ht(g2, b) = Ht(g, b) /\ Lo(g2, b) = sep /\ Hi(g2, b) = Hi(g, b)
      /\ \A c \in D \ {a, b} : Ht(g2, c) = Ht(g, c) /\ Lo(g2, c) = Lo(g, c) /\ Hi(g2, c) = Hi(g, c)
  <2>1. g \in [D -> Place] /\ sep \in Int
    BY <1>1, <1>2, KeysAreInts DEF Typed
  <2>2. PlacesShifted(g, g2, D, a, b, sep)
    BY <1>3, <2>1, ShiftedPlaceFacts
  <2> HIDE DEF g2
  <2> QED BY <2>2 DEF PlacesShifted
<1> HIDE DEF g2
<1>5. DOMAIN m2 = D
  BY <1>2
<1>6. Typed(m2, g2)
  BY <1>1, <1>2, <1>4, <1>5 DEF Typed
<1>8. \A c \in D : Ks(m2, c) \in Seq(Keys) /\ Ps(m2, c) \in Seq(Nat)
  BY <1>5, <1>6, NodeTypes
<1>9. \A c \in D : /\ Ks(m, c) \in Seq(Keys) /\ Ps(m, c) \in Seq(Nat) /\ Leaf(m, c) \in BOOLEAN
                   /\ Lo(g, c) \in Int /\ Hi(g, c) \in Int /\ Ht(g, c) \in Nat
  BY <1>1, NodeTypes
<1>10. /\ InnerFits(Ks(m2, p), Ps(m2, p), Lo(g, p), Hi(g, p))
       /\ \A c, l, h : Slot(Ks(m2, p), Ps(m2, p), Lo(g, p), Hi(g, p), c, l, h) <=>
              \/ c # a /\ c # b /\ Slot(Ks(m, p), Ps(m, p), Lo(g, p), Hi(g, p), c, l, h)
              \/ c = a /\ l = Lo(g, a) /\ h = sep
              \/ c = b /\ l = sep /\ h = Hi(g, b)
  <2> DEFINE k == Ks(m, p)
             q == Ps(m, p)
             k2 == Ks(m2, p)
             lo == Lo(g, p)
             hi == Hi(g, p)
  <2>1. /\ k \in Seq(Keys) /\ q \in Seq(Nat) /\ InnerFits(k, q, lo, hi) /\ Distinct(q)
        /\ i \in 1..Len(k) /\ q[i] = a /\ q[i + 1] = b
        /\ Lo(g, a) = Bound(k, lo, hi, i - 1) /\ Hi(g, b) = Bound(k, lo, hi, i + 1)
        /\ lo \in Int /\ hi \in Int
    BY DEF Neighbours
  <2>2. k2 \in Seq(Keys) /\ SetAt(k2, k, i, sep) /\ Ps(m2, p) = q /\ sep \in Keys
    BY <1>2, <1>3, <1>8
  <2> HIDE DEF k, q, k2, lo, hi
  <2>3. Bound(k, lo, hi, i - 1) < sep /\ sep < Bound(k, lo, hi, i + 1)
    BY <2>1
  <2>4. /\ InnerFits(k2, q, lo, hi)
        /\ \A c, l, h : Slot(k2, q, lo, hi, c, l, h) <=>
              \/ c # q[i] /\ c # q[i + 1] /\ Slot(k, q, lo, hi, c, l, h)
              \/ c = q[i] /\ l = Bound(k, lo, hi, i - 1) /\ h = sep
              \/ c = q[i + 1] /\ l = sep /\ h = Bound(k, lo, hi, i + 1)
    BY <2>1, <2>2, <2>3, Rekeyed
  <2> QED BY <2>1, <2>2, <2>4 DEF k, q, k2, lo, hi
<1>11. /\ Fits(m2, g2, a) /\ Fits(m2, g2, b)
       /\ Leaf(m, a) => \A x, d :
            \/ Entry(Ks(m2, a), Ps(m2, a), x, d) \/ Entry(Ks(m2, b), Ps(m2, b), x, d)
            <=> Entry(Ks(m, a), Ps(m, a), x, d) \/ Entry(Ks(m, b), Ps(m, b), x, d)
       /\ ~ Leaf(m, a) => \A c, l, h :
            HasChild(m2, g2, a, c, l, h) \/ HasChild(m2, g2, b, c, l, h) => c \in Elems(q1)
       /\ ~ Leaf(m, a) => \A c, l, h :
            HasChild(m, g, a, c, l, h) \/ HasChild(m, g, b, c, l, h) <=> 
            HasChild(m2, g2, a, c, l, h) \/ HasChild(m2, g2, b, c, l, h)
       /\ ~ Leaf(m, a) => \A c \in Elems(q1) : \E l, h :
            HasChild(m, g, a, c, l, h) \/ HasChild(m, g, b, c, l, h)
  <2> DEFINE k == k1
             q == q1
             u == Ks(m, a)
             v == Ks(m, b)
             r == Ps(m, a)
             s == Ps(m, b)
             u2 == Ks(m2, a)
             v2 == Ks(m2, b)
             r2 == Ps(m2, a)
             s2 == Ps(m2, b)
             lo == Lo(g, a)
             hi == Hi(g, b)
             e == Hi(g, a)
  <2>1. /\ k \in Seq(Keys) /\ q \in Seq(Nat) /\ u \in Seq(Keys) /\ v \in Seq(Keys)
        /\ r \in Seq(Nat) /\ s \in Seq(Nat) /\ lo \in Int /\ hi \in Int
        /\ u2 \in Seq(Keys) /\ v2 \in Seq(Keys) /\ r2 \in Seq(Nat) /\ s2 \in Seq(Nat)
        /\ sep \in Keys /\ lo < sep /\ sep < hi
    BY <1>2, <1>3, <1>8, <1>9
  <2>2. e \in Keys /\ e = Ks(m, p)[i] /\ e = Lo(g, b)
    BY ElementOfSeq DEF Neighbours
  <2>3. /\ Lo(g2, a) = lo /\ Hi(g2, a) = sep /\ Lo(g2, b) = sep /\ Hi(g2, b) = hi
        /\ Lo(g, a) = lo /\ Hi(g, a) = e /\ Lo(g, b) = e /\ Hi(g, b) = hi
    BY <1>4, <2>2
  <2>4. ShiftParts(k, q, u, r, e, v, s, Leaf(m, a)) /\ ShiftParts(k, q, u2, r2, sep, v2, s2, Leaf(m, a))
    BY <2>2 DEF Shifts
  <2>5. CASE Leaf(m, a)
    <3>1. Below(u2, sep, v2)
      BY <2>5 DEF Shifts
    <3>2. /\ Ht(g, a) = 0 /\ LeafFits(u, r, lo, e) /\ LeafFits(v, s, e, hi)
      BY <1>1, <1>3, <2>3, <2>5 DEF Fits
    <3>3. Leaf(m2, a) /\ Leaf(m2, b)
      BY <1>2, <1>3, <2>5
    <3> HIDE DEF k, q, u, v, r, s, u2, v2, r2, s2, lo, hi, e
    <3>4. /\ Joined(q, r, s) /\ JoinedKeys(k, u, v) /\ Len(r) = Len(u) /\ Len(s) = Len(v)
          /\ Joined(q, r2, s2) /\ JoinedKeys(k, u2, v2) /\ Len(r2) = Len(u2) /\ Len(s2) = Len(v2)
      BY <2>4, <2>5 DEF ShiftParts
    <3>5. LeafFits(k, q, lo, hi) /\ JoinedEntries(k, q, u, r, v, s)
      <4>1. /\ u \in Seq(Keys) /\ v \in Seq(Keys) /\ e \in Keys /\ r \in Seq(Nat) /\ s \in Seq(Nat)
            /\ Len(r) = Len(u) /\ Len(s) = Len(v) /\ lo \in Int /\ hi \in Int /\ q \in Seq(Nat)
            /\ JoinedKeys(k, u, v) /\ Joined(q, r, s)
        BY <2>1, <2>2, <3>4
      <4>2. LeafFits(u, r, lo, e) /\ LeafFits(v, s, e, hi) => LeafFits(k, q, lo, hi)
        BY <4>1, LeafParts
      <4>3. JoinedEntries(k, q, u, r, v, s)
        BY <4>1, LeafParts
      <4> QED BY <3>2, <4>2, <4>3
    <3>6. LeafFits(u2, r2, lo, sep) /\ LeafFits(v2, s2, sep, hi) /\ JoinedEntries(k, q, u2, r2, v2, s2)
      BY <2>1, <3>1, <3>4, <3>5, LeafParts
    <3>7. Fits(m2, g2, a) /\ Fits(m2, g2, b)
      BY <1>3, <1>4, <2>3, <3>2, <3>3, <3>6 DEF Fits, u2, v2, r2, s2
    <3>8. \A x, d :
            \/ Entry(Ks(m2, a), Ps(m2, a), x, d) \/ Entry(Ks(m2, b), Ps(m2, b), x, d)
            <=> Entry(Ks(m, a), Ps(m, a), x, d) \/ Entry(Ks(m, b), Ps(m, b), x, d)
      BY <3>5, <3>6 DEF JoinedEntries, u, v, r, s, u2, v2, r2, s2
    <3> QED BY <2>5, <3>7, <3>8
  <2>6. CASE ~ Leaf(m, a)
    <3>2. Ht(g, a) > 0 /\ InnerFits(u, r, lo, e) /\ InnerFits(v, s, e, hi)
      BY <1>1, <1>3, <2>3, <2>6 DEF Fits
    <3>3. ~ Leaf(m2, a) /\ ~ Leaf(m2, b)
      BY <1>2, <1>3, <2>6
    <3> HIDE DEF k, q, u, v, r, s, u2, v2, r2, s2, lo, hi, e
    <3>4. /\ Joined(q, r, s) /\ JoinedAround(k, u, e, v) /\ Len(r) = Len(u) + 1 /\ Len(s) = Len(v) + 1
          /\ Joined(q, r2, s2) /\ JoinedAround(k, u2, sep, v2)
          /\ Len(r2) = Len(u2) + 1 /\ Len(s2) = Len(v2) + 1
      BY <2>4, <2>6 DEF ShiftParts
    <3>5. /\ InnerFits(k, q, lo, hi) <=> InnerFits(u, r, lo, e) /\ InnerFits(v, s, e, hi)
          /\ JoinedSlots(k, q, lo, hi, u, r, e, v, s)
      BY <2>1, <2>2, <3>4, InnerParts
    <3>6. /\ InnerFits(k, q, lo, hi) <=> InnerFits(u2, r2, lo, sep) /\ InnerFits(v2, s2, sep, hi)
          /\ JoinedSlots(k, q, lo, hi, u2, r2, sep, v2, s2)
      BY <2>1, <3>4, InnerParts
    <3>7. Fits(m2, g2, a) /\ Fits(m2, g2, b)
      BY <1>3, <1>4, <2>3, <3>2, <3>3, <3>5, <3>6 DEF Fits, u2, v2, r2, s2
    <3>8. \A c, l, h : Slot(k, q, lo, hi, c, l, h) <=> HasChild(m, g, a, c, l, h) \/ HasChild(m, g, b, c, l, h)
      BY <2>3, <3>5 DEF HasChild, JoinedSlots, u, v, r, s
    <3>9. \A c, l, h : Slot(k, q, lo, hi, c, l, h) <=> HasChild(m2, g2, a, c, l, h) \/ HasChild(m2, g2, b, c, l, h)
      BY <2>3, <3>6 DEF HasChild, JoinedSlots, u2, v2, r2, s2
    <3>10. \A c, l, h : Slot(k, q, lo, hi, c, l, h) => c \in Elems(q)
      BY <2>1, SlotElem
    <3>11. \A c \in Elems(q) : \E l, h : Slot(k, q, lo, hi, c, l, h)
      BY <2>1, ElemSlot
    <3>12. q = q1
      BY DEF q
    <3> QED BY <2>6, <3>7, <3>8, <3>9, <3>10, <3>11, <3>12
  <2> QED BY <1>3, <1>9, <2>5, <2>6
<1>12. \A c \in D \ {a, b, p} : /\ Fits(m2, g2, c) <=> Fits(m, g, c)
                                /\ \A x, l, h : HasChild(m2, g2, c, x, l, h) <=> HasChild(m, g, c, x, l, h)
  BY <1>2, <1>4 DEF Fits, HasChild
<1>13. Fits(m2, g2, p)
  <2>1. Ht(g, p) > 0 /\ ~ Leaf(m2, p) /\ Ht(g2, p) = Ht(g, p) /\ Lo(g2, p) = Lo(g, p) /\ Hi(g2, p) = Hi(g, p)
    BY <1>1, <1>2, <1>3, <1>4 DEF Fits
  <2> QED BY <1>10, <2>1 DEF Fits
<1>14. \A c \in DOMAIN m2 : Fits(m2, g2, c)
  BY <1>1, <1>5, <1>11, <1>12, <1>13
<1>15. Regrouped(m, g, m2, g2, {a, b}, {a, b}, p, Leaf(m, a), Ht(g, a))
  <2>0. ASSUME ~ Leaf(m, a), NEW c \in Elems(q1)
        PROVE  c \in D /\ Up(m, c) \in {a, b}
    <3>1. PICK l, h : HasChild(m, g, a, c, l, h) \/ HasChild(m, g, b, c, l, h)
      BY <1>11, <2>0
    <3>2. ~ Leaf(m, a) /\ ~ Leaf(m, b)
      BY <1>3, <2>0
    <3> QED BY <1>1, <1>3, <3>1, <3>2 DEF Parental
  <2>1. \A c \in {a, b} : Up(m2, c) = p /\ Ht(g2, c) = Ht(g, a) /\ Leaf(m2, c) = Leaf(m, a)
    <3>1. Leaf(m, a) \/ (a \notin Elems(q1) /\ b \notin Elems(q1))
      BY <1>3, <2>0
    <3>2. Up(m2, a) = p /\ Up(m2, b) = p
      BY <1>2, <1>3, <3>1
    <3> QED BY <1>2, <1>3, <1>4, <3>2
  <2>2. ASSUME NEW c \in D \ {a, b}, Up(m, c) \notin {a, b} PROVE Up(m2, c) = Up(m, c)
    BY <1>2, <2>0, <2>2
  <2>3. ASSUME NEW c \in D \ {a, b}, Up(m, c) \in {a, b}
        PROVE  Up(m2, c) \in {a, b} /\ HasChild(m2, g2, Up(m2, c), c, Lo(g, c), Hi(g, c))
    <3>1. c # root
      <4>1. a # Null /\ b # Null
        BY <1>1, <1>3, NodeTypes
      <4> QED BY <1>1, <2>3, <4>1 DEF Rooted
    <3>2. ~ Leaf(m, a) /\ HasChild(m, g, Up(m, c), c, Lo(g, c), Hi(g, c))
      BY <1>1, <1>3, <2>3, <3>1 DEF Owned
    <3>3. HasChild(m2, g2, a, c, Lo(g, c), Hi(g, c)) \/ HasChild(m2, g2, b, c, Lo(g, c), Hi(g, c))
      BY <1>11, <2>3, <3>2
    <3>4. CASE HasChild(m2, g2, a, c, Lo(g, c), Hi(g, c))
      <4>1. c \in Elems(Ps(m2, a))
        BY <1>3, <1>8, <3>4, SlotElem DEF HasChild
      <4> QED BY <1>2, <3>2, <3>4, <4>1
    <3>5. CASE HasChild(m2, g2, b, c, Lo(g, c), Hi(g, c))
      <4>1. c \in Elems(Ps(m2, b))
        BY <1>3, <1>8, <3>5, SlotElem DEF HasChild
      <4> QED BY <1>2, <3>2, <3>5, <4>1
    <3> QED BY <3>3, <3>4, <3>5
  <2>4. \A x, l, h : HasChild(m2, g2, p, x, l, h) <=>
           \/ x \notin {a, b} /\ x \notin {a, b} /\ HasChild(m, g, p, x, l, h)
           \/ x \in {a, b} /\ l = Lo(g2, x) /\ h = Hi(g2, x)
    <3>1. Lo(g2, p) = Lo(g, p) /\ Hi(g2, p) = Hi(g, p)
      BY <1>3, <1>4
    <3> QED BY <1>3, <1>4, <1>10, <3>1 DEF HasChild
  <2>5. ASSUME ~ Leaf(m, a), NEW c \in {a, b}, NEW x, NEW l, NEW h, HasChild(m2, g2, c, x, l, h)
        PROVE  Up(m2, x) = c /\ \E d \in {a, b} : HasChild(m, g, d, x, l, h)
    <3>1. x \in Elems(Ps(m2, c))
      BY <1>3, <1>8, <2>5, SlotElem DEF HasChild
    <3>2. Up(m2, x) = c
      BY <1>2, <2>5, <3>1
    <3>3. HasChild(m, g, a, x, l, h) \/ HasChild(m, g, b, x, l, h)
      BY <1>11, <2>5
    <3> QED BY <3>2, <3>3
  <2>6. /\ {a, b} \subseteq D /\ {a, b} # {} /\ D = (D \ {a, b}) \cup {a, b} /\ p \in D \ {a, b}
        /\ (D \ {a, b}) \cap {a, b} = {}
    BY <1>3
  <2>7. \A c \in {a, b} : Up(m, c) = p /\ Ht(g, c) = Ht(g, a) /\ Leaf(m, c) = Leaf(m, a)
    BY <1>3
  <2>8. \A c \in D \ {a, b} : /\ Lo(g2, c) = Lo(g, c) /\ Hi(g2, c) = Hi(g, c)
                              /\ Ht(g2, c) = Ht(g, c) /\ Leaf(m2, c) = Leaf(m, c)
    BY <1>2, <1>4
  <2>9. \A c \in (D \ {a, b}) \ {p} : ~ Leaf(m, c) =>
          \A x, l, h : HasChild(m2, g2, c, x, l, h) <=> HasChild(m, g, c, x, l, h)
    BY <1>12
  <2> QED BY <1>3, <1>5, <2>1, <2>2, <2>3, <2>4, <2>5, <2>6, <2>7, <2>8, <2>9 DEF Regrouped
<1>16. Shifted(m, g, m2, g2, a, b, p)
  BY <1>2, <1>3, <1>4, <1>15 DEF Shifted
<1>17. Parental(m2, g2) /\ Owned(m2, root, g2) /\ Rooted(m2, root, g2)
  BY <1>1, <1>15, RegroupedTree
<1>18. Apart(m2, g2) /\ Linked(m2, g2)
  <2>1. NonEmpty(m, g) /\ LeavesLow(m, g) /\ NonEmpty(m2, g2)
    BY <1>1, <1>6, <1>14, FitsFacts
  <2> QED BY <1>1, <1>6, <1>16, <2>1, ShiftedHeap
<1>19. SameEntries(m, m2)
  <2> SUFFICES ASSUME NEW x, NEW d PROVE Has(m2, x, d) <=> Has(m, x, d)
    BY DEF SameEntries
  <2>1. \A c \in D \ {a, b} : Leaf(m, c) => Ks(m2, c) = Ks(m, c) /\ Ps(m2, c) = Ps(m, c)
    BY <1>2, <1>3
  <2>2. Leaf(m2, a) = Leaf(m, a) /\ Leaf(m2, b) = Leaf(m, a) /\ \A c \in D : Leaf(m2, c) = Leaf(m, c)
    BY <1>2, <1>3
  <2> QED BY <1>3, <1>5, <1>11, <2>1, <2>2 DEF Has
<1> QED BY <1>6, <1>14, <1>17, <1>18, <1>19 DEF Shape, g2

-----------------------------------------------------------------------------
(* A new root r above the root a, which is its only child, and back; the   *)
(* contents of a leaf; the first leaf.                                     *)

SameNodes(m, m2, C) ==
  \A c \in C : /\ Leaf(m2, c) = Leaf(m, c) /\ Ks(m2, c) = Ks(m, c) /\ Ps(m2, c) = Ps(m, c)
               /\ Nx(m2, c) = Nx(m, c) /\ Pv(m2, c) = Pv(m, c)

Roots(m, m2, a, r) ==
  LET D == DOMAIN m
  IN  /\ r \notin D /\ r \in Nat \ {Null} /\ m2 \in [D \cup {r} -> NodeSet]
      /\ SameNodes(m, m2, D)
      /\ \A c \in D : Up(m2, c) = IF c = a THEN r ELSE Up(m, c)
      /\ ~ Leaf(m2, r) /\ Ks(m2, r) = <<>> /\ Ps(m2, r) = <<a>>
      /\ Nx(m2, r) = Null /\ Pv(m2, r) = Null /\ Up(m2, r) = Null

RootedPlaces(g, D, a, r) ==
  [c \in D \cup {r} |-> IF c = r THEN [height |-> g[a].height + 1, low |-> IntMin, high |-> High]
                        ELSE g[c]]

\* The only child of a node without keys
OnlyChild(k, q, a) == Len(k) = 0 /\ Len(q) = 1 /\ q[1] = a

OnlySlot(k, q, lo, hi, a) == \A c, l, h : Slot(k, q, lo, hi, c, l, h) <=> c = a /\ l = lo /\ h = hi

\* A node without keys and with one child fits any range, and so does its child.
LEMMA OnlyChildFacts ==
  ASSUME NEW k \in Seq(Keys), NEW q \in Seq(Nat), NEW lo \in Int, NEW hi \in Int,
         NEW a, OnlyChild(k, q, a)
  PROVE  /\ IntMin <= lo /\ lo < hi /\ hi <= High => InnerFits(k, q, lo, hi)
         /\ OnlySlot(k, q, lo, hi, a)
<1>1. Elems(k) = {}
  <2>1. \A x \in Elems(k) : \E i \in 1..Len(k) : k[i] = x
    BY ElemsFacts
  <2>2. 1..Len(k) = {}
    BY DEF OnlyChild
  <2> QED BY <2>1, <2>2
<1>2. Len(k) = 0 /\ Len(q) = 1 /\ q[1] = a /\ 1..Len(q) = {1}
  BY DEF OnlyChild
<1>3. Ascending(k)
  BY <1>2 DEF Ascending
<1>4. Bound(k, lo, hi, 0) = lo /\ Bound(k, lo, hi, 1) = hi
  BY <1>2 DEF Bound
<1>5. \A c, l, h : Slot(k, q, lo, hi, c, l, h) <=> c = a /\ l = lo /\ h = hi
  <2> SUFFICES ASSUME NEW c, NEW l, NEW h
               PROVE  Slot(k, q, lo, hi, c, l, h) <=> c = a /\ l = lo /\ h = hi
    OBVIOUS
  <2>1. Slot(k, q, lo, hi, c, l, h) <=>
           c = q[1] /\ l = Bound(k, lo, hi, 1 - 1) /\ h = Bound(k, lo, hi, 1)
    BY <1>2 DEF Slot
  <2>2. 1 - 1 = 0
    OBVIOUS
  <2> QED BY <1>2, <1>4, <2>1, <2>2
<1>6. IntMin <= lo /\ lo < hi /\ hi <= High => InnerFits(k, q, lo, hi)
  BY <1>1, <1>2, <1>3 DEF InnerFits
<1> QED BY <1>5, <1>6 DEF OnlySlot

\* A new root above the old one keeps the shape of the tree and what it stores.
LEMMA RootKeepsShape ==
  ASSUME NEW m, NEW a, NEW g, Shape(m, a, g), NEW m2, NEW r, Roots(m, m2, a, r)
  PROVE  /\ Shape(m2, r, RootedPlaces(g, DOMAIN m, a, r))
         /\ SameEntries(m, m2)
<1> DEFINE D == DOMAIN m
           g2 == RootedPlaces(g, D, a, r)
<1>1. /\ Typed(m, g) /\ Parental(m, g) /\ Owned(m, a, g) /\ Rooted(m, a, g)
      /\ Apart(m, g) /\ Linked(m, g) /\ \A c \in D : Fits(m, g, c)
  BY DEF Shape
<1>2. /\ r \notin D /\ r \in Nat \ {Null} /\ m2 \in [D \cup {r} -> NodeSet]
      /\ \A c \in D : /\ Leaf(m2, c) = Leaf(m, c) /\ Ks(m2, c) = Ks(m, c) /\ Ps(m2, c) = Ps(m, c)
                      /\ Nx(m2, c) = Nx(m, c) /\ Pv(m2, c) = Pv(m, c)
      /\ \A c \in D : Up(m2, c) = IF c = a THEN r ELSE Up(m, c)
      /\ ~ Leaf(m2, r) /\ Ks(m2, r) = <<>> /\ Ps(m2, r) = <<a>>
      /\ Nx(m2, r) = Null /\ Pv(m2, r) = Null /\ Up(m2, r) = Null
  BY DEF Roots, SameNodes
<1>3. /\ a \in D /\ Up(m, a) = Null /\ Lo(g, a) = IntMin /\ Hi(g, a) = High
      /\ \A c \in D \ {a} : Ht(g, c) < Ht(g, a)
  BY <1>1 DEF Rooted
<1>4. \A c \in D : /\ Ks(m, c) \in Seq(Keys) /\ Ps(m, c) \in Seq(Nat) /\ Leaf(m, c) \in BOOLEAN
                   /\ Lo(g, c) \in Int /\ Hi(g, c) \in Int /\ Ht(g, c) \in Nat /\ c # Null
  BY <1>1, NodeTypes
<1>5. IntMin \in Int /\ High \in Int
  BY KeysAreInts
<1>6. /\ g2 \in [D \cup {r} -> Place]
      /\ Ht(g2, r) = Ht(g, a) + 1 /\ Lo(g2, r) = IntMin /\ Hi(g2, r) = High
      /\ \A c \in D : Ht(g2, c) = Ht(g, c) /\ Lo(g2, c) = Lo(g, c) /\ Hi(g2, c) = Hi(g, c)
  <2>1. \A c \in D : g[c] \in Place
    BY <1>1 DEF Typed
  <2>2. [height |-> g[a].height + 1, low |-> IntMin, high |-> High] \in Place
    BY <1>3, <1>5, <2>1 DEF Place
  <2>3. g2 \in [D \cup {r} -> Place]
    BY <2>1, <2>2 DEF RootedPlaces
  <2>4. g2[r] = [height |-> g[a].height + 1, low |-> IntMin, high |-> High]
    BY DEF RootedPlaces
  <2>5. \A c \in D : g2[c] = g[c]
    BY <1>2 DEF RootedPlaces
  <2> HIDE DEF g2
  <2>6. Ht(g2, r) = Ht(g, a) + 1 /\ Lo(g2, r) = IntMin /\ Hi(g2, r) = High
    BY <2>4 DEF Ht, Lo, Hi
  <2>7. \A c \in D : Ht(g2, c) = Ht(g, c) /\ Lo(g2, c) = Lo(g, c) /\ Hi(g2, c) = Hi(g, c)
    BY <2>5 DEF Ht, Lo, Hi
  <2> QED BY <2>3, <2>6, <2>7
<1> HIDE DEF g2
<1>7. DOMAIN m2 = D \cup {r}
  BY <1>2
<1>8. Typed(m2, g2)
  <2>1. IsFiniteSet(D \cup {r}) /\ D \cup {r} \subseteq Nat \ {Null}
    BY <1>1, <1>2, FS_AddElement DEF Typed
  <2> QED BY <1>2, <1>6, <1>7, <2>1 DEF Typed
<1>9. \A c \in D : /\ Fits(m2, g2, c) <=> Fits(m, g, c)
                   /\ \A x, l, h : HasChild(m2, g2, c, x, l, h) <=> HasChild(m, g, c, x, l, h)
  BY <1>2, <1>6 DEF Fits, HasChild
<1>10. Ks(m2, r) \in Seq(Keys) /\ Ps(m2, r) \in Seq(Nat) /\ OnlyChild(Ks(m2, r), Ps(m2, r), a)
  <2>1. Ks(m2, r) \in Seq(Keys) /\ Ps(m2, r) \in Seq(Nat)
    BY <1>7, <1>8, NodeTypes
  <2> QED BY <1>2, <2>1 DEF OnlyChild
<1>11. \A x, l, h : HasChild(m2, g2, r, x, l, h) <=> x = a /\ l = IntMin /\ h = High
  <2> DEFINE k == Ks(m2, r)
             q == Ps(m2, r)
  <2>1. k \in Seq(Keys) /\ q \in Seq(Nat) /\ OnlyChild(k, q, a)
    BY <1>10
  <2> HIDE DEF k, q
  <2>2. OnlySlot(k, q, IntMin, High, a)
    BY <1>5, <2>1, OnlyChildFacts
  <2> QED BY <1>6, <2>2 DEF HasChild, OnlySlot, k, q
<1>12. NonEmpty(m, g)
  BY <1>1, FitsFacts
<1>13. Fits(m2, g2, r)
  <2>1. IntMin <= IntMin /\ IntMin < High /\ High <= High
    BY <1>3, <1>5, <1>12 DEF NonEmpty
  <2>2. InnerFits(Ks(m2, r), Ps(m2, r), IntMin, High)
    BY <1>5, <1>10, <2>1, OnlyChildFacts
  <2>3. Ht(g, a) + 1 > 0
    BY <1>3, <1>4
  <2> QED BY <1>2, <1>6, <2>2, <2>3 DEF Fits
<1>14. \A c \in DOMAIN m2 : Fits(m2, g2, c)
  BY <1>1, <1>7, <1>9, <1>13
<1>15. Parental(m2, g2)
  <2> SUFFICES ASSUME NEW p \in DOMAIN m2, ~ Leaf(m2, p), NEW c, NEW l, NEW h, HasChild(m2, g2, p, c, l, h)
               PROVE  /\ c \in DOMAIN m2 /\ Up(m2, c) = p /\ Ht(g2, p) = Ht(g2, c) + 1
                      /\ l = Lo(g2, c) /\ h = Hi(g2, c)
    BY DEF Parental
  <2>1. CASE p = r
    BY <1>2, <1>3, <1>6, <1>7, <1>11, <2>1
  <2>2. CASE p # r
    <3>1. p \in D /\ ~ Leaf(m, p) /\ HasChild(m, g, p, c, l, h)
      BY <1>2, <1>7, <1>9, <2>2
    <3>2. c \in D /\ Up(m, c) = p /\ Ht(g, p) = Ht(g, c) + 1 /\ l = Lo(g, c) /\ h = Hi(g, c)
      BY <1>1, <3>1 DEF Parental
    <3>3. c # a
      BY <1>3, <1>4, <3>1, <3>2
    <3> QED BY <1>2, <1>6, <1>7, <3>1, <3>2, <3>3
  <2> QED BY <2>1, <2>2
<1>16. Owned(m2, r, g2)
  <2> SUFFICES ASSUME NEW c \in DOMAIN m2 \ {r}
               PROVE  /\ Up(m2, c) \in DOMAIN m2 /\ ~ Leaf(m2, Up(m2, c))
                      /\ HasChild(m2, g2, Up(m2, c), c, Lo(g2, c), Hi(g2, c))
    BY DEF Owned
  <2>1. CASE c = a
    <3>1. Up(m2, c) = r /\ r \in DOMAIN m2
      BY <1>2, <1>3, <1>7, <2>1
    <3>2. Lo(g2, c) = IntMin /\ Hi(g2, c) = High
      BY <1>3, <1>6, <2>1
    <3>3. HasChild(m2, g2, r, c, Lo(g2, c), Hi(g2, c))
      BY <1>11, <2>1, <3>2
    <3> QED BY <1>2, <3>1, <3>3
  <2>2. CASE c # a
    <3>1. c \in D \ {a}
      BY <1>7, <2>2
    <3> DEFINE p == Up(m, c)
    <3>2. p \in D /\ ~ Leaf(m, p) /\ HasChild(m, g, p, c, Lo(g, c), Hi(g, c))
      BY <1>1, <3>1 DEF Owned
    <3>3. Up(m2, c) = p
      BY <1>2, <3>1
    <3> HIDE DEF p
    <3>4. ~ Leaf(m2, p) /\ p \in DOMAIN m2
      BY <1>2, <1>7, <3>2
    <3>5. HasChild(m2, g2, p, c, Lo(g2, c), Hi(g2, c))
      BY <1>6, <1>9, <3>1, <3>2
    <3> QED BY <3>3, <3>4, <3>5
  <2> QED BY <2>1, <2>2
<1>17. Rooted(m2, r, g2)
  <2>1. ASSUME NEW c \in D PROVE Ht(g, c) < Ht(g, a) + 1
    <3>1. Ht(g, c) \in Nat /\ Ht(g, a) \in Nat /\ (Ht(g, c) < Ht(g, a) \/ c = a)
      BY <1>3, <1>4
    <3> QED BY <3>1
  <2> QED BY <1>2, <1>6, <1>7, <2>1 DEF Rooted
<1>18. Apart(m2, g2)
  <2>1. ASSUME NEW c \in D PROVE Ht(g2, c) # Ht(g2, r)
    <3>1. Ht(g, c) \in Nat /\ Ht(g, a) \in Nat /\ (Ht(g, c) < Ht(g, a) \/ c = a)
      BY <1>3, <1>4
    <3>2. Ht(g2, c) = Ht(g, c) /\ Ht(g2, r) = Ht(g, a) + 1
      BY <1>6
    <3> QED BY <3>1, <3>2
  <2> QED BY <1>1, <1>6, <1>7, <2>1 DEF Apart
<1>19. Linked(m2, g2)
  BY <1>1, <1>2, <1>6, <1>7 DEF Linked, NextOK, PrevOK
<1>20. SameEntries(m, m2)
  BY <1>2, <1>7 DEF SameEntries, Has
<1> QED BY <1>8, <1>14, <1>15, <1>16, <1>17, <1>18, <1>19, <1>20 DEF Shape, g2

Collapses(m, m2, r, c) ==
  LET D == DOMAIN m
  IN  /\ r \in D /\ ~ Leaf(m, r) /\ OnlyChild(Ks(m, r), Ps(m, r), c)
      /\ m2 \in [D \ {r} -> NodeSet]
      /\ SameNodes(m, m2, D \ {r})
      /\ \A x \in D \ {r} : Up(m2, x) = IF x = c THEN Null ELSE Up(m, x)

CollapsedPlaces(g, D, r) == [c \in D \ {r} |-> g[c]]

\* Taking off a root that has one child keeps the shape and what is stored.
LEMMA CollapseKeepsShape ==
  ASSUME NEW m, NEW r, NEW g, Shape(m, r, g), NEW m2, NEW a, Collapses(m, m2, r, a)
  PROVE  /\ Shape(m2, a, CollapsedPlaces(g, DOMAIN m, r))
         /\ SameEntries(m, m2) /\ a \in DOMAIN m /\ a # r
<1> DEFINE D == DOMAIN m
           g2 == CollapsedPlaces(g, D, r)
<1>1. /\ Typed(m, g) /\ Parental(m, g) /\ Owned(m, r, g) /\ Rooted(m, r, g)
      /\ Apart(m, g) /\ Linked(m, g) /\ \A c \in D : Fits(m, g, c)
  BY DEF Shape
<1>2. /\ r \in D /\ ~ Leaf(m, r) /\ OnlyChild(Ks(m, r), Ps(m, r), a)
      /\ m2 \in [D \ {r} -> NodeSet]
      /\ \A c \in D \ {r} : /\ Leaf(m2, c) = Leaf(m, c) /\ Ks(m2, c) = Ks(m, c) /\ Ps(m2, c) = Ps(m, c)
                            /\ Nx(m2, c) = Nx(m, c) /\ Pv(m2, c) = Pv(m, c)
      /\ \A x \in D \ {r} : Up(m2, x) = IF x = a THEN Null ELSE Up(m, x)
  BY DEF Collapses, SameNodes
<1>3. /\ Up(m, r) = Null /\ Lo(g, r) = IntMin /\ Hi(g, r) = High
      /\ \A c \in D \ {r} : Ht(g, c) < Ht(g, r)
  BY <1>1 DEF Rooted
<1>4. \A c \in D : /\ Ks(m, c) \in Seq(Keys) /\ Ps(m, c) \in Seq(Nat) /\ Leaf(m, c) \in BOOLEAN
                   /\ Lo(g, c) \in Int /\ Hi(g, c) \in Int /\ Ht(g, c) \in Nat /\ c # Null
  BY <1>1, NodeTypes
<1>5. IntMin \in Int /\ High \in Int
  BY KeysAreInts
<1>6. /\ g2 \in [D \ {r} -> Place]
      /\ \A c \in D \ {r} : Ht(g2, c) = Ht(g, c) /\ Lo(g2, c) = Lo(g, c) /\ Hi(g2, c) = Hi(g, c)
  <2>1. \A c \in D : g[c] \in Place
    BY <1>1 DEF Typed
  <2>2. g2 \in [D \ {r} -> Place]
    BY <2>1 DEF CollapsedPlaces
  <2>3. \A c \in D \ {r} : g2[c] = g[c]
    BY DEF CollapsedPlaces
  <2> HIDE DEF g2
  <2>4. \A c \in D \ {r} : Ht(g2, c) = Ht(g, c) /\ Lo(g2, c) = Lo(g, c) /\ Hi(g2, c) = Hi(g, c)
    BY <2>3 DEF Ht, Lo, Hi
  <2> QED BY <2>2, <2>4
<1> HIDE DEF g2
<1>7. DOMAIN m2 = D \ {r}
  BY <1>2
<1>8. Typed(m2, g2)
  <2>1. IsFiniteSet(D \ {r}) /\ D \ {r} \subseteq Nat \ {Null}
    BY <1>1, FS_Subset DEF Typed
  <2> QED BY <1>2, <1>6, <1>7, <2>1 DEF Typed
<1>9. \A c \in D \ {r} : /\ Fits(m2, g2, c) <=> Fits(m, g, c)
                         /\ \A x, l, h : HasChild(m2, g2, c, x, l, h) <=> HasChild(m, g, c, x, l, h)
  BY <1>2, <1>6 DEF Fits, HasChild
<1>10. \A x, l, h : HasChild(m, g, r, x, l, h) <=> x = a /\ l = IntMin /\ h = High
  <2> DEFINE k == Ks(m, r)
             q == Ps(m, r)
  <2>1. k \in Seq(Keys) /\ q \in Seq(Nat) /\ OnlyChild(k, q, a)
    BY <1>2, <1>4
  <2> HIDE DEF k, q
  <2>2. OnlySlot(k, q, IntMin, High, a)
    BY <1>5, <2>1, OnlyChildFacts
  <2> QED BY <1>3, <2>2 DEF HasChild, OnlySlot, k, q
<1>11. /\ a \in D /\ Up(m, a) = r /\ Ht(g, r) = Ht(g, a) + 1 /\ Lo(g, a) = IntMin /\ Hi(g, a) = High
  BY <1>1, <1>2, <1>10 DEF Parental
<1>12. a # r
  BY <1>2, <1>4, <1>11
<1>13. \A c \in DOMAIN m2 : Fits(m2, g2, c)
  BY <1>1, <1>7, <1>9
<1>14. \A c \in D \ {r, a} : Up(m, c) # r
  <2> SUFFICES ASSUME NEW c \in D \ {r, a}, Up(m, c) = r PROVE FALSE
    OBVIOUS
  <2>1. HasChild(m, g, r, c, Lo(g, c), Hi(g, c))
    BY <1>1 DEF Owned
  <2> QED BY <1>10, <2>1
<1>15. Parental(m2, g2)
  <2> SUFFICES ASSUME NEW p \in DOMAIN m2, ~ Leaf(m2, p), NEW c, NEW l, NEW h, HasChild(m2, g2, p, c, l, h)
               PROVE  /\ c \in DOMAIN m2 /\ Up(m2, c) = p /\ Ht(g2, p) = Ht(g2, c) + 1
                      /\ l = Lo(g2, c) /\ h = Hi(g2, c)
    BY DEF Parental
  <2>1. p \in D \ {r} /\ ~ Leaf(m, p) /\ HasChild(m, g, p, c, l, h)
    BY <1>2, <1>7, <1>9
  <2>2. c \in D /\ Up(m, c) = p /\ Ht(g, p) = Ht(g, c) + 1 /\ l = Lo(g, c) /\ h = Hi(g, c)
    BY <1>1, <2>1 DEF Parental
  <2>3. c # a
    BY <1>11, <2>1, <2>2
  <2>4. c # r
    BY <1>3, <1>4, <2>1, <2>2
  <2> QED BY <1>2, <1>6, <1>7, <2>1, <2>2, <2>3, <2>4
<1>16. Owned(m2, a, g2)
  <2> SUFFICES ASSUME NEW c \in DOMAIN m2 \ {a}
               PROVE  /\ Up(m2, c) \in DOMAIN m2 /\ ~ Leaf(m2, Up(m2, c))
                      /\ HasChild(m2, g2, Up(m2, c), c, Lo(g2, c), Hi(g2, c))
    BY DEF Owned
  <2>1. c \in D \ {r, a}
    BY <1>7
  <2> DEFINE p == Up(m, c)
  <2>2. p \in D /\ ~ Leaf(m, p) /\ HasChild(m, g, p, c, Lo(g, c), Hi(g, c)) /\ p # r
    BY <1>1, <1>14, <2>1 DEF Owned
  <2>3. Up(m2, c) = p
    BY <1>2, <2>1
  <2> HIDE DEF p
  <2>4. ~ Leaf(m2, p) /\ p \in DOMAIN m2
    BY <1>2, <1>7, <2>2
  <2>5. HasChild(m2, g2, p, c, Lo(g2, c), Hi(g2, c))
    BY <1>6, <1>9, <2>1, <2>2
  <2> QED BY <2>3, <2>4, <2>5
<1>17. Rooted(m2, a, g2)
  <2>1. ASSUME NEW c \in D \ {r, a} PROVE Ht(g, c) < Ht(g, a)
    <3> DEFINE p == Up(m, c)
    <3>1. p \in D /\ ~ Leaf(m, p) /\ HasChild(m, g, p, c, Lo(g, c), Hi(g, c)) /\ p # r
      BY <1>1, <1>14, <2>1 DEF Owned
    <3>2. Ht(g, p) = Ht(g, c) + 1
      BY <1>1, <3>1 DEF Parental
    <3>3. Ht(g, p) < Ht(g, r)
      BY <1>3, <3>1
    <3>4. Ht(g, p) \in Nat /\ Ht(g, c) \in Nat /\ Ht(g, a) \in Nat
      BY <1>4, <1>11, <3>1
    <3> HIDE DEF p
    <3> QED BY <1>11, <3>2, <3>3, <3>4
  <2> QED BY <1>2, <1>6, <1>7, <1>11, <1>12, <2>1 DEF Rooted
<1>18. Apart(m2, g2)
  BY <1>1, <1>6, <1>7 DEF Apart
<1>19. Linked(m2, g2)
  <2>1. \A c \in D \ {r} : Leaf(m2, c) = Leaf(m, c) /\ Nx(m2, c) = Nx(m, c) /\ Pv(m2, c) = Pv(m, c)
    BY <1>2
  <2>2. ASSUME NEW c \in D \ {r}, ~ Leaf(m, c) PROVE Nx(m2, c) = Null /\ Pv(m2, c) = Null
    BY <1>1, <2>1, <2>2 DEF Linked
  <2>3. ASSUME NEW c \in D \ {r}, Leaf(m, c) PROVE NextOK(m2, g2, c)
    <3>1. NextOK(m, g, c)
      BY <1>1, <2>3 DEF Linked
    <3> QED BY <1>2, <1>6, <1>7, <2>1, <3>1 DEF NextOK
  <2>4. ASSUME NEW c \in D \ {r}, Leaf(m, c) PROVE PrevOK(m2, g2, c)
    <3>1. PrevOK(m, g, c)
      BY <1>1, <2>4 DEF Linked
    <3> QED BY <1>2, <1>6, <1>7, <2>1, <3>1 DEF PrevOK
  <2> QED BY <1>7, <2>1, <2>2, <2>3, <2>4 DEF Linked
<1>20. SameEntries(m, m2)
  <2>1. \A c \in D \ {r} : Leaf(m2, c) = Leaf(m, c) /\ Ks(m2, c) = Ks(m, c) /\ Ps(m2, c) = Ps(m, c)
    BY <1>2
  <2> QED BY <1>2, <1>7, <2>1 DEF SameEntries, Has
<1> QED BY <1>8, <1>11, <1>12, <1>13, <1>15, <1>16, <1>17, <1>18, <1>19, <1>20 DEF Shape, g2

\* The leaf a gets other contents, which fit its range.
Refills(m, m2, a) ==
  /\ m2 \in [DOMAIN m -> NodeSet]
  /\ SameNodes(m, m2, DOMAIN m \ {a})
  /\ Leaf(m2, a) /\ Nx(m2, a) = Nx(m, a) /\ Pv(m2, a) = Pv(m, a)
  /\ \A c \in DOMAIN m : Up(m2, c) = Up(m, c)

\* A leaf may hold any keys of its range.
LEMMA RefillKeepsShape ==
  ASSUME NEW m, NEW root, NEW g, Shape(m, root, g), NEW a \in DOMAIN m, Leaf(m, a),
         NEW m2, Refills(m, m2, a), LeafFits(Ks(m2, a), Ps(m2, a), Lo(g, a), Hi(g, a))
  PROVE  Shape(m2, root, g)
<1> DEFINE D == DOMAIN m
<1>1. /\ Typed(m, g) /\ Parental(m, g) /\ Owned(m, root, g) /\ Rooted(m, root, g)
      /\ Apart(m, g) /\ Linked(m, g) /\ \A c \in D : Fits(m, g, c)
  BY DEF Shape
<1>2. /\ m2 \in [D -> NodeSet] /\ DOMAIN m2 = D
      /\ \A c \in D \ {a} : Leaf(m2, c) = Leaf(m, c) /\ Ks(m2, c) = Ks(m, c) /\ Ps(m2, c) = Ps(m, c)
      /\ \A c \in D : Nx(m2, c) = Nx(m, c) /\ Pv(m2, c) = Pv(m, c) /\ Up(m2, c) = Up(m, c)
  BY DEF Refills, SameNodes
<1>3. Typed(m2, g)
  BY <1>1, <1>2 DEF Typed
<1>4. Leaf(m2, a)
  BY DEF Refills
<1>5. \A c \in D : Leaf(m2, c) <=> Leaf(m, c)
  BY <1>2, <1>4
<1>6. ASSUME NEW c \in D PROVE Fits(m2, g, c)
  <2>1. CASE c = a
    <3>1. Ht(g, a) = 0
      BY <1>1 DEF Fits
    <3> QED BY <1>4, <2>1, <3>1 DEF Fits
  <2>2. CASE c # a
    <3>1. Leaf(m2, c) = Leaf(m, c) /\ Ks(m2, c) = Ks(m, c) /\ Ps(m2, c) = Ps(m, c)
      BY <1>2, <2>2
    <3> QED BY <1>1, <3>1 DEF Fits
  <2> QED BY <2>1, <2>2
<1>7. \A c \in D : ~ Leaf(m, c) =>
        \A x, l, h : HasChild(m2, g, c, x, l, h) <=> HasChild(m, g, c, x, l, h)
  BY <1>2 DEF HasChild
<1>8. Parental(m2, g)
  <2> SUFFICES ASSUME NEW p \in DOMAIN m2, ~ Leaf(m2, p), NEW c, NEW l, NEW h, HasChild(m2, g, p, c, l, h)
               PROVE  /\ c \in DOMAIN m2 /\ Up(m2, c) = p /\ Ht(g, p) = Ht(g, c) + 1
                      /\ l = Lo(g, c) /\ h = Hi(g, c)
    BY DEF Parental
  <2>1. p \in D /\ ~ Leaf(m, p) /\ HasChild(m, g, p, c, l, h)
    BY <1>2, <1>5, <1>7
  <2>2. c \in D /\ Up(m, c) = p /\ Ht(g, p) = Ht(g, c) + 1 /\ l = Lo(g, c) /\ h = Hi(g, c)
    BY <1>1, <2>1 DEF Parental
  <2> QED BY <1>2, <2>2
<1>9. Owned(m2, root, g)
  <2> SUFFICES ASSUME NEW c \in DOMAIN m2 \ {root}
               PROVE  /\ Up(m2, c) \in DOMAIN m2 /\ ~ Leaf(m2, Up(m2, c))
                      /\ HasChild(m2, g, Up(m2, c), c, Lo(g, c), Hi(g, c))
    BY DEF Owned
  <2> DEFINE p == Up(m, c)
  <2>1. p \in D /\ ~ Leaf(m, p) /\ HasChild(m, g, p, c, Lo(g, c), Hi(g, c))
    BY <1>1, <1>2 DEF Owned
  <2>2. Up(m2, c) = p
    BY <1>2
  <2> HIDE DEF p
  <2> QED BY <1>2, <1>5, <1>7, <2>1, <2>2
<1>10. Rooted(m2, root, g)
  BY <1>1, <1>2 DEF Rooted
<1>11. Apart(m2, g)
  BY <1>1, <1>2 DEF Apart
<1>12. Linked(m2, g)
  <2>1. ASSUME NEW c \in D, ~ Leaf(m, c) PROVE Nx(m2, c) = Null /\ Pv(m2, c) = Null
    BY <1>1, <1>2, <2>1 DEF Linked
  <2>2. ASSUME NEW c \in D, Leaf(m, c) PROVE NextOK(m2, g, c)
    <3>1. NextOK(m, g, c)
      BY <1>1, <2>2 DEF Linked
    <3> QED BY <1>2, <1>5, <3>1 DEF NextOK
  <2>3. ASSUME NEW c \in D, Leaf(m, c) PROVE PrevOK(m2, g, c)
    <3>1. PrevOK(m, g, c)
      BY <1>1, <2>3 DEF Linked
    <3> QED BY <1>2, <1>5, <3>1 DEF PrevOK
  <2> QED BY <1>2, <1>5, <2>1, <2>2, <2>3 DEF Linked
<1> QED BY <1>2, <1>3, <1>6, <1>8, <1>9, <1>10, <1>11, <1>12 DEF Shape

\* A leaf on its own
LEMMA FirstLeafShape ==
  ASSUME NEW m, NEW a \in Nat \ {Null}, m \in [{a} -> NodeSet], Leaf(m, a),
         Up(m, a) = Null, Nx(m, a) = Null, Pv(m, a) = Null,
         LeafFits(Ks(m, a), Ps(m, a), IntMin, High)
  PROVE  \E g : Shape(m, a, g)
<1> DEFINE g == [c \in {a} |-> [height |-> 0, low |-> IntMin, high |-> High]]
<1>1. g \in [{a} -> Place]
  BY KeysAreInts DEF Place
<1>2. Ht(g, a) = 0 /\ Lo(g, a) = IntMin /\ Hi(g, a) = High
  BY DEF Ht, Lo, Hi
<1> HIDE DEF g
<1>3. DOMAIN m = {a} /\ IsFiniteSet({a})
  BY FS_Singleton
<1>4. Typed(m, g)
  BY <1>1, <1>3 DEF Typed
<1>5. Fits(m, g, a)
  BY <1>2 DEF Fits
<1>6. Parental(m, g) /\ Owned(m, a, g) /\ Rooted(m, a, g) /\ Apart(m, g)
  BY <1>2, <1>3 DEF Parental, Owned, Rooted, Apart
<1>7. Linked(m, g)
  BY <1>2, <1>3 DEF Linked, NextOK, PrevOK
<1> QED BY <1>3, <1>4, <1>5, <1>6, <1>7 DEF Shape

(***************************************************************************)
(* The operators the program is built from                                 *)
(***************************************************************************)

\* The address of a new node is not in use.
LEMMA NewAddressFacts ==
  ASSUME NEW t, IsFiniteSet(DOMAIN t.mem)
  PROVE  /\ NewAddress(t) \in Nat \ {Null} /\ NewAddress(t) \notin DOMAIN t.mem
<1> DEFINE D == DOMAIN t.mem
           n == Cardinality(D)
<1>1. n \in Nat
  BY FS_CardinalityType
<1>2. \E a \in 1..(n + 1) : a \notin D
  <2> SUFFICES ASSUME 1..(n + 1) \subseteq D PROVE FALSE
    OBVIOUS
  <2>1. Cardinality(1..(n + 1)) <= n
    BY FS_Subset
  <2>2. 1 \in Int /\ n + 1 \in Int /\ ~ (1 > n + 1) /\ n + 1 - 1 + 1 = n + 1
    BY <1>1
  <2>3. Cardinality(1..(n + 1)) = n + 1
    BY <2>2, FS_Interval
  <2> QED BY <1>1, <2>1, <2>3
<1>3. NewAddress(t) \in 1..(n + 1) /\ NewAddress(t) \notin D
  BY <1>2 DEF NewAddress
<1> QED BY <1>1, <1>3 DEF Null

\* How many leading keys are below key ...
LEMMA LowerBoundFacts ==
  ASSUME NEW k \in Seq(Keys), Ascending(k), NEW x \in Int
  PROVE  LET n == LowerBound(k, x)
         IN  /\ n \in 0..Len(k)
             /\ \A i \in 1..n : k[i] < x
             /\ \A i \in (n + 1)..Len(k) : x <= k[i]
<1> DEFINE Is(n) == (\A i \in 1..n : k[i] < x) /\ (n < Len(k) => k[n + 1] >= x)
           T == {n \in 0..Len(k) : n < Len(k) => k[n + 1] >= x}
<1>1. /\ Len(k) \in Nat /\ \A i \in 1..Len(k) : k[i] \in Int
  BY LenProperties, ElementOfSeq, KeysAreInts
<1>2. \E n \in 0..Len(k) : Is(n)
  <2>1. T \subseteq Nat /\ Len(k) \in T
    BY <1>1
  <2>2. PICK n \in T : \A j \in T : n <= j
    BY <2>1, LeastNat
  <2>3. n \in 0..Len(k) /\ (n < Len(k) => k[n + 1] >= x)
    OBVIOUS
  <2>4. ASSUME NEW i \in 1..n PROVE k[i] < x
    <3>1. i - 1 \in 0..Len(k) /\ i - 1 < Len(k) /\ i - 1 + 1 = i /\ ~ (n <= i - 1) /\ i \in 1..Len(k)
      BY <1>1, <2>3
    <3>2. i - 1 \notin T
      <4> HIDE DEF T
      <4> QED BY <2>2, <3>1
    <3>3. ~ (k[i] >= x)
      BY <3>1, <3>2
    <3> QED BY <1>1, <3>1, <3>3
  <2> QED BY <2>3, <2>4
<1> DEFINE n == LowerBound(k, x)
<1>3. n \in 0..Len(k) /\ Is(n)
  BY <1>2 DEF LowerBound
<1> HIDE DEF n
<1>4. ASSUME NEW i \in (n + 1)..Len(k) PROVE x <= k[i]
  <2>1. /\ n < Len(k) /\ n + 1 \in 1..Len(k) /\ i \in 1..Len(k)
        /\ (n + 1 < i \/ n + 1 = i)
    BY <1>1, <1>3
  <2>2. k[n + 1] >= x
    BY <1>3, <2>1
  <2>3. n + 1 < i => k[n + 1] < k[i]
    BY <2>1 DEF Ascending
  <2>4. k[n + 1] \in Int /\ k[i] \in Int
    BY <1>1, <2>1
  <2>5. CASE n + 1 < i
    BY <2>2, <2>3, <2>4, <2>5
  <2>6. CASE n + 1 = i
    BY <2>2, <2>4, <2>6
  <2> QED BY <2>1, <2>5, <2>6
<1> QED BY <1>3, <1>4 DEF n

\* ... and how many are at most key
LEMMA UpperBoundFacts ==
  ASSUME NEW k \in Seq(Keys), Ascending(k), NEW x \in Int
  PROVE  LET n == UpperBound(k, x)
         IN  /\ n \in 0..Len(k)
             /\ \A i \in 1..n : k[i] <= x
             /\ \A i \in (n + 1)..Len(k) : x < k[i]
<1> DEFINE Is(n) == (\A i \in 1..n : k[i] <= x) /\ (n < Len(k) => k[n + 1] > x)
           T == {n \in 0..Len(k) : n < Len(k) => k[n + 1] > x}
<1>1. /\ Len(k) \in Nat /\ \A i \in 1..Len(k) : k[i] \in Int
  BY LenProperties, ElementOfSeq, KeysAreInts
<1>2. \E n \in 0..Len(k) : Is(n)
  <2>1. T \subseteq Nat /\ Len(k) \in T
    BY <1>1
  <2>2. PICK n \in T : \A j \in T : n <= j
    BY <2>1, LeastNat
  <2>3. n \in 0..Len(k) /\ (n < Len(k) => k[n + 1] > x)
    OBVIOUS
  <2>4. ASSUME NEW i \in 1..n PROVE k[i] <= x
    <3>1. i - 1 \in 0..Len(k) /\ i - 1 < Len(k) /\ i - 1 + 1 = i /\ ~ (n <= i - 1) /\ i \in 1..Len(k)
      BY <1>1, <2>3
    <3>2. i - 1 \notin T
      <4> HIDE DEF T
      <4> QED BY <2>2, <3>1
    <3>3. ~ (k[i] > x)
      BY <3>1, <3>2
    <3> QED BY <1>1, <3>1, <3>3
  <2> QED BY <2>3, <2>4
<1> DEFINE n == UpperBound(k, x)
<1>3. n \in 0..Len(k) /\ Is(n)
  BY <1>2 DEF UpperBound
<1> HIDE DEF n
<1>4. ASSUME NEW i \in (n + 1)..Len(k) PROVE x < k[i]
  <2>1. /\ n < Len(k) /\ n + 1 \in 1..Len(k) /\ i \in 1..Len(k)
        /\ (n + 1 < i \/ n + 1 = i)
    BY <1>1, <1>3
  <2>2. k[n + 1] > x
    BY <1>3, <2>1
  <2>3. n + 1 < i => k[n + 1] < k[i]
    BY <2>1 DEF Ascending
  <2>4. k[n + 1] \in Int /\ k[i] \in Int
    BY <1>1, <2>1
  <2>5. CASE n + 1 < i
    BY <2>2, <2>3, <2>4, <2>5
  <2>6. CASE n + 1 = i
    BY <2>2, <2>4, <2>6
  <2> QED BY <2>1, <2>5, <2>6
<1> QED BY <1>3, <1>4 DEF n

\* The separator of two children comes after the keys below it.
LEMMA LowerBoundIs ==
  ASSUME NEW k \in Seq(Keys), NEW q, NEW lo \in Int, NEW hi \in Int, InnerFits(k, q, lo, hi),
         NEW i \in 1..(Len(k) + 1), NEW x \in Int,
         Bound(k, lo, hi, i - 1) < x, x < Bound(k, lo, hi, i)
  PROVE  LowerBound(k, x) = i - 1
<1> DEFINE n == LowerBound(k, x)
<1>1. /\ n \in 0..Len(k) /\ \A j \in 1..n : k[j] < x
      /\ \A j \in (n + 1)..Len(k) : x <= k[j]
  BY LowerBoundFacts DEF InnerFits
<1>2. /\ Len(k) \in Nat /\ \A j \in 1..Len(k) : k[j] \in Int
  BY LenProperties, ElementOfSeq, KeysAreInts
<1> HIDE DEF n
<1>3. ASSUME n < i - 1 PROVE FALSE
  <2>1. i - 1 \in 1..Len(k) /\ i - 1 \in (n + 1)..Len(k) /\ i - 1 # 0 /\ i - 1 <= Len(k)
    BY <1>1, <1>2, <1>3
  <2>2. x <= k[i - 1]
    BY <1>1, <2>1
  <2>3. Bound(k, lo, hi, i - 1) = k[i - 1]
    BY <2>1 DEF Bound
  <2> QED BY <1>2, <2>1, <2>2, <2>3
<1>4. ASSUME n > i - 1 PROVE FALSE
  <2>1. i \in 1..Len(k) /\ i \in 1..n /\ i # 0 /\ i <= Len(k)
    BY <1>1, <1>2, <1>4
  <2>2. k[i] < x
    BY <1>1, <2>1
  <2>3. Bound(k, lo, hi, i) = k[i]
    BY <2>1 DEF Bound
  <2> QED BY <1>2, <2>1, <2>2, <2>3
<1>5. n = i - 1
  BY <1>1, <1>2, <1>3, <1>4
<1> QED BY <1>5 DEF n

\* The position of an element
LEMMA PositionOfFacts ==
  ASSUME NEW S, NEW s \in Seq(S), NEW x
  PROVE  /\ x \notin Elems(s) => PositionOf(s, x) = 0
         /\ x \in Elems(s) => PositionOf(s, x) \in 1..Len(s) /\ s[PositionOf(s, x)] = x
<1>1. x \notin Elems(s) => PositionOf(s, x) = 0
  BY DEF PositionOf, Elems
<1>2. ASSUME x \in Elems(s) PROVE PositionOf(s, x) \in 1..Len(s) /\ s[PositionOf(s, x)] = x
  <2> DEFINE T == {i \in 1..Len(s) : s[i] = x}
  <2>1. Len(s) \in Nat /\ DOMAIN s = 1..Len(s)
    BY LenProperties
  <2>2. \E i \in 1..Len(s) : s[i] = x
    BY <1>2, ElemsFacts
  <2>3. T \subseteq Nat /\ T # {}
    BY <2>1, <2>2
  <2>4. PICK i \in T : \A j \in T : i <= j
    BY <2>3, LeastNat
  <2>5. ASSUME NEW j \in 1..(i - 1) PROVE s[j] # x
    <3>1. j \in 1..Len(s) /\ ~ (i <= j)
      BY <2>1
    <3>2. j \notin T
      <4> HIDE DEF T
      <4> QED BY <2>4, <3>1
    <3> QED BY <3>1, <3>2
  <2>6. i \in DOMAIN s /\ s[i] = x
    BY <2>1
  <2>7. \E j \in DOMAIN s : s[j] = x /\ \A l \in 1..(j - 1) : s[l] # x
    BY <2>5, <2>6
  <2>8. PositionOf(s, x) = CHOOSE j \in DOMAIN s : s[j] = x /\ \A l \in 1..(j - 1) : s[l] # x
    BY <1>2 DEF PositionOf, Elems
  <2> QED BY <2>1, <2>7, <2>8
<1> QED BY <1>1, <1>2

\* A heap has more nodes than its root is high.
LEMMA HeightBound ==
  ASSUME NEW m, NEW root, NEW g, Shape(m, root, g)
  PROVE  Ht(g, root) \in Nat /\ Cardinality(DOMAIN m) \in Nat /\ Ht(g, root) < Cardinality(DOMAIN m)
<1> DEFINE D == DOMAIN m
           H == Ht(g, root)
           At(h) == \E a \in D : Ht(g, a) = h
           T == {h \in 0..H : \A j \in h..H : At(j)}
<1>1. root \in D /\ H \in Nat /\ IsFiniteSet(D) /\ \A a \in D : Ht(g, a) \in Nat
  BY NodeTypes DEF Shape, Rooted, Typed
<1>2. ASSUME NEW a \in D, Ht(g, a) # 0 PROVE At(Ht(g, a) - 1)
  <2>1. ~ Leaf(m, a)
    BY <1>2 DEF Shape, Fits
  <2> DEFINE q == Ps(m, a)
             k == Ks(m, a)
  <2>2. /\ Len(k) \in Nat /\ Len(q) = Len(k) + 1
        /\ \A i \in 1..Len(q) : q[i] \in D /\ Ht(g, a) = Ht(g, q[i]) + 1
    BY <2>1, ChildFacts
  <2> HIDE DEF q, k
  <2>3. 1 \in 1..Len(q)
    BY <2>2
  <2>4. q[1] \in D /\ Ht(g, a) = Ht(g, q[1]) + 1
    BY <2>2, <2>3
  <2>5. Ht(g, q[1]) = Ht(g, a) - 1
    BY <1>1, <2>4
  <2> QED BY <2>4, <2>5
<1>3. \A j \in 0..H : At(j)
  <2>1. H \in T
    <3>1. H..H = {H}
      BY <1>1
    <3> QED BY <1>1, <3>1
  <2>2. T \subseteq Nat
    BY <1>1
  <2>3. PICK h \in T : \A j \in T : h <= j
    BY <2>1, <2>2, LeastNat
  <2>4. h \in 0..H /\ \A j \in h..H : At(j)
    <3> HIDE DEF At
    <3> QED OBVIOUS
  <2>5. h = 0
    <3> SUFFICES ASSUME h # 0 PROVE FALSE
      OBVIOUS
    <3>1. h \in h..H /\ h - 1 \in 0..H /\ ~ (h <= h - 1)
      BY <1>1, <2>4
    <3>2. PICK a \in D : Ht(g, a) = h
      BY <2>4, <3>1
    <3>3. At(h - 1)
      BY <1>2, <3>2
    <3>4. \A j \in (h - 1)..H : j = h - 1 \/ j \in h..H
      BY <1>1, <2>4
    <3>5. h - 1 \in T
      <4> HIDE DEF At
      <4> QED BY <2>4, <3>1, <3>3, <3>4
    <3> HIDE DEF T
    <3> QED BY <2>3, <3>1, <3>5
  <2> QED BY <2>4, <2>5
<1>4. Cardinality(D) \in Nat
  BY <1>1, FS_CardinalityType
<1>5. H < Cardinality(D)
  <2> SUFFICES ASSUME Cardinality(D) <= H PROVE FALSE
    BY <1>1, <1>4
  <2> DEFINE f == [j \in 0..H |-> CHOOSE a \in D : Ht(g, a) = j]
  <2>1. \A j \in 0..H : f[j] \in D /\ Ht(g, f[j]) = j
    BY <1>3
  <2>2. f \in [0..H -> D]
    BY <2>1
  <2> HIDE DEF f
  <2>3. IsFiniteSet(0..H) /\ Cardinality(0..H) = H + 1
    <3>1. 0 \in Int /\ H \in Int /\ ~ (0 > H) /\ H - 0 + 1 = H + 1
      BY <1>1
    <3> QED BY <3>1, FS_Interval
  <2>4. Cardinality(D) < Cardinality(0..H)
    BY <1>1, <1>4, <2>3
  <2>5. \E x, y \in 0..H : x # y /\ f[x] = f[y]
    BY <1>1, <2>2, <2>3, <2>4, FS_PigeonHole
  <2> QED BY <2>1, <2>5
<1> QED BY <1>1, <1>4, <1>5

\* The steps of After
StepsTo(f, S, step, a, n) ==
  /\ f \in [0..n -> S] /\ f[0] = a /\ \A i \in 1..n : f[i] = step[f[i - 1]]
  /\ After(step, a, n) = f[n]

\* The steps that After counts exist.
LEMMA AfterSteps ==
  ASSUME NEW S, NEW step \in [S -> S], NEW a \in S, NEW n \in Nat
  PROVE  \E f : StepsTo(f, S, step, a, n)
<1> DEFINE G == [ix \in (1..n) \X S |-> step[ix[2]]]
           Run(r) == r = [i \in 0..n |-> IF i = 0 THEN a ELSE step[r[i - 1]]]
<1>1. G \in [(1..n) \X S -> S]
  OBVIOUS
<1>2. PICK f : SolvesRecursion(f, n, S, a, G)
  <2> HIDE DEF G
  <2> QED BY <1>1, FiniteRecursion
<1>3. f \in [0..n -> S] /\ f[0] = a /\ \A i \in 1..n : f[i] = G[<<i, f[i - 1]>>]
  BY <1>2 DEF SolvesRecursion
<1>4. \A i \in 1..n : f[i] = step[f[i - 1]]
  <2> SUFFICES ASSUME NEW i \in 1..n PROVE f[i] = step[f[i - 1]]
    OBVIOUS
  <2>1. i - 1 \in 0..n
    OBVIOUS
  <2>2. f[i - 1] \in S
    BY <1>3, <2>1
  <2>3. G[<<i, f[i - 1]>>] = step[f[i - 1]]
    BY <2>2
  <2> HIDE DEF G
  <2> QED BY <1>3, <2>3
<1> HIDE DEF G
<1>5. Run(f)
  <2>1. \A i \in 0..n : i # 0 => i \in 1..n
    OBVIOUS
  <2>2. \A i \in 0..n : f[i] = IF i = 0 THEN a ELSE step[f[i - 1]]
    BY <1>3, <1>4, <2>1
  <2> QED BY <1>3, <2>2
<1> DEFINE run == CHOOSE r : Run(r)
<1>6. Run(run)
  <2> HIDE DEF Run
  <2> QED BY <1>5
<1>7. \A i \in 0..n : run[i] = f[i]
  <2> DEFINE T == {i \in 0..n : run[i] # f[i]}
  <2> SUFFICES ASSUME T # {} PROVE FALSE
    OBVIOUS
  <2> HIDE DEF run
  <2>1. T \subseteq Nat
    OBVIOUS
  <2>2. PICK i \in T : \A j \in T : i <= j
    BY <2>1, LeastNat
  <2>3. run[i] = IF i = 0 THEN a ELSE step[run[i - 1]]
    BY <1>6
  <2>4. i # 0
    BY <1>3, <2>3
  <2>5. i \in 1..n /\ i - 1 \in 0..n /\ ~ (i <= i - 1)
    BY <2>4
  <2>6. i - 1 \notin T
    <3> HIDE DEF T
    <3> QED BY <2>2, <2>5
  <2>7. run[i - 1] = f[i - 1]
    BY <2>5, <2>6
  <2>8. run[i] = f[i]
    BY <1>4, <2>3, <2>4, <2>5, <2>7
  <2> QED BY <2>8
<1>8. After(step, a, n) = run[n]
  BY DEF After
<1>9. n \in 0..n
  OBVIOUS
<1> HIDE DEF run
<1>10. StepsTo(f, S, step, a, n)
  BY <1>3, <1>4, <1>7, <1>8, <1>9 DEF StepsTo
<1> QED BY <1>10

\* The child to which the descent for key goes
LEMMA ChildForKey ==
  ASSUME NEW m, NEW root, NEW g, Shape(m, root, g), NEW a \in DOMAIN m, ~ Leaf(m, a),
         NEW x \in Int, Lo(g, a) <= x, x < Hi(g, a)
  PROVE  LET c == Ps(m, a)[UpperBound(Ks(m, a), x) + 1]
         IN  c \in DOMAIN m /\ Ht(g, a) = Ht(g, c) + 1 /\ Lo(g, c) <= x /\ x < Hi(g, c)
<1> DEFINE k == Ks(m, a)
           q == Ps(m, a)
           lo == Lo(g, a)
           hi == Hi(g, a)
           n == UpperBound(k, x)
<1>1. /\ k \in Seq(Keys) /\ q \in Seq(Nat) /\ InnerFits(k, q, lo, hi)
      /\ Len(k) \in Nat /\ Len(q) = Len(k) + 1
      /\ \A i \in 1..Len(q) :
           /\ q[i] \in DOMAIN m /\ Ht(g, a) = Ht(g, q[i]) + 1
           /\ Lo(g, q[i]) = Bound(k, lo, hi, i - 1) /\ Hi(g, q[i]) = Bound(k, lo, hi, i)
  BY ChildFacts
<1>2. lo <= x /\ x < hi
  OBVIOUS
<1> HIDE DEF k, q, lo, hi
<1>3. /\ n \in 0..Len(k) /\ \A i \in 1..n : k[i] <= x
      /\ \A i \in (n + 1)..Len(k) : x < k[i]
  BY <1>1, UpperBoundFacts DEF InnerFits
<1> HIDE DEF n
<1> DEFINE j == n + 1
<1>4. j \in 1..Len(q) /\ j - 1 = n
  BY <1>1, <1>3
<1>5. Bound(k, lo, hi, n) <= x
  <2>1. CASE n = 0
    BY <1>2, <2>1 DEF Bound
  <2>2. CASE n # 0
    <3>1. n \in 1..n /\ n <= Len(k)
      BY <1>1, <1>3, <2>2
    <3> QED BY <1>3, <2>2, <3>1 DEF Bound
  <2> QED BY <2>1, <2>2
<1>6. x < Bound(k, lo, hi, j)
  <2>1. CASE n = Len(k)
    <3>1. n + 1 # 0 /\ ~ (n + 1 <= Len(k))
      BY <1>1, <2>1
    <3> QED BY <1>2, <3>1 DEF Bound
  <2>2. CASE n # Len(k)
    <3>1. n + 1 # 0 /\ n + 1 <= Len(k) /\ n + 1 \in (n + 1)..Len(k)
      BY <1>1, <1>3, <2>2
    <3> QED BY <1>3, <3>1 DEF Bound
  <2> QED BY <2>1, <2>2
<1>7. /\ q[j] \in DOMAIN m /\ Ht(g, a) = Ht(g, q[j]) + 1
      /\ Lo(g, q[j]) <= x /\ x < Hi(g, q[j])
  <2> HIDE DEF j
  <2>2. /\ q[j] \in DOMAIN m /\ Ht(g, a) = Ht(g, q[j]) + 1
        /\ Lo(g, q[j]) = Bound(k, lo, hi, n) /\ Hi(g, q[j]) = Bound(k, lo, hi, j)
    BY <1>1, <1>4
  <2>3. /\ q[j] \in DOMAIN m /\ Ht(g, a) = Ht(g, q[j]) + 1
        /\ Lo(g, q[j]) <= x /\ x < Hi(g, q[j])
    BY <1>5, <1>6, <2>2
  <2> QED BY <2>3
<1> QED BY <1>7 DEF j, n, k, q

\* The descent ends at the leaf whose range has the key.
LEMMA FindLeafFacts ==
  ASSUME NEW t, NEW g, Shape(t.mem, t.root, g), NEW x \in Keys
  PROVE  LET a == FindLeaf(t, x)
         IN  a \in DOMAIN t.mem /\ Leaf(t.mem, a) /\ Lo(g, a) <= x /\ x < Hi(g, a)
<1> DEFINE m == t.mem
           D == DOMAIN m
           root == t.root
           n == Cardinality(D)
           down == [a \in D |-> IF m[a].leaf THEN a ELSE m[a].ptrs[UpperBound(m[a].keys, x) + 1]]
<1>1. Shape(m, root, g) /\ x \in Int /\ IntMin <= x /\ x < High
  BY KeysAreInts
<1>2. Ht(g, root) \in Nat /\ n \in Nat /\ Ht(g, root) < n
  BY <1>1, HeightBound
<1>3. /\ root \in D /\ Lo(g, root) = IntMin /\ Hi(g, root) = High
      /\ \A a \in D : Ht(g, a) \in Nat
  BY <1>1, NodeTypes DEF Shape, Rooted
<1>4. FindLeaf(t, x) = After(down, root, n)
  BY DEF FindLeaf
<1>5. \A a \in D : down[a] = IF Leaf(m, a) THEN a ELSE Ps(m, a)[UpperBound(Ks(m, a), x) + 1]
  BY DEF Leaf, Ks, Ps
<1>6. down = [a \in D |-> down[a]]
  OBVIOUS
<1> HIDE DEF m, root, n, down
<1>7. ASSUME NEW a \in D, ~ Leaf(m, a), Lo(g, a) <= x, x < Hi(g, a)
      PROVE  /\ down[a] \in D /\ Ht(g, a) = Ht(g, down[a]) + 1
             /\ Lo(g, down[a]) <= x /\ x < Hi(g, down[a])
  <2> DEFINE c == Ps(m, a)[UpperBound(Ks(m, a), x) + 1]
  <2>1. c \in D /\ Ht(g, a) = Ht(g, c) + 1 /\ Lo(g, c) <= x /\ x < Hi(g, c)
    BY <1>1, <1>7, ChildForKey
  <2>2. down[a] = c
    BY <1>5, <1>7
  <2> HIDE DEF c
  <2> QED BY <2>1, <2>2
<1>8. down \in [D -> D]
  <2> SUFFICES ASSUME NEW a \in D PROVE down[a] \in D
    BY <1>6
  <2>1. CASE Leaf(m, a)
    BY <1>5, <2>1
  <2>2. CASE ~ Leaf(m, a)
    <3> DEFINE k == Ks(m, a)
               q == Ps(m, a)
               j == UpperBound(k, x) + 1
    <3>1. /\ k \in Seq(Keys) /\ Ascending(k) /\ Len(k) \in Nat /\ Len(q) = Len(k) + 1
          /\ \A i \in 1..Len(q) : q[i] \in D
      BY <1>1, <2>2, ChildFacts DEF InnerFits
    <3>2. down[a] = q[j]
      BY <1>5, <2>2
    <3> HIDE DEF k, q
    <3>3. UpperBound(k, x) \in 0..Len(k)
      BY <1>1, <3>1, UpperBoundFacts
    <3>4. j \in 1..Len(q)
      BY <3>1, <3>3
    <3> HIDE DEF j
    <3> QED BY <3>1, <3>2, <3>4
  <2> QED BY <2>1, <2>2
<1>15. PICK f : StepsTo(f, D, down, root, n)
  BY <1>2, <1>3, <1>8, AfterSteps
<1>9. /\ f \in [0..n -> D] /\ f[0] = root /\ \A i \in 1..n : f[i] = down[f[i - 1]]
      /\ After(down, root, n) = f[n]
  BY <1>15 DEF StepsTo
<1> DEFINE OK(i) == /\ Lo(g, f[i]) <= x /\ x < Hi(g, f[i])
                    /\ Leaf(m, f[i]) \/ Ht(g, f[i]) + i = Ht(g, root)
           T == {i \in 0..n : ~ OK(i)}
<1>10. \A i \in 0..n : OK(i)
  <2> SUFFICES ASSUME T # {} PROVE FALSE
    OBVIOUS
  <2>1. T \subseteq Nat
    BY <1>2
  <2>2. PICK i \in T : \A j \in T : i <= j
    BY <2>1, LeastNat
  <2>3. i \in 0..n /\ ~ OK(i)
    OBVIOUS
  <2>4. i # 0
    <3>1. OK(0)
      BY <1>1, <1>2, <1>3, <1>9
    <3> HIDE DEF OK
    <3> QED BY <2>3, <3>1
  <2>5. i \in 1..n /\ i - 1 \in 0..n /\ ~ (i <= i - 1)
    BY <1>2, <2>3, <2>4
  <2>6. i - 1 \notin T
    <3> HIDE DEF T
    <3> QED BY <2>2, <2>5
  <2> DEFINE a == f[i - 1]
  <2>7. /\ a \in D /\ Lo(g, a) <= x /\ x < Hi(g, a) /\ f[i] = down[a]
        /\ Leaf(m, a) \/ Ht(g, a) + (i - 1) = Ht(g, root)
    BY <1>9, <2>5, <2>6
  <2> HIDE DEF a
  <2>8. CASE Leaf(m, a)
    <3>1. f[i] = a
      BY <1>5, <2>7, <2>8
    <3> QED BY <2>3, <2>7, <2>8, <3>1
  <2>9. CASE ~ Leaf(m, a)
    <3>1. /\ f[i] \in D /\ Ht(g, a) = Ht(g, f[i]) + 1
          /\ Lo(g, f[i]) <= x /\ x < Hi(g, f[i])
      BY <1>7, <2>7, <2>9
    <3>2. Ht(g, f[i]) + i = Ht(g, root)
      <4>1. Ht(g, f[i]) \in Nat /\ Ht(g, a) \in Nat /\ i \in Nat /\ Ht(g, a) + (i - 1) = Ht(g, root)
        BY <1>3, <2>5, <2>7, <2>9, <3>1
      <4> QED BY <3>1, <4>1
    <3> QED BY <2>3, <3>1, <3>2
  <2> QED BY <2>8, <2>9
<1>11. n \in 0..n
  BY <1>2
<1>12. OK(n) /\ f[n] \in D
  <2> HIDE DEF OK
  <2> QED BY <1>9, <1>10, <1>11
<1>13. Leaf(m, f[n])
  <2>1. Ht(g, f[n]) \in Nat
    BY <1>3, <1>12
  <2> QED BY <1>2, <1>12, <2>1
<1>14. FindLeaf(t, x) = f[n]
  BY <1>4, <1>9
<1> QED BY <1>12, <1>13, <1>14 DEF m

-----------------------------------------------------------------------------
(* Trees as records *)

IsTree(t) ==
  /\ t \in [order : Nat, root : Nat, count : Int, mem : {t.mem}]
  /\ t.mem \in [DOMAIN t.mem -> NodeSet]

SameMembers(t, u) == u.order = t.order /\ u.root = t.root /\ u.count = t.count

\* What allocating a node does
LEMMA AllocatedFacts ==
  ASSUME NEW t, IsTree(t), NEW a, NEW n
  PROVE  LET u == Allocated(t, a, n)
         IN  /\ DOMAIN u.mem = DOMAIN t.mem \cup {a}
             /\ u.mem[a] = n /\ \A c \in DOMAIN t.mem \ {a} : u.mem[c] = t.mem[c]
             /\ SameMembers(t, u)
             /\ n \in NodeSet => IsTree(u)
<1> DEFINE u == Allocated(t, a, n)
<1>1. /\ u.mem = [b \in DOMAIN t.mem \cup {a} |-> IF b = a THEN n ELSE t.mem[b]]
      /\ SameMembers(t, u)
      /\ u \in [order : Nat, root : Nat, count : Int, mem : {u.mem}]
  BY DEF IsTree, SameMembers, Allocated
<1> HIDE DEF u
<1>2. n \in NodeSet => u.mem \in [DOMAIN u.mem -> NodeSet]
  BY <1>1 DEF IsTree
<1> QED BY <1>1, <1>2 DEF IsTree, u

\* What making a node the parent of others does
LEMMA AdoptedFacts ==
  ASSUME NEW t, IsTree(t), NEW p \in Nat, NEW q
  PROVE  LET u == Adopted(t, p, q)
         IN  /\ DOMAIN u.mem = DOMAIN t.mem
             /\ \A c \in DOMAIN t.mem :
                  u.mem[c] = IF c \in Elems(q) THEN [t.mem[c] EXCEPT !.parent = p] ELSE t.mem[c]
             /\ SameMembers(t, u) /\ IsTree(u)
<1> DEFINE u == Adopted(t, p, q)
<1>1. /\ DOMAIN u.mem = DOMAIN t.mem /\ u.mem = [c \in DOMAIN t.mem |-> u.mem[c]]
      /\ \A c \in DOMAIN t.mem :
           u.mem[c] = IF c \in Elems(q) THEN [t.mem[c] EXCEPT !.parent = p] ELSE t.mem[c]
      /\ SameMembers(t, u)
      /\ u \in [order : Nat, root : Nat, count : Int, mem : {u.mem}]
  BY DEF IsTree, SameMembers, NodeSet, Adopted, Elems
<1> HIDE DEF u
<1>2. \A c \in DOMAIN t.mem : [t.mem[c] EXCEPT !.parent = p] \in NodeSet /\ t.mem[c] \in NodeSet
  BY DEF IsTree, NodeSet
<1>3. u.mem \in [DOMAIN u.mem -> NodeSet]
  BY <1>1, <1>2
<1> QED BY <1>1, <1>3 DEF IsTree, u

\* What setting the back link of a node does, if there is one
LEMMA BackLinkedFacts ==
  ASSUME NEW t, IsTree(t), NEW p \in Nat, NEW a, a = Null \/ a \in DOMAIN t.mem
  PROVE  LET u == BackLinked(t, a, p)
         IN  /\ DOMAIN u.mem = DOMAIN t.mem
             /\ \A c \in DOMAIN t.mem :
                  u.mem[c] = IF c = a /\ a # Null THEN [t.mem[c] EXCEPT !.prev = p] ELSE t.mem[c]
             /\ SameMembers(t, u) /\ IsTree(u)
<1> DEFINE u == BackLinked(t, a, p)
<1>1. CASE a = Null
  BY <1>1 DEF BackLinked, SameMembers
<1>2. CASE a # Null
  <2>1. /\ DOMAIN u.mem = DOMAIN t.mem /\ u.mem = [c \in DOMAIN t.mem |-> u.mem[c]]
        /\ \A c \in DOMAIN t.mem :
             u.mem[c] = IF c = a THEN [t.mem[c] EXCEPT !.prev = p] ELSE t.mem[c]
        /\ SameMembers(t, u)
        /\ u \in [order : Nat, root : Nat, count : Int, mem : {u.mem}]
    BY <1>2 DEF IsTree, SameMembers, NodeSet, BackLinked
  <2> HIDE DEF u
  <2>2. \A c \in DOMAIN t.mem : [t.mem[c] EXCEPT !.prev = p] \in NodeSet /\ t.mem[c] \in NodeSet
    BY DEF IsTree, NodeSet
  <2>3. u.mem \in [DOMAIN u.mem -> NodeSet]
    BY <2>1, <2>2
  <2> QED BY <1>2, <2>1, <2>3 DEF IsTree, u
<1> QED BY <1>1, <1>2

\* What deleting nodes does
LEMMA DeletedFacts ==
  ASSUME NEW t, IsTree(t), NEW C
  PROVE  LET u == Deleted(t, C)
         IN  /\ DOMAIN u.mem = DOMAIN t.mem \ C
             /\ \A c \in DOMAIN t.mem \ C : u.mem[c] = t.mem[c]
             /\ SameMembers(t, u) /\ IsTree(u)
<1> DEFINE u == Deleted(t, C)
<1>1. /\ DOMAIN u.mem = DOMAIN t.mem \ C /\ u.mem = [c \in DOMAIN t.mem \ C |-> u.mem[c]]
      /\ \A c \in DOMAIN t.mem \ C : u.mem[c] = t.mem[c]
      /\ SameMembers(t, u)
      /\ u \in [order : Nat, root : Nat, count : Int, mem : {u.mem}]
  BY DEF IsTree, SameMembers, Deleted
<1> HIDE DEF u
<1>2. u.mem \in [DOMAIN u.mem -> NodeSet]
  BY <1>1 DEF IsTree
<1> QED BY <1>1, <1>2 DEF IsTree, u

\* A list of keys or pointers in a node's place
LEMMA NodeAs ==
  ASSUME NEW n \in NodeSet
  PROVE  /\ n.leaf \in BOOLEAN /\ n.keys \in Seq(Keys) /\ n.ptrs \in Seq(Nat)
         /\ n.next \in Nat /\ n.prev \in Nat /\ n.parent \in Nat
BY DEF NodeSet

\* Lists with an element put in or taken out
LEMMA InsertAtPuts ==
  ASSUME NEW S, NEW s \in Seq(S), NEW i \in 1..(Len(s) + 1), NEW e \in S
  PROVE  SE!InsertAt(s, i, e) \in Seq(S) /\ PutAt(SE!InsertAt(s, i, e), s, i, e)
BY InsertAtFacts DEF PutAt

\* RemoveAt takes out one element.
LEMMA RemoveAtTakes ==
  ASSUME NEW S, NEW s \in Seq(S), NEW i \in 1..Len(s)
  PROVE  SE!RemoveAt(s, i) \in Seq(S) /\ TakenAt(SE!RemoveAt(s, i), s, i)
BY RemoveAtFacts DEF TakenAt

\* A node record with other keys and pointers
LEMMA NodeWith ==
  ASSUME NEW n \in NodeSet, NEW k \in Seq(Keys), NEW q \in Seq(Nat)
  PROVE  LET r == [n EXCEPT !.keys = k, !.ptrs = q]
         IN  /\ r \in NodeSet /\ r.keys = k /\ r.ptrs = q /\ r.leaf = n.leaf
             /\ r.next = n.next /\ r.prev = n.prev /\ r.parent = n.parent
BY DEF NodeSet

\* A node with another parent
LEMMA NodeUnder ==
  ASSUME NEW n \in NodeSet, NEW p \in Nat
  PROVE  LET r == [n EXCEPT !.parent = p]
         IN  /\ r \in NodeSet /\ r.keys = n.keys /\ r.ptrs = n.ptrs /\ r.leaf = n.leaf
             /\ r.next = n.next /\ r.prev = n.prev /\ r.parent = p
BY DEF NodeSet

\* A tree whose heap is m2, for the rest as t
LEMMA TreeWith ==
  ASSUME NEW t, IsTree(t), NEW u, SameMembers(t, u),
         u \in [order : Nat, root : Nat, count : Int, mem : {u.mem}],
         u.mem = [c \in DOMAIN u.mem |-> u.mem[c]], \A c \in DOMAIN u.mem : u.mem[c] \in NodeSet
  PROVE  IsTree(u)
<1>1. u.mem \in [DOMAIN u.mem -> NodeSet]
  OBVIOUS
<1> QED BY <1>1 DEF IsTree

\* The new child b and its separator key in the parent p
ChildPut(m, m2, p, b, i, key) ==
  LET D == DOMAIN m
  IN  /\ DOMAIN m2 = D
      /\ \A c \in D : Leaf(m2, c) = Leaf(m, c) /\ Nx(m2, c) = Nx(m, c) /\ Pv(m2, c) = Pv(m, c)
      /\ \A c \in D \ {b} : Up(m2, c) = Up(m, c)
      /\ Up(m2, b) = p
      /\ \A c \in D \ {p} : Ks(m2, c) = Ks(m, c) /\ Ps(m2, c) = Ps(m, c)
      /\ PutAt(Ks(m2, p), Ks(m, p), i, key) /\ PutAt(Ps(m2, p), Ps(m, p), i + 1, b)

\* What insertIntoParent writes: the child, its key and its parent pointer.
LEMMA ParentGetsChild ==
  ASSUME NEW t, IsTree(t), NEW p \in DOMAIN t.mem, NEW b \in DOMAIN t.mem, p # b,
         p \in Nat, b \in Nat, Len(Ps(t.mem, p)) = Len(Ks(t.mem, p)) + 1,
         NEW i \in 1..(Len(Ks(t.mem, p)) + 1), NEW key \in Keys
  PROVE  LET u == [t EXCEPT !.mem[b].parent = p,
                            !.mem[p].keys = SE!InsertAt(@, i, key),
                            !.mem[p].ptrs = SE!InsertAt(@, i + 1, b)]
         IN  IsTree(u) /\ SameMembers(t, u) /\ ChildPut(t.mem, u.mem, p, b, i, key)
<1> DEFINE u == [t EXCEPT !.mem[b].parent = p,
                          !.mem[p].keys = SE!InsertAt(@, i, key),
                          !.mem[p].ptrs = SE!InsertAt(@, i + 1, b)]
           k == SE!InsertAt(t.mem[p].keys, i, key)
           q == SE!InsertAt(t.mem[p].ptrs, i + 1, b)
           m == t.mem
           m2 == u.mem
<1>1. /\ DOMAIN m2 = DOMAIN m /\ m2 = [c \in DOMAIN m |-> m2[c]]
      /\ m2[b] = [m[b] EXCEPT !.parent = p]
      /\ m2[p] = [m[p] EXCEPT !.keys = k, !.ptrs = q]
      /\ \A c \in DOMAIN m \ {b, p} : m2[c] = m[c]
      /\ SameMembers(t, u)
      /\ u \in [order : Nat, root : Nat, count : Int, mem : {u.mem}]
  BY DEF IsTree, SameMembers, NodeSet
<1>2. \A c \in DOMAIN m : m[c] \in NodeSet
  BY DEF IsTree
<1>3. /\ k \in Seq(Keys) /\ PutAt(k, m[p].keys, i, key)
      /\ q \in Seq(Nat) /\ PutAt(q, m[p].ptrs, i + 1, b)
  <2> DEFINE k0 == m[p].keys
             q0 == m[p].ptrs
  <2>1. k0 \in Seq(Keys) /\ q0 \in Seq(Nat)
    BY <1>2, NodeAs
  <2>2. Len(q0) = Len(k0) + 1 /\ i \in 1..(Len(k0) + 1)
    BY DEF Ks, Ps
  <2> HIDE DEF k0, q0
  <2>3. i + 1 \in 1..(Len(q0) + 1)
    BY <2>1, <2>2, LenProperties
  <2>4. SE!InsertAt(k0, i, key) \in Seq(Keys) /\ PutAt(SE!InsertAt(k0, i, key), k0, i, key)
    BY <2>1, <2>2, InsertAtPuts
  <2>5. SE!InsertAt(q0, i + 1, b) \in Seq(Nat) /\ PutAt(SE!InsertAt(q0, i + 1, b), q0, i + 1, b)
    BY <2>1, <2>3, InsertAtPuts
  <2> QED BY <2>4, <2>5 DEF k0, q0
<1> HIDE DEF u, k, q, m
<1>4. /\ m2[p] \in NodeSet /\ m2[p].keys = k /\ m2[p].ptrs = q /\ m2[p].leaf = m[p].leaf
      /\ m2[p].next = m[p].next /\ m2[p].prev = m[p].prev /\ m2[p].parent = m[p].parent
  <2> DEFINE n == m[p]
             r == m2[p]
  <2>1. n \in NodeSet
    BY <1>2 DEF m
  <2>2. r = [n EXCEPT !.keys = k, !.ptrs = q]
    BY <1>1
  <2>3. k \in Seq(Keys) /\ q \in Seq(Nat)
    BY <1>3
  <2> HIDE DEF n, r
  <2>4. /\ r \in NodeSet /\ r.keys = k /\ r.ptrs = q /\ r.leaf = n.leaf
        /\ r.next = n.next /\ r.prev = n.prev /\ r.parent = n.parent
    BY <2>1, <2>2, <2>3 DEF NodeSet
  <2> QED BY <2>4 DEF n, r
<1>5. /\ m2[b] \in NodeSet /\ m2[b].keys = m[b].keys /\ m2[b].ptrs = m[b].ptrs /\ m2[b].leaf = m[b].leaf
      /\ m2[b].next = m[b].next /\ m2[b].prev = m[b].prev /\ m2[b].parent = p
  <2> DEFINE n == m[b]
             r == m2[b]
  <2>1. n \in NodeSet
    BY <1>2 DEF m
  <2>2. r = [n EXCEPT !.parent = p]
    BY <1>1
  <2> HIDE DEF n, r
  <2>4. /\ r \in NodeSet /\ r.keys = n.keys /\ r.ptrs = n.ptrs /\ r.leaf = n.leaf
        /\ r.next = n.next /\ r.prev = n.prev /\ r.parent = p
    BY <2>1, <2>2 DEF NodeSet
  <2> QED BY <2>4 DEF n, r
<1>6. p \in DOMAIN m /\ b \in DOMAIN m
  BY DEF m
<1>7. \A c \in DOMAIN m2 : m2[c] \in NodeSet
  BY <1>1, <1>2, <1>4, <1>5
<1>8. IsTree(u)
  BY <1>1, <1>7, TreeWith
<1>9. ChildPut(m, m2, p, b, i, key)
  <2>1. \A c \in DOMAIN m : Leaf(m2, c) = Leaf(m, c) /\ Nx(m2, c) = Nx(m, c) /\ Pv(m2, c) = Pv(m, c)
    BY <1>1, <1>4, <1>5 DEF Leaf, Nx, Pv
  <2>2. Up(m2, b) = p /\ \A c \in DOMAIN m \ {b} : Up(m2, c) = Up(m, c)
    BY <1>1, <1>4, <1>5 DEF Up
  <2>3. \A c \in DOMAIN m \ {p} : Ks(m2, c) = Ks(m, c) /\ Ps(m2, c) = Ps(m, c)
    BY <1>1, <1>5 DEF Ks, Ps
  <2>4. PutAt(Ks(m2, p), Ks(m, p), i, key) /\ PutAt(Ps(m2, p), Ps(m, p), i + 1, b)
    BY <1>3, <1>4 DEF Ks, Ps
  <2> QED BY <1>1, <2>1, <2>2, <2>3, <2>4 DEF ChildPut
<1> QED BY <1>1, <1>8, <1>9 DEF u, m


-----------------------------------------------------------------------------
(* Lists that are cut in two *)

\* A list is its first n elements and the rest.
LEMMA CutFacts ==
  ASSUME NEW S, NEW s \in Seq(S), NEW n \in 0..Len(s)
  PROVE  LET u == SubSeq(s, 1, n)
             v == SubSeq(s, n + 1, Len(s))
         IN  /\ u \in Seq(S) /\ v \in Seq(S) /\ s = u \o v
             /\ Len(u) = n /\ Len(v) = Len(s) - n
             /\ (n < Len(s) => v[1] = s[n + 1])
<1> DEFINE u == SubSeq(s, 1, n)
           v == SubSeq(s, n + 1, Len(s))
           l == Len(s)
           r == u \o v
<1>1. l \in Nat /\ n \in Nat /\ n <= l /\ n + 1 \in 1..(l + 1)
  BY LenProperties
<1>2. u \in Seq(S) /\ Len(u) = n /\ \A j \in 1..n : u[j] = s[j]
  BY PrefixFacts
<1>3. v \in Seq(S) /\ Len(v) = l - (n + 1) + 1 /\ \A j \in 1..(l - (n + 1) + 1) : v[j] = s[n + 1 + j - 1]
  BY <1>1, SuffixFacts
<1> HIDE DEF u, v
<1>4. r \in Seq(S) /\ Len(r) = Len(u) + Len(v)
      /\ (\A i \in 1..Len(u) : r[i] = u[i]) /\ \A i \in 1..Len(v) : r[Len(u) + i] = v[i]
  <2>1. u \in Seq(S) /\ v \in Seq(S)
    BY <1>2, <1>3
  <2> QED BY <2>1, JoinPositions
<1> HIDE DEF r
<1>5. Len(v) = l - n /\ Len(r) = l
  BY <1>1, <1>2, <1>3, <1>4
<1>6. \A i \in 1..l : r[i] = s[i]
  <2> SUFFICES ASSUME NEW i \in 1..l PROVE r[i] = s[i]
    OBVIOUS
  <2>1. CASE i <= n
    BY <1>1, <1>2, <1>4, <2>1
  <2>2. CASE n < i
    <3> DEFINE j == i - n
    <3>1. j \in 1..Len(v) /\ j \in 1..(l - (n + 1) + 1) /\ n + j = i /\ n + 1 + j - 1 = i
      BY <1>1, <1>5, <2>2
    <3> HIDE DEF j
    <3>2. r[n + j] = v[j]
      BY <1>2, <1>4, <3>1
    <3>3. v[j] = s[n + 1 + j - 1]
      BY <1>3, <3>1
    <3> QED BY <3>1, <3>2, <3>3
  <2> QED BY <1>1, <2>1, <2>2
<1>7. s = r
  BY <1>4, <1>5, <1>6, SeqEqual
<1>8. n < l => v[1] = s[n + 1]
  BY <1>1, <1>3
<1> QED BY <1>2, <1>3, <1>5, <1>7, <1>8 DEF u, v, r

\* A list is its first n elements, the next one and the rest.
IsAround(s, u, e, v) == s = (u \o <<e>>) \o v

\* A list falls into those before an element, the element, and those after it.
LEMMA CutAroundFacts ==
  ASSUME NEW S, NEW s \in Seq(S), NEW n \in 0..(Len(s) - 1)
  PROVE  LET u == SubSeq(s, 1, n)
             v == SubSeq(s, n + 2, Len(s))
         IN  /\ u \in Seq(S) /\ v \in Seq(S) /\ s[n + 1] \in S /\ IsAround(s, u, s[n + 1], v)
             /\ Len(u) = n /\ Len(v) = Len(s) - n - 1
<1> DEFINE u == SubSeq(s, 1, n)
           v == SubSeq(s, n + 2, Len(s))
           e == s[n + 1]
           o == <<e>>
           l == Len(s)
           w == u \o o
           r == w \o v
<1>1. l \in Nat /\ n \in Nat /\ n < l /\ n + 2 \in 1..(l + 1) /\ n \in 0..l /\ n + 1 \in 1..l
  BY LenProperties
<1>2. u \in Seq(S) /\ Len(u) = n /\ \A j \in 1..n : u[j] = s[j]
  BY <1>1, PrefixFacts
<1>3. v \in Seq(S) /\ Len(v) = l - (n + 2) + 1 /\ \A j \in 1..(l - (n + 2) + 1) : v[j] = s[n + 2 + j - 1]
  BY <1>1, SuffixFacts
<1>4. e \in S /\ o \in Seq(S) /\ Len(o) = 1 /\ o[1] = e
  <2>1. e \in S
    BY <1>1, ElementOfSeq
  <2> QED BY <2>1, OneElement
<1>5. e = s[n + 1]
  OBVIOUS
<1> HIDE DEF u, v, o, e
<1>6. w \in Seq(S) /\ Len(w) = Len(u) + Len(o)
      /\ (\A i \in 1..Len(u) : w[i] = u[i]) /\ \A i \in 1..Len(o) : w[Len(u) + i] = o[i]
  <2>1. u \in Seq(S) /\ o \in Seq(S)
    BY <1>2, <1>4
  <2> QED BY <2>1, JoinPositions
<1> HIDE DEF w
<1>7. r \in Seq(S) /\ Len(r) = Len(w) + Len(v)
      /\ (\A i \in 1..Len(w) : r[i] = w[i]) /\ \A i \in 1..Len(v) : r[Len(w) + i] = v[i]
  <2>1. w \in Seq(S) /\ v \in Seq(S)
    BY <1>3, <1>6
  <2> QED BY <2>1, JoinPositions
<1> HIDE DEF r
<1>8. Len(v) = l - n - 1 /\ Len(r) = l /\ Len(w) = n + 1
  BY <1>1, <1>2, <1>3, <1>4, <1>6, <1>7
<1>9. \A i \in 1..l : r[i] = s[i]
  <2> SUFFICES ASSUME NEW i \in 1..l PROVE r[i] = s[i]
    OBVIOUS
  <2>1. CASE i <= n
    BY <1>1, <1>2, <1>6, <1>7, <1>8, <2>1
  <2>2. CASE i = n + 1
    <3>1. w[n + 1] = o[1]
      BY <1>1, <1>2, <1>4, <1>6
    <3> QED BY <1>1, <1>4, <1>5, <1>7, <1>8, <2>2, <3>1, SMTT(30)
  <2>3. CASE n + 1 < i
    <3> DEFINE j == i - n - 1
    <3>1. j \in 1..Len(v) /\ j \in 1..(l - (n + 2) + 1) /\ n + 1 + j = i /\ n + 2 + j - 1 = i
      BY <1>1, <1>8, <2>3
    <3> HIDE DEF j
    <3>2. r[n + 1 + j] = v[j]
      BY <1>7, <1>8, <3>1
    <3>3. v[j] = s[n + 2 + j - 1]
      BY <1>3, <3>1
    <3> QED BY <3>1, <3>2, <3>3
  <2> QED BY <1>1, <2>1, <2>2, <2>3
<1>10. s = r
  BY <1>7, <1>8, <1>9, SeqEqual
<1> QED BY <1>2, <1>3, <1>4, <1>5, <1>8, <1>10 DEF u, v, r, w, o, e, IsAround

-----------------------------------------------------------------------------
(* Entries moved from one list to the next                                 *)

LastMoved(S, s, r, e, u, v) ==
  /\ u \in Seq(S) /\ v \in Seq(S) /\ e \in S /\ e = s[Len(s)] /\ u \o v = s \o r
  /\ Len(u) = Len(s) - 1 /\ Len(v) = Len(r) + 1 /\ v[1] = e
  /\ Elems(v) = Elems(r) \cup {e} /\ Elems(s) = Elems(u) \cup {e}
  /\ Len(u) \in Nat /\ Len(v) \in Nat /\ \A j \in 1..Len(u) : u[j] = s[j]

FirstMoved(S, s, r, e, u, v) ==
  /\ u \in Seq(S) /\ v \in Seq(S) /\ e \in S /\ u \o v = s \o r
  /\ Len(u) = Len(s) + 1 /\ Len(v) = Len(r) - 1
  /\ Elems(u) = Elems(s) \cup {e} /\ Elems(r) = Elems(v) \cup {e}
  /\ Len(u) \in Nat /\ Len(v) \in Nat /\ \A j \in 1..Len(v) : v[j] = r[j + 1]

\* The lists of two neighbours when the last element of the left one becomes the
\* first of the right one, the border key between them taken into account, ...
LEMMA LastMoves ==
  ASSUME NEW S, NEW s \in Seq(S), NEW r \in Seq(S), 0 < Len(s)
  PROVE  /\ LastMoved(S, s, r, SE!Last(s), SE!Front(s), <<SE!Last(s)>> \o r)
         /\ s = SE!Front(s) \o <<SE!Last(s)>>
<1> DEFINE e == SE!Last(s)
           u == SE!Front(s)
           c == <<e>>
           v == c \o r
           n == Len(s)
<1>1. n \in Nat /\ n \in 1..n /\ 1 \in 1..n /\ e = s[n]
  BY LenProperties DEF SE!Last
<1>2. e \in S
  BY <1>1, ElementOfSeq
<1>3. u \in Seq(S) /\ Len(u) = n - 1 /\ \A j \in 1..(n - 1) : u[j] = s[j]
  <2>1. n - 1 \in 0..Len(s)
    BY <1>1
  <2> DEFINE k == n - 1
  <2>2. u = SubSeq(s, 1, k)
    BY DEF SE!Front
  <2> HIDE DEF k, u
  <2>3. SubSeq(s, 1, k) \in Seq(S) /\ Len(SubSeq(s, 1, k)) = k /\ \A j \in 1..k : SubSeq(s, 1, k)[j] = s[j]
    BY <2>1, PrefixFacts DEF k
  <2> QED BY <2>2, <2>3 DEF k
<1>4. c \in Seq(S) /\ Len(c) = 1 /\ c[1] = e
  BY <1>2, OneElement
<1>5. Elems(c) = {e}
  BY ElemsOfOne
<1>6. s = u \o c
  <2>1. SubSeq(s, 1, n) = SubSeq(s, 1, n - 1) \o <<s[n]>>
    BY <1>1, SubSeqRecursiveSecond
  <2>2. SubSeq(s, 1, n) = s
    BY SubSeqFull
  <2> QED BY <1>1, <2>1, <2>2 DEF SE!Front
<1> HIDE DEF u, c, e, n
<1>7. v \in Seq(S) /\ Len(v) = Len(r) + 1 /\ v[1] = e
  <2>1. v \in Seq(S) /\ Len(v) = Len(c) + Len(r) /\ \A i \in 1..Len(c) : v[i] = c[i]
    BY <1>4, JoinPositions
  <2>2. Len(r) \in Nat
    BY LenProperties
  <2> HIDE DEF v
  <2> QED BY <1>4, <2>1, <2>2
<1>8. Elems(v) = Elems(r) \cup {e}
  <2>1. Elems(v) = Elems(c) \cup Elems(r)
    BY <1>4, ElemsOfJoin
  <2> QED BY <1>5, <2>1
<1>9. (u \o c) \o r = u \o (c \o r)
  BY <1>3, <1>4, ConcatAssociative, SMTT(30)
<1>10. Elems(s) = Elems(u) \cup {e}
  <2>1. Elems(u \o c) = Elems(u) \cup Elems(c)
    BY <1>3, <1>4, ElemsOfJoin
  <2> QED BY <1>5, <1>6, <2>1
<1>11. Len(u) \in Nat /\ Len(v) \in Nat /\ n = Len(s)
  BY <1>3, <1>7, LenProperties DEF n
<1>12. LastMoved(S, s, r, e, u, v)
  <2>1. u \o v = s \o r
    BY <1>6, <1>9
  <2> HIDE DEF v
  <2> QED BY <1>1, <1>2, <1>3, <1>7, <1>8, <1>10, <1>11, <2>1 DEF LastMoved
<1> QED BY <1>6, <1>12 DEF u, c, e, v

\* ... or the first element of the right one becomes the last of the left one
LEMMA FirstMoves ==
  ASSUME NEW S, NEW s \in Seq(S), NEW r \in Seq(S), 0 < Len(r)
  PROVE  /\ FirstMoved(S, s, r, r[1], Append(s, r[1]), Tail(r))
         /\ r = <<r[1]>> \o Tail(r)
<1> DEFINE e == r[1]
           c == <<e>>
           u == Append(s, e)
           v == Tail(r)
           n == Len(r)
<1>1. n \in Nat /\ n \in 1..n /\ 1 \in 1..n /\ r # <<>>
  BY LenProperties, EmptySeq
<1>2. e \in S
  BY <1>1, ElementOfSeq
<1>3. v \in Seq(S) /\ Len(v) = n - 1 /\ \A j \in 1..Len(v) : v[j] = r[j + 1]
  BY <1>1, HeadTailProperties
<1>4. c \in Seq(S)
  BY <1>2, OneElement
<1>5. Elems(c) = {e}
  BY ElemsOfOne
<1>6. r = c \o v
  <2>1. SubSeq(r, 1, n) = <<r[1]>> \o SubSeq(r, 1 + 1, n)
    BY <1>1, SubSeqRecursiveFirst
  <2>2. SubSeq(r, 1, n) = r
    BY SubSeqFull
  <2>3. v = SubSeq(r, 2, n)
    BY <1>1, TailIsSubSeq
  <2> QED BY <2>1, <2>2, <2>3
<1>7. u = s \o c /\ u \in Seq(S) /\ Len(u) = Len(s) + 1
  BY <1>2, AppendIsConcat, AppendProperties
<1> HIDE DEF u, v, c, e, n
<1>8. Elems(u) = Elems(s) \cup {e}
  <2>1. Elems(s \o c) = Elems(s) \cup Elems(c)
    BY <1>4, ElemsOfJoin
  <2> QED BY <1>5, <1>7, <2>1
<1>9. (s \o c) \o v = s \o (c \o v)
  BY <1>3, <1>4, ConcatAssociative
<1>10. Elems(r) = Elems(v) \cup {e}
  <2>1. Elems(c \o v) = Elems(c) \cup Elems(v)
    BY <1>3, <1>4, ElemsOfJoin
  <2> QED BY <1>5, <1>6, <2>1
<1>11. Len(u) \in Nat /\ Len(v) \in Nat /\ n = Len(r)
  BY <1>3, <1>7, LenProperties DEF n
<1>12. FirstMoved(S, s, r, e, u, v)
  <2>1. u \o v = s \o r
    BY <1>6, <1>7, <1>9
  <2> QED BY <1>2, <1>3, <1>7, <1>8, <1>10, <1>11, <2>1 DEF FirstMoved
<1> QED BY <1>6, <1>12 DEF u, c, e, v

\* The border key e of two internal nodes moves down, and the moved key up.
LEMMA BorderMoves ==
  ASSUME NEW s \in Seq(Keys), NEW r \in Seq(Keys), NEW e \in Keys
  PROVE  /\ 0 < Len(s) =>
              LET x == SE!Last(s)
              IN  IsAround((s \o <<e>>) \o r, SE!Front(s), x, <<e>> \o r)
         /\ 0 < Len(r) =>
              IsAround((s \o <<e>>) \o r, Append(s, e), r[1], Tail(r))
<1> DEFINE c == <<e>>
<1>1. c \in Seq(Keys)
  BY OneElement
<1>2. Append(s, e) = s \o c
  BY AppendIsConcat
<1>3. ASSUME 0 < Len(s)
      PROVE  IsAround((s \o c) \o r, SE!Front(s), SE!Last(s), c \o r)
  <2> DEFINE x == SE!Last(s)
             u == SE!Front(s)
  <2>1. s = u \o <<x>>
    BY <1>3, LastMoves
  <2>2. (s \o c) \o r = s \o (c \o r)
    BY <1>1, ConcatAssociative
  <2> HIDE DEF x, u
  <2>3. (s \o c) \o r = (u \o <<x>>) \o (c \o r)
    BY <2>1, <2>2
  <2>4. IsAround((s \o c) \o r, u, x, c \o r)
    BY <2>3 DEF IsAround
  <2> QED BY <2>4 DEF x, u
<1>4. ASSUME 0 < Len(r)
      PROVE  IsAround((s \o c) \o r, s \o c, r[1], Tail(r))
  <2> DEFINE x == r[1]
             d == <<x>>
             v == Tail(r)
  <2>1. r = d \o v /\ v \in Seq(Keys) /\ x \in Keys
    <3>1. FirstMoved(Keys, s, r, r[1], Append(s, r[1]), Tail(r)) /\ r = <<r[1]>> \o Tail(r)
      BY <1>4, FirstMoves
    <3> QED BY <3>1 DEF FirstMoved
  <2>2. d \in Seq(Keys)
    BY <2>1, OneElement
  <2>3. s \o c \in Seq(Keys)
    BY <1>1, ConcatProperties
  <2> DEFINE w == s \o c
  <2> HIDE DEF d, v, x, w
  <2>4. (w \o d) \o v = w \o (d \o v)
    BY <2>1, <2>2, <2>3, ConcatAssociative, SMTT(30) DEF w
  <2>5. w \o r = (w \o d) \o v
    BY <2>1, <2>4
  <2>6. IsAround(w \o r, w, x, v)
    BY <2>5 DEF IsAround, d
  <2> QED BY <2>6 DEF x, v, w
<1> QED BY <1>2, <1>3, <1>4

-----------------------------------------------------------------------------
(* The tree by its levels                                                  *)

\* The nodes n levels below the root are those whose height is n less.
AtLevel(m, root, g, n) == {b \in DOMAIN m : Ht(g, b) + n = Ht(g, root)}

\* A level has the nodes of one height.
LEMMA LevelIs ==
  ASSUME NEW t, IsTree(t), NEW g, Shape(t.mem, t.root, g), NEW n \in Nat
  PROVE  Level(t, t.root, n) = AtLevel(t.mem, t.root, g, n)
<1> DEFINE m == t.mem
           D == DOMAIN m
           root == t.root
           lev(i) == AtLevel(m, root, g, i)
           Run(r) == r = [i \in 0..n |-> IF i = 0 THEN {root} ELSE UNION {Children(t, b) : b \in r[i - 1]}]
           run == CHOOSE r : Run(r)
           f == [i \in 0..n |-> lev(i)]
<1>1. root \in D /\ \A b \in D : Ht(g, b) \in Nat /\ b # Null
  BY NodeTypes DEF Shape, Rooted
<1>2. \A a \in D : Leaf(m, a) => Children(t, a) = {}
  BY DEF Children, Leaf
<1>3. \A a \in D : ~ Leaf(m, a) => Children(t, a) = Elems(Ps(m, a))
  <2> TAKE a \in D
  <2>1. Leaf(m, a) \in BOOLEAN
    BY NodeTypes DEF Shape
  <2> QED BY <2>1 DEF Children, Leaf, Elems, Ps
<1>4. \A a \in D : \A c \in Children(t, a) : c \in D /\ Ht(g, a) = Ht(g, c) + 1
  <2> SUFFICES ASSUME NEW a \in D, NEW c \in Children(t, a) PROVE c \in D /\ Ht(g, a) = Ht(g, c) + 1
    OBVIOUS
  <2>1. ~ Leaf(m, a) /\ c \in Elems(Ps(m, a))
    BY <1>2, <1>3
  <2>2. /\ Ps(m, a) \in Seq(Nat)
        /\ \A i \in 1..Len(Ps(m, a)) : Ps(m, a)[i] \in D /\ Ht(g, a) = Ht(g, Ps(m, a)[i]) + 1
    BY <2>1, ChildFacts
  <2> QED BY <2>1, <2>2, ElemsFacts
<1>5. ASSUME NEW c, c \in D, c # root PROVE \E a \in D : c \in Children(t, a)
  <2>1. c \in DOMAIN m /\ c # root
    BY <1>5
  <2> DEFINE a == Up(m, c)
  <2>2. a \in D /\ ~ Leaf(m, a) /\ \E i \in 1..Len(Ps(m, a)) : Ps(m, a)[i] = c
    BY <2>1, ParentFacts
  <2> HIDE DEF a
  <2>3. Ps(m, a) \in Seq(Nat)
    BY <2>2, ChildFacts
  <2>4. c \in Elems(Ps(m, a))
    BY <2>2, <2>3, ElemsFacts
  <2> QED BY <1>3, <2>2, <2>4
<1>6. Level(t, root, n) = run[n]
  BY DEF Level
<1>7. lev(0) = {root}
  <2>1. \A b \in D : b # root => Ht(g, b) < Ht(g, root)
    BY DEF Shape, Rooted
  <2> QED BY <1>1, <2>1 DEF AtLevel
<1> HIDE DEF m
<1>8. \A i \in 1..n : lev(i) = UNION {Children(t, b) : b \in lev(i - 1)}
  <2> TAKE i \in 1..n
  <2>0. i \in Nat /\ i - 1 \in Nat /\ i >= 1
    OBVIOUS
  <2>1. ASSUME NEW c \in lev(i) PROVE c \in UNION {Children(t, b) : b \in lev(i - 1)}
    <3>1. c \in D /\ Ht(g, c) + i = Ht(g, root)
      BY DEF AtLevel
    <3>2. c # root
      BY <1>1, <2>0, <3>1
    <3>3. PICK a \in D : c \in Children(t, a)
      BY <1>5, <3>1, <3>2
    <3>4. Ht(g, a) + (i - 1) = Ht(g, root)
      <4>1. Ht(g, a) = Ht(g, c) + 1 /\ Ht(g, c) \in Nat /\ Ht(g, root) \in Nat
        BY <1>1, <1>4, <3>3
      <4> QED BY <2>0, <3>1, <4>1
    <3>5. a \in lev(i - 1)
      BY <3>4 DEF AtLevel
    <3> QED BY <3>3, <3>5
  <2>2. ASSUME NEW b \in lev(i - 1), NEW c \in Children(t, b) PROVE c \in lev(i)
    <3>1. b \in D /\ Ht(g, b) + (i - 1) = Ht(g, root)
      BY DEF AtLevel
    <3>2. c \in D /\ Ht(g, b) = Ht(g, c) + 1 /\ Ht(g, c) \in Nat /\ Ht(g, root) \in Nat
      BY <1>1, <1>4, <3>1
    <3>3. Ht(g, c) + i = Ht(g, root)
      BY <2>0, <3>1, <3>2
    <3> QED BY <3>2, <3>3 DEF AtLevel
  <2> QED BY <2>1, <2>2
<1> HIDE DEF lev
<1>9. Run(f)
  <2>1. \A i \in 0..n : i # 0 => i \in 1..n /\ i - 1 \in 0..n
    OBVIOUS
  <2>2. \A i \in 0..n : f[i] = IF i = 0 THEN {root} ELSE UNION {Children(t, b) : b \in f[i - 1]}
    BY <1>7, <1>8, <2>1
  <2> QED BY <2>2
<1>10. Run(run)
  <2> HIDE DEF Run
  <2> QED BY <1>9
<1>11. \A i \in 0..n : run[i] = lev(i)
  <2> DEFINE T == {i \in 0..n : run[i] # lev(i)}
  <2> SUFFICES ASSUME T # {} PROVE FALSE
    OBVIOUS
  <2> HIDE DEF run
  <2>1. T \subseteq Nat
    OBVIOUS
  <2>2. PICK i \in T : \A j \in T : i <= j
    BY <2>1, LeastNat
  <2>3. run[i] = IF i = 0 THEN {root} ELSE UNION {Children(t, b) : b \in run[i - 1]}
    BY <1>10
  <2>4. i # 0
    BY <1>7, <2>3
  <2>5. i \in 1..n /\ i - 1 \in 0..n /\ ~ (i <= i - 1)
    BY <2>4
  <2>6. i - 1 \notin T
    <3> HIDE DEF T
    <3> QED BY <2>2, <2>5
  <2>7. run[i - 1] = lev(i - 1)
    BY <2>5, <2>6
  <2>8. run[i] = lev(i)
    BY <1>8, <2>3, <2>4, <2>5, <2>7
  <2> QED BY <2>8
<1> QED
  <2>1. n \in 0..n
    OBVIOUS
  <2> HIDE DEF run
  <2> QED BY <1>6, <1>11, <2>1 DEF lev, m

\* Every node is in the tree.
LEMMA SubtreeIs ==
  ASSUME NEW t, IsTree(t), NEW g, Shape(t.mem, t.root, g)
  PROVE  Subtree(t, t.root) = DOMAIN t.mem
<1> DEFINE n == Cardinality(DOMAIN t.mem)
           H == Ht(g, t.root)
<1>1. H \in Nat /\ n \in Nat /\ H < n
  BY HeightBound
<1>2. \A b \in DOMAIN t.mem : Ht(g, b) \in Nat /\ Ht(g, b) <= H
  <2> TAKE b \in DOMAIN t.mem
  <2>1. Ht(g, b) \in Nat
    BY NodeTypes DEF Shape
  <2>2. b = t.root \/ Ht(g, b) < H
    BY DEF Shape, Rooted
  <2> QED BY <1>1, <2>1, <2>2
<1>3. \A i \in 0..n : Level(t, t.root, i) = AtLevel(t.mem, t.root, g, i)
  BY <1>1, LevelIs
<1>4. Subtree(t, t.root) = UNION {Level(t, t.root, i) : i \in 0..n}
  BY DEF Subtree
<1> HIDE DEF n
<1>5. Subtree(t, t.root) \subseteq DOMAIN t.mem
  BY <1>3, <1>4 DEF AtLevel
<1>6. ASSUME NEW b \in DOMAIN t.mem PROVE b \in Subtree(t, t.root)
  <2> DEFINE i == H - Ht(g, b)
  <2>1. i \in 0..n /\ Ht(g, b) + i = H
    BY <1>1, <1>2
  <2> HIDE DEF i
  <2>2. b \in Level(t, t.root, i)
    BY <1>3, <2>1 DEF AtLevel
  <2> QED BY <1>4, <2>1, <2>2
<1> QED BY <1>5, <1>6

-----------------------------------------------------------------------------
(* The walk along the leaves                                               *)

\* A node's links point to nodes.
LEMMA LinksInTree ==
  ASSUME NEW m, NEW root, NEW g, Shape(m, root, g), NEW a \in DOMAIN m
  PROVE  {Nx(m, a), Pv(m, a), Up(m, a)} \subseteq DOMAIN m \cup {Null}
<1>1. Nx(m, a) \in DOMAIN m \cup {Null} /\ Pv(m, a) \in DOMAIN m \cup {Null}
  <2>1. Linked(m, g)
    BY DEF Shape
  <2>2. Leaf(m, a) => NextOK(m, g, a) /\ PrevOK(m, g, a)
    BY <2>1 DEF Linked
  <2>3. ~ Leaf(m, a) => Nx(m, a) = Null /\ Pv(m, a) = Null
    BY <2>1 DEF Linked
  <2> QED BY <2>2, <2>3 DEF NextOK, PrevOK
<1>2. Up(m, a) \in DOMAIN m \cup {Null}
  <2>1. a = root => Up(m, a) = Null
    BY DEF Shape, Rooted
  <2>2. a # root => Up(m, a) \in DOMAIN m
    BY DEF Shape, Owned
  <2> QED BY <2>1, <2>2
<1> QED BY <1>1, <1>2

\* Two runs of After with the same step and start agree.
LEMMA StepsAgree ==
  ASSUME NEW S, NEW step, NEW a, NEW n \in Nat, NEW f, StepsTo(f, S, step, a, n),
         NEW i \in 0..n, NEW h, StepsTo(h, S, step, a, i)
  PROVE  f[i] = h[i]
<1> DEFINE T == {j \in 0..i : f[j] # h[j]}
<1>1. /\ f[0] = a /\ \A j \in 1..n : f[j] = step[f[j - 1]]
      /\ h[0] = a /\ \A j \in 1..i : h[j] = step[h[j - 1]]
  BY DEF StepsTo
<1>2. T = {}
  <2> SUFFICES ASSUME T # {} PROVE FALSE
    OBVIOUS
  <2>1. PICK j \in T : \A l \in T : j <= l
    <3>1. T \subseteq Nat
      OBVIOUS
    <3> QED BY <3>1, LeastNat
  <2>2. j \in 0..i /\ f[j] # h[j]
    OBVIOUS
  <2>3. j # 0
    BY <1>1, <2>2
  <2>4. j \in 1..i /\ j \in 1..n /\ j - 1 \in 0..i /\ ~ (j <= j - 1)
    BY <2>2, <2>3
  <2>5. j - 1 \notin T
    <3> HIDE DEF T
    <3> QED BY <2>1, <2>4
  <2>6. f[j - 1] = h[j - 1]
    BY <2>4, <2>5
  <2> QED BY <1>1, <2>2, <2>4, <2>6
<1> QED BY <1>2

\* The nodes of a run of After
AfterRun(f, S, step, a, n) ==
  /\ f \in [0..n -> S] /\ f[0] = a
  /\ \A i \in 1..n : f[i] = step[f[i - 1]]
  /\ \A i \in 0..n : After(step, a, i) = f[i]

\* A run of steps, as After gives it at each of them
LEMMA AfterFacts ==
  ASSUME NEW S, NEW step \in [S -> S], NEW a \in S, NEW n \in Nat
  PROVE  \E f : AfterRun(f, S, step, a, n)
<1>1. PICK f : StepsTo(f, S, step, a, n)
  BY AfterSteps
<1>2. ASSUME NEW i \in 0..n PROVE After(step, a, i) = f[i]
  <2>1. i \in Nat
    OBVIOUS
  <2>2. PICK h : StepsTo(h, S, step, a, i)
    BY <2>1, AfterSteps
  <2>3. f[i] = h[i]
    BY <1>1, <2>2, StepsAgree
  <2>4. After(step, a, i) = h[i]
    BY <2>2 DEF StepsTo
  <2> QED BY <2>3, <2>4
<1>3. AfterRun(f, S, step, a, n)
  BY <1>1, <1>2 DEF StepsTo, AfterRun
<1> QED BY <1>3

\* The nodes s[1], ..., s[n] are leaves, each linked to the one after it.
LeafSteps(m, s, n) ==
  /\ \A i \in 1..n : s[i] \in DOMAIN m /\ Leaf(m, s[i])
  /\ \A i \in 1..n : i # n => Nx(m, s[i]) = s[i + 1]

\* Along them the ranges ascend.
LEMMA RangesAscend ==
  ASSUME NEW m, NEW root, NEW g, Shape(m, root, g), NEW s, NEW n \in Nat, LeafSteps(m, s, n),
         NEW i \in 1..n, NEW j \in 1..n, i < j
  PROVE  Hi(g, s[i]) <= Lo(g, s[j])
<1> DEFINE P(l) == i < l => Hi(g, s[i]) <= Lo(g, s[l])
           T == {l \in 1..n : ~ P(l)}
<1>1. \A l \in 1..n : s[l] \in DOMAIN m /\ Leaf(m, s[l]) /\ (l # n => Nx(m, s[l]) = s[l + 1])
  BY DEF LeafSteps
<1>2. \A c \in DOMAIN m : Lo(g, c) \in Int /\ Hi(g, c) \in Int /\ Lo(g, c) < Hi(g, c)
  BY FitsFacts, NodeTypes DEF Shape, NonEmpty
<1>3. ASSUME NEW l \in 1..n, l # n PROVE Lo(g, s[l + 1]) = Hi(g, s[l])
  <2>1. s[l] \in DOMAIN m /\ Leaf(m, s[l]) /\ Nx(m, s[l]) = s[l + 1] /\ l + 1 \in 1..n
    BY <1>1, <1>3
  <2>2. s[l + 1] \in DOMAIN m
    BY <1>1, <2>1
  <2>3. s[l + 1] # Null
    BY <2>2 DEF Shape, Typed
  <2>4. NextOK(m, g, s[l])
    BY <2>1 DEF Shape, Linked
  <2> QED BY <2>1, <2>3, <2>4 DEF NextOK
<1>4. T = {}
  <2> SUFFICES ASSUME T # {} PROVE FALSE
    OBVIOUS
  <2>1. PICK l \in T : \A q \in T : l <= q
    <3>1. T \subseteq Nat
      OBVIOUS
    <3> QED BY <3>1, LeastNat
  <2>2. l \in 1..n /\ i < l /\ ~ (Hi(g, s[i]) <= Lo(g, s[l]))
    OBVIOUS
  <2> DEFINE p == l - 1
  <2>3. p \in 1..n /\ p # n /\ p + 1 = l /\ ~ (l <= p) /\ (i < p \/ i = p)
    BY <2>2
  <2>4. p \notin T
    <3> HIDE DEF T
    <3> QED BY <2>1, <2>3
  <2> HIDE DEF p
  <2>5. Lo(g, s[l]) = Hi(g, s[p])
    BY <1>3, <2>3
  <2>6. i < p => Hi(g, s[i]) <= Lo(g, s[p])
    BY <2>3, <2>4
  <2>7. /\ Hi(g, s[i]) \in Int /\ Lo(g, s[p]) \in Int /\ Hi(g, s[p]) \in Int
        /\ Lo(g, s[p]) < Hi(g, s[p])
    BY <1>1, <1>2, <2>3
  <2> QED BY <2>2, <2>3, <2>5, <2>6, <2>7
<1>5. j \notin T
  BY <1>4
<1> QED BY <1>5

\* s is the list of the leaves from a on.
LeafRun(m, a, s) ==
  /\ s \in Seq(DOMAIN m) /\ Len(s) \in Nat \ {0} /\ s[1] = a
  /\ LeafSteps(m, s, Len(s)) /\ Nx(m, s[Len(s)]) = Null

\* The steps from a leaf along the links come to an end.
LEMMA LinksEnd ==
  ASSUME NEW m, NEW root, NEW g, Shape(m, root, g), NEW n \in Nat, n = Cardinality(DOMAIN m),
         NEW s, LeafSteps(m, s, n + 1)
  PROVE  FALSE
<1> DEFINE D == DOMAIN m
           N == n + 1
           f == [i \in 1..N |-> s[i]]
<1>1. \A i \in 1..N : s[i] \in D
  BY DEF LeafSteps
<1>2. f \in [1..N -> D]
  BY <1>1
<1>3. IsFiniteSet(D) /\ N \in Nat
  BY DEF Shape, Typed
<1>4. IsFiniteSet(1..N) /\ Cardinality(1..N) = N
  <2>1. 1 \in Int /\ N \in Int /\ ~ (1 > N) /\ N - 1 + 1 = N
    BY <1>3
  <2> QED BY <2>1, FS_Interval
<1>5. Cardinality(D) < Cardinality(1..N)
  BY <1>4
<1>6. PICK i \in 1..N, j \in 1..N : i # j /\ f[i] = f[j]
  <2> HIDE DEF f, N
  <2>1. \E i, j \in 1..N : i # j /\ f[i] = f[j]
    BY <1>2, <1>3, <1>4, <1>5, FS_PigeonHole
  <2> QED BY <2>1
<1>7. s[i] = s[j]
  BY <1>6
<1>8. \A c \in D : Lo(g, c) \in Int /\ Hi(g, c) \in Int /\ Lo(g, c) < Hi(g, c)
  BY FitsFacts, NodeTypes DEF Shape, NonEmpty
<1>9. LeafSteps(m, s, N)
  OBVIOUS
<1>10. i < j => Hi(g, s[i]) <= Lo(g, s[j])
  <2> HIDE DEF N
  <2> QED BY <1>3, <1>9, RangesAscend
<1>11. j < i => Hi(g, s[j]) <= Lo(g, s[i])
  <2> HIDE DEF N
  <2> QED BY <1>3, <1>9, RangesAscend
<1>12. i < j \/ j < i
  BY <1>3, <1>6
<1>13. s[i] \in D
  BY <1>1
<1> QED BY <1>7, <1>8, <1>10, <1>11, <1>12, <1>13

\* The loop that follows the links gives the list of leaves.
LEMMA LeavesFromFacts ==
  ASSUME NEW t, NEW g, Shape(t.mem, t.root, g), NEW a \in DOMAIN t.mem, Leaf(t.mem, a)
  PROVE  LeafRun(t.mem, a, LeavesFrom(t, a))
<1> DEFINE m == t.mem
           D == DOMAIN m
           S == D \cup {Null}
           n == Cardinality(D)
           next == [b \in S |-> IF b = Null THEN Null ELSE m[b].next]
           Ends(e) == After(next, a, e) = Null /\ \A i \in 0..(e - 1) : After(next, a, i) # Null
           end == CHOOSE e \in 0..n : Ends(e)
           s == [i \in 1..end |-> After(next, a, i - 1)]
<1>1. Shape(m, t.root, g) /\ a \in D /\ Leaf(m, a)
  OBVIOUS
<1>2. LeavesFrom(t, a) = s
  BY DEF LeavesFrom
<1>3. n \in Nat /\ Null \notin D
  BY FS_CardinalityType DEF Shape, Typed
<1>4. \A b \in S : next[b] = IF b = Null THEN Null ELSE Nx(m, b)
  BY DEF Nx
<1>5. next = [b \in S |-> next[b]]
  OBVIOUS
<1> HIDE DEF m, n, next
<1>6. next \in [S -> S]
  <2>1. \A b \in D : Nx(m, b) \in S
    BY <1>1, LinksInTree
  <2> QED BY <1>4, <1>5, <2>1
<1>7. \A b \in D : Leaf(m, b) => Nx(m, b) = Null \/ (Nx(m, b) \in D /\ Leaf(m, Nx(m, b)))
  BY <1>1 DEF Shape, Linked, NextOK
<1>22. PICK f : AfterRun(f, S, next, a, n)
  <2>1. a \in S
    BY <1>1
  <2> HIDE DEF S
  <2> QED BY <1>3, <1>6, <2>1, AfterFacts
<1>8. /\ f \in [0..n -> S] /\ f[0] = a
      /\ \A i \in 1..n : f[i] = next[f[i - 1]]
      /\ \A i \in 0..n : After(next, a, i) = f[i]
  BY <1>22 DEF AfterRun
<1> DEFINE OK(i) == f[i] = Null \/ (f[i] \in D /\ Leaf(m, f[i]))
           U == {i \in 0..n : ~ OK(i)}
<1>9. \A i \in 0..n : OK(i)
  <2> SUFFICES ASSUME U # {} PROVE FALSE
    OBVIOUS
  <2>1. PICK i \in U : \A j \in U : i <= j
    <3>1. U \subseteq Nat
      OBVIOUS
    <3> QED BY <3>1, LeastNat
  <2>2. i \in 0..n /\ ~ OK(i)
    OBVIOUS
  <2>3. i # 0
    BY <1>1, <1>8, <2>2
  <2>4. i \in 1..n /\ i - 1 \in 0..n /\ ~ (i <= i - 1)
    BY <1>3, <2>2, <2>3
  <2>5. i - 1 \notin U
    <3> HIDE DEF U
    <3> QED BY <2>1, <2>4
  <2>6. f[i] = next[f[i - 1]] /\ f[i - 1] \in S /\ OK(i - 1)
    BY <1>8, <2>4, <2>5
  <2> QED BY <1>4, <1>7, <2>2, <2>6
<1> DEFINE E == {i \in 0..n : f[i] = Null}
<1>10. E # {}
  <2> SUFFICES ASSUME \A i \in 0..n : f[i] # Null PROVE FALSE
    OBVIOUS
  <2> DEFINE r == [i \in 1..(n + 1) |-> f[i - 1]]
  <2>1. \A i \in 1..(n + 1) : i - 1 \in 0..n
    BY <1>3
  <2>2. \A i \in 1..(n + 1) : r[i] \in D /\ Leaf(m, r[i])
    BY <1>9, <2>1
  <2>3. ASSUME NEW i \in 1..(n + 1), i # n + 1 PROVE Nx(m, r[i]) = r[i + 1]
    <3>1. i \in 1..n /\ i + 1 \in 1..(n + 1) /\ (i + 1) - 1 = i
      BY <1>3, <2>3
    <3>2. r[i + 1] = f[i] /\ f[i] = next[f[i - 1]] /\ f[i - 1] = r[i] /\ f[i - 1] \in S /\ f[i - 1] # Null
      BY <1>8, <2>1, <3>1
    <3> QED BY <1>4, <3>2
  <2> HIDE DEF r
  <2>4. LeafSteps(m, r, n + 1)
    BY <2>2, <2>3 DEF LeafSteps
  <2> QED BY <1>1, <1>3, <2>4, LinksEnd DEF n
<1>11. PICK e \in E : \A i \in E : e <= i
  <2>1. E \subseteq Nat
    OBVIOUS
  <2> QED BY <1>10, <2>1, LeastNat
<1>12. e \in 0..n /\ Ends(e)
  <2>1. e \in 0..n /\ f[e] = Null
    OBVIOUS
  <2>2. ASSUME NEW i \in 0..(e - 1) PROVE After(next, a, i) # Null
    <3>1. i \in 0..n /\ ~ (e <= i)
      BY <1>3, <2>1
    <3>2. i \notin E
      <4> HIDE DEF E
      <4> QED BY <1>11, <3>1
    <3> QED BY <1>8, <3>1, <3>2
  <2> QED BY <1>8, <2>1, <2>2
<1>13. end \in 0..n /\ Ends(end)
  <2> HIDE DEF Ends
  <2> QED BY <1>12
<1> HIDE DEF end, E, U
<1>14. f[end] = Null /\ \A i \in 0..(end - 1) : f[i] # Null
  <2>1. \A i \in 0..(end - 1) : i \in 0..n
    BY <1>3, <1>13
  <2> QED BY <1>8, <1>13, <2>1
<1>15. end \in 1..n /\ end \in Nat \ {0}
  <2>1. end # 0
    BY <1>1, <1>3, <1>8, <1>14
  <2> QED BY <1>3, <1>13, <2>1
<1>16. ASSUME NEW i \in 1..end
       PROVE  s[i] = f[i - 1] /\ s[i] \in D /\ Leaf(m, s[i]) /\ Nx(m, s[i]) = f[i]
  <2>1. i - 1 \in 0..n /\ i \in 1..n /\ i - 1 \in 0..(end - 1)
    BY <1>3, <1>15
  <2>2. s[i] = f[i - 1] /\ f[i - 1] # Null
    BY <1>8, <1>14, <2>1
  <2>3. s[i] \in D /\ Leaf(m, s[i])
    BY <1>9, <2>1, <2>2
  <2>4. f[i] = next[f[i - 1]]
    BY <1>8, <2>1
  <2> QED BY <1>4, <2>2, <2>3, <2>4
<1>17. s \in Seq(D) /\ Len(s) = end
  <2>1. s = [i \in 1..end |-> s[i]]
    OBVIOUS
  <2> HIDE DEF s
  <2> QED BY <1>15, <1>16, <2>1
<1> HIDE DEF s
<1>18. s[1] = a
  <2>1. 1 \in 1..end /\ 1 - 1 = 0
    BY <1>15
  <2>2. s[1] = f[1 - 1]
    BY <1>16, <2>1
  <2> QED BY <1>8, <2>1, <2>2
<1>19. LeafSteps(m, s, end)
  <2>1. ASSUME NEW i \in 1..end, i # end PROVE Nx(m, s[i]) = s[i + 1]
    <3>1. i + 1 \in 1..end /\ (i + 1) - 1 = i
      BY <1>15, <2>1
    <3>2. s[i + 1] = f[i]
      BY <1>16, <3>1
    <3> QED BY <1>16, <3>2
  <2> QED BY <1>16, <2>1 DEF LeafSteps
<1>20. Nx(m, s[end]) = Null
  <2>1. end \in 1..end
    BY <1>15
  <2> QED BY <1>14, <1>16, <2>1
<1>21. LeafRun(m, a, s)
  BY <1>15, <1>17, <1>18, <1>19, <1>20 DEF LeafRun
<1> QED BY <1>2, <1>21 DEF m

\* The list has all leaves whose range is not below that of the first.
LEMMA RunCovers ==
  ASSUME NEW m, NEW root, NEW g, Shape(m, root, g), NEW a, NEW s, LeafRun(m, a, s),
         NEW c \in DOMAIN m, Leaf(m, c), Lo(g, a) <= Lo(g, c)
  PROVE  \E i \in 1..Len(s) : s[i] = c
<1> DEFINE n == Len(s)
           T == {i \in 1..n : Lo(g, c) < Hi(g, s[i])}
<1>1. /\ n \in Nat \ {0} /\ s[1] = a /\ LeafSteps(m, s, n) /\ Nx(m, s[n]) = Null
  BY DEF LeafRun
<1> HIDE DEF n
<1>2. \A i \in 1..n : s[i] \in DOMAIN m /\ Leaf(m, s[i]) /\ (i # n => Nx(m, s[i]) = s[i + 1])
  BY <1>1 DEF LeafSteps
<1>3. \A b \in DOMAIN m : /\ Lo(g, b) \in Int /\ Hi(g, b) \in Int /\ Lo(g, b) < Hi(g, b)
                          /\ Hi(g, b) <= High /\ b # Null
  BY FitsFacts, NodeTypes DEF Shape, NonEmpty
<1>4. \A b \in DOMAIN m : Leaf(m, b) => NextOK(m, g, b) /\ Ht(g, b) = 0
  BY DEF Shape, Linked, Fits
<1>5. n \in T
  <2>1. n \in 1..n
    BY <1>1
  <2>2. Hi(g, s[n]) = High
    BY <1>1, <1>2, <1>4, <2>1 DEF NextOK
  <2>3. Lo(g, c) < High
    <3>1. High \in Int
      BY KeysAreInts
    <3> QED BY <1>3, <3>1
  <2> QED BY <2>1, <2>2, <2>3
<1>6. PICK i \in T : \A j \in T : i <= j
  <2>1. T \subseteq Nat
    OBVIOUS
  <2> QED BY <1>5, <2>1, LeastNat
<1>7. i \in 1..n /\ Lo(g, c) < Hi(g, s[i]) /\ s[i] \in DOMAIN m /\ Leaf(m, s[i])
  BY <1>2
<1>8. Lo(g, s[i]) <= Lo(g, c)
  <2>1. CASE i = 1
    BY <1>1, <2>1
  <2>2. CASE i # 1
    <3> DEFINE p == i - 1
    <3>1. p \in 1..n /\ p # n /\ p + 1 = i /\ ~ (i <= p)
      BY <1>1, <1>7, <2>2
    <3>2. p \notin T
      <4> HIDE DEF T
      <4> QED BY <1>6, <3>1
    <3> HIDE DEF p
    <3>3. ~ (Lo(g, c) < Hi(g, s[p])) /\ s[p] \in DOMAIN m /\ Leaf(m, s[p]) /\ Nx(m, s[p]) = s[i]
      BY <1>2, <3>1, <3>2
    <3>4. Lo(g, s[i]) = Hi(g, s[p])
      <4>1. s[i] # Null
        BY <1>3, <1>7
      <4> QED BY <1>4, <3>3, <4>1 DEF NextOK
    <3>5. Lo(g, c) \in Int /\ Hi(g, s[p]) \in Int
      BY <1>3, <3>3
    <3> QED BY <3>3, <3>4, <3>5
  <2> QED BY <2>1, <2>2
<1>9. s[i] = c
  <2>1. s[i] # c => Hi(g, s[i]) <= Lo(g, c) \/ Hi(g, c) <= Lo(g, s[i])
    <3>1. Ht(g, s[i]) = Ht(g, c)
      BY <1>4, <1>7
    <3> QED BY <1>7, <3>1 DEF Shape, Apart
  <2>2. /\ Lo(g, c) \in Int /\ Hi(g, c) \in Int /\ Lo(g, c) < Hi(g, c)
        /\ Lo(g, s[i]) \in Int /\ Hi(g, s[i]) \in Int
    BY <1>3, <1>7
  <2> QED BY <1>7, <1>8, <2>1, <2>2
<1> QED BY <1>7, <1>9 DEF n

\* Each leaf of the list leads back to the one before it.
LEMMA RunBack ==
  ASSUME NEW m, NEW root, NEW g, Shape(m, root, g), NEW a, NEW s, LeafRun(m, a, s),
         Lo(g, a) = IntMin, NEW i \in 1..Len(s)
  PROVE  Pv(m, s[i]) = IF i = 1 THEN Null ELSE s[i - 1]
<1> DEFINE n == Len(s)
<1>1. n \in Nat \ {0} /\ s[1] = a /\ LeafSteps(m, s, n)
  BY DEF LeafRun
<1>2. i \in 1..n
  OBVIOUS
<1> HIDE DEF n
<1>3. \A j \in 1..n : s[j] \in DOMAIN m /\ Leaf(m, s[j]) /\ (j # n => Nx(m, s[j]) = s[j + 1])
  BY <1>1 DEF LeafSteps
<1>4. \A b \in DOMAIN m : /\ Lo(g, b) \in Int /\ Hi(g, b) \in Int /\ Lo(g, b) < Hi(g, b)
                          /\ IntMin <= Lo(g, b) /\ b # Null
  BY FitsFacts, NodeTypes DEF Shape, NonEmpty
<1>5. \A b \in DOMAIN m : Leaf(m, b) => NextOK(m, g, b) /\ PrevOK(m, g, b)
  BY DEF Shape, Linked
<1>6. CASE i = 1
  <2>1. s[i] = a /\ a \in DOMAIN m /\ Leaf(m, a)
    BY <1>1, <1>2, <1>3, <1>6
  <2>2. ASSUME Pv(m, a) # Null PROVE FALSE
    <3> DEFINE b == Pv(m, a)
    <3>1. b \in DOMAIN m /\ Hi(g, b) = IntMin
      BY <1>5, <2>1, <2>2 DEF PrevOK
    <3>2. Lo(g, b) \in Int /\ Lo(g, b) < IntMin /\ IntMin <= Lo(g, b) /\ IntMin \in Int
      BY <1>4, <3>1, KeysAreInts
    <3> QED BY <3>2
  <2> QED BY <1>6, <2>1, <2>2
<1>7. CASE i # 1
  <2> DEFINE p == i - 1
  <2>1. p \in 1..n /\ p # n /\ p + 1 = i
    BY <1>1, <1>2, <1>7
  <2> HIDE DEF p
  <2>2. s[p] \in DOMAIN m /\ Leaf(m, s[p]) /\ Nx(m, s[p]) = s[i] /\ s[i] # Null
    BY <1>2, <1>3, <1>4, <2>1
  <2>3. Pv(m, s[i]) = s[p]
    BY <1>5, <2>2 DEF NextOK
  <2> QED BY <1>7, <2>3 DEF p
<1> QED BY <1>6, <1>7

\* The list from a leaf of the list is its rest.
LEMMA RunRest ==
  ASSUME NEW m, Null \notin DOMAIN m, NEW a, NEW s, LeafRun(m, a, s), NEW p \in Nat, p < Len(s),
         NEW r, LeafRun(m, s[p + 1], r)
  PROVE  Len(s) = p + Len(r) /\ \A i \in 1..Len(r) : r[i] = s[p + i]
<1> DEFINE n == Len(s)
           l == Len(r)
           T == {i \in 1..l : p + i > n \/ r[i] # s[p + i]}
<1>1. n \in Nat \ {0} /\ LeafSteps(m, s, n) /\ Nx(m, s[n]) = Null /\ p < n
  BY DEF LeafRun
<1>2. l \in Nat \ {0} /\ r[1] = s[p + 1] /\ LeafSteps(m, r, l) /\ Nx(m, r[l]) = Null
  BY DEF LeafRun
<1> HIDE DEF n, l
<1>3. \A i \in 1..n : s[i] \in DOMAIN m /\ (i # n => Nx(m, s[i]) = s[i + 1])
  BY <1>1 DEF LeafSteps
<1>4. \A i \in 1..l : r[i] \in DOMAIN m /\ (i # l => Nx(m, r[i]) = r[i + 1])
  BY <1>2 DEF LeafSteps
<1>5. T = {}
  <2> SUFFICES ASSUME T # {} PROVE FALSE
    OBVIOUS
  <2>1. PICK i \in T : \A j \in T : i <= j
    <3>1. T \subseteq Nat
      OBVIOUS
    <3> QED BY <3>1, LeastNat
  <2>2. i \in 1..l /\ (p + i > n \/ r[i] # s[p + i])
    OBVIOUS
  <2>3. i # 1
    BY <1>1, <1>2, <2>2
  <2> DEFINE j == i - 1
  <2>4. j \in 1..l /\ j # l /\ j + 1 = i /\ ~ (i <= j)
    BY <1>2, <2>2, <2>3
  <2>5. j \notin T
    <3> HIDE DEF T
    <3> QED BY <2>1, <2>4
  <2> HIDE DEF j
  <2>6. p + j <= n /\ r[j] = s[p + j]
    BY <1>1, <2>4, <2>5
  <2>7. Nx(m, r[j]) = r[i] /\ r[i] \in DOMAIN m
    BY <1>4, <2>2, <2>4
  <2>8. p + j # n
    BY <1>1, <2>6, <2>7
  <2>9. p + j \in 1..n /\ (p + j) + 1 = p + i /\ ~ (p + i > n)
    BY <1>1, <2>2, <2>4, <2>6, <2>8
  <2>10. Nx(m, s[p + j]) = s[p + i]
    BY <1>3, <2>8, <2>9
  <2> QED BY <2>2, <2>6, <2>7, <2>9, <2>10
<1>6. \A i \in 1..l : p + i <= n /\ r[i] = s[p + i]
  <2> TAKE i \in 1..l
  <2>1. i \notin T
    BY <1>5
  <2> QED BY <1>1, <2>1
<1>7. n = p + l
  <2>1. l \in 1..l /\ p + l <= n /\ r[l] = s[p + l]
    BY <1>2, <1>6
  <2>2. ASSUME p + l # n PROVE FALSE
    <3>1. p + l \in 1..n /\ (p + l) + 1 \in 1..n
      BY <1>1, <1>2, <2>1, <2>2
    <3>2. Nx(m, s[p + l]) = s[(p + l) + 1] /\ s[(p + l) + 1] \in DOMAIN m
      BY <1>3, <2>2, <3>1
    <3> QED BY <1>2, <2>1, <3>2
  <2> QED BY <2>2
<1> QED BY <1>6, <1>7 DEF n, l

\* The descent to the left ends at the leaf whose range is the lowest.
LEMMA LeftmostFacts ==
  ASSUME NEW t, NEW g, Shape(t.mem, t.root, g)
  PROVE  LET a == Leftmost(t)
         IN  a \in DOMAIN t.mem /\ Leaf(t.mem, a) /\ Lo(g, a) = IntMin
<1> DEFINE m == t.mem
           D == DOMAIN m
           root == t.root
           n == Cardinality(D)
           down == [a \in D |-> IF m[a].leaf THEN a ELSE m[a].ptrs[1]]
<1>1. Shape(m, root, g)
  OBVIOUS
<1>2. Ht(g, root) \in Nat /\ n \in Nat /\ Ht(g, root) < n
  BY <1>1, HeightBound
<1>3. root \in D /\ Lo(g, root) = IntMin /\ \A a \in D : Ht(g, a) \in Nat
  BY <1>1, NodeTypes DEF Shape, Rooted
<1>4. Leftmost(t) = After(down, root, n)
  BY DEF Leftmost
<1>5. \A a \in D : down[a] = IF Leaf(m, a) THEN a ELSE Ps(m, a)[1]
  BY DEF Leaf, Ps
<1>6. down = [a \in D |-> down[a]]
  OBVIOUS
<1> HIDE DEF m, root, n, down
<1>7. ASSUME NEW a \in D, ~ Leaf(m, a)
      PROVE  down[a] \in D /\ Ht(g, a) = Ht(g, down[a]) + 1 /\ Lo(g, down[a]) = Lo(g, a)
  <2> DEFINE k == Ks(m, a)
             q == Ps(m, a)
  <2>1. /\ Len(k) \in Nat /\ Len(q) = Len(k) + 1
        /\ \A i \in 1..Len(q) : /\ q[i] \in D /\ Ht(g, a) = Ht(g, q[i]) + 1
                                /\ Lo(g, q[i]) = Bound(k, Lo(g, a), Hi(g, a), i - 1)
    BY <1>1, <1>7, ChildFacts
  <2>2. down[a] = q[1]
    BY <1>5, <1>7
  <2> HIDE DEF k, q
  <2>3. 1 \in 1..Len(q) /\ 1 - 1 = 0
    BY <2>1
  <2>4. /\ q[1] \in D /\ Ht(g, a) = Ht(g, q[1]) + 1
        /\ Lo(g, q[1]) = Bound(k, Lo(g, a), Hi(g, a), 0)
    BY <2>1, <2>3
  <2> QED BY <2>2, <2>4 DEF Bound
<1>8. down \in [D -> D]
  BY <1>5, <1>6, <1>7
<1>9. PICK f : StepsTo(f, D, down, root, n)
  BY <1>2, <1>3, <1>8, AfterSteps
<1>10. /\ f \in [0..n -> D] /\ f[0] = root /\ \A i \in 1..n : f[i] = down[f[i - 1]]
       /\ After(down, root, n) = f[n]
  BY <1>9 DEF StepsTo
<1> DEFINE OK(i) == /\ Lo(g, f[i]) = IntMin
                    /\ Leaf(m, f[i]) \/ Ht(g, f[i]) + i = Ht(g, root)
           T == {i \in 0..n : ~ OK(i)}
<1>11. \A i \in 0..n : OK(i)
  <2> SUFFICES ASSUME T # {} PROVE FALSE
    OBVIOUS
  <2>1. PICK i \in T : \A j \in T : i <= j
    <3>1. T \subseteq Nat
      BY <1>2
    <3> QED BY <3>1, LeastNat
  <2>2. i \in 0..n /\ ~ OK(i)
    OBVIOUS
  <2>3. i # 0
    <3>1. OK(0)
      BY <1>2, <1>3, <1>10
    <3> HIDE DEF OK
    <3> QED BY <2>2, <3>1
  <2>4. i \in 1..n /\ i - 1 \in 0..n /\ ~ (i <= i - 1)
    BY <1>2, <2>2, <2>3
  <2>5. i - 1 \notin T
    <3> HIDE DEF T
    <3> QED BY <2>1, <2>4
  <2> DEFINE a == f[i - 1]
  <2>6. /\ a \in D /\ Lo(g, a) = IntMin /\ f[i] = down[a]
        /\ Leaf(m, a) \/ Ht(g, a) + (i - 1) = Ht(g, root)
    BY <1>10, <2>4, <2>5
  <2> HIDE DEF a
  <2>7. CASE Leaf(m, a)
    <3>1. f[i] = a
      BY <1>5, <2>6, <2>7
    <3> QED BY <2>2, <2>6, <2>7, <3>1
  <2>8. CASE ~ Leaf(m, a)
    <3>1. f[i] \in D /\ Ht(g, a) = Ht(g, f[i]) + 1 /\ Lo(g, f[i]) = IntMin
      BY <1>7, <2>6, <2>8
    <3>2. Ht(g, f[i]) + i = Ht(g, root)
      <4>1. Ht(g, f[i]) \in Nat /\ Ht(g, a) \in Nat /\ i \in Nat /\ Ht(g, a) + (i - 1) = Ht(g, root)
        BY <1>3, <2>4, <2>6, <2>8, <3>1
      <4> QED BY <3>1, <4>1
    <3> QED BY <2>2, <3>1, <3>2
  <2> QED BY <2>7, <2>8
<1>12. n \in 0..n
  BY <1>2
<1>13. OK(n) /\ f[n] \in D
  <2> HIDE DEF OK
  <2> QED BY <1>10, <1>11, <1>12
<1>14. Leaf(m, f[n])
  <2>1. Ht(g, f[n]) \in Nat
    BY <1>3, <1>13
  <2> QED BY <1>2, <1>13, <2>1
<1>15. Leftmost(t) = f[n]
  BY <1>4, <1>10
<1> QED BY <1>13, <1>14, <1>15 DEF m

-----------------------------------------------------------------------------
(* What the leaves of a list hold, one after the other                     *)

\* F[i] is what the first i of the lists ss hold.
Flattens(F, S, ss) ==
  /\ F \in [0..Len(ss) -> Seq(S)] /\ F[0] = <<>>
  /\ \A i \in 1..Len(ss) : F[i] = F[i - 1] \o ss[i]
  /\ SE!FlattenSeq(ss) = F[Len(ss)]

\* The fold that flattens a list of lists exists.
LEMMA FlattenFacts ==
  ASSUME NEW S, NEW ss \in Seq(Seq(S))
  PROVE  \E F : Flattens(F, S, ss)
<1> DEFINE n == Len(ss)
           Q == Seq(S)
           e == <<>>
           G == [ix \in (1..n) \X Q |-> ix[2] \o ss[ix[1]]]
           Run(r) == r = [i \in 1..n |-> IF i = 1 THEN ss[i] ELSE r[i - 1] \o ss[i]]
           run == CHOOSE r : Run(r)
<1>1. n \in Nat /\ \A i \in 1..n : ss[i] \in Q
  <2>1. n \in Nat
    OBVIOUS
  <2>2. ss \in Seq(Q)
    OBVIOUS
  <2> HIDE DEF Q
  <2>3. \A i \in 1..n : ss[i] \in Q
    BY <2>2, ElementOfSeq
  <2> QED BY <2>1, <2>3
<1>2. e \in Q /\ \A q \in Q : e \o q = q
  BY EmptySeq, ConcatEmptySeq
<1>3. \A x, y \in Q : x \o y \in Q
  OBVIOUS
<1>4. SE!FlattenSeq(ss) = IF n = 0 THEN ss ELSE run[n]
  BY DEF SE!FlattenSeq
<1>5. n = 0 => ss = e
  <2>1. ss # e => n \in Nat \ {0}
    BY EmptySeq
  <2> QED BY <2>1
<1> HIDE DEF n, Q, e
<1>6. \A i \in 1..n : \A x \in Q : G[<<i, x>>] = x \o ss[i]
  OBVIOUS
<1>7. G \in [(1..n) \X Q -> Q]
  <2>1. \A ix \in (1..n) \X Q : ix[1] \in 1..n /\ ix[2] \in Q
    OBVIOUS
  <2>2. \A ix \in (1..n) \X Q : ix[2] \o ss[ix[1]] \in Q
    BY <1>1, <1>3, <2>1
  <2> QED BY <2>2
<1> HIDE DEF G
<1>8. PICK F : SolvesRecursion(F, n, Q, e, G)
  BY <1>1, <1>2, <1>7, FiniteRecursion
<1>9. F \in [0..n -> Q] /\ F[0] = e /\ \A i \in 1..n : F[i] = G[<<i, F[i - 1]>>]
  BY <1>8 DEF SolvesRecursion
<1>10. \A i \in 1..n : F[i - 1] \in Q /\ F[i] = F[i - 1] \o ss[i]
  <2> TAKE i \in 1..n
  <2>1. i - 1 \in 0..n
    BY <1>1
  <2> QED BY <1>6, <1>9, <2>1
<1> DEFINE f == [i \in 1..n |-> F[i]]
<1>11. Run(f)
  <2>1. ASSUME NEW i \in 1..n PROVE F[i] = IF i = 1 THEN ss[i] ELSE f[i - 1] \o ss[i]
    <3>1. CASE i = 1
      <4>0. F[i - 1] = F[0]
        <5>1. i - 1 = 0
          BY <3>1
        <5> QED BY <5>1
      <4>1. F[i] = F[0] \o ss[i] /\ ss[i] \in Q
        BY <1>1, <1>10, <4>0
      <4> QED BY <1>2, <1>9, <3>1, <4>1
    <3>2. CASE i # 1
      <4>1. i - 1 \in 1..n
        BY <1>1, <3>2
      <4> QED BY <1>10, <3>2, <4>1
    <3> QED BY <3>1, <3>2
  <2> QED BY <2>1
<1>12. Run(run)
  <2> HIDE DEF Run
  <2> QED BY <1>11
<1> HIDE DEF run, f
<1>13. \A i \in 1..n : run[i] = F[i]
  <2> DEFINE T == {i \in 1..n : run[i] # F[i]}
  <2> SUFFICES ASSUME T # {} PROVE FALSE
    OBVIOUS
  <2>1. PICK i \in T : \A j \in T : i <= j
    <3>1. T \subseteq Nat
      OBVIOUS
    <3> QED BY <3>1, LeastNat
  <2>2. i \in 1..n /\ run[i] # F[i]
    OBVIOUS
  <2>3. run[i] = IF i = 1 THEN ss[i] ELSE run[i - 1] \o ss[i]
    BY <1>12, <2>2
  <2>4. i # 1
    <3>1. ASSUME i = 1 PROVE FALSE
      <4>0. F[i - 1] = F[0]
        <5>1. i - 1 = 0
          BY <3>1
        <5> QED BY <5>1
      <4>1. F[i] = F[0] \o ss[i] /\ ss[i] \in Q
        BY <1>1, <1>10, <2>2, <4>0
      <4> QED BY <1>2, <1>9, <2>2, <2>3, <3>1, <4>1
    <3> QED BY <3>1
  <2>5. i - 1 \in 1..n /\ ~ (i <= i - 1)
    BY <1>1, <2>2, <2>4
  <2>6. i - 1 \notin T
    <3> HIDE DEF T
    <3> QED BY <2>1, <2>5
  <2>7. run[i - 1] = F[i - 1]
    BY <2>5, <2>6
  <2> QED BY <1>10, <2>2, <2>3, <2>4, <2>7
<1>14. SE!FlattenSeq(ss) = F[n]
  <2>1. CASE n = 0
    BY <1>4, <1>5, <1>9, <2>1
  <2>2. CASE n # 0
    <3>1. n \in 1..n
      BY <1>1, <2>2
    <3> QED BY <1>4, <1>13, <2>2, <3>1
  <2> QED BY <2>1, <2>2
<1>15. Flattens(F, S, ss)
  BY <1>9, <1>10, <1>14 DEF Flattens, n, Q, e
<1> QED BY <1>15

\* One list of the flattened lists, one step
LEMMA FlattensStep ==
  ASSUME NEW S, NEW ss \in Seq(Seq(S)), NEW F, Flattens(F, S, ss), NEW i \in 1..Len(ss)
  PROVE  /\ i - 1 \in 0..Len(ss) /\ F[i - 1] \in Seq(S) /\ ss[i] \in Seq(S)
         /\ F[i] = F[i - 1] \o ss[i]
<1>1. i - 1 \in 0..Len(ss)
  OBVIOUS
<1>2. F[i - 1] \in Seq(S) /\ F[i] = F[i - 1] \o ss[i]
  BY <1>1 DEF Flattens
<1> DEFINE Q == Seq(S)
<1>3. ss \in Seq(Q)
  OBVIOUS
<1>4. ss[i] \in Q
  <2> HIDE DEF Q
  <2> QED BY <1>3, ElementOfSeq
<1> QED BY <1>1, <1>2, <1>4

\* What the last lists of ss hold follows what the first p hold.
LEMMA FlattenRest ==
  ASSUME NEW S, NEW ss \in Seq(Seq(S)), NEW rr \in Seq(Seq(S)),
         NEW F, Flattens(F, S, ss), NEW H, Flattens(H, S, rr),
         NEW p \in Nat, Len(ss) = p + Len(rr), \A i \in 1..Len(rr) : rr[i] = ss[p + i]
  PROVE  SE!FlattenSeq(ss) = F[p] \o SE!FlattenSeq(rr) /\ F[p] \in Seq(S)
<1> DEFINE n == Len(rr)
           OK(i) == F[p + i] = F[p] \o H[i]
           T == {i \in 0..n : ~ OK(i)}
<1>1. n \in Nat /\ p \in 0..Len(ss) /\ Len(ss) = p + n
  OBVIOUS
<1>2. F[p] \in Seq(S) /\ F[0] = <<>> /\ H[0] = <<>>
  BY <1>1 DEF Flattens
<1> HIDE DEF n
<1>3. T = {}
  <2> SUFFICES ASSUME T # {} PROVE FALSE
    OBVIOUS
  <2>1. PICK i \in T : \A j \in T : i <= j
    <3>1. T \subseteq Nat
      <4> HIDE DEF OK
      <4> QED BY <1>1
    <3> QED BY <3>1, LeastNat
  <2>2. i \in 0..n /\ F[p + i] # F[p] \o H[i]
    <3>1. i \in 0..n /\ ~ OK(i)
      <4> HIDE DEF OK
      <4> QED OBVIOUS
    <3> QED BY <3>1
  <2>3. i # 0
    <3>1. F[p] \o <<>> = F[p]
      BY <1>2, ConcatEmptySeq
    <3>2. p + 0 = p
      OBVIOUS
    <3> QED BY <1>2, <2>2, <3>1, <3>2
  <2> DEFINE j == i - 1
  <2>4. i \in 1..n /\ j \in 0..n /\ ~ (i <= j) /\ p + i \in 1..Len(ss) /\ (p + i) - 1 = p + j
    BY <1>1, <2>2, <2>3
  <2>5. j \notin T
    <3> HIDE DEF T
    <3> QED BY <2>1, <2>4
  <2>6. F[p + j] = F[p] \o H[j]
    <3>1. OK(j)
      <4> HIDE DEF OK
      <4> QED BY <2>4, <2>5
    <3> QED BY <3>1
  <2>7. H[j] \in Seq(S) /\ rr[i] \in Seq(S) /\ H[i] = H[j] \o rr[i]
    BY <2>4, FlattensStep, ZenonT(40) DEF n
  <2>8. F[p + i] = F[(p + i) - 1] \o ss[p + i]
    BY <2>4, FlattensStep, ZenonT(40)
  <2>9. ss[p + i] = rr[i]
    BY <2>4 DEF n
  <2> HIDE DEF j
  <2>10. F[p + i] = (F[p] \o H[j]) \o rr[i]
    BY <2>4, <2>6, <2>8, <2>9
  <2>11. (F[p] \o H[j]) \o rr[i] = F[p] \o (H[j] \o rr[i])
    <3> DEFINE x == F[p]
               y == H[j]
               z == rr[i]
    <3>1. x \in Seq(S) /\ y \in Seq(S) /\ z \in Seq(S)
      BY <1>2, <2>7
    <3> HIDE DEF x, y, z
    <3>2. (x \o y) \o z = x \o (y \o z)
      BY ONLY <3>1, ConcatAssociative, SMTT(30)
    <3> QED BY <3>2 DEF x, y, z
  <2> QED BY <2>2, <2>7, <2>10, <2>11
<1>4. F[p + n] = F[p] \o H[n]
  <2>1. n \in 0..n
    BY <1>1
  <2>2. OK(n)
    <3> HIDE DEF OK
    <3> QED BY <1>3, <2>1
  <2> QED BY <2>2
<1> QED BY <1>1, <1>2, <1>4 DEF Flattens, n

\* Lists of the same lengths flatten to lists of the same lengths.
LEMMA FlattenLengths ==
  ASSUME NEW S, NEW ss \in Seq(Seq(S)), NEW F, Flattens(F, S, ss),
         NEW R, NEW rr \in Seq(Seq(R)), NEW H, Flattens(H, R, rr),
         Len(ss) = Len(rr), \A i \in 1..Len(ss) : Len(ss[i]) = Len(rr[i]),
         NEW p \in 0..Len(ss)
  PROVE  Len(F[p]) = Len(H[p])
<1> DEFINE n == Len(ss)
           T == {i \in 0..n : Len(F[i]) # Len(H[i])}
<1>1. n \in Nat /\ F[0] = <<>> /\ H[0] = <<>>
  BY DEF Flattens
<1> HIDE DEF n
<1>2. T = {}
  <2> SUFFICES ASSUME T # {} PROVE FALSE
    OBVIOUS
  <2>1. PICK i \in T : \A j \in T : i <= j
    <3>1. T \subseteq Nat
      OBVIOUS
    <3> QED BY <3>1, LeastNat
  <2>2. i \in 0..n /\ Len(F[i]) # Len(H[i])
    OBVIOUS
  <2>3. i # 0
    BY <1>1, <2>2
  <2> DEFINE j == i - 1
  <2>4. i \in 1..n /\ j \in 0..n /\ ~ (i <= j)
    BY <1>1, <2>2, <2>3
  <2>5. j \notin T
    <3> HIDE DEF T
    <3> QED BY <2>1, <2>4
  <2>6. Len(F[j]) = Len(H[j])
    BY <2>4, <2>5
  <2>7. F[j] \in Seq(S) /\ ss[i] \in Seq(S) /\ F[i] = F[j] \o ss[i]
    BY <2>4, FlattensStep DEF n
  <2>8. H[j] \in Seq(R) /\ rr[i] \in Seq(R) /\ H[i] = H[j] \o rr[i]
    <3>1. i \in 1..Len(rr)
      BY <2>4 DEF n
    <3> QED BY <3>1, FlattensStep
  <2>9. Len(ss[i]) = Len(rr[i])
    BY <2>4 DEF n
  <2>10. Len(F[i]) = Len(F[j]) + Len(ss[i])
    BY <2>7
  <2>11. Len(H[i]) = Len(H[j]) + Len(rr[i])
    BY <2>8
  <2> QED BY <2>2, <2>6, <2>9, <2>10, <2>11
<1> QED BY <1>2 DEF n

\* The elements of the flattened lists
LEMMA FlattenElems ==
  ASSUME NEW S, NEW ss \in Seq(Seq(S)), NEW F, Flattens(F, S, ss), NEW x
  PROVE  \A p \in 0..Len(ss) : x \in Elems(F[p]) <=> \E l \in 1..p : x \in Elems(ss[l])
<1> DEFINE n == Len(ss)
           OK(p) == x \in Elems(F[p]) <=> \E l \in 1..p : x \in Elems(ss[l])
           T == {p \in 0..n : ~ OK(p)}
<1>1. n \in Nat /\ F[0] = <<>>
  BY DEF Flattens
<1> HIDE DEF n
<1>2. T = {}
  <2> SUFFICES ASSUME T # {} PROVE FALSE
    OBVIOUS
  <2>1. PICK i \in T : \A j \in T : i <= j
    <3>1. T \subseteq Nat
      <4> HIDE DEF OK
      <4> QED BY <1>1
    <3> QED BY <3>1, LeastNat
  <2>2. i \in 0..n /\ ~ OK(i)
    OBVIOUS
  <2>3. i # 0
    <3>1. Elems(<<>>) = {}
      BY ElemsOfOne
    <3>2. OK(0)
      BY <1>1, <3>1
    <3> HIDE DEF OK
    <3> QED BY <2>2, <3>2
  <2> DEFINE j == i - 1
  <2>4. i \in 1..n /\ j \in 0..n /\ ~ (i <= j) /\ 1..i = 1..j \cup {i}
    BY <1>1, <2>2, <2>3
  <2>5. OK(j)
    <3>1. j \notin T
      <4> HIDE DEF T
      <4> QED BY <2>1, <2>4
    <3> HIDE DEF OK
    <3> QED BY <2>4, <3>1
  <2>6. F[j] \in Seq(S) /\ ss[i] \in Seq(S) /\ F[i] = F[j] \o ss[i]
    <3>1. i \in 1..Len(ss)
      BY <2>4 DEF n
    <3> HIDE DEF T
    <3> QED BY <3>1, FlattensStep
  <2>7. Elems(F[i]) = Elems(F[j]) \cup Elems(ss[i])
    <3>1. Elems(F[j] \o ss[i]) = Elems(F[j]) \cup Elems(ss[i])
      BY <2>6, ElemsOfJoin
    <3> QED BY <2>6, <3>1
  <2> HIDE DEF j
  <2>8. OK(i)
    BY <2>4, <2>5, <2>7
  <2> HIDE DEF OK
  <2> QED BY <2>2, <2>8
<1> HIDE DEF OK
<1>3. \A p \in 0..n : OK(p)
  BY <1>2
<1> QED BY <1>3 DEF OK, n

\* Ascending lists of ascending keys flatten to ascending keys.
AllAscend(ss) ==
  /\ \A i \in 1..Len(ss) : Ascending(ss[i])
  /\ \A i, j \in 1..Len(ss) : i < j => \A x \in Elems(ss[i]), y \in Elems(ss[j]) : x < y

\* Lists that ascend, each below the next, flatten to one that does.
LEMMA FlattenAscends ==
  ASSUME NEW ss \in Seq(Seq(Keys)), NEW F, Flattens(F, Keys, ss), AllAscend(ss)
  PROVE  Ascending(SE!FlattenSeq(ss)) /\ SE!FlattenSeq(ss) \in Seq(Keys)
<1> DEFINE n == Len(ss)
           OK(p) == Ascending(F[p])
           T == {p \in 0..n : ~ OK(p)}
<1>1. n \in Nat /\ F[0] = <<>>
  BY DEF Flattens
<1> HIDE DEF n
<1>2. T = {}
  <2> SUFFICES ASSUME T # {} PROVE FALSE
    OBVIOUS
  <2>1. PICK i \in T : \A j \in T : i <= j
    <3>1. T \subseteq Nat
      <4> HIDE DEF OK
      <4> QED BY <1>1
    <3> QED BY <3>1, LeastNat
  <2>2. i \in 0..n /\ ~ OK(i)
    OBVIOUS
  <2>3. i # 0
    <3>1. Ascending(<<>>)
      BY AscendingOne
    <3> QED BY <1>1, <2>2, <3>1
  <2> DEFINE j == i - 1
  <2>4. i \in 1..n /\ j \in 0..n /\ ~ (i <= j) /\ \A l \in 1..j : l \in 1..n /\ l < i
    BY <1>1, <2>2, <2>3
  <2>5. Ascending(F[j])
    <3>1. j \notin T
      <4> HIDE DEF T
      <4> QED BY <2>1, <2>4
    <3> QED BY <2>4, <3>1
  <2>6. F[j] \in Seq(Keys) /\ ss[i] \in Seq(Keys) /\ F[i] = F[j] \o ss[i]
    BY <2>4, FlattensStep DEF n
  <2>7. Ascending(ss[i])
    BY <2>4 DEF AllAscend, n
  <2>8. ASSUME NEW x \in Elems(F[j]), NEW y \in Elems(ss[i]) PROVE x < y
    <3>1. j \in 0..Len(ss)
      BY <2>4 DEF n
    <3> HIDE DEF j
    <3>2. PICK l \in 1..j : x \in Elems(ss[l])
      BY <3>1, FlattenElems, ZenonT(40)
    <3>3. l \in 1..Len(ss) /\ i \in 1..Len(ss) /\ l < i
      BY <2>4 DEF n
    <3> QED BY <3>2, <3>3 DEF AllAscend
  <2>9. Ascending(F[j] \o ss[i])
    BY <2>5, <2>6, <2>7, <2>8, AscendingJoin
  <2> QED BY <2>2, <2>6, <2>9
<1>3. n \in 0..n
  BY <1>1
<1>4. Ascending(F[n])
  BY <1>2, <1>3
<1> QED BY <1>3, <1>4 DEF Flattens, n

\* Ascending keys are as many as their list is long.
LEMMA AscendingCount ==
  ASSUME NEW k \in Seq(Keys), Ascending(k)
  PROVE  Cardinality(Elems(k)) = Len(k)
<1> DEFINE n == Len(k)
           f == [i \in 1..n |-> k[i]]
<1>1. n \in Nat
  OBVIOUS
<1>2. /\ \A i \in 1..n : k[i] \in Elems(k) /\ k[i] \in Int
      /\ \A x \in Elems(k) : \E i \in 1..n : k[i] = x
  <2>1. \A i \in 1..n : k[i] \in Keys
    BY ElementOfSeq
  <2> QED BY <2>1, KeysAreInts, ElemsFacts
<1>3. \A i, j \in 1..n : k[i] = k[j] => i = j
  <2> SUFFICES ASSUME NEW i \in 1..n, NEW j \in 1..n, k[i] = k[j] PROVE i = j
    OBVIOUS
  <2>1. i < j => k[i] < k[j]
    BY DEF Ascending
  <2>2. j < i => k[j] < k[i]
    BY DEF Ascending
  <2>3. k[i] \in Int /\ k[j] \in Int
    BY <1>2
  <2>4. ~ (i < j) /\ ~ (j < i)
    BY <2>1, <2>2, <2>3
  <2> QED BY <2>4
<1> HIDE DEF n
<1>4. f \in Bijection(1..n, Elems(k))
  <2>1. f \in [1..n -> Elems(k)]
    BY <1>2
  <2>2. \A i, j \in 1..n : f[i] = f[j] => i = j
    BY <1>3
  <2>3. \A x \in Elems(k) : \E i \in 1..n : f[i] = x
    BY <1>2
  <2> HIDE DEF f
  <2> QED BY <2>1, <2>2, <2>3 DEF Bijection, Injection, Surjection, IsInjective
<1>5. ExistsBijection(1..n, Elems(k))
  BY <1>4 DEF ExistsBijection
<1>6. Cardinality(Elems(k)) = n
  BY <1>1, <1>5, FS_CountingElements
<1> QED BY <1>6 DEF n

-----------------------------------------------------------------------------
(* The part of a list between two keys                                     *)

\* The bounds are the only numbers that divide the keys so.
LEMMA LowerBoundOnly ==
  ASSUME NEW k \in Seq(Keys), Ascending(k), NEW x \in Int, NEW n \in 0..Len(k),
         \A i \in 1..n : k[i] < x, \A i \in (n + 1)..Len(k) : x <= k[i]
  PROVE  LowerBound(k, x) = n
<1> DEFINE b == LowerBound(k, x)
<1>1. b \in 0..Len(k) /\ (\A i \in 1..b : k[i] < x) /\ \A i \in (b + 1)..Len(k) : x <= k[i]
  BY LowerBoundFacts
<1>2. \A i \in 1..Len(k) : k[i] \in Int
  <2>1. \A i \in 1..Len(k) : k[i] \in Keys
    BY ElementOfSeq
  <2> QED BY <2>1, KeysAreInts
<1>3. Len(k) \in Nat
  OBVIOUS
<1> HIDE DEF b
<1>4. ASSUME b < n PROVE FALSE
  <2>1. b + 1 \in 1..n /\ b + 1 \in (b + 1)..Len(k) /\ b + 1 \in 1..Len(k)
    BY <1>1, <1>3, <1>4
  <2>2. k[b + 1] < x /\ x <= k[b + 1] /\ k[b + 1] \in Int
    BY <1>1, <1>2, <2>1
  <2> QED BY <2>2
<1>5. ASSUME n < b PROVE FALSE
  <2>1. n + 1 \in 1..b /\ n + 1 \in (n + 1)..Len(k) /\ n + 1 \in 1..Len(k)
    BY <1>1, <1>3, <1>5
  <2>2. k[n + 1] < x /\ x <= k[n + 1] /\ k[n + 1] \in Int
    BY <1>1, <1>2, <2>1
  <2> QED BY <2>2
<1>6. b = n
  BY <1>1, <1>3, <1>4, <1>5
<1> QED BY <1>6 DEF b

\* The upper bound, likewise
LEMMA UpperBoundOnly ==
  ASSUME NEW k \in Seq(Keys), Ascending(k), NEW x \in Int, NEW n \in 0..Len(k),
         \A i \in 1..n : k[i] <= x, \A i \in (n + 1)..Len(k) : x < k[i]
  PROVE  UpperBound(k, x) = n
<1> DEFINE b == UpperBound(k, x)
<1>1. b \in 0..Len(k) /\ (\A i \in 1..b : k[i] <= x) /\ \A i \in (b + 1)..Len(k) : x < k[i]
  BY UpperBoundFacts
<1>2. \A i \in 1..Len(k) : k[i] \in Int
  <2>1. \A i \in 1..Len(k) : k[i] \in Keys
    BY ElementOfSeq
  <2> QED BY <2>1, KeysAreInts
<1>3. Len(k) \in Nat
  OBVIOUS
<1> HIDE DEF b
<1>4. ASSUME b < n PROVE FALSE
  <2>1. b + 1 \in 1..n /\ b + 1 \in (b + 1)..Len(k) /\ b + 1 \in 1..Len(k)
    BY <1>1, <1>3, <1>4
  <2>2. k[b + 1] <= x /\ x < k[b + 1] /\ k[b + 1] \in Int
    BY <1>1, <1>2, <2>1
  <2> QED BY <2>2
<1>5. ASSUME n < b PROVE FALSE
  <2>1. n + 1 \in 1..b /\ n + 1 \in (n + 1)..Len(k) /\ n + 1 \in 1..Len(k)
    BY <1>1, <1>3, <1>5
  <2>2. k[n + 1] <= x /\ x < k[n + 1] /\ k[n + 1] \in Int
    BY <1>1, <1>2, <2>1
  <2> QED BY <2>2
<1>6. b = n
  BY <1>1, <1>3, <1>4, <1>5
<1> QED BY <1>6 DEF b

\* k continues keys below x with v.
Follows(k, u, v, x) == k = u \o v /\ Ascending(k) /\ \A y \in Elems(u) : y < x

\* The bounds in keys that keys below the start of a range precede
LEMMA BoundsAfter ==
  ASSUME NEW u \in Seq(Keys), NEW v \in Seq(Keys), NEW k,
         NEW x \in Int, Follows(k, u, v, x), NEW z \in Int
  PROVE  /\ Ascending(v) /\ k \in Seq(Keys)
         /\ LowerBound(k, x) = Len(u) + LowerBound(v, x)
         /\ UpperBound(v, z) = 0 => UpperBound(k, z) <= Len(u)
         /\ UpperBound(v, z) # 0 => UpperBound(k, z) = Len(u) + UpperBound(v, z)
<1> DEFINE p == Len(u)
           l == LowerBound(v, x)
           h == UpperBound(v, z)
           b == UpperBound(k, z)
<1>0. k = u \o v /\ Ascending(k) /\ \A y \in Elems(u) : y < x
  BY DEF Follows
<1>1. /\ Ascending(u) /\ Ascending(v) /\ \A y \in Elems(u), w \in Elems(v) : y < w
  <2>1. Ascending(u \o v)
    BY <1>0
  <2> QED BY <2>1, AscendingJoin
<1>2. /\ k \in Seq(Keys) /\ Len(k) = p + Len(v) /\ p \in Nat /\ Len(v) \in Nat
      /\ \A i \in 1..p : k[i] = u[i]
      /\ \A i \in 1..Len(v) : k[p + i] = v[i]
  <2>1. /\ u \o v \in Seq(Keys) /\ Len(u \o v) = Len(u) + Len(v)
        /\ Len(u) \in Nat /\ Len(v) \in Nat
        /\ \A i \in 1..Len(u) : (u \o v)[i] = u[i]
        /\ \A i \in 1..Len(v) : (u \o v)[Len(u) + i] = v[i]
    BY JoinPositions
  <2> QED BY <1>0, <2>1
<1>3. l \in 0..Len(v) /\ (\A i \in 1..l : v[i] < x) /\ \A i \in (l + 1)..Len(v) : x <= v[i]
  BY <1>1, LowerBoundFacts
<1>4. h \in 0..Len(v) /\ (\A i \in 1..h : v[i] <= z) /\ \A i \in (h + 1)..Len(v) : z < v[i]
  BY <1>1, UpperBoundFacts
<1>5. /\ \A i \in 1..p : u[i] \in Elems(u) /\ u[i] \in Int
      /\ \A i \in 1..Len(v) : v[i] \in Elems(v) /\ v[i] \in Int
  <2>1. /\ \A i \in 1..p : u[i] \in Elems(u)
        /\ \A i \in 1..Len(v) : v[i] \in Elems(v)
    BY ElemsFacts
  <2>2. Elems(u) \subseteq Keys /\ Elems(v) \subseteq Keys
    BY ElemsFacts
  <2> QED BY <2>1, <2>2, KeysAreInts
<1>6. \A i \in 1..p : u[i] < x
  BY <1>0, <1>5
<1> HIDE DEF p, l, h
<1>7. \A i \in (p + 1)..Len(k) : i - p \in 1..Len(v) /\ k[i] = v[i - p]
  <2> TAKE i \in (p + 1)..Len(k)
  <2> DEFINE j == i - p
  <2>1. j \in 1..Len(v) /\ p + j = i
    BY <1>2
  <2> HIDE DEF j
  <2>2. k[p + j] = v[j]
    BY <1>2, <2>1
  <2> QED BY <2>1, <2>2 DEF j
<1>8. LowerBound(k, x) = p + l
  <2> DEFINE n == p + l
  <2>1. n \in 0..Len(k)
    BY <1>2, <1>3
  <2>2. ASSUME NEW i \in 1..n PROVE k[i] < x
    <3>1. CASE i \in 1..p
      BY <1>2, <1>6, <3>1
    <3>2. CASE i \notin 1..p
      <4>1. i \in (p + 1)..Len(k) /\ i - p \in 1..l
        BY <1>2, <1>3, <3>2
      <4> QED BY <1>3, <1>7, <4>1
    <3> QED BY <3>1, <3>2
  <2>3. ASSUME NEW i \in (n + 1)..Len(k) PROVE x <= k[i]
    <3>1. i \in (p + 1)..Len(k) /\ i - p \in (l + 1)..Len(v)
      BY <1>2, <1>3
    <3> QED BY <1>3, <1>7, <3>1
  <2> HIDE DEF n
  <2>4. LowerBound(k, x) = n
    BY <1>0, <1>2, <2>1, <2>2, <2>3, LowerBoundOnly
  <2> QED BY <2>4 DEF n
<1>9. ASSUME h = 0 PROVE b <= p
  <2>1. b \in 0..Len(k) /\ \A i \in 1..b : k[i] <= z
    BY <1>0, <1>2, UpperBoundFacts
  <2> HIDE DEF b
  <2>2. ASSUME p < b PROVE FALSE
    <3>1. b \in 1..b /\ b \in (p + 1)..Len(k) /\ b - p \in (h + 1)..Len(v) /\ b - p \in 1..Len(v)
      BY <1>2, <1>9, <2>1, <2>2
    <3>2. k[b] <= z /\ z < k[b] /\ k[b] \in Int
      BY <1>4, <1>5, <1>7, <2>1, <3>1
    <3> QED BY <3>2
  <2> QED BY <1>2, <2>1, <2>2
<1>10. ASSUME h # 0 PROVE b = p + h
  <2> DEFINE n == p + h
  <2>1. n \in 0..Len(k) /\ 1 \in 1..h /\ 1 \in 1..Len(v)
    BY <1>2, <1>4, <1>10
  <2>2. ASSUME NEW i \in 1..n PROVE k[i] <= z
    <3>1. CASE i \in 1..p
      <4>1. k[i] = u[i] /\ u[i] < v[1] /\ v[1] <= z /\ u[i] \in Int /\ v[1] \in Int
        BY <1>1, <1>2, <1>4, <1>5, <2>1, <3>1
      <4> QED BY <4>1
    <3>2. CASE i \notin 1..p
      <4>1. i \in (p + 1)..Len(k) /\ i - p \in 1..h
        BY <1>2, <1>4, <3>2
      <4> QED BY <1>4, <1>7, <4>1
    <3> QED BY <3>1, <3>2
  <2>3. ASSUME NEW i \in (n + 1)..Len(k) PROVE z < k[i]
    <3>1. i \in (p + 1)..Len(k) /\ i - p \in (h + 1)..Len(v)
      BY <1>2, <1>4
    <3> QED BY <1>4, <1>7, <3>1
  <2> HIDE DEF n
  <2>4. UpperBound(k, z) = n
    BY <1>0, <1>2, <2>1, <2>2, <2>3, UpperBoundOnly
  <2> QED BY <2>4 DEF n
<1> QED BY <1>1, <1>2, <1>8, <1>9, <1>10 DEF p, l, h, b

\* The part of the data d that goes with the keys k from x to z
Between(k, d, x, z) == SubSeq(d, LowerBound(k, x) + 1, UpperBound(k, z))

\* Keys below the start of a range may be skipped.
LEMMA SkipBelow ==
  ASSUME NEW u \in Seq(Keys), NEW v \in Seq(Keys), NEW k,
         NEW x \in Int, Follows(k, u, v, x), NEW z \in Int,
         NEW S, NEW c \in Seq(S), NEW d \in Seq(S), Len(c) = Len(u), Len(d) = Len(v)
  PROVE  Between(k, c \o d, x, z) = Between(v, d, x, z)
<1> DEFINE p == Len(u)
           l == LowerBound(v, x)
           h == UpperBound(v, z)
           b == UpperBound(k, z)
           lb == LowerBound(k, x)
           cd == c \o d
<1>1. /\ Ascending(v) /\ k \in Seq(Keys) /\ lb = p + l
      /\ h = 0 => b <= p
      /\ h # 0 => b = p + h
  BY BoundsAfter
<1>2. l \in 0..Len(v) /\ h \in 0..Len(v) /\ p \in Nat /\ Len(v) \in Nat
  <2>1. l \in 0..Len(v)
    BY <1>1, LowerBoundFacts
  <2>2. h \in 0..Len(v)
    BY <1>1, UpperBoundFacts
  <2>3. p \in Nat /\ Len(v) \in Nat
    OBVIOUS
  <2> QED BY <2>1, <2>2, <2>3
<1>3. b \in Int
  <2>0. Ascending(k)
    BY DEF Follows
  <2>1. b \in 0..Len(k)
    BY <1>1, <2>0, UpperBoundFacts
  <2> QED BY <1>1, <2>1
<1>4. Len(c) = p /\ Len(d) = Len(v)
  OBVIOUS
<1> HIDE DEF p, l, h, b, lb
<1>5. CASE h < l + 1
  <2>1. b < lb + 1 /\ lb + 1 \in Int /\ l + 1 \in Int /\ h \in Int
    BY <1>1, <1>2, <1>3, <1>5
  <2> HIDE DEF cd
  <2>2. SubSeq(cd, lb + 1, b) = <<>> /\ SubSeq(d, l + 1, h) = <<>>
    BY <1>3, <1>5, <2>1, SubSeqEmpty
  <2> QED BY <2>2 DEF Between, b, lb, l, h, cd
<1>6. CASE ~ (h < l + 1)
  <2> DEFINE i == lb + 1
  <2>1. /\ i \in (Len(c) + 1)..(Len(c) + Len(d)) /\ b \in (Len(c) + 1)..(Len(c) + Len(d))
        /\ i - Len(c) = l + 1 /\ b - Len(c) = h
    BY <1>1, <1>2, <1>4, <1>6
  <2> HIDE DEF i
  <2>2. SubSeq(c \o d, i, b) = SubSeq(d, i - Len(c), b - Len(c))
    BY ONLY c \in Seq(S), d \in Seq(S), <2>1, SubSeqOfConcat2
  <2>3. SubSeq(cd, i, b) = SubSeq(d, l + 1, h)
    BY <2>1, <2>2
  <2> HIDE DEF cd
  <2> QED BY <2>3 DEF Between, i, b, lb, l, h, cd
<1> QED BY <1>5, <1>6

=============================================================================

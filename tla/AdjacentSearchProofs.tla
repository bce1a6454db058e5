------------------------- MODULE AdjacentSearchProofs -------------------------
(***************************************************************************)
(* Proofs about the search for the adjacent worker: for every key width,   *)
(* delta, filter and set of keys, the loop returns the nearest key that    *)
(* the filter lets it reach, and its stack stays small.                    *)
(***************************************************************************)
EXTENDS AdjacentSearch, ShiftTheorems

-----------------------------------------------------------------------------
(* The filter *)

\* There is a level: the constructor's k_ is between 1 and the key width.
LEMMA LevelCountFacts == LevelCount \in 1..KeyBits
<1>1. KeyBits \in Nat /\ Delta \in Nat \ {0} /\ NItems \in Nat \ {0} /\ NItems < Pow2[KeyBits]
  BY RFAssumption DEF NItems
<1>2. \E k \in 1..KeyBits :
        /\ Pow2[KeyBits] <= NItems * Pow2[k * Delta]
        /\ \A j \in 0..(k - 1) : Pow2[KeyBits] > NItems * Pow2[j * Delta]
  BY <1>1, LevelsExist
<1> QED BY <1>2 DEF LevelCount

\* The bit of a key at a level lies at most one word behind the last word of the
\* filter, and is the bit of the first key of its node.
LEMMA PositionFacts ==
  ASSUME NEW key \in Nat, NEW i \in Levels
  PROVE  /\ Position(key, i) \in 0..(FilterSize + WordBits - 1)
         /\ Position(AlignDown(key, i * Delta), i) = Position(key, i)
<1> DEFINE n == Delta - 1
           l == i * Delta
           c == FilterSize \div WordBits
<1>1. Delta \in Nat \ {0} /\ i \in Nat /\ n \in Nat /\ n + 1 = Delta /\ l \in Nat /\ l + Delta - 1 = l + n
  <2>1. Delta \in Nat \ {0} /\ i \in Nat
    BY RFAssumption, LevelCountFacts DEF Levels
  <2> QED BY <2>1
<1>2. A(i) \in Nat /\ B(i) \in Nat
  <2>1. i % 8 \in 0..7
    BY <1>1, DivModLaw
  <2>2. \A j \in 0..7 : PrimesA[j + 1] \in Nat /\ PrimesB[j + 1] \in Nat
    BY DEF PrimesA, PrimesB
  <2> QED BY <2>1, <2>2 DEF A, B
<1>3. WordBits = Pow2[n] /\ WordBits \in Nat \ {0}
  BY <1>1, Pow2Facts DEF WordBits
<1> HIDE DEF n, l
<1>4. c \in Nat \ {0} /\ FilterSize = c * WordBits
  <2> DEFINE e == (RawSize + WordBits - 1) \div WordBits
  <2>1. RawSize \in Nat \ {0} /\ FilterSize = e * WordBits
    BY RFAssumption DEF FilterSize
  <2>2. e \in Nat \ {0} /\ (e * WordBits) \div WordBits = e
    BY <1>3, <2>1, WholeWords
  <2> HIDE DEF e
  <2> QED BY <2>1, <2>2
<1>5. \A x : Position(x, i) = HashedBit(A(i), B(i), c, n, l, x)
  BY <1>1, <1>3 DEF Position, Word, Offset, Prefix, LevelShift, HashedBit, Shl, n, l
<1> HIDE DEF c
<1> DEFINE a == A(i)
           b == B(i)
<1> HIDE DEF a, b
<1>6. a \in Nat /\ b \in Nat /\ c \in Nat \ {0} /\ n \in Nat /\ l \in Nat /\ key \in Nat
  BY <1>1, <1>2, <1>4 DEF a, b
<1>7. /\ HashedBit(a, b, c, n, l, key) \in 0..(c * Pow2[n] + Pow2[n] - 1)
      /\ HashedBit(a, b, c, n, l, AlignDown(key, l)) = HashedBit(a, b, c, n, l, key)
  BY ONLY <1>6, HashedBitFacts
<1> QED BY <1>3, <1>4, <1>5, <1>7 DEF l, a, b

\* The greatest and the least key of a set, and NoKey where there is none
LEMMA ExtremeFacts ==
  ASSUME NEW xs, xs \subseteq Nat
  PROVE  /\ IF xs = {} THEN Least(xs) = NoKey
            ELSE Least(xs) \in xs /\ \A y \in xs : Least(xs) <= y
         /\ \A n \in Nat : (\A x \in xs : x <= n) =>
              IF xs = {} THEN Greatest(xs) = NoKey
              ELSE Greatest(xs) \in xs /\ \A y \in xs : y <= Greatest(xs)
<1>1. xs # {} => Least(xs) \in xs /\ \A y \in xs : Least(xs) <= y
  BY LeastOf DEF Least
<1>2. ASSUME NEW n \in Nat, \A x \in xs : x <= n, xs # {}
      PROVE  Greatest(xs) \in xs /\ \A y \in xs : y <= Greatest(xs)
  BY <1>2, GreatestOf DEF Greatest
<1>3. xs = {} => Least(xs) = NoKey /\ Greatest(xs) = NoKey
  BY DEF Least, Greatest
<1> QED BY <1>1, <1>2, <1>3

\* What the two searches return.
LEMMA AdjacentFacts ==
  ASSUME NEW ps, ps \subseteq Nat, NEW bs, NEW to \in Nat
  PROVE  LET l == LeftAdjacent(ps, bs, to)
             r == RightAdjacent(ps, bs, to)
         IN  /\ \/ /\ l = NoKey
                   /\ \A x \in ps : x <= to => ~ Visible(ps, bs, x)
                \/ /\ l \in ps /\ l <= to /\ Visible(ps, bs, l)
                   /\ \A x \in ps : x <= to /\ Visible(ps, bs, x) => x <= l
             /\ \/ /\ r = NoKey
                   /\ \A x \in ps : x >= to => ~ Visible(ps, bs, x)
                \/ /\ r \in ps /\ r >= to /\ Visible(ps, bs, r)
                   /\ \A x \in ps : x >= to /\ Visible(ps, bs, x) => r <= x
<1> DEFINE L == {x \in ps : x <= to /\ Visible(ps, bs, x)}
           R == {x \in ps : x >= to /\ Visible(ps, bs, x)}
<1>1. IF L = {} THEN Greatest(L) = NoKey
      ELSE Greatest(L) \in L /\ \A y \in L : y <= Greatest(L)
  <2>1. L \subseteq Nat /\ \A x \in L : x <= to
    OBVIOUS
  <2> HIDE DEF L
  <2> QED BY <2>1, ExtremeFacts
<1>2. IF R = {} THEN Least(R) = NoKey
      ELSE Least(R) \in R /\ \A y \in R : Least(R) <= y
  <2>1. R \subseteq Nat
    OBVIOUS
  <2> HIDE DEF R
  <2> QED BY <2>1, ExtremeFacts
<1>3. LeftAdjacent(ps, bs, to) = Greatest(L) /\ RightAdjacent(ps, bs, to) = Least(R)
  BY DEF LeftAdjacent, RightAdjacent
<1> QED BY <1>1, <1>2, <1>3

\* A key of the index that the tree covers is reached, whatever other bits are set.
LEMMA BitsMakeVisible ==
  ASSUME NEW ps, NEW bs, NEW x \in ps, x \in Nat, x < Coverage,
         \A i \in Levels : Position(x, i) \in bs
  PROVE  Visible(ps, bs, x)
<1>1. \A i \in 1..MaxLevel : i \in Levels
  BY LevelCountFacts, RFAssumption DEF Levels, MaxLevel
<1>2. ASSUME NEW i \in 1..MaxLevel PROVE CheckAtLevel(bs, AlignDown(x, i * Delta), i)
  BY <1>1, PositionFacts DEF CheckAtLevel
<1> QED BY <1>2 DEF Visible

-----------------------------------------------------------------------------
(* The tree of prefixes *)

\* The tree has a level above the leaves, and nodes have children.
LEMMA LevelFacts == MaxLevel \in Nat \ {0} /\ Delta \in Nat \ {0} /\ Fanout \in Nat \ {0}
BY LevelCountFacts, ASAssumption, RFAssumption, Pow2Facts DEF MaxLevel, Fanout

\* A node's children split its keys evenly.
LEMMA SpanFacts ==
  ASSUME NEW l \in Nat
  PROVE  /\ Span(l) \in Nat \ {0} /\ Span(0) = 1
         /\ Span(l + 1) = Fanout * Span(l)
<1>1. l * Delta \in Nat /\ (l + 1) * Delta = Delta + l * Delta /\ 0 * Delta = 0 /\ Delta \in Nat
  BY LevelFacts
<1>2. Pow2[Delta + l * Delta] = Pow2[Delta] * Pow2[l * Delta]
  BY <1>1, Pow2Add
<1>3. Pow2[l * Delta] \in Nat \ {0} /\ Pow2[0] = 1
  BY <1>1, Pow2Facts
<1> QED BY <1>1, <1>2, <1>3 DEF Span, Fanout

\* A node of the tree of prefixes: aligned to its level, and below the root.
IsNode(s) ==
  /\ s[1] \in Nat /\ s[2] \in 0..MaxLevel
  /\ \E q \in Nat : s[1] = Span(s[2]) * q
  /\ s[1] + Span(s[2]) <= Coverage

\* The root is a node.
LEMMA RootIsNode == IsNode(<<0, MaxLevel>>)
<1>1. MaxLevel \in Nat /\ Span(MaxLevel) \in Nat /\ Span(MaxLevel) = Coverage
  BY LevelFacts, SpanFacts DEF Span, Coverage
<1>2. 0 = Span(MaxLevel) * 0
  BY <1>1
<1> QED BY <1>1, <1>2 DEF IsNode

\* Clearing the low bits of a key gives the node of that level the key is under.
LEMMA AlignedNode ==
  ASSUME NEW s, IsNode(s), NEW x \in Nat, Under(x, s)
  PROVE  AlignDown(x, s[2] * Delta) = s[1]
<1> DEFINE S == Span(s[2])
<1>1. PICK q \in Nat : s[1] = S * q
  BY DEF IsNode
<1>2. S \in Nat \ {0} /\ s[1] \in Nat
  BY LevelFacts, SpanFacts DEF IsNode
<1>3. AlignDown(x, s[2] * Delta) = (x \div S) * S
  BY DEF AlignDown, Shl, Shr, Span
<1>4. s[1] <= x /\ x < s[1] + S
  BY DEF Under
<1> HIDE DEF S
<1>5. x - s[1] \in Nat /\ x - s[1] < S /\ x = S * q + (x - s[1])
  BY <1>1, <1>2, <1>4
<1>6. q = x \div S
  BY <1>2, <1>5, DivModUnique
<1>7. S * q = q * S
  BY <1>2
<1> QED BY <1>1, <1>3, <1>6, <1>7

-----------------------------------------------------------------------------
(* The children of a node *)

\* The child of s in slot j
Slot(s, j) == <<Child(s, j), s[2] - 1>>

\* The children of a node, by their number
LEMMA SlotFacts ==
  ASSUME NEW s, IsNode(s), s[2] # 0
  PROVE  LET S == Span(s[2] - 1)
         IN  /\ S \in Nat \ {0} /\ s[1] \in Nat /\ Span(s[2]) = Fanout * S
             /\ s[2] - 1 \in 0..MaxLevel /\ s[2] \in Nat
             /\ \A j : /\ Child(s, j) = s[1] + j * S
                       /\ Slot(s, j)[1] = Child(s, j) /\ Slot(s, j)[2] = s[2] - 1
                       /\ \A x : Under(x, Slot(s, j)) <=> Child(s, j) <= x /\ x < Child(s, j) + S
<1>1. s[2] - 1 \in 0..MaxLevel /\ s[2] - 1 \in Nat /\ (s[2] - 1) + 1 = s[2] /\ s[1] \in Nat
      /\ s[2] \in Nat
  BY LevelFacts DEF IsNode
<1>2. Span(s[2] - 1) \in Nat \ {0} /\ Span(s[2]) = Fanout * Span(s[2] - 1)
  BY <1>1, SpanFacts
<1> QED BY <1>1, <1>2 DEF Child, Slot, Under

\* Children are disjoint and in key order.
LEMMA SlotsApart ==
  ASSUME NEW s, IsNode(s), s[2] # 0, NEW i \in Nat, NEW j \in Nat, i < j
  PROVE  Child(s, i) + Span(s[2] - 1) <= Child(s, j)
<1> DEFINE S == Span(s[2] - 1)
<1>1. S \in Nat \ {0} /\ s[1] \in Nat /\ Child(s, i) = s[1] + i * S /\ Child(s, j) = s[1] + j * S
  BY SlotFacts
<1> HIDE DEF S
<1>2. j - (i + 1) \in Nat /\ j * S = (i + 1) * S + (j - (i + 1)) * S
  BY <1>1
<1>3. (j - (i + 1)) * S \in Nat /\ (i + 1) * S = i * S + S /\ i * S \in Nat
  BY <1>1, <1>2
<1> QED BY <1>1, <1>2, <1>3 DEF S

\* A child is a node, and its keys are keys of its parent.
LEMMA SlotIsNode ==
  ASSUME NEW s, IsNode(s), s[2] # 0, NEW j \in 0..(Fanout - 1)
  PROVE  /\ IsNode(Slot(s, j)) /\ Child(s, j) \in Nat
         /\ s[1] <= Child(s, j) /\ Child(s, j) + Span(s[2] - 1) <= s[1] + Span(s[2])
<1> DEFINE S == Span(s[2] - 1)
<1>1. /\ S \in Nat \ {0} /\ s[1] \in Nat /\ Span(s[2]) = Fanout * S /\ s[2] - 1 \in 0..MaxLevel
      /\ Child(s, j) = s[1] + j * S
      /\ Slot(s, j)[1] = Child(s, j) /\ Slot(s, j)[2] = s[2] - 1
  BY SlotFacts
<1>2. PICK q \in Nat : s[1] = Span(s[2]) * q
  BY DEF IsNode
<1>3. s[1] + Span(s[2]) <= Coverage
  BY DEF IsNode
<1>4. Coverage \in Nat
  <2>1. MaxLevel * Delta \in Nat
    BY LevelFacts
  <2> QED BY <2>1, Pow2Facts DEF Coverage
<1>5. Fanout \in Nat \ {0} /\ j \in Nat /\ Fanout * q + j \in Nat
  BY LevelFacts
<1> HIDE DEF S
<1>6. j * S \in Nat /\ j * S + S <= Fanout * S
  <2>1. Fanout - (j + 1) \in Nat /\ Fanout * S = (j + 1) * S + (Fanout - (j + 1)) * S
    BY <1>1, <1>5
  <2>2. (Fanout - (j + 1)) * S \in Nat /\ (j + 1) * S = j * S + S /\ j * S \in Nat
    BY <1>1, <1>5, <2>1
  <2> QED BY <1>1, <1>5, <2>1, <2>2
<1>7. Child(s, j) = S * (Fanout * q + j)
  <2>1. S * (Fanout * q + j) = S * (Fanout * q) + S * j /\ S * j = j * S
    BY <1>1, <1>5
  <2>2. S * (Fanout * q) = (Fanout * S) * q
    BY <1>1, <1>5
  <2> QED BY <1>1, <1>2, <2>1, <2>2
<1>8. Child(s, j) \in Nat /\ s[1] <= Child(s, j) /\ Child(s, j) + S <= s[1] + Span(s[2])
  BY <1>1, <1>5, <1>6
<1>9. Child(s, j) + S <= Coverage
  <2>1. Span(s[2]) \in Nat
    BY <1>1, <1>5
  <2> QED BY <1>1, <1>3, <1>4, <1>8, <2>1
<1>10. \E r \in Nat : Child(s, j) = S * r
  BY <1>5, <1>7
<1>11. IsNode(Slot(s, j))
  BY <1>1, <1>8, <1>9, <1>10 DEF IsNode, S
<1> QED BY <1>8, <1>11 DEF S

\* Every key of a node is a key of one of its children.
LEMMA SlotExists ==
  ASSUME NEW s, IsNode(s), s[2] # 0, NEW x \in Nat, Under(x, s)
  PROVE  \E j \in 0..(Fanout - 1) : Under(x, Slot(s, j))
<1> DEFINE S == Span(s[2] - 1)
           d == x - s[1]
           j == d \div S
<1>1. /\ S \in Nat \ {0} /\ s[1] \in Nat /\ Span(s[2]) = Fanout * S
      /\ Child(s, j) = s[1] + j * S
      /\ Under(x, Slot(s, j)) <=> Child(s, j) <= x /\ x < Child(s, j) + S
  BY SlotFacts
<1>2. d \in Nat /\ d < Fanout * S /\ x = s[1] + d
  <2>1. s[1] <= x /\ x < s[1] + Span(s[2])
    BY DEF Under
  <2>2. s[1] \in Nat /\ Span(s[2]) = Fanout * S /\ Fanout * S \in Nat
    BY <1>1, LevelFacts
  <2> HIDE DEF S
  <2> QED BY <2>1, <2>2
<1>3. Fanout \in Nat \ {0}
  BY LevelFacts
<1> HIDE DEF S, d
<1>4. j \in Nat /\ d % S \in 0..(S - 1) /\ d = S * j + (d % S)
  BY <1>1, <1>2, DivModLaw
<1> HIDE DEF j
<1>5. j < Fanout
  <2> SUFFICES ASSUME j >= Fanout PROVE FALSE
    BY <1>3, <1>4
  <2>1. j - Fanout \in Nat /\ S * j = S * Fanout + S * (j - Fanout)
    BY <1>1, <1>3, <1>4
  <2>2. S * (j - Fanout) \in Nat /\ S * Fanout = Fanout * S /\ Fanout * S \in Nat
    BY <1>1, <1>3, <2>1
  <2> QED BY <1>1, <1>2, <1>4, <2>1, <2>2
<1>6. S * j = j * S /\ j * S \in Nat
  BY <1>1, <1>4
<1>7. Under(x, Slot(s, j))
  BY <1>1, <1>2, <1>4, <1>6
<1> QED BY <1>3, <1>4, <1>5, <1>7

\* How many children start below a key, and which is the first above.
LEMMA BelowFacts ==
  ASSUME NEW s, IsNode(s), s[2] # 0, NEW w \in Nat
  PROVE  /\ Below(s, w) \in 0..Fanout
         /\ \A j \in 0..(Fanout - 1) : Child(s, j) < w <=> j < Below(s, w)
         /\ Above(s, w) \in 0..Fanout
         /\ \A j \in 0..(Fanout - 1) : Child(s, j) > w <=> j >= Above(s, w)
<1>1. Fanout \in Nat \ {0}
  BY LevelFacts
<1>2. \A i, j \in 0..(Fanout - 1) : Child(s, i) \in Nat /\ (i < j => Child(s, i) <= Child(s, j))
  <2> SUFFICES ASSUME NEW i \in 0..(Fanout - 1), NEW j \in 0..(Fanout - 1)
               PROVE  Child(s, i) \in Nat /\ (i < j => Child(s, i) <= Child(s, j))
    OBVIOUS
  <2>1. Child(s, i) \in Nat /\ Child(s, j) \in Nat /\ Span(s[2] - 1) \in Nat
    BY SlotIsNode, SlotFacts
  <2>2. i < j => Child(s, i) + Span(s[2] - 1) <= Child(s, j)
    BY <1>1, SlotsApart
  <2> QED BY <2>1, <2>2
<1>3. \E n \in 0..Fanout : \A j \in 0..(Fanout - 1) : Child(s, j) < w <=> j < n
  <2> DEFINE T == {n \in 0..Fanout : \A j \in 0..(Fanout - 1) : j >= n => Child(s, j) >= w}
  <2>1. Fanout \in T /\ T \subseteq Nat
    BY <1>1
  <2>2. PICK n \in T : \A m \in T : n <= m
    <3> HIDE DEF T
    <3> QED BY <2>1, LeastNat
  <2>3. ASSUME NEW j \in 0..(Fanout - 1), j < n PROVE Child(s, j) < w
    <3>1. j \notin T /\ j \in 0..Fanout
      <4>1. j \notin T
        <5> HIDE DEF T
        <5> QED BY <1>1, <2>1, <2>2, <2>3
      <4> QED BY <1>1, <4>1
    <3>2. PICK i \in 0..(Fanout - 1) : i >= j /\ ~ (Child(s, i) >= w)
      BY <3>1
    <3> QED BY <1>2, <3>2
  <2>4. n \in 0..Fanout /\ \A j \in 0..(Fanout - 1) : j >= n => Child(s, j) >= w
    BY <2>2
  <2> HIDE DEF T
  <2>5. \A j \in 0..(Fanout - 1) : Child(s, j) < w <=> j < n
    BY <1>1, <1>2, <2>3, <2>4
  <2> QED BY <2>4, <2>5
<1>4. \E n \in 0..Fanout : \A j \in 0..(Fanout - 1) : Child(s, j) > w <=> j >= n
  <2> DEFINE T == {n \in 0..Fanout : \A j \in 0..(Fanout - 1) : j >= n => Child(s, j) > w}
  <2>1. Fanout \in T /\ T \subseteq Nat
    BY <1>1
  <2>2. PICK n \in T : \A m \in T : n <= m
    <3> HIDE DEF T
    <3> QED BY <2>1, LeastNat
  <2>3. ASSUME NEW j \in 0..(Fanout - 1), j < n PROVE ~ (Child(s, j) > w)
    <3>1. j \notin T /\ j \in 0..Fanout
      <4>1. j \notin T
        <5> HIDE DEF T
        <5> QED BY <1>1, <2>1, <2>2, <2>3
      <4> QED BY <1>1, <4>1
    <3>2. PICK i \in 0..(Fanout - 1) : i >= j /\ ~ (Child(s, i) > w)
      BY <3>1
    <3> QED BY <1>2, <3>2
  <2>4. n \in 0..Fanout /\ \A j \in 0..(Fanout - 1) : j >= n => Child(s, j) > w
    BY <2>2
  <2> HIDE DEF T
  <2>5. \A j \in 0..(Fanout - 1) : Child(s, j) > w <=> j >= n
    BY <1>1, <1>2, <2>3, <2>4
  <2> QED BY <2>4, <2>5
<1> QED BY <1>3, <1>4 DEF Below, Above

-----------------------------------------------------------------------------
(* The children that the search pushes *)

\* The keys of a node reach the search's side of the target.
Reaches(sd, s, w) == IF sd = "left" THEN s[1] <= w ELSE s[1] + Span(s[2]) > w

\* The sequence cs is a family of children of s: those that reach the side sd of
\* w, the nearest on top; f is the slots they come from.
Family(cs, f, s, w, sd) ==
  /\ cs \in Seq(Nat \X Nat) /\ Len(cs) <= Fanout + 1
  /\ f \in [1..Len(cs) -> 0..(Fanout - 1)]
  /\ \A i \in 1..Len(cs) : cs[i] = Slot(s, f[i])
  /\ \A j \in 0..(Fanout - 1) : Reaches(sd, Slot(s, j), w) <=> \E i \in 1..Len(cs) : f[i] = j
  /\ \A a, b \in 1..Len(cs) : a < b => IF sd = "left" THEN f[a] <= f[b] ELSE f[b] <= f[a]

\* The child that holds w, if w is a key of the node.
LEMMA AlignedChildFacts ==
  ASSUME NEW s, IsNode(s), s[2] # 0, NEW w \in Nat
  PROVE  \/ AlignedChild(s, w) = <<>> /\ ~ Under(w, s)
         \/ \E j \in 0..(Fanout - 1) : Under(w, Slot(s, j)) /\ AlignedChild(s, w) = <<Slot(s, j)>>
<1>1. CASE ~ Under(w, s)
  BY <1>1 DEF AlignedChild, Under
<1>2. CASE Under(w, s)
  <2>1. PICK j \in 0..(Fanout - 1) : Under(w, Slot(s, j))
    BY <1>2, SlotExists
  <2>2. AlignDown(w, Slot(s, j)[2] * Delta) = Slot(s, j)[1]
    BY <2>1, SlotIsNode, AlignedNode
  <2>3. Slot(s, j)[2] = s[2] - 1 /\ Slot(s, j)[1] = Child(s, j)
    BY SlotFacts
  <2>4. AlignedChild(s, w) = <<Slot(s, j)>>
    BY <1>2, <2>2, <2>3 DEF AlignedChild, Under, Slot
  <2> QED BY <2>1, <2>4
<1> QED BY <1>1, <1>2

\* A family of slots fl in order, with the child that holds w on top, is a family.
LEMMA FamilyOf ==
  ASSUME NEW s, IsNode(s), s[2] # 0, NEW w \in Nat, NEW sd,
         NEW n \in 0..Fanout, NEW fl \in [1..n -> 0..(Fanout - 1)],
         \A j \in 0..(Fanout - 1) :
           (IF sd = "left" THEN Child(s, j) < w ELSE Child(s, j) > w) <=> \E i \in 1..n : fl[i] = j,
         \A a, b \in 1..n : a < b => IF sd = "left" THEN fl[a] <= fl[b] ELSE fl[b] <= fl[a]
  PROVE  \E f : Family([i \in 1..n |-> Slot(s, fl[i])] \o AlignedChild(s, w), f, s, w, sd)
<1> DEFINE below == [i \in 1..n |-> Slot(s, fl[i])]
           S == Span(s[2] - 1)
<1>1. /\ Fanout \in Nat \ {0} /\ n \in Nat /\ S \in Nat \ {0}
      /\ \A j \in 0..(Fanout - 1) : Child(s, j) \in Nat /\ Slot(s, j) \in Nat \X Nat
  <2>1. \A j \in 0..(Fanout - 1) : Child(s, j) \in Nat
    BY SlotIsNode
  <2>2. s[2] - 1 \in Nat /\ S \in Nat \ {0}
    BY SlotFacts, LevelFacts
  <2> QED BY <2>1, <2>2, LevelFacts DEF Slot
<1>2. /\ below \in Seq(Nat \X Nat) /\ Len(below) = n
      /\ \A i \in 1..n : below[i] = Slot(s, fl[i])
  BY <1>1
<1>3. \A j \in 0..(Fanout - 1) :
        /\ Reaches(sd, Slot(s, j), w) <=>
             IF sd = "left" THEN Child(s, j) <= w ELSE Child(s, j) + S > w
        /\ Under(w, Slot(s, j)) <=> Child(s, j) <= w /\ w < Child(s, j) + S
  BY SlotFacts DEF Reaches
<1>4. ASSUME NEW i \in 0..(Fanout - 1), NEW j \in 0..(Fanout - 1), i < j
      PROVE  Child(s, i) + S <= Child(s, j)
  <2>1. i \in Nat /\ j \in Nat
    BY <1>1
  <2> QED BY <1>4, <2>1, SlotsApart
<1>5. \A j \in 0..(Fanout - 1) : s[1] <= Child(s, j) /\ Child(s, j) + S <= s[1] + Span(s[2])
  BY SlotIsNode
<1> HIDE DEF below, S
<1>6. CASE AlignedChild(s, w) = <<>> /\ ~ Under(w, s)
  <2>1. below \o AlignedChild(s, w) = below
    BY <1>2, <1>6
  <2>2. ASSUME NEW j \in 0..(Fanout - 1)
        PROVE  Reaches(sd, Slot(s, j), w) <=> \E i \in 1..n : fl[i] = j
    <3>1. ~ (Child(s, j) <= w /\ w < Child(s, j) + S)
      <4>1. s[1] \in Nat /\ Span(s[2]) \in Nat
        BY SlotFacts, LevelFacts, SpanFacts
      <4>2. ~ (s[1] <= w /\ w < s[1] + Span(s[2]))
        BY <1>6 DEF Under
      <4> QED BY <1>1, <1>5, <4>1, <4>2
    <3>2. Reaches(sd, Slot(s, j), w) <=> IF sd = "left" THEN Child(s, j) < w ELSE Child(s, j) > w
      BY <1>1, <1>3, <3>1
    <3> QED BY <3>2
  <2>3. Family(below, fl, s, w, sd)
    BY <1>1, <1>2, <2>2 DEF Family
  <2> QED BY <2>1, <2>3 DEF below
<1>7. ASSUME NEW j \in 0..(Fanout - 1), Under(w, Slot(s, j)), AlignedChild(s, w) = <<Slot(s, j)>>
      PROVE  \E f : Family(below \o AlignedChild(s, w), f, s, w, sd)
  <2> DEFINE cs == below \o <<Slot(s, j)>>
             f == [i \in 1..(n + 1) |-> IF i = n + 1 THEN j ELSE fl[i]]
  <2>1. /\ cs \in Seq(Nat \X Nat) /\ Len(cs) = n + 1
        /\ \A i \in 1..n : cs[i] = Slot(s, fl[i])
        /\ cs[n + 1] = Slot(s, j)
    <3> DEFINE y == Slot(s, j)
               X == Nat \X Nat
    <3>1. y \in X /\ below \in Seq(X) /\ Len(below) = n /\ n \in Nat
      BY <1>1, <1>2
    <3> HIDE DEF y, X
    <3>2. /\ below \o <<y>> \in Seq(X) /\ Len(below \o <<y>>) = n + 1
          /\ \A i \in 1..n : (below \o <<y>>)[i] = below[i]
          /\ (below \o <<y>>)[n + 1] = y
      BY <3>1
    <3> QED BY <1>2, <3>2 DEF X, y
  <2>2. f \in [1..(n + 1) -> 0..(Fanout - 1)]
    BY <1>1
  <2>3. f[n + 1] = j /\ \A i \in 1..n : f[i] = fl[i] /\ i \in 1..(n + 1)
    BY <1>1
  <2> HIDE DEF cs, f
  <2>4. \A i \in 1..(n + 1) : i = n + 1 \/ i \in 1..n
    BY <1>1
  <2>5. n + 1 \in 1..(n + 1)
    BY <1>1
  <2>6. Child(s, j) <= w /\ w < Child(s, j) + S
    BY <1>3, <1>7
  <2>7. ASSUME NEW i \in 0..(Fanout - 1)
        PROVE  /\ i < j => Child(s, i) < w /\ Child(s, i) + S <= w
               /\ i > j => Child(s, i) > w
    <3>1. Child(s, i) \in Nat /\ Child(s, j) \in Nat /\ S \in Nat \ {0} /\ i \in Nat /\ j \in Nat
      BY <1>1
    <3>2. i < j => Child(s, i) + S <= Child(s, j)
      BY <1>4
    <3>3. j < i => Child(s, j) + S <= Child(s, i)
      BY <1>4
    <3> QED BY <2>6, <3>1, <3>2, <3>3
  <2>8. ASSUME NEW i \in 0..(Fanout - 1)
        PROVE  Reaches(sd, Slot(s, i), w) <=> \E a \in 1..(n + 1) : f[a] = i
    <3>1. (\E a \in 1..(n + 1) : f[a] = i) <=> (i = j \/ \E a \in 1..n : fl[a] = i)
      BY <2>3, <2>4, <2>5
    <3>2. Reaches(sd, Slot(s, i), w) <=>
            i = j \/ IF sd = "left" THEN Child(s, i) < w ELSE Child(s, i) > w
      <4>1. /\ Child(s, i) \in Nat /\ S \in Nat \ {0} /\ i \in Nat /\ j \in Nat
            /\ Reaches(sd, Slot(s, i), w) <=>
                 IF sd = "left" THEN Child(s, i) <= w ELSE Child(s, i) + S > w
        BY <1>1, <1>3
      <4>2. /\ i < j => Child(s, i) < w /\ Child(s, i) + S <= w
            /\ i > j => Child(s, i) > w
        BY <2>7
      <4>3. CASE i = j
        BY <2>6, <4>1, <4>3
      <4>4. CASE i # j
        BY <4>1, <4>2, <4>4
      <4> QED BY <4>3, <4>4
    <3> QED BY <3>1, <3>2
  <2>9. ASSUME NEW a \in 1..(n + 1), NEW b \in 1..(n + 1), a < b
        PROVE  IF sd = "left" THEN f[a] <= f[b] ELSE f[b] <= f[a]
    <3>1. a \in 1..n
      BY <1>1, <2>9
    <3>2. CASE b \in 1..n
      BY <2>3, <2>9, <3>1, <3>2
    <3>3. CASE b = n + 1
      <4>1. fl[a] \in 0..(Fanout - 1) /\ f[a] = fl[a] /\ f[b] = j
        BY <2>3, <3>1, <3>3
      <4>2. IF sd = "left" THEN Child(s, fl[a]) < w ELSE Child(s, fl[a]) > w
        BY <3>1, <4>1
      <4>3. Child(s, fl[a]) \in Nat /\ fl[a] \in Nat /\ j \in Nat
        <5>1. \A m \in 0..(Fanout - 1) : Child(s, m) \in Nat /\ m \in Nat
          BY <1>1
        <5> QED BY <4>1, <5>1
      <4> DEFINE i == fl[a]
      <4> HIDE DEF i
      <4>4. /\ i < j => Child(s, i) < w
            /\ i > j => Child(s, i) > w
        BY <2>7, <4>1 DEF i
      <4> QED BY <4>1, <4>2, <4>3, <4>4 DEF i
    <3> QED BY <2>4, <3>2, <3>3
  <2>10. \A i \in 1..(n + 1) : cs[i] = Slot(s, f[i])
    BY <2>1, <2>3, <2>4
  <2>11. Family(cs, f, s, w, sd)
    <3> DEFINE m == n + 1
    <3>1. m <= Fanout + 1
      BY <1>1
    <3>2. \A i \in 0..(Fanout - 1) : Reaches(sd, Slot(s, i), w) <=> \E a \in 1..m : f[a] = i
      BY <2>8
    <3>3. \A a, b \in 1..m : a < b => IF sd = "left" THEN f[a] <= f[b] ELSE f[b] <= f[a]
      BY <2>9
    <3>4. cs \in Seq(Nat \X Nat) /\ Len(cs) = m /\ f \in [1..m -> 0..(Fanout - 1)]
      BY <2>1, <2>2
    <3>5. \A i \in 1..m : cs[i] = Slot(s, f[i])
      BY <2>10
    <3> HIDE DEF m
    <3> QED BY <3>1, <3>2, <3>3, <3>4, <3>5 DEF Family
  <2> QED BY <1>7, <2>11 DEF cs
<1>8. \E f : Family(below \o AlignedChild(s, w), f, s, w, sd)
  BY <1>6, <1>7, AlignedChildFacts DEF below
<1> QED BY <1>8 DEF below

\* The children that either search pushes are a family.
LEMMA ChildrenAreFamily ==
  ASSUME NEW s, IsNode(s), s[2] # 0, side \in Sides, target \in Nat
  PROVE  \E f : Family(Children(s), f, s, target, side)
<1>1. /\ Fanout \in Nat \ {0}
      /\ Below(s, target) \in 0..Fanout /\ Above(s, target) \in 0..Fanout
      /\ \A j \in 0..(Fanout - 1) : Child(s, j) < target <=> j < Below(s, target)
      /\ \A j \in 0..(Fanout - 1) : Child(s, j) > target <=> j >= Above(s, target)
  BY LevelFacts, BelowFacts
<1>2. CASE side = "left"
  <2> DEFINE n == Below(s, target)
             fl == [i \in 1..n |-> i - 1]
  <2>1. LeftChildren(s, target) = [i \in 1..n |-> Slot(s, fl[i])] \o AlignedChild(s, target)
    BY DEF LeftChildren, Slot
  <2>2. fl \in [1..n -> 0..(Fanout - 1)]
    BY <1>1
  <2>3. \A j \in 0..(Fanout - 1) : Child(s, j) < target <=> \E i \in 1..n : fl[i] = j
    <3> SUFFICES ASSUME NEW j \in 0..(Fanout - 1)
                 PROVE  j < n <=> \E i \in 1..n : i - 1 = j
      BY <1>1
    <3>1. j < n => j + 1 \in 1..n /\ (j + 1) - 1 = j
      BY <1>1
    <3> QED BY <1>1, <3>1
  <2>4. \A a, b \in 1..n : a < b => fl[a] <= fl[b]
    BY <1>1
  <2> HIDE DEF fl, n
  <2>5. n \in 0..Fanout
    BY <1>1 DEF n
  <2>6. \E f : Family([i \in 1..n |-> Slot(s, fl[i])] \o AlignedChild(s, target), f, s, target, "left")
    BY <2>2, <2>3, <2>4, <2>5, FamilyOf
  <2> QED BY <1>2, <2>1, <2>6 DEF Children
<1>3. CASE side = "right"
  <2> DEFINE n == Fanout - Above(s, target)
             fl == [i \in 1..n |-> Fanout - i]
  <2>1. RightChildren(s, target) = [i \in 1..n |-> Slot(s, fl[i])] \o AlignedChild(s, target)
    BY DEF RightChildren, Slot
  <2>2. fl \in [1..n -> 0..(Fanout - 1)]
    BY <1>1
  <2>3. \A j \in 0..(Fanout - 1) : Child(s, j) > target <=> \E i \in 1..n : fl[i] = j
    <3> SUFFICES ASSUME NEW j \in 0..(Fanout - 1)
                 PROVE  j >= Above(s, target) <=> \E i \in 1..n : Fanout - i = j
      BY <1>1
    <3>1. j >= Above(s, target) => Fanout - j \in 1..n /\ Fanout - (Fanout - j) = j
      BY <1>1
    <3> QED BY <1>1, <3>1
  <2>4. \A a, b \in 1..n : a < b => fl[b] <= fl[a]
    BY <1>1
  <2>5. n \in 0..Fanout
    BY <1>1
  <2> HIDE DEF fl, n
  <2>6. \E f : Family([i \in 1..n |-> Slot(s, fl[i])] \o AlignedChild(s, target), f, s, target, "right")
    BY <2>2, <2>3, <2>4, <2>5, FamilyOf
  <2> QED BY <1>3, <2>1, <2>6 DEF Children
<1> QED BY <1>2, <1>3 DEF Sides

-----------------------------------------------------------------------------
(* The stack *)

\* The keys on the side sd of w, and which of two of them is not the nearer.
OnSide(sd, x, w) == IF sd = "left" THEN x <= w ELSE x >= w
Farther(sd, x, y) == IF sd = "left" THEN x <= y ELSE y <= x

\* A family covers the keys of its node on the search's side, and the keys of a
\* child are not nearer than those of a child above it in the stack, except where
\* the two are the same.
LEMMA FamilyFacts ==
  ASSUME NEW s, IsNode(s), s[2] # 0, NEW w \in Nat, NEW sd, NEW cs, NEW f,
         Family(cs, f, s, w, sd)
  PROVE  /\ \A i \in 1..Len(cs) :
              /\ IsNode(cs[i]) /\ cs[i][2] = s[2] - 1 /\ Reaches(sd, cs[i], w)
              /\ \A x \in Nat : Under(x, cs[i]) => Under(x, s)
         /\ \A x \in Nat : OnSide(sd, x, w) /\ Under(x, s) => \E i \in 1..Len(cs) : Under(x, cs[i])
         /\ \A a, b \in 1..Len(cs) : a < b =>
              \A x, y \in Nat : Under(x, cs[a]) /\ Under(y, cs[b]) =>
                Farther(sd, x, y) \/ Under(x, cs[b])
<1> DEFINE S == Span(s[2] - 1)
<1>1. /\ f \in [1..Len(cs) -> 0..(Fanout - 1)]
      /\ \A i \in 1..Len(cs) : cs[i] = Slot(s, f[i])
      /\ \A j \in 0..(Fanout - 1) : Reaches(sd, Slot(s, j), w) <=> \E i \in 1..Len(cs) : f[i] = j
      /\ \A a, b \in 1..Len(cs) : a < b => IF sd = "left" THEN f[a] <= f[b] ELSE f[b] <= f[a]
  BY DEF Family
<1>2. /\ S \in Nat \ {0} /\ Fanout \in Nat \ {0}
      /\ \A j \in 0..(Fanout - 1) :
           /\ Child(s, j) \in Nat /\ Slot(s, j)[2] = s[2] - 1 /\ IsNode(Slot(s, j))
           /\ Reaches(sd, Slot(s, j), w) <=>
                IF sd = "left" THEN Child(s, j) <= w ELSE Child(s, j) + S > w
           /\ \A x : Under(x, Slot(s, j)) <=> Child(s, j) <= x /\ x < Child(s, j) + S
  BY SlotFacts, SlotIsNode, LevelFacts DEF Reaches
<1>3. ASSUME NEW j \in 0..(Fanout - 1), NEW x \in Nat, Under(x, Slot(s, j)) PROVE Under(x, s)
  <2>1. s[1] <= Child(s, j) /\ Child(s, j) + S <= s[1] + Span(s[2])
    BY SlotIsNode
  <2>2. s[1] \in Nat /\ Span(s[2]) \in Nat /\ Child(s, j) \in Nat /\ S \in Nat
    BY <1>2, SlotFacts, LevelFacts, SpanFacts
  <2>3. Child(s, j) <= x /\ x < Child(s, j) + S
    BY <1>2, <1>3
  <2> HIDE DEF S
  <2>4. s[1] <= x /\ x < s[1] + Span(s[2])
    BY <2>1, <2>2, <2>3
  <2> QED BY <2>4 DEF Under
<1> HIDE DEF S
<1>4. \A i \in 1..Len(cs) :
        /\ IsNode(cs[i]) /\ cs[i][2] = s[2] - 1 /\ Reaches(sd, cs[i], w)
        /\ \A x \in Nat : Under(x, cs[i]) => Under(x, s)
  <2> SUFFICES ASSUME NEW i \in 1..Len(cs)
               PROVE  /\ IsNode(cs[i]) /\ cs[i][2] = s[2] - 1 /\ Reaches(sd, cs[i], w)
                      /\ \A x \in Nat : Under(x, cs[i]) => Under(x, s)
    OBVIOUS
  <2>1. f[i] \in 0..(Fanout - 1) /\ cs[i] = Slot(s, f[i])
    BY <1>1
  <2>2. Reaches(sd, Slot(s, f[i]), w)
    BY <1>1, <2>1
  <2>3. IsNode(Slot(s, f[i])) /\ Slot(s, f[i])[2] = s[2] - 1
    BY <1>2, <2>1
  <2>4. \A x \in Nat : Under(x, Slot(s, f[i])) => Under(x, s)
    BY <1>3, <2>1
  <2> QED BY <2>1, <2>2, <2>3, <2>4
<1>5. ASSUME NEW x \in Nat, OnSide(sd, x, w), Under(x, s)
      PROVE  \E i \in 1..Len(cs) : Under(x, cs[i])
  <2>1. PICK j \in 0..(Fanout - 1) : Under(x, Slot(s, j))
    BY <1>5, SlotExists
  <2>2. Child(s, j) <= x /\ x < Child(s, j) + S /\ Child(s, j) \in Nat /\ S \in Nat
    BY <1>2, <2>1
  <2>3. Reaches(sd, Slot(s, j), w)
    <3>1. CASE sd = "left"
      <4>1. x <= w
        BY <1>5, <3>1 DEF OnSide
      <4>2. Child(s, j) <= w
        BY <2>2, <4>1
      <4> QED BY <1>2, <3>1, <4>2
    <3>2. CASE sd # "left"
      <4>1. x >= w
        BY <1>5, <3>2 DEF OnSide
      <4>2. Child(s, j) + S > w
        BY <2>2, <4>1
      <4> QED BY <1>2, <3>2, <4>2
    <3> QED BY <3>1, <3>2
  <2>4. PICK i \in 1..Len(cs) : f[i] = j
    BY <1>1, <2>3
  <2>5. cs[i] = Slot(s, j)
    BY <1>1, <2>4
  <2> QED BY <2>1, <2>5
<1>6. ASSUME NEW a \in 1..Len(cs), NEW b \in 1..Len(cs), a < b,
             NEW x \in Nat, NEW y \in Nat, Under(x, cs[a]), Under(y, cs[b])
      PROVE  Farther(sd, x, y) \/ Under(x, cs[b])
  <2> DEFINE i == f[a]
             j == f[b]
  <2>1. /\ i \in 0..(Fanout - 1) /\ j \in 0..(Fanout - 1)
        /\ cs[a] = Slot(s, i) /\ cs[b] = Slot(s, j)
        /\ IF sd = "left" THEN i <= j ELSE j <= i
    BY <1>1, <1>6
  <2> HIDE DEF i, j
  <2>2. /\ Child(s, i) <= x /\ x < Child(s, i) + S /\ Child(s, j) <= y /\ y < Child(s, j) + S
        /\ Child(s, i) \in Nat /\ Child(s, j) \in Nat /\ S \in Nat
    BY <1>2, <1>6, <2>1
  <2>3. CASE i = j
    BY <1>6, <2>1, <2>3
  <2>4. CASE i < j
    <3>1. Child(s, i) + S <= Child(s, j)
      BY <2>1, <2>4, SlotsApart DEF S
    <3>2. x <= y
      BY <2>2, <3>1
    <3>3. sd = "left"
      BY <2>1, <2>4
    <3> QED BY <3>2, <3>3 DEF Farther
  <2>5. CASE j < i
    <3>1. Child(s, j) + S <= Child(s, i)
      BY <2>1, <2>5, SlotsApart DEF S
    <3>2. y <= x
      BY <2>2, <3>1
    <3>3. sd # "left"
      BY <2>1, <2>5
    <3> QED BY <3>2, <3>3 DEF Farther
  <2> QED BY <2>1, <2>3, <2>4, <2>5
<1> QED BY <1>4, <1>5, <1>6

\* The nodes of a stack st reach the search's side, and lie no higher than the
\* families of the levels above them take.
Nodes(st, sd, w) ==
  /\ st \in Seq(Nat \X Nat)
  /\ \A i \in 1..Len(st) :
       /\ IsNode(st[i])
       /\ st[i][2] = MaxLevel \/ Reaches(sd, st[i], w)
       /\ i <= 1 + (MaxLevel - st[i][2]) * Fanout

\* Every key of C lies under a node of the stack.
Covers(st, C) == \A x \in C : \E i \in 1..Len(st) : Under(x, st[i])

\* A key of C that is nearer than one under a node of the stack lies under that
\* node or one above it.
NearerAbove(st, C, sd) ==
  \A i \in 1..Len(st) : \A x, y \in C :
    Under(y, st[i]) => Farther(sd, x, y) \/ \E m \in i..Len(st) : Under(x, st[m])

\* What is left of a stack when its top is popped.
LEMMA PopFacts ==
  ASSUME NEW X, NEW st \in Seq(X), st # <<>>
  PROVE  /\ Len(st) \in Nat \ {0} /\ st[Len(st)] \in X
         /\ SubSeq(st, 1, Len(st) - 1) \in Seq(X)
         /\ Len(SubSeq(st, 1, Len(st) - 1)) = Len(st) - 1
         /\ \A i \in 1..(Len(st) - 1) : SubSeq(st, 1, Len(st) - 1)[i] = st[i]
<1>1. Len(st) \in Nat \ {0}
  OBVIOUS
<1>2. SubSeq(st, 1, Len(st) - 1) = [i \in 1..(Len(st) - 1) |-> st[i]]
  <2>1. 1 + Len(st) - 1 - 1 + 1 = Len(st) /\ (Len(st) - 1) - 1 + 1 = Len(st) - 1
        /\ \A i \in 1..(Len(st) - 1) : i + 1 - 1 = i /\ i \in 1..Len(st)
    BY <1>1
  <2> QED BY <1>1, <2>1 DEF SubSeq
<1>3. /\ st[Len(st)] \in X
      /\ \A i \in 1..(Len(st) - 1) : st[i] \in X
  <2>1. DOMAIN st = 1..Len(st)
    OBVIOUS
  <2> QED BY <1>1, <2>1
<1> DEFINE n == Len(st) - 1
           r == [i \in 1..n |-> st[i]]
<1>4. n \in Nat /\ r \in [1..n -> X]
  BY <1>1, <1>3
<1>5. r \in Seq(X) /\ Len(r) = n
  <2> HIDE DEF n
  <2> QED BY <1>4
<1> QED BY <1>1, <1>2, <1>3, <1>5

\* Popping a node without keys of C under it.
LEMMA PopKeeps ==
  ASSUME NEW st, NEW C, NEW sd, NEW w, st # <<>>,
         Nodes(st, sd, w), Covers(st, C), NearerAbove(st, C, sd),
         \A x \in C : ~ Under(x, st[Len(st)])
  PROVE  LET r == SubSeq(st, 1, Len(st) - 1)
         IN  Nodes(r, sd, w) /\ Covers(r, C) /\ NearerAbove(r, C, sd)
<1> DEFINE L == Len(st)
           r == SubSeq(st, 1, L - 1)
<1>1. /\ L \in Nat \ {0} /\ r \in Seq(Nat \X Nat) /\ Len(r) = L - 1
      /\ \A i \in 1..(L - 1) : r[i] = st[i]
  BY PopFacts DEF Nodes
<1>2. \A i \in 1..L : i = L \/ i \in 1..(L - 1)
  BY <1>1
<1>3. \A i \in 1..(L - 1) : i \in 1..L
  BY <1>1
<1>4. Nodes(r, sd, w)
  <2> HIDE DEF r
  <2> QED BY <1>1, <1>3 DEF Nodes
<1> HIDE DEF r
<1>5. Covers(r, C)
  BY <1>1, <1>2 DEF Covers
<1>6. NearerAbove(r, C, sd)
  <2> SUFFICES ASSUME NEW i \in 1..(L - 1), NEW x \in C, NEW y \in C, Under(y, st[i]),
                      ~ Farther(sd, x, y)
               PROVE  \E m \in i..(L - 1) : Under(x, r[m])
    BY <1>1 DEF NearerAbove
  <2>1. PICK m \in i..L : Under(x, st[m])
    BY <1>3 DEF NearerAbove
  <2>2. m # L
    BY <2>1
  <2>3. m \in i..(L - 1) /\ m \in 1..(L - 1)
    BY <1>1, <2>2
  <2> QED BY <1>1, <2>1, <2>3
<1> QED BY <1>4, <1>5, <1>6 DEF r

\* Replacing the top by its family.
LEMMA DescendKeeps ==
  ASSUME NEW st, NEW C, NEW sd, NEW w \in Nat, st # <<>>,
         Nodes(st, sd, w), Covers(st, C), NearerAbove(st, C, sd),
         C \subseteq Nat, \A x \in C : OnSide(sd, x, w),
         NEW cs, NEW f, st[Len(st)][2] # 0, Family(cs, f, st[Len(st)], w, sd)
  PROVE  LET r == SubSeq(st, 1, Len(st) - 1) \o cs
         IN  Nodes(r, sd, w) /\ Covers(r, C) /\ NearerAbove(r, C, sd)
<1> DEFINE L == Len(st)
           top == st[L]
           q == SubSeq(st, 1, L - 1)
           r == q \o cs
           K == Len(cs)
           N == (L - 1) + K
<1>1. /\ L \in Nat \ {0} /\ q \in Seq(Nat \X Nat) /\ Len(q) = L - 1
      /\ \A i \in 1..(L - 1) : q[i] = st[i]
  BY PopFacts DEF Nodes
<1>2. cs \in Seq(Nat \X Nat) /\ K \in Nat /\ K <= Fanout + 1
  BY DEF Family
<1>3. /\ r \in Seq(Nat \X Nat) /\ Len(r) = N
      /\ \A i \in 1..(L - 1) : r[i] = st[i]
      /\ \A i \in 1..K : r[(L - 1) + i] = cs[i]
  <2> DEFINE X == Nat \X Nat
             l == Len(st)
  <2>1. q \in Seq(X) /\ cs \in Seq(X) /\ Len(q) = l - 1 /\ l \in Nat \ {0}
    BY <1>1, <1>2
  <2> HIDE DEF q, X, l
  <2>2. /\ q \o cs \in Seq(X) /\ Len(q \o cs) = Len(q) + Len(cs)
        /\ \A i \in 1..Len(q) : (q \o cs)[i] = q[i]
        /\ \A i \in 1..Len(cs) : (q \o cs)[Len(q) + i] = cs[i]
    BY <2>1
  <2> QED BY <1>1, <2>1, <2>2 DEF X, l
<1> HIDE DEF r, q, L
<1>4. /\ \A i \in 1..N : i \in 1..(L - 1) \/ (i - (L - 1) \in 1..K /\ (L - 1) + (i - (L - 1)) = i)
      /\ \A i \in 1..K : (L - 1) + i \in 1..N
      /\ \A i \in 1..(L - 1) : i \in 1..N /\ i \in 1..L
      /\ \A i \in 1..L : i = L \/ i \in 1..(L - 1)
      /\ L \in 1..L
  BY <1>1, <1>2
<1>5. /\ IsNode(top) /\ top[2] # 0 /\ L <= 1 + (MaxLevel - top[2]) * Fanout
  BY <1>4 DEF Nodes, L
<1>6. /\ \A i \in 1..K :
              /\ IsNode(cs[i]) /\ cs[i][2] = top[2] - 1 /\ Reaches(sd, cs[i], w)
              /\ \A x \in Nat : Under(x, cs[i]) => Under(x, top)
      /\ \A x \in Nat : OnSide(sd, x, w) /\ Under(x, top) => \E i \in 1..K : Under(x, cs[i])
      /\ \A a, b \in 1..K : a < b =>
              \A x, y \in Nat : Under(x, cs[a]) /\ Under(y, cs[b]) =>
                Farther(sd, x, y) \/ Under(x, cs[b])
  BY <1>5, FamilyFacts DEF L
<1> HIDE DEF K, N, top
<1>7. Nodes(r, sd, w)
  <2>1. ASSUME NEW i \in 1..(L - 1)
        PROVE  /\ IsNode(r[i]) /\ (r[i][2] = MaxLevel \/ Reaches(sd, r[i], w))
               /\ i <= 1 + (MaxLevel - r[i][2]) * Fanout
    BY <1>3, <1>4 DEF Nodes, L
  <2>2. ASSUME NEW j \in 1..K
        PROVE  /\ IsNode(cs[j]) /\ (cs[j][2] = MaxLevel \/ Reaches(sd, cs[j], w))
               /\ (L - 1) + j <= 1 + (MaxLevel - cs[j][2]) * Fanout
    <3>1. MaxLevel \in Nat /\ Fanout \in Nat /\ top[2] \in Nat
      BY <1>5, LevelFacts DEF IsNode
    <3>2. (MaxLevel - (top[2] - 1)) * Fanout = (MaxLevel - top[2]) * Fanout + Fanout
      BY <3>1
    <3>3. (MaxLevel - top[2]) * Fanout \in Int
      BY <3>1
    <3>4. (L - 1) + j <= 1 + (MaxLevel - (top[2] - 1)) * Fanout
      <4> DEFINE P == (MaxLevel - top[2]) * Fanout
      <4>1. P \in Int /\ L <= 1 + P /\ L \in Nat /\ j \in Nat /\ j <= Fanout + 1
        BY <1>1, <1>2, <1>5, <3>1, <3>3
      <4> HIDE DEF P
      <4>2. (L - 1) + j <= 1 + (P + Fanout)
        BY <3>1, <4>1
      <4> QED BY <3>2, <4>2 DEF P
    <3> QED BY <1>6, <3>4
  <2>3. ASSUME NEW i \in 1..N
        PROVE  /\ IsNode(r[i]) /\ (r[i][2] = MaxLevel \/ Reaches(sd, r[i], w))
               /\ i <= 1 + (MaxLevel - r[i][2]) * Fanout
    <3>1. CASE i \in 1..(L - 1)
      BY <2>1, <3>1
    <3>2. CASE i - (L - 1) \in 1..K
      <4>1. r[i] = cs[i - (L - 1)] /\ (L - 1) + (i - (L - 1)) = i
        BY <1>1, <1>3, <3>2
      <4> QED BY <2>2, <3>2, <4>1
    <3> QED BY <1>4, <3>1, <3>2
  <2> QED BY <1>3, <2>3 DEF Nodes
\* what lies under the top lies under the family
<1>8. ASSUME NEW x \in C, Under(x, top) PROVE \E i \in 1..K : Under(x, cs[i]) /\ Under(x, r[(L - 1) + i])
  BY <1>3, <1>6, <1>8
<1>9. Covers(r, C)
  <2> SUFFICES ASSUME NEW x \in C PROVE \E i \in 1..N : Under(x, r[i])
    BY <1>3 DEF Covers
  <2>1. PICK i \in 1..L : Under(x, st[i])
    BY DEF Covers, L
  <2>2. CASE i = L
    <3>1. Under(x, top)
      BY <2>1, <2>2 DEF top
    <3> QED BY <1>4, <1>8, <3>1
  <2>3. CASE i \in 1..(L - 1)
    BY <1>3, <1>4, <2>1, <2>3
  <2> QED BY <1>4, <2>2, <2>3
<1>10. NearerAbove(r, C, sd)
  <2> SUFFICES ASSUME NEW i \in 1..N, NEW x \in C, NEW y \in C, Under(y, r[i]),
                      ~ Farther(sd, x, y)
               PROVE  \E m \in i..N : Under(x, r[m])
    BY <1>3 DEF NearerAbove
  <2>o. \A j \in 1..L : Under(y, st[j]) => \E m \in j..L : Under(x, st[m])
    BY DEF NearerAbove, L
  <2>1. CASE i \in 1..(L - 1)
    <3>1. Under(y, st[i]) /\ i \in 1..L
      BY <1>3, <1>4, <2>1
    <3>2. PICK m \in i..L : Under(x, st[m])
      BY <2>o, <3>1
    <3>3. CASE m = L
      <4>1. Under(x, top)
        BY <3>2, <3>3 DEF top
      <4>2. PICK j \in 1..K : Under(x, r[(L - 1) + j])
        BY <1>8, <4>1
      <4>3. (L - 1) + j \in i..N
        BY <1>1, <1>2, <2>1 DEF N
      <4> QED BY <4>2, <4>3
    <3>4. CASE m # L
      <4>1. m \in i..N /\ m \in 1..(L - 1)
        BY <1>1, <1>2, <2>1, <3>4 DEF N
      <4> QED BY <1>3, <3>2, <4>1
    <3> QED BY <3>3, <3>4
  <2>2. CASE i - (L - 1) \in 1..K
    <3> DEFINE b == i - (L - 1)
    <3>1. b \in 1..K /\ (L - 1) + b = i
      BY <1>1, <2>2
    <3>2. Under(y, cs[b])
      BY <1>3, <3>1
    <3> HIDE DEF b
    <3>3. Under(y, top)
      BY <1>6, <3>1, <3>2
    <3>4. PICK m \in L..L : Under(x, st[m])
      BY <1>4, <2>o, <3>3 DEF top
    <3>5. Under(x, top)
      <4>1. m = L
        BY <1>1
      <4> QED BY <3>4, <4>1 DEF top
    <3>6. PICK a \in 1..K : Under(x, cs[a]) /\ Under(x, r[(L - 1) + a])
      BY <1>8, <3>5
    <3>n. L \in Nat /\ K \in Nat /\ N \in Int /\ a \in Nat /\ b \in Nat /\ a <= K /\ i \in Nat /\ i <= N
      BY <1>1, <1>2, <3>1 DEF N
    <3>7. CASE a < b
      <4>1. Under(x, cs[b])
        BY <1>6, <3>1, <3>2, <3>6, <3>7
      <4>2. r[(L - 1) + b] = cs[b]
        BY <1>3, <3>1
      <4>3. Under(x, r[i]) /\ i \in i..N
        BY <3>1, <3>n, <4>1, <4>2
      <4> QED BY <4>3
    <3>8. CASE ~ (a < b)
      <4>1. (L - 1) + a \in i..N
        <5>1. N = (L - 1) + K
          BY DEF N
        <5> QED BY <3>1, <3>n, <3>8, <5>1
      <4> QED BY <3>6, <4>1
    <3> QED BY <3>7, <3>8
  <2> QED BY <1>4, <2>1, <2>2
<1> QED BY <1>7, <1>9, <1>10 DEF r, q, L

-----------------------------------------------------------------------------
(* The inductive invariant *)

\* The function's arguments and the index do not change while it runs.
Arguments == present \subseteq Keys /\ bits = BitsOf(present) /\ side \in Sides /\ target \in Keys

\* While it searches, the keys it may return are under the stack, the nearest on top.
Searched ==
  result = Searching => Covers(stack, Candidates) /\ NearerAbove(stack, Candidates, side)

Finished ==
  result # Searching => result \in present \cup {NoKey} /\ ReturnsAdjacent

Inv == Arguments /\ Nodes(stack, side, target) /\ Searched /\ Finished

\* What the arguments of a search are, and which keys it can reach
LEMMA ArgumentFacts ==
  ASSUME Arguments
  PROVE  /\ present \subseteq Nat /\ target \in Nat /\ Candidates \subseteq Nat
         /\ Candidates \subseteq present
         /\ \A x \in Candidates : OnSide(side, x, target) /\ Visible(present, bits, x)
         /\ \A x \in present : x < Coverage => Visible(present, bits, x)
<1>1. Keys \subseteq Nat
  BY RFAssumption
<1>2. \A x \in present : \A i \in Levels : Position(x, i) \in bits
  BY DEF Arguments, BitsOf, Added
<1>3. ASSUME NEW x \in present, x < Coverage PROVE Visible(present, bits, x)
  <2>1. x \in Nat
    BY <1>1 DEF Arguments
  <2> QED BY <1>2, <1>3, <2>1, BitsMakeVisible
<1>4. Candidates \subseteq present
      /\ \A x \in Candidates : OnSide(side, x, target) /\ Visible(present, bits, x)
  BY DEF Candidates, OnSide
<1> QED BY <1>1, <1>3, <1>4 DEF Arguments

\* Nearest is what its name says.
LEMMA NearestFacts ==
  ASSUME Arguments
  PROVE  IF Candidates = {} THEN Nearest = NoKey
         ELSE Nearest \in Candidates /\ \A x \in Candidates : Farther(side, x, Nearest)
<1>1. present \subseteq Nat /\ target \in Nat
  BY ArgumentFacts
<1>2. CASE side = "left"
  <2> DEFINE l == LeftAdjacent(present, bits, target)
  <2>1. \/ /\ l = NoKey
           /\ \A x \in present : x <= target => ~ Visible(present, bits, x)
        \/ /\ l \in present /\ l <= target /\ Visible(present, bits, l)
           /\ \A x \in present : x <= target /\ Visible(present, bits, x) => x <= l
    BY <1>1, AdjacentFacts
  <2>2. Nearest = l /\ Candidates = {x \in present : Visible(present, bits, x) /\ x <= target}
    BY <1>2 DEF Nearest, Candidates
  <2> HIDE DEF l
  <2> QED BY <1>2, <2>1, <2>2 DEF Farther
<1>3. CASE side # "left"
  <2> DEFINE r == RightAdjacent(present, bits, target)
  <2>1. \/ /\ r = NoKey
           /\ \A x \in present : x >= target => ~ Visible(present, bits, x)
        \/ /\ r \in present /\ r >= target /\ Visible(present, bits, r)
           /\ \A x \in present : x >= target /\ Visible(present, bits, x) => r <= x
    BY <1>1, AdjacentFacts
  <2>2. Nearest = r /\ Candidates = {x \in present : Visible(present, bits, x) /\ x >= target}
    BY <1>3 DEF Nearest, Candidates
  <2> HIDE DEF r
  <2> QED BY <1>3, <2>1, <2>2 DEF Farther
<1> QED BY <1>2, <1>3

\* What ReturnsAdjacent asks of the value returned.
Adjacent(r) ==
  LET near == {x \in present : x < Coverage /\ IF side = "left" THEN x <= target ELSE x >= target}
  IN  /\ r = Nearest
      /\ IF near = {} THEN r = NoKey
         ELSE r \in near /\ \A x \in near : IF side = "left" THEN x <= r ELSE r <= x

\* Returning the nearest candidate, or NoKey if there is none, is returning the
\* adjacent key.
LEMMA NearestIsAdjacent ==
  ASSUME Arguments, NEW r,
         IF Candidates = {} THEN r = NoKey
         ELSE r \in Candidates /\ \A x \in Candidates : Farther(side, x, r)
  PROVE  Adjacent(r) /\ r \in present \cup {NoKey}
<1> DEFINE near == {x \in present : x < Coverage /\ IF side = "left" THEN x <= target ELSE x >= target}
<1>1. near = Candidates
  <2>1. \A x \in present : Visible(present, bits, x) <=> x < Coverage
    BY ArgumentFacts DEF Visible
  <2> QED BY <2>1 DEF Candidates
<1>2. r = Nearest
  <2>1. CASE Candidates = {}
    BY <2>1, NearestFacts
  <2>2. CASE Candidates # {}
    <3>1. /\ r \in Candidates /\ Nearest \in Candidates
          /\ Farther(side, Nearest, r) /\ Farther(side, r, Nearest)
      BY <2>2, NearestFacts
    <3>2. r \in Nat /\ Nearest \in Nat
      BY <3>1, ArgumentFacts
    <3> QED BY <3>1, <3>2 DEF Farther
  <2> QED BY <2>1, <2>2
<1>3. IF near = {} THEN r = NoKey
      ELSE r \in near /\ \A x \in near : IF side = "left" THEN x <= r ELSE r <= x
  BY <1>1 DEF Farther
<1>4. r \in present \cup {NoKey}
  BY ArgumentFacts
<1> QED BY <1>2, <1>3, <1>4 DEF Adjacent

\* A candidate under a node tests positive there, and one under a leaf is its key.
LEMMA CandidateUnder ==
  ASSUME Arguments, NEW x \in Candidates, NEW s, IsNode(s), Under(x, s)
  PROVE  IF s[2] = 0 THEN s[1] = x ELSE CheckAtLevel(bits, s[1], s[2])
<1>1. x \in Nat /\ Visible(present, bits, x)
  BY ArgumentFacts
<1>2. AlignDown(x, s[2] * Delta) = s[1]
  BY <1>1, AlignedNode
<1>3. CASE s[2] = 0
  <2>1. s[1] <= x /\ x < s[1] + 1 /\ s[1] \in Nat
    BY <1>3, SpanFacts DEF Under, IsNode
  <2> QED BY <1>1, <1>3, <2>1
<1>4. CASE s[2] # 0
  <2>1. s[2] \in 1..MaxLevel
    BY <1>4, LevelFacts DEF IsNode
  <2> QED BY <1>1, <1>2, <1>4, <2>1 DEF Visible
<1> QED BY <1>3, <1>4

\* The invariant holds at first.
LEMMA InitInv == Init => Inv
<1> SUFFICES ASSUME Init PROVE Inv
  OBVIOUS
<1>1. Arguments
  BY DEF Init, Arguments
<1>2. result = Searching /\ stack = <<<<0, MaxLevel>>>>
  BY DEF Init
<1>3. /\ Len(stack) = 1 /\ stack[1] = <<0, MaxLevel>> /\ stack \in Seq(Nat \X Nat)
      /\ MaxLevel \in Nat /\ Fanout \in Nat /\ IsNode(stack[1]) /\ stack[1][2] = MaxLevel
  BY <1>2, LevelFacts, RootIsNode
<1>4. Nodes(stack, side, target)
  <2>1. 1 <= 1 + (MaxLevel - MaxLevel) * Fanout
    BY <1>3
  <2>2. \A i \in 1..Len(stack) : i = 1
    BY <1>3
  <2> QED BY <1>3, <2>1, <2>2 DEF Nodes
<1>5. ASSUME NEW x \in Candidates PROVE Under(x, stack[1])
  <2>1. x < Coverage /\ x \in Nat
    BY ArgumentFacts, <1>1 DEF Visible
  <2>2. Span(MaxLevel) = Coverage
    BY DEF Span, Coverage
  <2>3. Coverage \in Nat
    BY <1>3, <2>2, SpanFacts
  <2> QED BY <1>3, <2>1, <2>2, <2>3, <1>2 DEF Under
<1>6. Covers(stack, Candidates)
  BY <1>3, <1>5 DEF Covers
<1>7. NearerAbove(stack, Candidates, side)
  BY <1>3, <1>5 DEF NearerAbove
<1> QED BY <1>1, <1>2, <1>4, <1>6, <1>7 DEF Inv, Searched, Finished

\* What every step leaves alone.
LEMMA SameCandidates ==
  ASSUME UNCHANGED <<present, bits, side, target>>
  PROVE  Candidates' = Candidates /\ (Arguments => Arguments') /\ Nearest' = Nearest
BY DEF Candidates, Arguments, Nearest, Visible, LeftAdjacent, RightAdjacent, Greatest, Least,
       CheckAtLevel, BitsOf

\* A step that keeps what Searched says, without returning, keeps the invariant.
LEMMA StillSearching ==
  ASSUME Inv, UNCHANGED <<present, bits, side, target, result>>, result = Searching,
         Nodes(stack', side, target), Covers(stack', Candidates),
         NearerAbove(stack', Candidates, side)
  PROVE  Inv'
<1>1. Arguments' /\ Candidates' = Candidates
  BY SameCandidates DEF Inv
<1> QED BY <1>1 DEF Inv, Searched, Finished

\* So does one that returns the nearest candidate, or NoKey when there is none.
LEMMA Returns ==
  ASSUME Inv, UNCHANGED <<present, bits, side, target>>,
         Nodes(stack', side, target), result' # Searching,
         IF Candidates = {} THEN result' = NoKey
         ELSE result' \in Candidates /\ \A x \in Candidates : Farther(side, x, result')
  PROVE  Inv'
<1>1. Arguments /\ Arguments' /\ Candidates' = Candidates /\ Nearest' = Nearest
  BY SameCandidates DEF Inv
<1>2. Adjacent(result') /\ result' \in present \cup {NoKey}
  BY <1>1, NearestIsAdjacent
<1>3. ReturnsAdjacent'
  BY <1>1, <1>2 DEF ReturnsAdjacent, Adjacent
<1> QED BY <1>1, <1>2, <1>3 DEF Inv, Searched, Finished

\* The top of the stack of a search.
LEMMA TopFacts ==
  ASSUME Inv, Running
  PROVE  /\ Arguments /\ result = Searching /\ stack # <<>>
         /\ Nodes(stack, side, target) /\ Covers(stack, Candidates)
         /\ NearerAbove(stack, Candidates, side)
         /\ Len(stack) \in 1..Len(stack) /\ IsNode(Top) /\ Top = stack[Len(stack)]
         /\ Top[2] = MaxLevel \/ Reaches(side, Top, target)
<1>1. /\ Nodes(stack, side, target) /\ Covers(stack, Candidates) /\ Arguments
      /\ NearerAbove(stack, Candidates, side) /\ stack # <<>> /\ result = Searching
  BY DEF Inv, Searched, Running
<1>2. Len(stack) \in 1..Len(stack)
  BY <1>1, PopFacts DEF Nodes
<1>3. IsNode(Top) /\ (Top[2] = MaxLevel \/ Reaches(side, Top, target))
  BY <1>1, <1>2 DEF Nodes, Top
<1> QED BY <1>1, <1>2, <1>3 DEF Top

\* Popping a top without candidates under it.
LEMMA PopInv ==
  ASSUME Inv, Running, stack' = Rest, UNCHANGED <<present, bits, side, target, result>>,
         \A x \in Candidates : ~ Under(x, Top)
  PROVE  Inv'
<1>1. /\ stack # <<>> /\ result = Searching
      /\ Nodes(stack, side, target) /\ Covers(stack, Candidates)
      /\ NearerAbove(stack, Candidates, side)
      /\ \A x \in Candidates : ~ Under(x, stack[Len(stack)])
  BY TopFacts
<1>2. Nodes(Rest, side, target) /\ Covers(Rest, Candidates) /\ NearerAbove(Rest, Candidates, side)
  BY <1>1, PopKeeps DEF Rest
<1> QED BY <1>1, <1>2, StillSearching

\* Visiting a leaf keeps the invariant.
LEMMA VisitLeafInv == Inv /\ VisitLeaf => Inv'
<1> SUFFICES ASSUME Inv, VisitLeaf PROVE Inv'
  OBVIOUS
<1>0. /\ Running /\ Top[2] = 0 /\ stack' = Rest
      /\ result' = IF Top[1] \in present THEN Top[1] ELSE Searching
      /\ UNCHANGED <<present, bits, side, target>>
  BY DEF VisitLeaf
<1>1. /\ Arguments /\ result = Searching /\ stack # <<>>
      /\ Nodes(stack, side, target) /\ NearerAbove(stack, Candidates, side)
      /\ Len(stack) \in 1..Len(stack) /\ IsNode(Top) /\ Top = stack[Len(stack)]
      /\ Top[2] = MaxLevel \/ Reaches(side, Top, target)
  BY <1>0, TopFacts
<1>3. \A x \in Candidates : Under(x, Top) => Top[1] = x
  BY <1>0, <1>1, CandidateUnder
<1>4. CASE Top[1] \notin present
  <2>1. \A x \in Candidates : ~ Under(x, Top)
    BY <1>1, <1>3, <1>4, ArgumentFacts
  <2>2. result' = result
    BY <1>0, <1>1, <1>4
  <2> QED BY <1>0, <2>1, <2>2, PopInv
<1>5. CASE Top[1] \in present
  <2> DEFINE k == Top[1]
  <2>1. k \in Nat /\ target \in Nat /\ k \in present /\ result' = k
    BY <1>0, <1>1, <1>5, ArgumentFacts
  <2>2. Under(k, Top) /\ k < Coverage
    <3>1. Span(Top[2]) = 1
      BY <1>0, SpanFacts
    <3>2. k + 1 <= Coverage
      BY <1>1, <3>1 DEF IsNode
    <3>3. Coverage \in Nat
      BY LevelFacts, SpanFacts DEF Coverage, Span
    <3> QED BY <2>1, <3>1, <3>2, <3>3 DEF Under
  <2>3. OnSide(side, k, target)
    <3>1. Reaches(side, Top, target) /\ Span(Top[2]) = 1
      BY <1>0, <1>1, LevelFacts, SpanFacts
    <3>2. IF side = "left" THEN k <= target ELSE k + 1 > target
      BY <3>1 DEF Reaches
    <3> HIDE DEF k
    <3> QED BY <2>1, <3>2 DEF OnSide
  <2>4. k \in Candidates
    BY <1>1, <2>1, <2>2, <2>3, ArgumentFacts DEF Candidates, OnSide
  <2>5. ASSUME NEW x \in Candidates PROVE Farther(side, x, k)
    <3>1. SUFFICES ASSUME ~ Farther(side, x, k) PROVE FALSE
      OBVIOUS
    <3>2. PICK m \in Len(stack)..Len(stack) : Under(x, stack[m])
      <4>1. Under(k, stack[Len(stack)])
        BY <1>1, <2>2
      <4> HIDE DEF k
      <4> QED BY <1>1, <2>4, <3>1, <4>1 DEF NearerAbove
    <3>3. Under(x, Top)
      <4>1. m = Len(stack)
        BY <1>1
      <4> QED BY <1>1, <3>2, <4>1
    <3>4. x = k
      BY <1>3, <3>3
    <3> QED BY <2>1, <3>1, <3>4 DEF Farther
  <2> HIDE DEF k
  <2>6. Nodes(stack', side, target)
    <3>1. Covers(stack, {}) /\ NearerAbove(stack, {}, side)
      BY DEF Covers, NearerAbove
    <3> QED BY <1>0, <1>1, <3>1, PopKeeps DEF Rest
  <2>7. result' # Searching
    BY <2>1 DEF Searching
  <2> QED BY <1>0, <2>1, <2>4, <2>5, <2>6, <2>7, Returns
<1> QED BY <1>4, <1>5

\* The filter only prunes nodes without candidates under them.
LEMMA PruneInv == Inv /\ Prune => Inv'
<1> SUFFICES ASSUME Inv, Prune PROVE Inv'
  OBVIOUS
<1>1. /\ Running /\ Top[2] # 0 /\ ~ CheckAtLevel(bits, Top[1], Top[2])
      /\ stack' = Rest /\ UNCHANGED <<present, bits, side, target, result>>
  BY DEF Prune
<1>2. \A x \in Candidates : ~ Under(x, Top)
  BY <1>1, TopFacts, CandidateUnder
<1> QED BY <1>1, <1>2, PopInv

\* Going down a node keeps the invariant.
LEMMA DescendInv == Inv /\ Descend => Inv'
<1> SUFFICES ASSUME Inv, Descend PROVE Inv'
  OBVIOUS
<1>1. /\ Running /\ Top[2] # 0 /\ stack' = Rest \o Children(Top)
      /\ UNCHANGED <<present, bits, side, target, result>>
  BY DEF Descend
<1>2. /\ Arguments /\ result = Searching /\ stack # <<>>
      /\ Nodes(stack, side, target) /\ Covers(stack, Candidates)
      /\ NearerAbove(stack, Candidates, side)
      /\ IsNode(Top) /\ Top = stack[Len(stack)]
  BY <1>1, TopFacts
<1>3. target \in Nat /\ side \in Sides /\ Candidates \subseteq Nat
      /\ \A x \in Candidates : OnSide(side, x, target)
  BY <1>2, ArgumentFacts DEF Arguments
<1>4. PICK f : Family(Children(Top), f, Top, target, side)
  BY <1>1, <1>2, <1>3, ChildrenAreFamily
<1>5. /\ Nodes(Rest \o Children(Top), side, target)
      /\ Covers(Rest \o Children(Top), Candidates)
      /\ NearerAbove(Rest \o Children(Top), Candidates, side)
  <2>1. stack[Len(stack)][2] # 0 /\ Family(Children(Top), f, stack[Len(stack)], target, side)
    BY <1>1, <1>2, <1>4
  <2> QED BY <1>2, <1>3, <2>1, DescendKeeps DEF Rest
<1> QED BY <1>1, <1>2, <1>5, StillSearching

\* With an empty stack there is no candidate.
LEMMA GiveUpInv == Inv /\ GiveUp => Inv'
<1> SUFFICES ASSUME Inv, GiveUp PROVE Inv'
  OBVIOUS
<1>1. /\ result = Searching /\ stack = <<>> /\ result' = NoKey
      /\ UNCHANGED <<present, bits, side, target, stack>>
  BY DEF GiveUp
<1>2. Nodes(stack, side, target) /\ Covers(stack, Candidates)
  BY <1>1 DEF Inv, Searched
<1>3. Candidates = {}
  BY <1>1, <1>2 DEF Covers
<1>4. result' # Searching
  BY <1>1 DEF Searching, NoKey
<1> QED BY <1>1, <1>2, <1>3, <1>4, Returns

\* Stuttering keeps the invariant.
LEMMA UnchangedInv == Inv /\ UNCHANGED vars => Inv'
<1> SUFFICES ASSUME Inv, UNCHANGED vars PROVE Inv'
  OBVIOUS
<1>1. UNCHANGED <<present, bits, side, target, stack, result>>
  BY DEF vars
<1>2. Arguments' /\ Candidates' = Candidates /\ Nearest' = Nearest
  BY <1>1, SameCandidates DEF Inv
<1> QED BY <1>1, <1>2 DEF Inv, Searched, Finished, ReturnsAdjacent

\* Every step keeps the invariant.
LEMMA StepInv == Inv /\ [Next]_vars => Inv'
BY VisitLeafInv, PruneInv, DescendInv, GiveUpInv, UnchangedInv DEF Next, Returned

\* Every step of the search keeps the candidates under the stack, the nearest on
\* top, and what it returns is the adjacent key.
THEOREM Correct == Spec => []Inv
<1>1. Init => Inv
  BY InitInv
<1>2. Inv /\ [Next]_vars => Inv'
  BY StepInv
<1> QED BY <1>1, <1>2, PTL DEF Spec

\* A node of the stack is a prefix aligned to its level, inside the tree.
THEOREM TypeCorrect == Spec => []TypeOK
<1>1. ASSUME Inv PROVE TypeOK
  <2>1. /\ present \subseteq Keys /\ side \in Sides /\ target \in Keys
        /\ stack \in Seq(Nat \X Nat) /\ \A i \in 1..Len(stack) : IsNode(stack[i])
    BY <1>1 DEF Inv, Arguments, Nodes
  <2>2. result = Searching \/ result \in present \cup {NoKey}
    BY <1>1 DEF Inv, Finished
  <2>3. ASSUME NEW s, IsNode(s) PROVE Node(s) /\ s[1] = AlignDown(s[1], s[2] * Delta)
    <3>1. /\ s[1] \in Nat /\ s[2] \in 0..MaxLevel /\ s[1] + Span(s[2]) <= Coverage
          /\ Span(s[2]) \in Nat \ {0} /\ Coverage \in Nat
      <4>1. s[2] \in Nat /\ MaxLevel \in Nat /\ Coverage = Span(MaxLevel)
        BY <2>3, LevelFacts DEF IsNode, Coverage, Span
      <4> QED BY <2>3, <4>1, SpanFacts DEF IsNode
    <3>2. s[1] \in 0..(Coverage - 1) /\ s[1] < s[1] + Span(s[2]) /\ s[1] <= s[1]
      BY <3>1
    <3>3. AlignDown(s[1], s[2] * Delta) = s[1]
      BY <2>3, <3>1, <3>2, AlignedNode DEF Under
    <3> QED BY <3>1, <3>2, <3>3 DEF Node
  <2>4. DOMAIN stack = 1..Len(stack)
    BY <2>1
  <2> QED BY <2>1, <2>2, <2>3, <2>4 DEF TypeOK
<1> QED BY <1>1, Correct, PTL

\* No pop, prune or choice of children drops a key that should have been found.
THEOREM SkipsNothing == Spec => []NothingSkipped
<1>1. ASSUME Inv PROVE NothingSkipped
  <2>1. stack \in Seq(Nat \X Nat) /\ (result = Searching => Covers(stack, Candidates))
    BY <1>1 DEF Inv, Searched, Nodes
  <2>2. DOMAIN stack = 1..Len(stack)
    BY <2>1
  <2> QED BY <2>1, <2>2 DEF Covers, NothingSkipped
<1> QED BY <1>1, Correct, PTL

\* The first node from the top with a candidate under it has the nearest one there.
THEOREM ExploresNearestFirst == Spec => []NearestOnTop
<1>1. ASSUME Inv PROVE NearestOnTop
  <2> SUFFICES ASSUME result = Searching, NEW i \in DOMAIN stack,
                      NEW y \in Candidates, Under(y, stack[i]),
                      \A j \in (i + 1)..Len(stack) : ~ \E x \in Candidates : Under(x, stack[j])
               PROVE  Under(Nearest, stack[i])
    BY DEF NearestOnTop
  <2>1. Arguments /\ NearerAbove(stack, Candidates, side) /\ stack \in Seq(Nat \X Nat)
    BY <1>1 DEF Inv, Searched, Nodes
  <2>2. i \in 1..Len(stack) /\ i \in Nat /\ Len(stack) \in Nat
    BY <2>1
  <2>3. Nearest \in Candidates /\ Farther(side, y, Nearest)
    BY <2>1, NearestFacts
  <2>4. Farther(side, Nearest, y) \/ \E m \in i..Len(stack) : Under(Nearest, stack[m])
    BY <2>1, <2>2, <2>3 DEF NearerAbove
  <2>5. CASE Farther(side, Nearest, y)
    <3>1. y \in Nat /\ Nearest \in Nat
      BY <2>1, <2>3, ArgumentFacts
    <3>2. y = Nearest
      BY <2>3, <2>5, <3>1 DEF Farther
    <3> QED BY <3>2
  <2>6. ASSUME NEW m \in i..Len(stack), Under(Nearest, stack[m]) PROVE Under(Nearest, stack[i])
    <3>1. m = i \/ m \in (i + 1)..Len(stack)
      BY <2>2
    <3> QED BY <2>3, <2>6, <3>1
  <2> QED BY <2>4, <2>5, <2>6
<1> QED BY <1>1, Correct, PTL

\* The search returns the predecessor or the successor of the target.
THEOREM FindsAdjacent == Spec => []ReturnsAdjacent
<1>1. Inv => ReturnsAdjacent
  BY DEF Inv, Finished, ReturnsAdjacent
<1> QED BY <1>1, Correct, PTL

\* The stack never holds more than one family of children per level.
THEOREM StackStaysSmall == Spec => []StackBounded
<1>1. ASSUME Inv PROVE StackBounded
  <2>1. /\ stack \in Seq(Nat \X Nat)
        /\ \A i \in 1..Len(stack) :
             IsNode(stack[i]) /\ i <= 1 + (MaxLevel - stack[i][2]) * Fanout
    BY <1>1 DEF Inv, Nodes
  <2>2. Len(stack) \in Nat /\ MaxLevel \in Nat /\ Fanout \in Nat /\ MaxLevel * Fanout \in Nat
    BY <2>1, LevelFacts
  <2>3. CASE Len(stack) = 0
    <3>1. 0 <= 1 + MaxLevel * Fanout
      BY <2>2
    <3> QED BY <2>3, <3>1 DEF StackBounded
  <2>4. CASE Len(stack) # 0
    <3>1. Len(stack) \in 1..Len(stack)
      BY <2>2, <2>4
    <3> DEFINE l == stack[Len(stack)][2]
    <3>2. l \in 0..MaxLevel /\ Len(stack) <= 1 + (MaxLevel - l) * Fanout
      BY <2>1, <3>1 DEF IsNode
    <3> HIDE DEF l
    <3>3. l * Fanout \in Nat /\ (MaxLevel - l) * Fanout = MaxLevel * Fanout - l * Fanout
      BY <2>2, <3>2
    <3>4. Len(stack) <= 1 + MaxLevel * Fanout
      BY <2>2, <3>2, <3>3
    <3> QED BY <3>4 DEF StackBounded
  <2> QED BY <2>3, <2>4
<1> QED BY <1>1, Correct, PTL

=============================================================================

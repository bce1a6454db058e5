---------------------------- MODULE BloomRFProofs ----------------------------
(***************************************************************************)
(* Proofs about BloomRF for every key length, level width, expected number *)
(* of items and size: where its bits are, that it has no false negatives,  *)
(* and what the number of levels implies for the shifts of hashing().      *)
(***************************************************************************)
EXTENDS BloomRF, ShiftTheorems

-----------------------------------------------------------------------------
(* The filter computes with the shifts the lemmas of ShiftTheorems are about *)

\* The powers of two are the same.
LEMMA SamePow2 == F!Pow2 = Pow2
BY DEF F!Pow2, Pow2

\* So are the shifts.
LEMMA SameShifts ==
  \A a, n : F!Shr(a, n) = Shr(a, n) /\ F!Shl(a, n) = Shl(a, n) /\ F!LowBits(a, n) = LowBits(a, n)
BY SamePow2 DEF F!Shr, F!Shl, F!LowBits, Shr, Shl, LowBits

-----------------------------------------------------------------------------
(* The inductive invariant: no operation changes the configuration         *)

Configured ==
  /\ d \in KeyLengths /\ delta \in Deltas /\ items \in ItemCounts /\ rawSize \in RawSizes
  /\ F!NItems < Pow2[d]

\* The configuration stays one that the constructor was given.
LEMMA ConfigurationKept == Spec => []Configured
<1>1. Init => Configured
  BY DEF Init, Configured
<1>2. Configured /\ [Next]_vars => Configured'
  BY DEF Configured, Next, Insert, vars, configuration, F!NItems
<1> QED BY <1>1, <1>2, PTL DEF Spec

\* What a configuration is made of
LEMMA ConfiguredFacts ==
  ASSUME Configured
  PROVE  d \in Nat /\ delta \in Nat \ {0} /\ F!NItems \in Nat \ {0} /\ F!NItems < Pow2[d]
BY BFAssumption DEF Configured, F!NItems

\* The number of levels is the least that is enough, and there is at least one.
LEMMA LevelCountLeast ==
  ASSUME Configured
  PROVE  /\ F!LevelCount \in 1..d
         /\ Pow2[d] <= F!NItems * Pow2[F!LevelCount * delta]
         /\ F!NItems * Pow2[F!MaxLevel * delta] < Pow2[d]
<1>1. \E k \in 1..d : /\ Pow2[d] <= F!NItems * Pow2[k * delta]
                      /\ \A j \in 0..(k - 1) : Pow2[d] > F!NItems * Pow2[j * delta]
  BY ConfiguredFacts, LevelsExist
<1>2. /\ F!LevelCount \in 1..d
      /\ Pow2[d] <= F!NItems * Pow2[F!LevelCount * delta]
      /\ \A j \in 0..(F!LevelCount - 1) : Pow2[d] > F!NItems * Pow2[j * delta]
  BY <1>1, SamePow2 DEF F!LevelCount
<1>3. F!MaxLevel \in 0..(F!LevelCount - 1)
  BY <1>2, ConfiguredFacts DEF F!MaxLevel
<1> HIDE DEF F!LevelCount
<1>4. F!MaxLevel * delta \in Nat
  BY <1>2, <1>3, ConfiguredFacts
<1>5. Pow2[F!MaxLevel * delta] \in Nat /\ Pow2[d] \in Nat
  BY <1>4, ConfiguredFacts, Pow2Facts
<1> QED BY <1>2, <1>3, <1>5, ConfiguredFacts

-----------------------------------------------------------------------------
(* What follows for a configuration *)

(* With at least as many expected items as a word has bits, hashing()      *)
(* shifts by less than the key length at every level (ShiftsFitKeys).      *)
THEOREM ShiftsCorrect == Spec => []ShiftsFitKeys
<1>1. Configured => ShiftsFitKeys
  <2> SUFFICES ASSUME Configured, F!NItems >= F!WordBits, NEW i \in F!Levels
               PROVE  F!LevelShift(i) < d
    BY DEF ShiftsFitKeys
  <2> DEFINE m == F!MaxLevel * delta
             w == delta - 1
  <2>1. /\ d \in Nat /\ delta \in Nat \ {0} /\ F!LevelCount \in 1..d
        /\ F!NItems \in Nat \ {0}
    BY ConfiguredFacts, LevelCountLeast
  <2>2. i \in Nat /\ F!MaxLevel \in Nat /\ i <= F!MaxLevel
    BY <2>1 DEF F!Levels, F!MaxLevel
  <2>3. m \in Nat /\ i * delta \in Nat /\ i * delta <= m /\ w \in Nat
    BY <2>1, <2>2
  <2>4. Pow2[m] \in Nat /\ Pow2[w] \in Nat /\ Pow2[d] \in Nat /\ Pow2[m + w] = Pow2[m] * Pow2[w]
    BY <2>1, <2>3, Pow2Facts, Pow2Add
  <2>5. F!NItems * Pow2[m] < Pow2[d] /\ Pow2[w] <= F!NItems
    BY LevelCountLeast, SamePow2 DEF F!WordBits
  <2> HIDE DEF m, w
  <2>6. Pow2[m] * Pow2[w] <= F!NItems * Pow2[m]
    BY <2>1, <2>4, <2>5
  <2>7. Pow2[m] * Pow2[w] \in Nat /\ F!NItems * Pow2[m] \in Nat
    BY <2>1, <2>4
  <2>8. Pow2[m + w] < Pow2[d]
    BY <2>4, <2>5, <2>6, <2>7
  <2>9. m + w < d
    BY <2>1, <2>3, <2>8, Pow2Smaller
  <2> QED BY <2>1, <2>3, <2>9 DEF F!LevelShift, w
<1> QED BY <1>1, ConfigurationKept, PTL

-----------------------------------------------------------------------------
(* No false negatives *)

\* The filter has the bits of the keys themselves: what inserts maintain.
BitsOfInserted ==
  /\ inserted \subseteq 0..(Pow2[d] - 1)
  /\ \A key \in inserted : \A i \in F!Levels : F!Position(key, i) \in bits

\* The filter is a whole number of words, at least one.
LEMMA SizeFacts ==
  ASSUME Configured
  PROVE  LET c == F!FilterSize \div F!WordBits
         IN  /\ F!WordBits = Pow2[delta - 1] /\ F!WordBits \in Nat \ {0}
             /\ c \in Nat \ {0} /\ F!FilterSize = c * F!WordBits
<1> DEFINE n == delta - 1
           e == (rawSize + F!WordBits - 1) \div F!WordBits
<1>1. n \in Nat /\ rawSize \in Nat \ {0}
  BY BFAssumption DEF Configured
<1>2. F!WordBits = Pow2[n] /\ F!WordBits \in Nat \ {0}
  BY <1>1, SamePow2, Pow2Facts DEF F!WordBits
<1>3. F!FilterSize = e * F!WordBits
  BY DEF F!FilterSize
<1>4. e \in Nat \ {0} /\ (e * F!WordBits) \div F!WordBits = e
  BY <1>1, <1>2, WholeWords
<1> HIDE DEF e
<1> QED BY <1>2, <1>3, <1>4

\* Where the bit of a key is, and that the first key of a node has the bit of
\* every key under it.
LEMMA PositionOf ==
  ASSUME Configured, NEW key \in Nat, NEW i \in F!Levels
  PROVE  /\ F!Position(key, i) \in 0..(F!FilterSize + F!WordBits - 1)
         /\ F!Position(AlignDown(key, i * delta), i) = F!Position(key, i)
<1> DEFINE n == delta - 1
           l == i * delta
           c == F!FilterSize \div F!WordBits
           a == F!A(i)
           b == F!B(i)
<1>1. /\ delta \in Nat \ {0} /\ i \in Nat /\ n \in Nat /\ n + 1 = delta
      /\ l \in Nat /\ l + delta - 1 = l + n
  <2>1. delta \in Nat \ {0} /\ i \in Nat
    BY ConfiguredFacts, LevelCountLeast DEF F!Levels
  <2> QED BY <2>1
<1>2. a \in Nat /\ b \in Nat
  <2>1. i % 8 \in 0..7
    BY <1>1, DivModLaw
  <2>2. \A j \in 0..7 : F!PrimesA[j + 1] \in Nat /\ F!PrimesB[j + 1] \in Nat
    BY DEF F!PrimesA, F!PrimesB
  <2> QED BY <2>1, <2>2 DEF F!A, F!B
<1>3. F!WordBits = Pow2[n] /\ c \in Nat \ {0} /\ F!FilterSize = c * F!WordBits
  BY SizeFacts
<1> HIDE DEF n, l
<1>4. \A x : F!Position(x, i) = HashedBit(a, b, c, n, l, x)
  BY <1>1, <1>3, SameShifts
     DEF F!Position, F!Word, F!Offset, F!Prefix, F!LevelShift, HashedBit, Shl, n, l
<1> HIDE DEF a, b, c
<1>5. a \in Nat /\ b \in Nat /\ c \in Nat \ {0} /\ n \in Nat /\ l \in Nat /\ key \in Nat
  BY <1>1, <1>2, <1>3
<1>6. /\ HashedBit(a, b, c, n, l, key) \in 0..(c * Pow2[n] + Pow2[n] - 1)
      /\ HashedBit(a, b, c, n, l, AlignDown(key, l)) = HashedBit(a, b, c, n, l, key)
  BY ONLY <1>5, HashedBitFacts
<1> QED BY <1>3, <1>4, <1>6 DEF l

(* In every configuration the filter has no false negatives: each node of  *)
(* the prefix tree above an inserted key tests positive.                   *)
THEOREM FilterCorrect == Spec => []NoFalseNegatives
<1>1. Init => BitsOfInserted
  BY DEF Init, BitsOfInserted
<1>2. BitsOfInserted /\ [Next]_vars => BitsOfInserted'
  <2> SUFFICES ASSUME BitsOfInserted, [Next]_vars PROVE BitsOfInserted'
    OBVIOUS
  <2>1. UNCHANGED configuration
    BY DEF Next, Insert, vars, configuration
  <2>2. /\ d' = d /\ F!Levels' = F!Levels
        /\ \A key, i : F!Position(key, i)' = F!Position(key, i)
    BY <2>1 DEF configuration, F!Levels, F!LevelCount, F!NItems,
                F!Position, F!Word, F!Offset, F!Prefix, F!LevelShift, F!FilterSize, F!WordBits,
                F!Shl, F!Shr, F!LowBits
  <2>3. CASE UNCHANGED vars
    BY <2>2, <2>3 DEF vars, BitsOfInserted
  <2>4. ASSUME NEW key \in AllKeys, Insert(key) PROVE BitsOfInserted'
    <3>1. inserted' = inserted \cup {key} /\ bits' = bits \cup {F!Position(key, i) : i \in F!Levels}
      BY <2>4 DEF Insert, F!Added
    <3> QED BY <2>2, <3>1 DEF BitsOfInserted, AllKeys
  <2> QED BY <2>3, <2>4 DEF Next
<1>3. Configured /\ BitsOfInserted => NoFalseNegatives
  <2> SUFFICES ASSUME Configured, BitsOfInserted, NEW key \in inserted, NEW i \in F!Levels
               PROVE  F!Position(AlignDown(key, i * delta), i) \in bits
    BY DEF NoFalseNegatives, F!CheckAtLevel
  <2>1. key \in Nat
    BY DEF BitsOfInserted
  <2> QED BY <2>1, PositionOf DEF BitsOfInserted
<1> QED BY <1>1, <1>2, <1>3, ConfigurationKept, PTL DEF Spec

-----------------------------------------------------------------------------
(* Where the bits are *)

(* Every bit that is ever set is at most one word behind the last word of  *)
(* the filter (TypeOK), in every configuration.                            *)
THEOREM TypeCorrect == Spec => []TypeOK
<1>1. Init => TypeOK
  BY DEF Init, TypeOK
<1>2. Configured /\ TypeOK /\ [Next]_vars => TypeOK'
  <2> SUFFICES ASSUME Configured, TypeOK, [Next]_vars PROVE TypeOK'
    OBVIOUS
  <2>1. UNCHANGED configuration
    BY DEF Next, Insert, vars, configuration
  <2>2. F!FilterSize' = F!FilterSize /\ F!WordBits' = F!WordBits /\ AllKeys' = AllKeys
    BY <2>1 DEF configuration, F!FilterSize, F!WordBits, AllKeys
  <2>3. CASE UNCHANGED vars
    BY <2>2, <2>3 DEF vars, TypeOK
  <2>4. ASSUME NEW key \in AllKeys, Insert(key) PROVE TypeOK'
    <3>1. \A i \in F!Levels : F!Position(key, i) \in 0..(F!FilterSize + F!WordBits - 1)
      BY PositionOf DEF AllKeys
    <3> QED BY <2>2, <2>4, <3>1 DEF TypeOK, Insert, F!Added
  <2> QED BY <2>3, <2>4 DEF Next
<1> QED BY <1>1, <1>2, ConfigurationKept, PTL DEF Spec

(* No insert or query runs past the end of the vector of 64-bit words,     *)
(* unless the size of the filter is a multiple of 64 (PositionsInVector).  *)
THEOREM VectorCorrect == Spec => []PositionsInVector
<1>1. Configured /\ TypeOK => PositionsInVector
  <2> SUFFICES ASSUME Configured, TypeOK, F!FilterSize % 64 # 0, 64 % F!WordBits = 0, NEW p \in bits
               PROVE  p < F!VectorBits
    BY DEF PositionsInVector
  <2> DEFINE W == F!WordBits
             c == F!FilterSize \div F!WordBits
             S == F!FilterSize
             a == S \div 64
             r == S % 64
             t == 64 \div W
  <2>1. W \in Nat \ {0} /\ c \in Nat \ {0} /\ S = c * W /\ S \in Nat
    BY SizeFacts
  <2>2. p \in 0..(S + W - 1)
    BY DEF TypeOK
  <2>3. a \in Nat /\ r \in 1..63 /\ S = 64 * a + r
    BY <2>1, DivModLaw
  <2>4. t \in Nat /\ 64 = W * t
    <3>1. t \in Nat /\ 64 = W * t + (64 % W)
      BY <2>1, DivModLaw
    <3> QED BY <2>1, <3>1
  <2>5. F!VectorBits = ((S + 63) \div 64) * 64
    BY DEF F!VectorBits
  <2> HIDE DEF W, c, S, a, r, t
  <2>6. (S + 63) \div 64 = a + 1
    <3>1. S + 63 = 64 * (a + 1) + (r - 1) /\ r - 1 \in Nat /\ r - 1 < 64 /\ a + 1 \in Nat
      BY <2>1, <2>3
    <3> QED BY <2>1, <3>1, DivModUnique
  <2>7. r + W <= 64
    <3> DEFINE s == c - t * a
    <3>1. W * t * a = 64 * a /\ W * (t * a) = W * t * a /\ t * a \in Nat
      BY <2>1, <2>3, <2>4
    <3>2. s \in Int /\ W * s = c * W - W * (t * a)
      BY <2>1, <3>1
    <3>3. W * s = r
      BY <2>1, <2>3, <3>1, <3>2
    <3> HIDE DEF s
    <3>4. s < t
      <4> SUFFICES ASSUME s >= t PROVE FALSE
        BY <2>4, <3>2
      <4>1. W * s >= W * t
        BY <2>1, <2>4, <3>2
      <4> QED BY <2>3, <2>4, <3>3, <4>1
    <3>5. s + 1 <= t
      BY <2>4, <3>2, <3>4
    <3>6. W * (s + 1) <= W * t
      BY <2>1, <2>4, <3>2, <3>5
    <3>7. W * (s + 1) = r + W
      BY <2>1, <3>2, <3>3
    <3> QED BY <2>4, <3>6, <3>7
  <2>8. p < (a + 1) * 64
    BY <2>1, <2>2, <2>3, <2>7
  <2> QED BY <2>5, <2>6, <2>8
<1> QED BY <1>1, ConfigurationKept, TypeCorrect, PTL

=============================================================================

---------------------------- MODULE PrefixFilter ----------------------------
(***************************************************************************)
(* The operations of class BloomRF (Implement/bloomRF.h, bloomRF.cpp), a   *)
(* range filter, on a given set of bits: what BloomRF is specified with    *)
(* and what RangeLH applies to its member bloom_RF.                        *)
(*                                                                         *)
(* A key sets one bit per level; the bit of level i depends only on the    *)
(* prefix key >> (i * Delta), so a set bit says that some key with that    *)
(* prefix may have been inserted.  RangeLH walks the tree of prefixes and  *)
(* skips every subtree whose bit is not set.                               *)
(*                                                                         *)
(* Abstractions: bits_ is the set of positions of its 1 bits, and the raw  *)
(* size computed from the target false-positive rate with logarithms is a  *)
(* constant.                                                               *)
(*                                                                         *)
(* A definition named for what is wrong with it is a mutant of the one     *)
(* after it: it shows that a property can fail, and nothing uses it.       *)
(***************************************************************************)
EXTENDS Shifts, Sequences, FiniteSets

CONSTANTS
  KeyBits,      \* d: keys are below 2^KeyBits
  Delta,        \* delta: bits of key per level
  Items,        \* n_items: expected number of keys
  RawSize,      \* raw_m: -n ln p / (ln 2)^2, truncated
  Keys          \* the keys that callers use

NItems == IF Items < 10 THEN 10 ELSE Items

ASSUME RFAssumption ==
  /\ KeyBits \in 0..64 /\ Delta \in Nat \ {0}
  /\ Items \in Nat /\ RawSize \in Nat \ {0}
  /\ NItems < Pow2[KeyBits]      \* otherwise there is no level
  /\ Keys \subseteq 0..(Pow2[KeyBits] - 1)

-----------------------------------------------------------------------------
(* Configuration, computed by the constructor *)

LevelCountOneMore ==
  CHOOSE k \in 2..(KeyBits + 1) :
    /\ Pow2[KeyBits] <= NItems * Pow2[(k - 1) * Delta]
    /\ \A j \in 0..(k - 2) : Pow2[KeyBits] > NItems * Pow2[j * Delta]

\* k_ = ceil((d - log2 n) / delta): the least k with 2^d <= n * 2^(k * delta)
LevelCount ==
  CHOOSE k \in 1..KeyBits :
    /\ Pow2[KeyBits] <= NItems * Pow2[k * Delta]
    /\ \A j \in 0..(k - 1) : Pow2[KeyBits] > NItems * Pow2[j * Delta]

Levels == 0..(LevelCount - 1)
MaxLevel == LevelCount - 1

WordBits == Pow2[Delta - 1]

\* raw_m rounded up to a multiple of the word size
FilterSize == ((RawSize + WordBits - 1) \div WordBits) * WordBits

VectorBitsRoundedDown == (FilterSize \div 64) * 64

\* bits_.size() in bits: whole 64-bit words
VectorBits == ((FilterSize + 63) \div 64) * 64

PrimesA == <<2, 3, 5, 7, 11, 13, 17, 19>>
PrimesB == <<29, 31, 37, 41, 43, 47, 53, 59>>
A(i) == PrimesA[(i % 8) + 1]
B(i) == PrimesB[(i % 8) + 1]

-----------------------------------------------------------------------------
(* Hashing and the operations *)

\* key >> li for li = i * delta; the word and the offset in it are two views
\* of it that overlap in one bit
Prefix(key, i) == Shr(key, i * Delta)

\* How far the key is shifted to hash it at level i.  From 64 on, the shift of a
\* uint64_t is undefined.
LevelShift(i) == i * Delta + Delta - 1

ShiftsDefined == LevelShift(MaxLevel) < 64

WordUnreduced(key, i) == A(i) + B(i) * Shr(key, LevelShift(i))

Word(key, i) == (A(i) + B(i) * Shr(key, LevelShift(i))) % (FilterSize \div WordBits)

Offset(key, i) == LowBits(Prefix(key, i), Delta)

Position(key, i) == Shl(Word(key, i), Delta - 1) + Offset(key, i)

AddedBelowTop(bs, key) == bs \cup {Position(key, i) : i \in Levels \ {MaxLevel}}

\* insert sets one bit at every level
Added(bs, key) == bs \cup {Position(key, i) : i \in Levels}

\* check_at_level, for a level below k_ (it throws for any other)
CheckAtLevel(bs, key, i) == Position(key, i) \in bs

CheckAllKey(bs, key) == \A i \in Levels : Position(key, i) \in bs

-----------------------------------------------------------------------------
(* The tree of prefixes, as the searches of RangeLH walk it from the root  *)
(* <<0, MaxLevel>>: a node <<key, level>> stands for the keys from key to  *)
(* key + 2^(level * Delta) - 1.                                            *)

\* The keys below the root.  A key at or above Coverage has no node.
Coverage == Pow2[MaxLevel * Delta]

\* The worker of x is reached if no filter bit on the way from the root is clear
Visible(present, bs, x) ==
  /\ x \in present /\ x < Coverage
  /\ \A i \in 1..MaxLevel : CheckAtLevel(bs, AlignDown(x, i * Delta), i)

\* What the two searches return: the nearest reachable key on their side of
\* the target, or NoKey for nullptr.  Module AdjacentSearch is their loop.
NoKey == -1

Greatest(xs) == IF xs = {} THEN NoKey ELSE CHOOSE x \in xs : \A y \in xs : y <= x
Least(xs) == IF xs = {} THEN NoKey ELSE CHOOSE x \in xs : \A y \in xs : x <= y

LeftAdjacent(present, bs, target) ==
  Greatest({x \in present : x <= target /\ Visible(present, bs, x)})

RightAdjacent(present, bs, target) ==
  Least({x \in present : x >= target /\ Visible(present, bs, x)})

=============================================================================

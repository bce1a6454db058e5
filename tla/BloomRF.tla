------------------------------- MODULE BloomRF -------------------------------
(***************************************************************************)
(* Class BloomRF (Implement/bloomRF.h, bloomRF.cpp) as an object of its    *)
(* own: its constructor may be given any key length, level width, expected *)
(* number of items and target rate, and what it computes from them has to  *)
(* fit together.  Keys are inserted, in any order and possibly more than   *)
(* once, and nothing is ever taken out.                                    *)
(***************************************************************************)
EXTENDS Shifts, FiniteSets

CONSTANTS
  KeyLengths, Deltas, ItemCounts, RawSizes,   \* arguments of the constructors explored
  MaxInserted    \* bound: callers insert at most this many different keys

ASSUME BFAssumption ==
  /\ KeyLengths \subseteq 0..64 /\ Deltas \subseteq Nat \ {0}
  /\ ItemCounts \subseteq Nat /\ RawSizes \subseteq Nat \ {0}
  /\ MaxInserted \in Nat

VARIABLES
  d, delta, items, rawSize,   \* the constructor's arguments; the last stands for fp_prob
  bits,                       \* bits_
  inserted                    \* history: the keys inserted so far

configuration == <<d, delta, items, rawSize>>
vars == <<configuration, bits, inserted>>

AllKeys == 0..(Pow2[d] - 1)

F == INSTANCE PrefixFilter WITH
       KeyBits <- d, Delta <- delta, Items <- items, RawSize <- rawSize, Keys <- AllKeys

-----------------------------------------------------------------------------
(* Specification *)

\* The constructor, with an expected number of items that leaves a level
Init ==
  /\ d \in KeyLengths /\ delta \in Deltas /\ items \in ItemCounts /\ rawSize \in RawSizes
  /\ F!NItems < Pow2[d]
  /\ bits = {} /\ inserted = {}

\* Where a shift of hashing() is undefined, so is what an insert does
Insert(key) ==
  /\ F!ShiftsDefined
  /\ Cardinality(inserted \cup {key}) <= MaxInserted
  /\ bits' = F!Added(bits, key)
  /\ inserted' = inserted \cup {key}
  /\ UNCHANGED configuration

Next == \E key \in AllKeys : Insert(key)

Spec == Init /\ [][Next]_vars

-----------------------------------------------------------------------------
(* Properties *)

\* Type invariant: a position may lie up to one word behind the filter's last word.
TypeOK == bits \subseteq 0..(F!FilterSize + F!WordBits - 1) /\ inserted \subseteq AllKeys

\* "False negatives are not possible", in the form the search of RangeLH needs:
\* each node of the prefix tree above an inserted key, asked for by its own
\* first key, has its bit set.  It has so in every configuration, with levels of
\* one bit, with levels that divide the key length, and with a last level wider
\* than what is left of it.
NoFalseNegatives ==
  \A key \in inserted : \A i \in F!Levels :
    F!CheckAtLevel(bits, AlignDown(key, i * delta), i)

\* Unless the filter fills its vector of 64-bit words exactly, the vector has room
\* for the positions behind the last word of the filter, and no insert or query
\* reads or writes past its end.  (set_bit and get_bit check nothing.)
PositionsInVector ==
  F!FilterSize % 64 # 0 /\ 64 % F!WordBits = 0 => \A p \in bits : p < F!VectorBits

\* hashing() shifts by less than the length of a key in every configuration
\* that expects at least as many items as a word has bits; with keys of 64 bits
\* no such shift is undefined.
ShiftsFitKeys ==
  F!NItems >= F!WordBits => \A i \in F!Levels : F!LevelShift(i) < d

=============================================================================

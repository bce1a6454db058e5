---------------------------- MODULE KeyConversions ----------------------------
(***************************************************************************)
(* The conversions of RangeLH (Implement/rangeLH.cpp) from keys of the     *)
(* types double and std::string to the uint64_t keys of the index, and the *)
(* bound of a pattern lookup.                                              *)
(*                                                                         *)
(* A string is the sequence of its bytes; a byte has ByteBits bits (8 in   *)
(* the code).  A double is a number of units of 1 / DoubleUnit and not     *)
(* negative, and its product with float_scale is exact.                    *)
(*                                                                         *)
(* A definition named for what is wrong with it is a mutant of the one     *)
(* after it: it shows that a property can fail, and nothing uses it.       *)
(***************************************************************************)
EXTENDS Shifts, Sequences

CONSTANTS
  ByteBits,     \* bits of a char
  MaxBytes,     \* max_bytes_string
  FloatScale,   \* float_scale
  DoubleUnit,   \* a double is an integer divided by this
  Percent       \* the byte '%'

MaxByte == Pow2[ByteBits] - 1

ASSUME KCAssumption ==
  /\ ByteBits \in Nat \ {0}
  /\ MaxBytes \in 1..8          \* more bytes would not fit the conversion's buffer
  /\ FloatScale \in Nat \ {0} /\ DoubleUnit \in Nat \ {0}
  /\ Percent \in 0..MaxByte

-----------------------------------------------------------------------------
(* Strings *)

\* The byte the conversion reads at position n: past the end of the string the
\* buffer is zero
ByteAt(s, n) == IF n <= Len(s) THEN s[n] ELSE 0

StringToIntUnpadded(s) ==
  LET int[n \in 0..MaxBytes] ==
        IF n = 0 THEN 0
        ELSE IF n > Len(s) THEN int[n - 1] ELSE Shl(int[n - 1], ByteBits) + s[n]
  IN  int[MaxBytes]

StringToIntOneByteLess(s) ==
  LET int[n \in 0..MaxBytes] ==
        IF n = 0 THEN 0 ELSE Shl(int[n - 1], ByteBits) + ByteAt(s, n)
  IN  int[MaxBytes - 1]

\* string_to_int_lex: the first MaxBytes bytes, big-endian
StringToIntLex(s) ==
  LET int[n \in 0..MaxBytes] ==
        IF n = 0 THEN 0 ELSE Shl(int[n - 1], ByteBits) + ByteAt(s, n)
  IN  int[MaxBytes]

\* The positions of the bytes that can be incremented
Incrementable(s) == {n \in DOMAIN s : s[n] # MaxByte}

NextStringUncut(s) ==
  IF s = <<>> THEN s
  ELSE IF Incrementable(s) = {} THEN Append(s, 0)
  ELSE LET last == CHOOSE n \in Incrementable(s) : \A m \in Incrementable(s) : m <= n
       IN  [s EXCEPT ![last] = @ + 1]

\* next_lexicographic_string: the last byte that is not the greatest is
\* incremented and what follows it is cut off
NextLexicographicString(s) ==
  IF s = <<>> THEN s
  ELSE IF Incrementable(s) = {} THEN Append(s, 0)
  ELSE LET last == CHOOSE n \in Incrementable(s) : \A m \in Incrementable(s) : m <= n
       IN  Append(SubSeq(s, 1, last - 1), s[last] + 1)

\* A pattern is a prefix and a final '%', the only one in it
IsPattern(p) ==
  /\ p # <<>> /\ p[Len(p)] = Percent
  /\ \A n \in 1..(Len(p) - 1) : p[n] # Percent

PatternPrefix(p) == SubSeq(p, 1, Len(p) - 1)

-----------------------------------------------------------------------------
(* Doubles *)

\* float_to_scaled_int: truncates
FloatToScaledInt(x) == (x * FloatScale) \div DoubleUnit

=============================================================================

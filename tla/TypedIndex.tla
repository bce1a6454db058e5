------------------------------ MODULE TypedIndex ------------------------------
(***************************************************************************)
(* The public interface of RangeLH (Implement/rangeLH.cpp): overloads of   *)
(* insert, lookup and remove for keys of the types uint64_t, double and    *)
(* std::string, which convert their keys and call the same functions, and  *)
(* lookups of string patterns.                                             *)
(*                                                                         *)
(* Composes RangeLH and KeyConversions.  The keys of a caller are numbered *)
(* and the record inserted under the n-th is at address n, so the index    *)
(* tells which of several keys with one uint64_t key it holds a record of. *)
(*                                                                         *)
(* A definition named for what is wrong with it is a mutant of the one     *)
(* after it: it shows that a property can fail, and nothing uses it.       *)
(***************************************************************************)
EXTENDS RangeLH, KeyConversions

CONSTANTS
  Uint64Keys, DoubleKeys, StringKeys,   \* the sequences of the keys callers use
  Patterns                              \* the patterns they look up

KeyTypes == {"uint64", "double", "string"}

KeysOfType ==
  [t \in KeyTypes |->
     CASE t = "uint64" -> Uint64Keys [] t = "double" -> DoubleKeys [] t = "string" -> StringKeys]

ASSUME TIAssumption ==
  /\ \A n \in DOMAIN Uint64Keys : Uint64Keys[n] \in Keys
  /\ \A n \in DOMAIN DoubleKeys :
       DoubleKeys[n] \in Nat /\ FloatToScaledInt(DoubleKeys[n]) \in Keys
  /\ \A n \in DOMAIN StringKeys :
       StringKeys[n] \in Seq(0..MaxByte) /\ StringToIntLex(StringKeys[n]) \in Keys
  /\ Patterns \subseteq Seq(0..MaxByte)
  /\ \A t \in KeyTypes : DOMAIN KeysOfType[t] \subseteq Values

VARIABLE type   \* the type of the caller's keys

typedVars == <<vars, type>>

TypedKeys == KeysOfType[type]

-----------------------------------------------------------------------------
(* The overloads *)

\* The key of the index under which a key of the caller is inserted and found
Code(key) ==
  CASE type = "uint64" -> key
    [] type = "double" -> FloatToScaledInt(key)
    [] type = "string" -> StringToIntLex(key)

TypedLookup(key) == PointLookup(Code(key))

TypedRangeLookup(start, end) == RangeLookup(Code(start), Code(end))

\* pattern_lookup, of strings
PatternLookup(p) ==
  IF ~ IsPattern(p) THEN <<>>
  ELSE TypedRangeLookup(PatternPrefix(p), NextLexicographicString(PatternPrefix(p)))

InsertTyped(n) == Insert(Code(TypedKeys[n]), n) /\ UNCHANGED type

RemoveTyped(n) == Remove(Code(TypedKeys[n])) /\ UNCHANGED type

-----------------------------------------------------------------------------
(* Specification: callers use an index with keys of one type *)

TypedInit == Init /\ type \in KeyTypes

TypedNext ==
  \/ \E n \in DOMAIN TypedKeys : InsertTyped(n)
  \/ \E n \in DOMAIN TypedKeys : RemoveTyped(n)

TypedSpec == TypedInit /\ [][TypedNext]_typedVars

-----------------------------------------------------------------------------
(* Properties *)

\* The order of strings, and of the other types
LexLess(s, t) ==
  \/ Len(s) < Len(t) /\ \A n \in DOMAIN s : s[n] = t[n]
  \/ \E n \in DOMAIN s \cap DOMAIN t :
       s[n] < t[n] /\ \A m \in 1..(n - 1) : s[m] = t[m]

Before(x, y) == IF type = "string" THEN LexLess(x, y) ELSE x < y

Between(x, y, z) == ~ Before(y, x) /\ ~ Before(z, y)

\* Keys the index cannot tell apart: strings that differ only behind the bytes
\* it reads or in zeros at their end, doubles closer than its scale
Alike(x, y) ==
  CASE type = "uint64" -> x = y
    [] type = "double" -> (x - y) * FloatScale < DoubleUnit /\ (y - x) * FloatScale < DoubleUnit
    [] type = "string" -> \A n \in 1..MaxBytes : ByteAt(x, n) = ByteAt(y, n)

\* The records some worker holds, and the records of a result
Stored == {heap[a].data : a \in DOMAIN heap} \ {Null}
RecordsOf(result) == {result[n] : n \in DOMAIN result} \ {Null}

\* A lookup returns a record that was inserted under the key itself or under
\* one the index cannot tell from it.
LookupsTyped ==
  \A n \in DOMAIN TypedKeys :
    LET found == TypedLookup(TypedKeys[n])
    IN  found # Null => Alike(TypedKeys[found], TypedKeys[n])

\* The records of the keys from x to y, in order, up to keys alike to an end
RangeFound(found, x, y) ==
  /\ \A r \in Stored : Between(x, TypedKeys[r], y) => r \in RecordsOf(found)
  /\ \A r \in RecordsOf(found) :
       \/ Between(x, TypedKeys[r], y)
       \/ Alike(TypedKeys[r], x) \/ Alike(TypedKeys[r], y)
  /\ \A i, j \in DOMAIN found :
       i < j /\ found[i] # Null /\ found[j] # Null
         => Before(TypedKeys[found[i]], TypedKeys[found[j]])

\* The prefix tree covers the keys of the index that a range of typed keys has
TypedCovered(x, y) == CoveredBetween(Code(x), Code(y))

\* The conversions keep the order of each type well enough for ranges: a range
\* lookup finds every record between its ends, in key order, and besides them
\* at most records the index cannot tell from one of the ends, as long as the
\* prefix tree covers the keys of the range, whatever keys there are outside.
TypedRanges ==
  \A m, n \in DOMAIN TypedKeys :
    LET x == TypedKeys[m]
        y == TypedKeys[n]
    IN  TypedCovered(x, y) => RangeFound(TypedRangeLookup(x, y), x, y)

\* What a pattern lookup may find, and when it has to find all of it
HasPrefix(s, prefix) == Len(prefix) <= Len(s) /\ SubSeq(s, 1, Len(prefix)) = prefix

Bounded(prefix) ==
  prefix # <<>> /\ (Incrementable(prefix) # {} \/ Len(prefix) >= MaxBytes)

PrefixFound(found, prefix) ==
  /\ \A r \in Stored : Bounded(prefix) /\ HasPrefix(TypedKeys[r], prefix) => r \in found
  /\ \A r \in found :
       \/ HasPrefix(TypedKeys[r], prefix) \/ Alike(TypedKeys[r], prefix)
       \/ Alike(TypedKeys[r], NextLexicographicString(prefix))

\* A pattern lookup finds every string with the prefix, if the prefix is not
\* empty and has a byte to increment (or is as long as the bytes the index
\* reads).  The upper bound is inclusive: the strings the index cannot tell
\* from it are found as well, as are those it cannot tell from the prefix.  The
\* prefix tree has to cover the keys between the bounds.
PatternsFindPrefixes == type = "string" =>
  \A p \in Patterns :
    LET prefix == PatternPrefix(p)
    IN  IF ~ IsPattern(p) THEN PatternLookup(p) = <<>>
        ELSE TypedCovered(prefix, NextLexicographicString(prefix)) =>
               PrefixFound(RecordsOf(PatternLookup(p)), prefix)

=============================================================================

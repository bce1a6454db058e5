------------------------------- MODULE Storage -------------------------------
(***************************************************************************)
(* Class Storage (Implement/storage.h, storage.cpp): a pool that owns the  *)
(* records and a RangeLH that finds them, with aggregates over the keys of *)
(* a range or of all records.  The variables of RangeLH are the index.     *)
(*                                                                         *)
(* data_pool is a deque, whose records never move: pool[i] is the key of   *)
(* the record at address i.  Nothing is ever taken out of it.  The text of *)
(* a record is not modelled; its address tells it from every other.        *)
(* Aggregates are doubles: keys and sums are rounded where the code does   *)
(* (module Doubles), and a sum depends on the order in which it is taken.  *)
(***************************************************************************)
EXTENDS RangeLH, Doubles, FiniteSetsExt

CONSTANT
  MaxRecords    \* bound: callers insert at most this many records

ASSUME StorageAssumption ==
  /\ MaxRecords \in Nat
  /\ Values = 1..MaxRecords

VARIABLE pool   \* data_pool

storageVars == <<vars, pool>>

-----------------------------------------------------------------------------
(* Aggregates.  results is what a range lookup found: addresses of records *)
(* in the pool, and Null for each worker of the range whose record was     *)
(* removed.  Only the count is defined when there is one: the others       *)
(* dereference it.                                                         *)

Results(start, end) == RangeLookup(start, end)

Dereferenced(results) == \A n \in DOMAIN results : results[n] # Null

KeysOf(results) == {pool[results[n]] : n \in DOMAIN results}

SumRange(results) ==
  RoundedSum([n \in DOMAIN results |-> pool[results[n]]], Len(results))

\* As a fraction
AvgRange(results) ==
  IF results = <<>> THEN <<0, 1>> ELSE Quotient(SumRange(results), Len(results))

\* When something is found; otherwise infinity or -infinity.  Keys are compared
\* as doubles.
MinRange(results) == Min({ToDouble(k) : k \in KeysOf(results)})
MaxRange(results) == Max({ToDouble(k) : k \in KeysOf(results)})

CountRange(results) == Len(results)

\* min() and max() are infinite when there is no record to look at
HasMin == GetHead # Null
HasMax == GetTail # Null
MinKey == ToDouble(pool[GetHead])
MaxKey == ToDouble(pool[GetTail])

\* get_sum_keys of RangeLH
SumKeys ==
  LET walk == WalkFrom(head)
      holding == {n \in DOMAIN walk : HasData(walk[n])}
  IN  RoundedSum([n \in holding |-> pool[heap[walk[n]].data]], Len(walk))

Count == numActive

\* As a fraction; a count that drifted to 0 gives 0 whatever the sum
Avg == IF Count = 0 THEN <<0, 1>> ELSE Quotient(SumKeys, Count)

-----------------------------------------------------------------------------
(* Looking a record up: its address, Null for nullopt *)

Get(key) == PointLookup(key)

-----------------------------------------------------------------------------
(* Specification *)

StorageInit == pool = <<>> /\ Init

InsertRecord(key) ==
  /\ Len(pool) < MaxRecords
  /\ pool' = Append(pool, key)
  /\ Insert(key, Len(pool) + 1)

RemoveRecord(key) == Remove(key) /\ UNCHANGED pool

StorageNext == \E key \in Keys : InsertRecord(key) \/ RemoveRecord(key)

StorageSpec == StorageInit /\ [][StorageNext]_storageVars

-----------------------------------------------------------------------------
(* Properties *)

Live == {k \in Keys : Get(k) # Null}
LiveIn(start, end) == {k \in Live : start <= k /\ k <= end}
Deleted == Present \ Live

\* get(key) returns the newest record of the key, never one that an update
\* replaced and never the record of another key, although every record ever
\* inserted stays in the pool.
GetsNewest ==
  \A k \in Live :
    LET i == Get(k)
    IN  pool[i] = k /\ \A j \in (i + 1)..Len(pool) : pool[j] # k

\* The orders of a set of numbers, and the one that ascends
Orders(S) ==
  {list \in [1..Cardinality(S) -> S] : \A x \in S : \E n \in DOMAIN list : list[n] = x}

Ascending(S) == CHOOSE list \in Orders(S) : \A m, n \in DOMAIN list : m < n => list[m] < list[n]

\* sum() adds the key of each live record once, in some order, whatever was
\* updated or removed and wherever in the chain its worker is.  While the sum of
\* the live keys is at most 2^Precision no order rounds it, and so avg() is their
\* mean, rounded once, whenever count() is their number.
SumIsLive ==
  /\ \E list \in Orders(Live) : SumKeys = RoundedSum(list, Cardinality(Live))
  /\ SumSet(Live) <= Pow2[Precision] =>
       /\ SumKeys = SumSet(Live)
       /\ Count = Cardinality(Live) =>
            Avg = IF Live = {} THEN <<0, 1>> ELSE Quotient(SumSet(Live), Cardinality(Live))

\* The sum of a set of numbers, as doubles and from the least one
AscendingSum(S) == RoundedSum(Ascending(S), Cardinality(S))

\* The aggregates over a range are those of the live records in it, as long as
\* no record of the range was removed and the prefix tree covers its keys.  The
\* sum is rounded as when the keys are added in their order, whatever the order
\* of the inserts, and is exact up to 2^Precision.
RangesExact ==
  \A start, end \in Keys :
    LET results == Results(start, end)
        live == LiveIn(start, end)
    IN  CoveredBetween(start, end) /\ (\A k \in Deleted : k < start \/ end < k) =>
          /\ Dereferenced(results)
          /\ CountRange(results) = Cardinality(live)
          /\ SumRange(results) = AscendingSum(live)
          /\ SumSet(live) <= Pow2[Precision] => SumRange(results) = SumSet(live)
          /\ live # {} =>
               /\ MinRange(results) = ToDouble(Min(live))
               /\ MaxRange(results) = ToDouble(Max(live))
               /\ AvgRange(results) = Quotient(AscendingSum(live), Cardinality(live))

\* min(), when finite, is the least live key as a double while the prefix tree
\* covers some key, and max() the greatest while it covers all: head and tail stay
\* at the ends of the chain through inserts in any order, updates and removals.
ExtremesExact ==
  /\ HasMin /\ (\E k \in Present : k < Coverage) => MinKey = ToDouble(Min(Live))
  /\ HasMax /\ KeysAreCovered => MaxKey = ToDouble(Max(Live))

\* An insert changes count() by the change in the number of live records,
\* whether it adds a key, updates one or brings a removed one back.
CountFollowsInserts ==
  [][pool' # pool => numActive' - numActive = Cardinality(Live') - Cardinality(Live)]_storageVars

\* "Aggregate over the entire range ... int count()" (storage.h:42-47), of records
\* of which remove says "delete a record" (storage.h:29): none is counted that was
\* removed.
CountsOnlyLive == Count <= Cardinality(Live)

\* The same, when remove finds nothing to delete: every live record is counted.
CountsAllLive == Count >= Cardinality(Live)

\* "Aggregate over the entire range; double min()" (storage.h:42-43), which is
\* infinite only when there is nothing to aggregate.
MinIsLeast == Live # {} => HasMin /\ MinKey = ToDouble(Min(Live))

\* "aggregation with range ... int countRange(start, end)" (storage.h:35-40),
\* of records of which remove says "delete a record" (storage.h:29).
CountRangeIsLive ==
  \A start, end \in Keys : CountRange(Results(start, end)) = Cardinality(LiveIn(start, end))

=============================================================================

------------------------------- MODULE RangeLH -------------------------------
(***************************************************************************)
(* Class RangeLH (Implement/rangeLH.h, rangeLH.cpp): a hash table of       *)
(* workers whose workers are also linked into a chain, in key order, so    *)
(* that a range is read by walking the chain from its first worker.  The   *)
(* place of a new worker in the chain is found with the range filter.      *)
(*                                                                         *)
(* Composes LinearHashing (master_LH) and PrefixFilter (bloom_RF).  The    *)
(* workers are objects of a heap that is never freed: heap[a] is the       *)
(* worker at address a, and 0 is nullptr.  Keys are the uint64_t keys the  *)
(* typed overloads convert theirs to.                                      *)
(*                                                                         *)
(* A definition named for what is wrong with it is a mutant of the one     *)
(* after it: it shows that a property can fail, and nothing uses it.       *)
(***************************************************************************)
EXTENDS PrefixFilter

CONSTANTS
  InitialSize, LoadNum, LoadDen,    \* master_init_num_bucket, master_split_policy
  Values,       \* addresses of Data objects
  MaxWorkers,   \* bound: callers insert at most this many different keys
  MaxMissed,    \* bounds: callers keep num_active_worker between -MaxMissed
  MaxActive     \* and MaxActive

Null == 0       \* nullptr, to a worker or to data

ASSUME RLHAssumption ==
  /\ InitialSize \in Nat \ {0} /\ LoadNum \in Nat /\ LoadDen \in Nat \ {0}
  /\ Values \subseteq Nat \ {Null}
  /\ MaxWorkers \in Nat /\ MaxMissed \in Nat /\ MaxActive \in Nat
  /\ MaxLevel >= 1 /\ ShiftsDefined

VARIABLES
  lh,           \* master_LH
  bits,         \* bloom_RF
  heap,         \* the Worker objects, in the order they are allocated
  head, tail,   \* worker_head, worker_tail
  numActive     \* num_active_worker

vars == <<lh, bits, heap, head, tail, numActive>>

Addresses == 1..MaxWorkers

LH == INSTANCE LinearHashing WITH
        Ids <- Keys, Workers <- Addresses, NoWorker <- Null, MaxBatch <- 0

Worker(id, data, next) == [id |-> id, data |-> data, next |-> next]

-----------------------------------------------------------------------------
(* Reading the index *)

Find(key) == LH!Lookup(lh, key)
Present == {k \in Keys : Find(k) # Null}

HasData(a) == heap[a].data # Null

WorkerOf(x) == IF x = NoKey THEN Null ELSE Find(x)
LeftWorker(key) == WorkerOf(LeftAdjacent(Present, bits, key))
RightWorker(key) == WorkerOf(RightAdjacent(Present, bits, key))

\* point_lookup_impl: Null for nullopt
PointLookup(key) ==
  LET a == Find(key) IN IF a # Null /\ HasData(a) THEN heap[a].data ELSE Null

GetHead == IF head # Null /\ HasData(head) THEN heap[head].data ELSE Null
GetTail == IF tail # Null /\ HasData(tail) THEN heap[tail].data ELSE Null

\* The addresses a walk along the next pointers visits from a, with Null at
\* its end; a walk that visits more workers than there are never ends
WalkFrom(a) ==
  LET at[n \in 1..(Len(heap) + 1)] ==
        IF n = 1 THEN a ELSE IF at[n - 1] = Null THEN Null ELSE heap[at[n - 1]].next
      end == CHOOSE n \in DOMAIN at : at[n] = Null /\ \A m \in 1..(n - 1) : at[m] # Null
  IN  [n \in 1..(end - 1) |-> at[n]]

\* range_lookup_impl: the data of the workers of the range, <<>> for nullopt.
\* A worker whose data was deleted contributes a null pointer.
RangeStartOnTheLeft(start) == IF Find(start) # Null THEN Find(start) ELSE LeftWorker(start)

RangeStart(start) == IF Find(start) # Null THEN Find(start) ELSE RightWorker(start)

\* The part of a walk before the first key behind the end
UpTo(walk, end) ==
  LET stop == CHOOSE n \in 0..Len(walk) :
                /\ \A m \in 1..n : heap[walk[m]].id <= end
                /\ n < Len(walk) => heap[walk[n + 1]].id > end
  IN  SubSeq(walk, 1, stop)

RangeWalk(start, end) == UpTo(WalkFrom(RangeStart(start)), end)

DataOf(walk) == [n \in DOMAIN walk |-> heap[walk[n]].data]

RangeLookup(start, end) == DataOf(RangeWalk(start, end))

-----------------------------------------------------------------------------
(* insert_impl *)

CountsAsActive(d) == numActive' = numActive + d /\ numActive' \in -MaxMissed..MaxActive

UpdateIfDeleted(key, value) ==
  LET a == Find(key)
  IN  /\ a # Null
      /\ CountsAsActive(IF HasData(a) THEN 0 ELSE 1)
      /\ heap' = IF HasData(a) THEN heap ELSE [heap EXCEPT ![a].data = value]
      /\ UNCHANGED <<lh, bits, head, tail>>

UpdateUncounted(key, value) ==
  LET a == Find(key)
  IN  /\ a # Null
      /\ heap' = [heap EXCEPT ![a].data = value]
      /\ UNCHANGED <<lh, bits, head, tail, numActive>>

\* The key has a worker already, with or without data
Update(key, value) ==
  LET a == Find(key)
  IN  /\ a # Null
      /\ CountsAsActive(IF HasData(a) THEN 0 ELSE 1)
      /\ heap' = [heap EXCEPT ![a].data = value]
      /\ UNCHANGED <<lh, bits, head, tail>>

RegisterUnfiltered(key, a) ==
  /\ lh' = LH!Inserted(lh, key, a)
  /\ UNCHANGED bits
  /\ CountsAsActive(1)

\* master_LH->insert and bloom_RF->insert, after the worker is linked
Register(key, a) ==
  /\ lh' = LH!Inserted(lh, key, a)
  /\ bits' = Added(bits, key)
  /\ CountsAsActive(1)

LinkAfterWithoutRest(key, value) ==
  LET new == Len(heap) + 1
      prev == LeftWorker(key)
  IN  /\ Find(key) = Null /\ prev # Null /\ new <= MaxWorkers
      /\ heap' = Append([heap EXCEPT ![prev].next = new], Worker(key, value, Null))
      /\ tail' = new
      /\ UNCHANGED head
      /\ Register(key, new)

LinkAfterBeforeTail(key, value) ==
  LET new == Len(heap) + 1
      prev == LeftWorker(key)
  IN  /\ Find(key) = Null /\ prev # Null /\ new <= MaxWorkers
      /\ heap' = Append([heap EXCEPT ![prev].next = new], Worker(key, value, heap[prev].next))
      /\ UNCHANGED <<head, tail>>
      /\ Register(key, new)

\* A worker with a smaller key was found: link behind it
LinkAfter(key, value) ==
  LET new == Len(heap) + 1
      prev == LeftWorker(key)
      next == heap[prev].next
  IN  /\ Find(key) = Null /\ prev # Null /\ new <= MaxWorkers
      /\ heap' = Append([heap EXCEPT ![prev].next = new], Worker(key, value, next))
      /\ tail' = IF next = Null THEN new ELSE tail
      /\ UNCHANGED head
      /\ Register(key, new)

\* None was found: link in front of the chain
LinkFirst(key, value) ==
  LET new == Len(heap) + 1
  IN  /\ Find(key) = Null /\ LeftWorker(key) = Null /\ new <= MaxWorkers
      /\ heap' = Append(heap, Worker(key, value, head))
      /\ head' = new
      /\ tail' = IF tail = Null THEN new ELSE tail
      /\ Register(key, new)

Insert(key, value) ==
  Update(key, value) \/ LinkAfter(key, value) \/ LinkFirst(key, value)

-----------------------------------------------------------------------------
(* remove_impl: the worker stays in the table and in the chain without     *)
(* data; only a key that has no worker changes the count.                  *)

Remove(key) ==
  LET a == Find(key)
  IN  IF a # Null
      THEN /\ heap' = [heap EXCEPT ![a].data = Null]
           /\ UNCHANGED <<lh, bits, head, tail, numActive>>
      ELSE /\ CountsAsActive(-1)
           /\ UNCHANGED <<lh, bits, heap, head, tail>>

-----------------------------------------------------------------------------
(* Specification *)

Init ==
  /\ lh = LH!NewTable /\ bits = {}
  /\ heap = <<>> /\ head = Null /\ tail = Null
  /\ numActive = 0

Next ==
  \/ \E key \in Keys, value \in Values : Insert(key, value)
  \/ \E key \in Keys : Remove(key)

Spec == Init /\ [][Next]_vars

-----------------------------------------------------------------------------
(* Properties *)

\* Type invariant.
TypeOK ==
  /\ lh \in LH!Table /\ bits \subseteq Nat
  /\ heap \in Seq([id : Keys, data : Values \cup {Null}, next : 0..Len(heap)])
  /\ Len(heap) <= MaxWorkers
  /\ head \in 0..Len(heap) /\ tail \in 0..Len(heap)
  /\ numActive \in Int

\* The table finds each worker under its own key: no key has two workers, and
\* no worker is lost to a split of the table.
OneWorkerPerKey == \A a \in DOMAIN heap : Find(heap[a].id) = a

\* A node of the prefix tree above a key of the index has its bit set, so the
\* searches for neighbours never skip a worker.
FilterKnowsKeys ==
  \A k \in Present : \A i \in Levels : CheckAtLevel(bits, AlignDown(k, i * Delta), i)

\* The prefix tree covers the keys of the index, or those from start to end
KeysAreCovered == \A k \in Present : k < Coverage
CoveredBetween(start, end) ==
  \A k \in Present : start <= k /\ k <= end => k < Coverage

\* Inserts in any order, updates and removals never break the order of the
\* workers whose keys the tree covers, whatever other keys there are: such a
\* worker is linked behind that of the next smaller key, and is the head or the
\* tail exactly if it has the least or the greatest key.
Follows(a, b) ==
  /\ heap[a].id < heap[b].id
  /\ ~ \E c \in DOMAIN heap : heap[a].id < heap[c].id /\ heap[c].id < heap[b].id

ChainSorted ==
  \A b \in DOMAIN heap : heap[b].id < Coverage =>
    /\ \A a \in DOMAIN heap : heap[a].next = b <=> Follows(a, b)
    /\ head = b <=> \A a \in DOMAIN heap : heap[b].id <= heap[a].id
    /\ tail = b <=> \A a \in DOMAIN heap : heap[a].id <= heap[b].id

\* Whatever keys are inserted, the walk from the head visits each worker once
\* and ends at the tail: sums over the chain miss and repeat nothing, also
\* where the chain is out of order.
ChainComplete ==
  LET walk == WalkFrom(head)
  IN  /\ \A a \in DOMAIN heap : \E n \in DOMAIN walk : walk[n] = a
      /\ Len(walk) = Len(heap)
      /\ tail = IF walk = <<>> THEN Null ELSE walk[Len(walk)]

\* "range_lookup("apple", "banana") ... size(), 2" (rangeLH_test.cpp:160-162): a
\* range lookup returns the workers of the keys in the range, all of them, in
\* key order, whether or not the end points are keys of the index.  (What holds of
\* this for ranges whose keys the prefix tree covers is TypedRanges of module
\* TypedIndex.)
InRange(start, end) == {a \in DOMAIN heap : start <= heap[a].id /\ heap[a].id <= end}

RangeComplete ==
  \A start, end \in Keys :
    LET found == RangeWalk(start, end)
    IN  /\ {found[n] : n \in DOMAIN found} = InRange(start, end)
        /\ \A m, n \in DOMAIN found : m < n => heap[found[m]].id < heap[found[n]].id

\* The index implements an ordered map from keys to data, read as callers read
\* it: an insert or a removal changes what a lookup of its own key returns and
\* nothing else, whatever it splits and links.
OM == INSTANCE OrderedMap WITH
        NoValue <- Null, map <- [k \in Keys |-> PointLookup(k)]
ImplementsOrderedMap == OM!Spec

=============================================================================

---------------------------- MODULE LinearHashing ----------------------------
(***************************************************************************)
(* Class LinearHashing (Implement/linearHashing.h, linearHashing.cpp): a   *)
(* hash table of overflow chains that grows by one bucket at a time.       *)
(*                                                                         *)
(* A table is a record of the class's members.  buckets[b + 1] is the      *)
(* overflow chain of bucket b, head first; level and next are the split    *)
(* state.  The operators take the table as a parameter, so that RangeLH    *)
(* can apply them to its member master_LH.                                 *)
(*                                                                         *)
(* Abstractions: the 32-bit width of bucket indices is not modelled (it    *)
(* matters from 2^31 buckets on); a load factor is a fraction of naturals; *)
(* the entry object and the worker it owns are one record, and "new" takes *)
(* a worker no entry owns.                                                 *)
(*                                                                         *)
(* A definition named for what is wrong with it is a mutant of the one     *)
(* after it: it shows that a property can fail, and nothing uses it.       *)
(***************************************************************************)
EXTENDS Shifts, Sequences, FiniteSets

CONSTANTS
  Ids,          \* the uint64_t ids that callers use
  Workers,      \* Worker objects
  NoWorker,     \* nullptr
  InitialSize,  \* constructor argument initialSize
  LoadNum,      \* constructor argument maxLoad is LoadNum / LoadDen
  LoadDen,
  MaxBatch      \* bound: the longest vector given to batchInsert

ASSUME LHAssumption ==
  /\ Ids \subseteq Nat
  /\ NoWorker \notin Workers
  /\ InitialSize \in Nat \ {0}
  /\ LoadNum \in Nat
  /\ LoadDen \in Nat \ {0}
  /\ MaxBatch \in Nat

VARIABLE lh

Entry == [id : Ids, worker : Workers]
Table == [buckets : Seq(Seq(Entry)), level : Nat, next : Nat, numRecords : Int]

-----------------------------------------------------------------------------
(* Geometry *)

\* The least n with InitialSize <= 2^n (the bit smearing of the constructor)
InitialExponent ==
  CHOOSE n \in 0..InitialSize :
    /\ InitialSize <= Pow2[n]
    /\ \A m \in 0..InitialSize : InitialSize <= Pow2[m] => n <= m

InitialBuckets == Pow2[InitialExponent]

NewTable == [buckets |-> [b \in 1..InitialBuckets |-> <<>>],
             level |-> 0, next |-> 0, numRecords |-> 0]

\* id & (size - 1) is id % size because size is a power of two
Hash(id, i) == id % Shl(InitialBuckets, i)

BucketIndex(t, id) ==
  LET h0 == Hash(id, t.level)
  IN  IF h0 < t.next THEN Hash(id, t.level + 1) ELSE h0

BucketCount(t) == Len(t.buckets)

Chain(t, id) == t.buckets[BucketIndex(t, id) + 1]

-----------------------------------------------------------------------------
(* Chains *)

Holds(chain, e) == \E i \in DOMAIN chain : chain[i] = e

Matches(chain, id) == {i \in DOMAIN chain : chain[i].id = id}

\* The position at which a walk from the head stops
FirstMatch(chain, id) ==
  CHOOSE i \in Matches(chain, id) : \A j \in Matches(chain, id) : i <= j

UnlinkedWithItsTail(chain, i) == SubSeq(chain, 1, i - 1)

Unlinked(chain, i) == SubSeq(chain, 1, i - 1) \o SubSeq(chain, i + 1, Len(chain))

RelinkedTwice(chain, S) ==
  LET pushed[i \in 0..Len(chain)] ==
        IF i = 0 THEN <<>>
        ELSE IF chain[i] \in S THEN <<chain[i], chain[i]>> \o pushed[i - 1]
        ELSE pushed[i - 1]
  IN  pushed[Len(chain)]

\* Walk the chain from its head and push the entries of S, one by one, at
\* the head of a new chain: their order is reversed.
Relinked(chain, S) ==
  LET pushed[i \in 0..Len(chain)] ==
        IF i = 0 THEN <<>>
        ELSE IF chain[i] \in S THEN <<chain[i]>> \o pushed[i - 1]
        ELSE pushed[i - 1]
  IN  pushed[Len(chain)]

-----------------------------------------------------------------------------
(* split(), in the steps it is made of *)

MoversByCurrentLevel(t, chain) ==
  {e \in Entry : Holds(chain, e) /\ Hash(e.id, t.level) = BucketCount(t)}

\* Entries of the chain whose next-level hash is the bucket being added
Movers(t, chain) ==
  {e \in Entry : Holds(chain, e) /\ Hash(e.id, t.level + 1) = BucketCount(t)}

Rehashed(t) ==
  LET chain == t.buckets[t.next + 1]
      moved == Movers(t, chain)
  IN  [t EXCEPT !.buckets =
         Append([@ EXCEPT ![t.next + 1] = Relinked(chain, Entry \ moved)],
                Relinked(chain, moved))]

RoundIsOverOneLate(t) == t.next = Shl(InitialBuckets, t.level)

RoundIsOver(t) == t.next + 1 = Shl(InitialBuckets, t.level)

Advanced(t) ==
  IF RoundIsOver(t) THEN [t EXCEPT !.level = @ + 1, !.next = 0]
                    ELSE [t EXCEPT !.next = @ + 1]

Split(t) == Advanced(Rehashed(t))

OverloadedAtRoundEnd(t) == t.numRecords * LoadDen > LoadNum * Shl(InitialBuckets, t.level + 1)

\* numRecords / buckets.size() > maxLoadFactor
Overloaded(t) == t.numRecords * LoadDen > LoadNum * BucketCount(t)

CheckAndSplit(t) == IF Overloaded(t) THEN Split(t) ELSE t

-----------------------------------------------------------------------------
(* The operations on a table *)

LinkedWithoutWorker(t, id, w) ==
  [t EXCEPT !.buckets[BucketIndex(t, id) + 1] = <<[id |-> id, worker |-> NoWorker]>> \o @,
            !.numRecords = @ + 1]

Linked(t, id, w) ==
  [t EXCEPT !.buckets[BucketIndex(t, id) + 1] = <<[id |-> id, worker |-> w]>> \o @,
            !.numRecords = @ + 1]

Inserted(t, id, w) == CheckAndSplit(Linked(t, id, w))

BatchInserted(t, entries) ==
  LET done[i \in 0..Len(entries)] ==
        IF i = 0 THEN t ELSE Inserted(done[i - 1], entries[i].id, entries[i].worker)
  IN  done[Len(entries)]

LookupAtHead(t, id) ==
  LET chain == Chain(t, id)
  IN  IF chain # <<>> /\ chain[1].id = id THEN chain[1].worker ELSE NoWorker

Lookup(t, id) ==
  LET chain == Chain(t, id)
  IN  IF Matches(chain, id) = {} THEN NoWorker
      ELSE chain[FirstMatch(chain, id)].worker

\* Only the first match goes; an id stored twice stays stored once
Removed(t, id) ==
  LET chain == Chain(t, id)
  IN  IF Matches(chain, id) = {} THEN t
      ELSE [t EXCEPT !.buckets[BucketIndex(t, id) + 1] = Unlinked(chain, FirstMatch(chain, id)),
                     !.numRecords = @ - 1]

-----------------------------------------------------------------------------
(* Specification *)

Slots(t) == UNION {{b} \X DOMAIN t.buckets[b] : b \in DOMAIN t.buckets}
EntryAt(t, s) == t.buckets[s[1]][s[2]]
StoredUnder(t, id) == {EntryAt(t, s).worker : s \in {r \in Slots(t) : EntryAt(t, r).id = id}}
Owned(t) == {EntryAt(t, s).worker : s \in Slots(t)}

Init == lh = NewTable

Insert(id, w) ==
  /\ w \notin Owned(lh)
  /\ lh' = Inserted(lh, id, w)

BatchInsert(entries) ==
  /\ \A i \in DOMAIN entries : entries[i].worker \notin Owned(lh)
  /\ \A i, j \in DOMAIN entries : i # j => entries[i].worker # entries[j].worker
  /\ lh' = BatchInserted(lh, entries)

Remove(id) == lh' = Removed(lh, id)

Batches == UNION {[1..n -> Entry] : n \in 0..MaxBatch}

Next ==
  \/ \E id \in Ids, w \in Workers : Insert(id, w)
  \/ \E entries \in Batches : BatchInsert(entries)
  \/ \E id \in Ids : Remove(id)

Spec == Init /\ [][Next]_lh

-----------------------------------------------------------------------------
(* Properties *)

\* Type invariant.  (That the unsigned numRecords is never decremented below
\* zero is part of RecordsCounted.)
TypeOK == lh \in Table

\* The split pointer stays inside the current round, and the number of buckets
\* is the one both hash functions address: every bucket index computed by
\* getBucketIndex is an index of the vector, at every level and after any
\* number of splits.
HasGeometry(t) ==
  /\ t.next < Shl(InitialBuckets, t.level)
  /\ BucketCount(t) = Shl(InitialBuckets, t.level) + t.next
Geometry == HasGeometry(lh)

\* Every entry is in the bucket in which getBucketIndex looks for its id.  A
\* split moves one chain and changes the address of half of its ids; an entry
\* left behind would be unreachable for ever.
WellPlaced(t) ==
  \A b \in DOMAIN t.buckets : \A i \in DOMAIN t.buckets[b] :
    b = BucketIndex(t, t.buckets[b][i].id) + 1
Placement == WellPlaced(lh)

\* numRecords, which insert and remove update by hand and the load factor is
\* computed from, is the number of entries in the chains, and of the workers they
\* own: no entry is lost or linked twice, and none owns the worker of another (an
\* entry deletes its worker), whatever order splits and removals relink them in.
RecordsCounted ==
  /\ lh.numRecords = Cardinality(Slots(lh))
  /\ lh.numRecords = Cardinality({EntryAt(lh, s).worker : s \in Slots(lh)})

\* lookup() finds a worker of the id if and only if some bucket holds one.
LookupFindsStored ==
  \A id \in Ids :
    IF StoredUnder(lh, id) = {} THEN Lookup(lh, id) = NoWorker
                                ELSE Lookup(lh, id) \in StoredUnder(lh, id)

\* One split per insert bounds the load factor by max(maxLoad, 1), and by
\* nothing smaller: with maxLoad < 1 the splits may not keep up with inserts.
LoadBounded ==
  lh.numRecords * LoadDen
    <= (IF LoadNum > LoadDen THEN LoadNum ELSE LoadDen) * BucketCount(lh)

\* The table implements the abstract one, whose table[id] is the set of
\* workers stored under id: splits are invisible, a batch is the inserts of
\* its entries, and remove takes out exactly one worker of its id.
WT == INSTANCE WorkerTable WITH table <- [id \in Ids |-> StoredUnder(lh, id)]
ImplementsWorkerTable == WT!Spec

=============================================================================

# Verification of the RangeLH index

This directory holds TLA+ specifications of the indexing structures of this
repository, model-checking configurations for TLC, and proofs checked by TLAPS.
All file names below are relative to `src/`.

## 1. The system

The program is a single-threaded in-memory library of two indexes, RangeLH (the
repository's own design) and a B+ tree it is compared with. Nothing runs
concurrently, nothing is persisted, and no operation blocks. What is hard here is
the state that one operation leaves for another one much later: hash addresses
that change while entries stay where they are, a filter that must never forget, a
linked chain sorted by searches that rely on that filter, records that are
deleted but stay linked, and a tree repaired in many different ways.

| Component | State | Operations |
|---|---|---|
| Linear hashing (`Implement/linearHashing.*`) | bucket vector of overflow chains, `level`, `next`, `numRecords` | `insert`, `batchInsert`, `lookup`, `remove`; `split` inside insert |
| Range filter (`Implement/bloomRF.*`) | a bit vector; configuration derived by the constructor | `insert`, `check_at_level`, `check_all_key` |
| Neighbour search (in `Implement/rangeLH.cpp`) | an explicit stack of prefix-tree nodes | `get_left_adjacent_worker`, `get_right_adjacent_worker` |
| RangeLH (`Implement/rangeLH.*`, `worker.h`) | a hash table of workers, a filter, the chain (`next` of each worker, `worker_head`, `worker_tail`), `num_active_worker` | `insert`, `remove`, `point_lookup`, `range_lookup`, `get_head`, `get_tail`, `get_sum_keys` |
| Storage (`Implement/storage.*`, `data.h`) | a deque of records and a RangeLH | `insert`, `remove`, `get`, aggregates over a range and over everything |
| B+ tree (`BPlusTree/bPlusTree.*`) | nodes with parent, child and leaf-list pointers; `count` | `insert`, `remove`, `search`, `rangeSearch`, traversals |
| Key conversions (in `Implement/rangeLH.cpp`) | none | `string_to_int_lex`, `float_to_scaled_int`, `next_lexicographic_string`; `insert`, `remove`, lookups and `pattern_lookup` for typed keys |
| Benchmark, unit tests, build files | none | use the above |

How they interact: Storage appends a record to its pool and passes the record's
address to RangeLH. RangeLH asks its hash table for the worker of a key. For a new
key it searches the prefix tree for the nearest smaller key: inner nodes are asked
of the filter, leaves of the hash table. It links the worker behind the one found,
and then registers the key with the table and the filter. A range lookup finds the
worker of its start, or the next greater one by the same search, and follows the
chain. A removal deletes the data of a worker and leaves the worker in table,
filter and chain.

What makes each component correct, and what is hard to test about it:

* **Linear hashing.** After any number of splits the split pointer, the level and
  the number of buckets agree; each entry is in the bucket in which lookups search
  for it; entries are counted once and owned once. A mistake in `split` shows only
  later, for some ids, in another round.
* **Range filter.** No false negatives at any level, for the first key of a
  subtree as well as for the key itself, and no bit outside the vector. Word and
  offset are overlapping views of the prefix, so both are easy to get wrong.
* **Neighbour search.** It returns the nearest key although the filter has false
  positives, children are pushed in an order that depends on the side, and the
  child holding the target is pushed twice.
* **RangeLH.** The chain stays in key order for every order of inserts; table and
  chain agree; ranges are complete.
* **Key conversions.** They keep the order of doubles and strings well enough for
  ranges, and mix up only keys they cannot tell apart: what they cut off is lost
  without any sign, and the bound of a pattern lookup is computed on strings but
  compared as numbers.
* **Storage.** A read returns the newest record; aggregates are those of the
  live records, as far as doubles can hold them: keys have 64 bits and doubles 53.
* **B+ tree.** Balanced, nodes owned once, leaf list and parent pointers right,
  every key found, although separators outlive the keys they were copied from.

## 2. Modules

| Module | Models | Uses |
|---|---|---|
| `Shifts` | shifts and masks on unbounded naturals | |
| `LinearHashing` | class `LinearHashing`, as operators on a table record and a machine | `Shifts` |
| `WorkerTable` | abstract specification: a set of workers per id | |
| `PrefixFilter` | class `BloomRF` and what a search through it finds, as operators | `Shifts` |
| `BloomRF` | the filter as a machine with its insert history, over its configurations | `PrefixFilter` |
| `AdjacentSearch` | the two search loops, one iteration per step | `PrefixFilter` |
| `RangeLH` | class `RangeLH` and `Worker` | `PrefixFilter`, `LinearHashing` |
| `KeyConversions` | the conversions of typed keys and the bound of a pattern, as functions | `Shifts` |
| `TypedIndex` | the overloads of class `RangeLH` for keys of each type, and `pattern_lookup` | `RangeLH`, `KeyConversions` |
| `OrderedMap` | abstract specification: a map with put and delete | |
| `Doubles` | rounding to doubles, and sums and quotients of doubles | `Shifts` |
| `Storage` | class `Storage` | `RangeLH`, `Doubles` |
| `BPlusTree` | class `BPlusTree` | |
| `MC*` | sets of keys, symmetry and view for TLC | one each |
| `ShiftTheorems` | lemmas about shifts, levels and hashed bits | `Shifts` |
| `LinearHashingProofs`, `BloomRFProofs`, `AdjacentSearchProofs`, `RangeLHProofs` | theorems about the module they are named for, with proofs | that module |
| `IndexUsersProofs` | theorems about `TypedIndex` and `Storage` | both, `RangeLHProofs` |
| `BPlusTreeShape` | the invariant of a B+ tree as a predicate of heaps, and lemmas about what keeps it | `BPlusTree` |
| `BPlusTreeProofs` | theorems about `BPlusTree` | `BPlusTreeShape` |

Some definitions carry a name that says what is wrong with them
(`RelinkedTwice`, `MoversByCurrentLevel`, ...). Each is a plausible bug in the
definition after it. Nothing uses them; put in the place of the right definition,
each makes a property fail, which shows that the property can.

**LinearHashing.** A table is a record with the class's members; `buckets[b + 1]`
is the chain of bucket `b`, head first. `Relinked` is the loop of `split` that
pushes each entry at the head of the chain it goes to (so chains are reversed),
`Movers` its condition, `Rehashed` and `Advanced` the two halves of `split`,
`CheckAndSplit` the test at the end of `insert`. The load factor is the fraction
`LoadNum / LoadDen`; `checkAndSplit` splits at most once per insert. The entry and
the worker it owns are one record. The operators take the table as a parameter, so
that `RangeLH` applies them to its member `master_LH`.

**PrefixFilter, BloomRF.** Bits are the set of positions set. Levels, word size,
filter size and the linear hash constants are computed as the constructor does;
the raw size, which it computes with logarithms from the target rate, is a
constant. `LeftAdjacent` and `RightAdjacent` say what the searches return: the
nearest key all of whose ancestors test positive. `AdjacentSearch` is the loop of
the code, with the stack and the two ways of generating children; its property
`ReturnsAdjacent` is that the loop computes these operators. So `RangeLH` uses the
operators and the loop is checked once, separately.

`BloomRF` makes the constructor's arguments variables that `Init` chooses, and
instantiates `PrefixFilter` for them, so that one run and one theorem are about all
configurations. An insert is possible only where the shifts of `hashing` are
defined (`ShiftsDefined`); which configurations those are is a property
(`ShiftsFitKeys`), not an assumption. `PrefixFilter` has the same parameters as constants for
`RangeLH` and `AdjacentSearch`.

**RangeLH.** `heap[a]` is the worker at address `a`. An insert is one of three
actions: `Update` (the key has a worker, with data or without), `LinkAfter` and
`LinkFirst`; the last two include the registration with table and filter.
`Remove` has both branches of the code, with the decrement of `num_active_worker`
in the branch where the code has it. The refinement mapping to `OrderedMap` reads
the map the way callers do, key by key with `PointLookup`, so a step that disturbs
the lookup of another key, in the table or in the heap, is not a step of the map.

**KeyConversions, TypedIndex.** A string is the sequence of its bytes; a double is
a fixed-point number. `InsertTyped` and `RemoveTyped` are the actions of `RangeLH` on
the converted key. The caller's n-th key is inserted with record n, so the records
that come back tell which key they were inserted under; several keys may share one
`uint64_t`. The type is chosen once, in `TypedInit`: keys of different types share one
key space, in which nothing tells them apart, and no test mixes them. The
properties compare with the order and the equality of the types themselves
(`Before`, `Alike`), defined without the conversions.

**Storage.** The variables of `RangeLH` are the index, and the values it holds are
addresses in the pool: `pool[i]` is the key of the record at address `i`.
`InsertRecord` appends to the pool and inserts the new address. Range aggregates
take the result of a range lookup, which has `Null` for a worker without data;
`Dereferenced` says that the code may read all of it.

Aggregates are doubles. A `uint64_t` key above 2^53 is rounded when it is converted
(`ToDouble`), and a sum is rounded at each addition (`RoundedSum`), so that it depends on
the order of the chain; an average is rounded once more by the division (`Quotient`). `Doubles`
models these roundings to `Precision` bits, 53 in the code, to the nearest
and to even, which is the default mode of IEEE 754; that the build keeps no
intermediate result in a wider register is assumed. Counts have 32 bits and are
doubles. The properties say which results are exact, and that the others are those of
the live records up to this rounding.

**BPlusTree.** `mem` maps the addresses in use to nodes. Splits, borrowing and
merging follow the code; the variants for a left and a right sibling are one
operator where they are mirror images (`Merged` joins two adjacent children,
leaves or internal nodes, whichever of them was short). Keys are a subset of the range
`IntMin..IntMax` of `int`. The loops of the code, and the calls that it makes last in a function
(`splitInternal` for an overfull parent, `handleUnderflow` for the parent of merged nodes), are
functions from the number of iterations to the loop's variables: `After` for a descent and for
a walk along the leaves, `SplitUp`, `HandleUnderflow`; `Repaired` is one call of
`handleUnderflow`. As many iterations as the tree has nodes are enough for each
loop to end, which is part of what is proved, and further iterations change nothing.

## 3. What is checked

Every passing run explores all reachable states within its bounds. All but
`Storage`, whose state is that of `RangeLH` and the pool, also check a type invariant.

| Run | Shows | Bounds |
|---|---|---|
| `LinearHashing` | `Geometry`, `Placement`, `RecordsCounted`, `LookupFindsStored`, `LoadBounded`; implements `WorkerTable` | ids 0..5, 4 workers, batches of up to 2, one initial bucket, load 3/4 |
| `BloomRF` | `NoFalseNegatives`, `PositionsInVector`, `ShiftsFitKeys` | key lengths 4 to 6, delta 1 to 4, 10 (given as 1), 16 and 40 items, filters of one word and more; any 2 keys inserted |
| `AdjacentSearch` | `NothingSkipped`, `NearestOnTop`, `ReturnsAdjacent`, `StackBounded`, `Terminates` | 3 levels, indexes of up to 3 of 11 keys, every target and side |
| `TypedIndex` | `OneWorkerPerKey`, `FilterKnowsKeys`, `ChainSorted`, `ChainComplete`, `LookupsTyped`, `TypedRanges`, `PatternsFindPrefixes`; implements `OrderedMap` | per type 5 to 7 keys, two of the 5 `uint64_t` keys not covered; 9 patterns; 3 workers, count between -1 and 4 |
| `Storage` | `GetsNewest`, `SumIsLive`, `RangesExact`, `ExtremesExact`, `CountFollowsInserts` | 5 keys, two of them not covered; doubles of 3 bits; 3 workers, 4 records |
| `BPlusTree` | `NodesOwned`, `Balanced`, `LeavesLinked`, `SearchFindsStored`, `RangeSearchExact`; implements `OrderedMap` | orders 3 (given as 2), 4 and 5, keys -2..4, up to 7 entries |
| `RangeLHUncovered`, `StorageCount`, `StorageCountAbsent`, `StorageMin`, `StorageCountRange`, `BPlusTreeDuplicates` | violations, see section 5 | |

Why these bounds are enough for the cases that matter:

* *LinearHashing*: four entries make the table grow from one bucket to six, through
  two full rounds, so a split happens in the middle of a round, at its end, and with chains
  that divide, stay or move as a whole; removals between inserts leave tables with
  more buckets than entries. Ids may be stored several times.
* *BloomRF*: delta divides the key length in some configurations and not in others, so
  that the last level is wider than what is left of the key; words have one to eight
  bits. A raw size of 61 is rounded up to 64, to 62 or to 61: the filter fills its
  64-bit word or ends just short of it, where positions behind its last word still
  have to fit. The small sizes make keys collide at every level.
* *AdjacentSearch*: the filter has 6 bits, so false positives lead the search into
  empty subtrees; the keys have ones at the edges of subtrees and one (40) that the
  tree does not cover.
* *TypedIndex*: bytes have two bits and two are read, so that one string
  is longer than what is read, and equal in it to another, and two differ by a zero at
  the end; doubles are in steps of 1/4 with a scale of 2, so that some coincide. The
  prefixes of the patterns are shorter than, as long as and equal to keys, with and
  without a greatest byte at the end, of greatest bytes only, and empty.
* *TypedIndex*, *Storage*: three workers are enough for a link at the head, in the
  middle and at the tail, for every order of inserts, with removed workers at each
  place and re-inserts; the table splits at every new key. The
  keys 18 and 20, or 18 and 21 in *Storage*, are beyond `Coverage` (16): two of them are chained
  in either order, behind covered keys inserted before them and after them.
* *Storage*: with 3 bits doubles are exact up to 8 = 3 + 5, the sum of two of the keys;
  15 and 18 are rounded to 16 and 21 to 20, so conversions, partial sums, whose result depends on
  the order, and averages are rounded in some states and exact in others.
* *BPlusTree*: seven entries at order 3 give trees of three levels, in which
  leaves and internal nodes split, lend from both sides, merge on both sides, and
  the root collapses; the odd and even orders split at different positions.

A `Storage` run of its own, and not only `TypedIndex`, is needed because only
Storage inserts a new record for a key each time.

`MaxBatch`, `MaxInserted`, `MaxPresent`, `MaxWorkers`, `MaxMissed`, `MaxActive`,
`MaxRecords` and `MaxCount` are the bounds; each limits what callers do, is named
where it is declared, and changes no operation. No run turns off deadlock checking:
some operation is always possible.

TLC identifies states by `SYMMETRY` over workers in `LinearHashing` (workers are
only compared for equality), and by a `VIEW` in `BPlusTree` (states that differ in
the addresses of their nodes only).

**Fairness.** Only `AdjacentSearch` assumes any: weak fairness of its next-state
action, that is, the loop of a sequential function keeps running. All other
operations end within one step of their model.

## 4. What is proved

The proofs hold for all values of the constants that satisfy the named
assumptions, not only for those of the runs.

*Linear hashing* (`LinearHashingProofs`, assumption `LHAssumption`): `TypeCorrect`,
`GeometryCorrect`, `PlacementCorrect`, `LookupCorrect`, `LoadCorrect`,
`RecordsCorrect` and `RefinesWorkerTable`. The inductive invariant (`Consistent`) says
of a table that it has its type, `Geometry` and `Placement` (`Sound`), that no chain
holds an entry twice, no two entries own one worker, the record count is the number
of entries, and the load is at most the greater of `maxLoad` and 1. The parts need each other: a split
appends one bucket and `Geometry` is what says that its index is the one the
next-level hash produces for the entries that move; `Placement` of the entries
that stay needs both; and that entries are counted once needs that equal entries
are in the same bucket. The argument: ids of the split bucket are equal to `next`
modulo the size of the round, so modulo twice the size they are either `next` or
`next` plus that size, which is the new bucket; all other ids keep their bucket.
At the end of a round the next level's hash becomes the current one. A batch is
covered by `BatchInsertedSteps` and `BatchInsertedFacts`: the function that folds `Inserted` over the batch
exists (`FiniteRecursion`), and there is no least prefix of the batch after which
the table is not consistent. `LookupCorrect` follows from `Placement`. `RefinesWorkerTable`
maps an insert, a batch and a removal to one step each of the abstract table.

*Range filter* (`BloomRFProofs`, assumption `BFAssumption`): `FilterCorrect` (no false
negatives, for all inserts), `TypeCorrect`, `VectorCorrect` and
`ShiftsCorrect`, each for every key length up to 64, delta, number of items and
size. The invariant has two parts: the configuration is one the constructor
accepts (`Configured`), which no operation changes, and `bits` contains the bits of every
inserted key (`BitsOfInserted`). That the bit of a key is also the one of the first key
of each subtree above it is lemma `ShiftAligned`: clearing the low bits does not
change any higher part of the prefix. `VectorCorrect` needs that the filter size is a
multiple of the word size and that the last word leaves room in its 64-bit word.
`ShiftsCorrect` follows from the level count being the least that is
enough (`LevelsExist`): with one level less, `n * 2^(levels * delta)` is still below
`2^d`. So the shift of the top level is below `d` as soon as `n` is at least
`2^(delta - 1)`.

*Neighbour search* (`AdjacentSearchProofs`): `TypeCorrect`, `SkipsNothing`,
`ExploresNearestFirst`, `FindsAdjacent` and `StackStaysSmall`. The inductive
invariant has four parts: the arguments do not change; the nodes of the stack are
aligned prefixes inside the tree (`Nodes`); until the search returns, each key it
should find is under a node of the stack (`Covers`), and of two nodes with such keys
under them the upper one's are nearer (`NearerAbove`); once it has returned, what it
returned is right (`Finished`). `NearerAbove` is needed because the code returns the
first leaf it accepts. It is not disturbed by the child of the target being pushed
twice, since the two nodes have the same keys under them. The children of a node
share out its keys in the order they are pushed, which is arithmetic on aligned
prefixes. `Nodes` also bounds how high a node lies: the `i`-th from the bottom is at
most of the level that `i` families of children lead down to, from which
`StackStaysSmall` follows.

*RangeLH* (`RangeLHProofs`, assumptions `RFAssumption` and `RLHAssumption`): `TypeCorrect`,
`WorkersUnique`, `FilterComplete`, `ChainInOrder`, `ChainWhole`, `RangesComplete` and
`RefinesOrderedMap`. The inductive invariant is `Formed /\ Indexed /\ Filtered`: the
objects have their types; the table holds exactly the workers, each under its key
and no key twice; every level of the filter knows every key. Of the table only the
theorems of `LinearHashingProofs` are used, through an instance of that module, and
of the filter only that every set bit stays set and the bits of a key make it visible
(`BitsMakeVisible`). One
more invariant is proved on top of it. `Ordered`: there is an order of all workers along
which the links lead from head to tail, and in which whatever is before a key that the tree
covers is smaller. So the covered keys come first and ascend, and all others follow in some order. An
insert threads its worker into that order at one place (`ThreadedLinked`). The place is right
(`AscendsLinked`) because the search finds the greatest covered key below the new one, as no bit of
it is missing; and a key that is not covered goes behind all covered ones. `ChainInOrder` and `ChainWhole`
follow from it, and `RangesComplete` too: the walk from the start passes the workers of the range
in order, and what it meets first beyond them is greater than the end, covered or not. A refinement step reads
`PointLookup` of each key before and after, with `IsWritten` and `IsExtended` saying
what a step does to the heap.

*Typed keys* (`IndexUsersProofs`, assumption `TIAssumption`, which says that the keys
callers use have their types and that `Keys` has what they are converted to):
`FindsTyped`, `RangesTyped` and `PatternsTyped`. `TypedIsIndexed` shows that behind
the overloads runs the specification of RangeLH, so everything above holds. The
inductive invariant `Provenance` says that the record a worker holds was inserted
under a key whose code is the worker's key. The rest is about the conversions:
`StringOrder`, for every byte width and number of bytes read (at most 8), says that codes
compare as the bytes at the first difference do (a smaller byte outweighs all that
follow, `SmallerCodes`), and `SmallerIsLess` that this is the order of strings up to
what is cut off; `ScaledOrder` the same for doubles. For patterns, `NextIncrements` says
what the next string is byte by byte, `PrefixInRange` that the strings with the prefix
lie between, and `RangeHasPrefix` that nothing else lies strictly between.

*Storage* (`IndexUsersProofs`, assumptions of RangeLH, `StorageAssumption` and
`DoublesAssumption`, which asks for a precision of at least 1):
`GetCorrect`, `SumCorrect`, `RangesCorrect`, `ExtremesCorrect` and `CountsInserts`.
`StorageIsIndexed` shows that a storage runs the specification of RangeLH, so its
invariants hold, and `StorageSteps` what each step does to the pool and the index. The
invariant `Pooled` says that a worker with data holds the address of the newest record of
its key in the pool. `ExtremesCorrect` and `SumCorrect` need
`Ordered` of RangeLH: the head is covered as soon as any key is (`HeadIsCovered`), and the walk from the
head visits each worker once, in order or not. The positions of the walk that hold a record are
compressed to a list of the live keys with the same running totals (`SomeOrder`).
`RangeOfLive` describes a range lookup without removed records as a list of the live
records, each once and in key order. There is only one such list (`AscendingUnique`),
so a sum over a range is rounded in the same way whatever the order of the inserts was. The exact
sums of the properties are folds of the community modules, recursive functions
on the subsets of a set that take an arbitrary element at a time. That such a
function exists (`SumsExist`) and gives a total that does not depend on the order
(`SumsAreTotals`) is shown by taking a least set for which it fails. `ExactSum` concludes that a
loop that adds each key of a set once has the set's sum, if that is at most 2^Precision: then
no partial sum is greater (`RoundedTotals`), and such integers are not rounded
(`SmallAreDoubles`). The least and the greatest key stay so when rounded because
rounding is monotone (`ToDoubleMonotone`).
`CountsInserts` follows a step: the number of live keys and `num_active_worker` go up
for the same inserts. It holds of every insert, also after removals have made the
count wrong.

*B+ tree* (`BPlusTreeShape`, `BPlusTreeProofs`, assumption `BPTAssumption`, for every order,
every set of keys in the range of `int` and every `MaxCount`; the precondition is that
no key is inserted while it is in the tree): `Invariant`, `TypeCorrect`,
`EveryNodeOwned`, `AlwaysBalanced`, `LeavesStayLinked`, `SearchFinds`, `RangeSearchesExact` and
`Refinement`. None of the properties the run checks is inductive. They say what a traversal of
the tree finds, while a step changes a few nodes somewhere in the middle; and `SearchFindsStored`
does not say what separators have to do with keys that are not stored.
The inductive invariant is local. It says that each node has a place, its height above the
leaves and the range of keys that the descent leads to it, such that (`Shape`)

* the keys of a node ascend and lie in its range, a leaf has as many data pointers as
  keys, an internal node one child more (`Fits`);
* each child has the place between two neighbouring separators of its parent and points
  to it, and each node but the root is such a child (`Parental`, `Owned`, `Rooted`);
* nodes of one height have ranges that do not overlap (`Apart`);
* each leaf is linked, both ways, with the one whose range follows its own (`Linked`);

and besides that each node has enough keys and not too many, and `count` is the number of keys
in the leaves (`TreeInv`). The places are not in the program: they are a witness (`g`), which the
proof carries along. Separators need not be keys, and that a removed key leaves its separator
behind needs no argument: a separator is only the border of two ranges.

An operation changes the tree in few ways, and `BPlusTreeShape` shows for each, as a relation between two
heaps, that the shape is kept, with the new places given, and that the entries stay the same: a
node is divided (`DivideKeepsShape`), two neighbours are united (`UniteKeepsShape`) or exchange
entries across the separator (`ShiftKeepsShape`), a root is put on (`RootKeepsShape`) or taken off
(`CollapseKeepsShape`), a leaf gets other entries (`RefillKeepsShape`). The first three
rest on one lemma, that a group of children of a node may be regrouped if the
new group covers the same range in the same order (`RegroupedTree`, `RegroupedApart`).
`BPlusTreeProofs` shows of each function of the code which of these it is: of a split leaf and
a split internal node (`LeafHalved`, `InnerHalved`, `InsertBelow`, `InsertAbove`), where it matters that
`insertIntoParent` finds the place behind the node that was split, as the pushed key lies in
that node's range; of the two ways of borrowing (`LeftLends`, `RightLends`), of merging
(`MergedUnites`), and of the collapse of the root (`RootCollapses`). The loops that go up
(`SplitUpFacts`, `UnderflowFacts`) keep an invariant: the shape is right, and at most the
node reached, which gets higher with each iteration, has too many or too few keys by one.
That the height of a node is less than the number of nodes (`HeightBound`) makes both end.
`InsertedFacts` and `RemovedFacts` conclude what an operation does to the set of entries, and so to what
search finds, from which `Refinement` follows step by step.

The properties then follow from the invariant. A descent of as many steps as there are nodes
ends in the one leaf whose range holds the key (`FindLeafFacts`). The walk along the leaves
ends, because the ranges ascend, and has all of them from the first one on
(`LeavesFromFacts`, `LeavesFacts`); the concatenation of their keys ascends and has `count`
elements (`FlattenAscends`, `FlattenLengths`). For a range search the list of all leaves falls apart
into those before the leaf of the start, whose keys are all less than it, and the list the search
follows (`RunParts`, `SkipBelow`).

`ShiftTheorems` has the facts about powers of two, division and remainders, of the least
number of levels, and about the bit that a hash function gives a prefix, that the proofs about
the hash table, the filter and the indexes on top of them rest on.

Every property of a passing run is a theorem, but for `Terminates` of the search: a liveness
property under fairness stays with TLC, as do the runs that end in a violation. The
operators `LeftAdjacent` and `RightAdjacent` stand for the search loop in `RangeLH`; that
the loop computes them is proved (`FindsAdjacent`), as a statement about `AdjacentSearch`.

## 5. Where the code differs from what it says

Each is a run that ends in a violation, with the shortest trace to it.

* `RangeLHUncovered`: the searches start at a root that covers keys below
  `2^(max_level * delta)` only, less than the n-th part of the key space for n expected
  items (`LevelCount` is the least number of levels that leaves a hashed bit per item). Greater keys are never found as neighbours, so the
  chain is not sorted and a range lookup misses keys. 8-byte strings are such keys in
  the configuration of the unit tests (coverage 2^56), whose expectation
  about them is commented out, and so are nearly half of the keys of the benchmark at its largest size (coverage 2^39, keys up to 10^12).
  `ChainComplete` and `SumIsLive` show what still holds of such keys; and that they do no harm to
  those that the tree covers: `ChainSorted`, `TypedRanges`, `PatternsFindPrefixes` and
  `RangesExact` are about covered keys and ranges of covered keys, whatever else is in the index.
* `StorageCount`: a removal does not decrement `num_active_worker` for the key it
  removes, so `count()` still counts it.
* `StorageCountAbsent`: a removal of a key that was never there does decrement it, so
  `count()` is -1 after one removal from an empty storage. `CountFollowsInserts` shows that
  inserts count right. `avg()` divides by that count, and is 0 when the count has
  drifted to 0 with records left.
* `StorageMin`: `min()` is infinite once the least key was removed.
* `StorageCountRange`: ranges count removed records (and the other range
  aggregates would dereference them). `RangesExact` shows that ranges without removed
  records are right.
* `BPlusTreeDuplicates`: with duplicate keys a leaf split may leave equal keys on
  both sides of a separator, and after removals search misses those on the left.

In the same model, without the precondition that no key is inserted twice,
inserts alone can put the children of a node out of order: `insertIntoParent` places the new
child by its key (`BPlusTree/bPlusTree.cpp:88`), before an older sibling with an equal
one, so four equal keys at order 3 already leave the leaf list in another order
than the tree, and a later merge may leave a link to a deleted leaf. So the
properties of `BPlusTree` are stated for callers that insert no key twice.

Smaller observations, not runs. A pattern lookup has an inclusive upper bound: it
also returns the string that is the incremented prefix, and those the index cannot
tell from it (`PatternsFindPrefixes` allows exactly these). The pattern "%" finds the
empty string only, and a prefix of bytes 0xFF shorter than `max_bytes_string` finds only
itself (up to zeros): the bound appended for it, a zero byte, is the prefix itself to
the index. With few expected items and a large delta (10 and 6, or 64-bit keys and
word sizes above the number of items in general) `hashing` may shift by 64 bits;
`ShiftsFitKeys` says when it does not.

`min()`, `max()`, `minRange` and `maxRange` return keys above 2^53 rounded to a double, which need not
be keys of the storage. Sums above 2^53 are rounded at every addition: `sum()` then depends
on the order of the chain, which is that of the inserts for keys the tree does not cover. The unit
tests use small keys; `ExtremesExact`, `SumIsLive` and `RangesExact` say what holds of all.

The unit test of the load factor allows
`1.5 * maxLoad` (`UnitTest/linearHashing_test.cpp:470`), which tables with a small
`maxLoad` exceed, as one insert makes at most one split; `LoadBounded` is the bound
that holds. The header of the filter speaks of an offset of delta - 1 bits
(`Implement/bloomRF.h:8`), and the code uses delta bits, so a position may lie one
word behind its own; `PositionsInVector` shows when that stays in the vector.

## 6. What is not modelled

* Fixed widths: 32-bit bucket counts (they matter from 2^31 buckets) and the
  wrap-around of the 64-bit hash of the filter, whose properties need only that the
  position is a function of the prefix. A shift by 64 bits or more is undefined;
  `RangeLH` and `AdjacentSearch` assume a configuration without one (`ShiftsDefined`),
  `BloomRF` models no insert into any other, and `ShiftsCorrect` says which
  configurations have none.
* Preconditions that the code does not check: an initial size of at least 1, fewer
  expected items than keys there are, at least two levels, `max_bytes_string` of at
  most 8, doubles that are not negative and whose scaled value fits 64 bits.
* Rounding of the product in `float_to_scaled_int`: it is exact in the model. A
  rounded product keeps the order of doubles but may move a double at the edge of
  a step into the next.
* Indexes with keys of several types, which share one key space in the code.
* Callers that insert the same key twice into the B+ tree, except for
  `BPlusTreeDuplicates` (see section 5); the benchmark, which passes 64-bit keys as
  `int`, is such a caller.
* Deallocation: `RecordsCounted` and `NodesOwned` are what makes the destructors right.
* Output (`printStats`, `print_configs`, `printTree`), the benchmark and the tests.

## 7. Order of the work

Linear hashing and the filter over its configurations came first, with proofs; then the search,
RangeLH, Storage, and the B+ tree as a second implementation of the same abstract map; the
conversions and the typed interface; the remaining proofs about linear hashing, then those about
the search, RangeLH, the typed interface and Storage. Then, the loops of the B+ tree were
written as functions of the number of iterations, and its properties proved. Last, the aggregates of
Storage were given the rounding of doubles.

What could be added: the width of the counters of linear hashing, the rounding of
scaled doubles, and a B+ tree with duplicate keys, for which the property to prove would first have to
be found, as the code's own is violated.

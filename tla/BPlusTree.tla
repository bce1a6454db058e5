------------------------------ MODULE BPlusTree ------------------------------
(***************************************************************************)
(* Class BPlusTree (BPlusTree/bPlusTree.h, bPlusTree.cpp): the index that  *)
(* RangeLH is compared with.                                               *)
(*                                                                         *)
(* A tree is a record of the class's members and of the nodes allocated    *)
(* for it: mem[a] is the node at address a, and a deleted node's address   *)
(* is used again.  ptrs holds the data_ptrs of a leaf and the children of  *)
(* an internal node.  Positions are counted from 1.                        *)
(*                                                                         *)
(* Where the code loops down the tree, along the list of leaves or, from a *)
(* split or a merge, up to the root, a function run gives the loop's       *)
(* variables after each iteration; a loop makes at most one iteration for  *)
(* each node and one more.                                                 *)
(*                                                                         *)
(* A definition named for what is wrong with it is a mutant of the one     *)
(* after it: it shows that a property can fail, and nothing uses it.       *)
(***************************************************************************)
EXTENDS Integers, Sequences, FiniteSets, TLC

CONSTANTS
  IntMin,       \* the range of int
  IntMax,
  Keys,         \* the int keys that callers use
  Data,         \* Data[k]: addresses of the Data objects that callers store under k
  Orders,       \* constructor arguments ord
  MaxCount      \* bound: callers keep at most this many entries in the tree

Null == 0       \* nullptr

ASSUME BPTAssumption ==
  /\ IntMin \in Int /\ IntMax \in Int
  /\ Keys \subseteq IntMin..IntMax /\ Orders \subseteq Int
  /\ Data \in [Keys -> SUBSET (Nat \ {Null})] /\ MaxCount \in Nat

VARIABLE tree

AllData == UNION {Data[k] : k \in Keys}

SE == INSTANCE SequencesExt

LeafNode(keys, ptrs, next, prev) ==
  [leaf |-> TRUE, keys |-> keys, ptrs |-> ptrs, next |-> next, prev |-> prev, parent |-> Null]
InternalNode(keys, ptrs) ==
  [leaf |-> FALSE, keys |-> keys, ptrs |-> ptrs, next |-> Null, prev |-> Null, parent |-> Null]

NewTree(ord) == [order |-> IF ord < 3 THEN 3 ELSE ord, root |-> Null, count |-> 0, mem |-> <<>>]

-----------------------------------------------------------------------------
(* Nodes *)

\* "new": an address that is not in use
NewAddress(t) ==
  CHOOSE a \in 1..(Cardinality(DOMAIN t.mem) + 1) : a \notin DOMAIN t.mem

Allocated(t, a, node) ==
  [t EXCEPT !.mem = [b \in DOMAIN @ \cup {a} |-> IF b = a THEN node ELSE @[b]]]
Deleted(t, as) == [t EXCEPT !.mem = [a \in DOMAIN @ \ as |-> @[a]]]

\* How many leading keys are below key, and how many are at most key
LowerBound(keys, key) ==
  CHOOSE n \in 0..Len(keys) :
    (\A i \in 1..n : keys[i] < key) /\ (n < Len(keys) => keys[n + 1] >= key)

UpperBoundStrict(keys, key) == LowerBound(keys, key)

UpperBound(keys, key) ==
  CHOOSE n \in 0..Len(keys) :
    (\A i \in 1..n : keys[i] <= key) /\ (n < Len(keys) => keys[n + 1] > key)

\* Every child in the list gets the parent p
Adopted(t, p, children) ==
  [t EXCEPT !.mem = [a \in DOMAIN @ |->
     IF a \in SE!ToSet(children) THEN [@[a] EXCEPT !.parent = p] ELSE @[a]]]

NotBackLinked(t, next, a) == t

\* next->prev = a, unless next is nullptr
BackLinked(t, next, a) == IF next = Null THEN t ELSE [t EXCEPT !.mem[next].prev = a]

Children(t, a) == IF t.mem[a].leaf THEN {} ELSE SE!ToSet(t.mem[a].ptrs)

\* The nodes n levels below the node a
Level(t, a, n) ==
  LET run[i \in 0..n] ==
        IF i = 0 THEN {a} ELSE UNION {Children(t, b) : b \in run[i - 1]}
  IN  run[n]

Subtree(t, a) == UNION {Level(t, a, n) : n \in 0..Cardinality(DOMAIN t.mem)}

-----------------------------------------------------------------------------
(* Looking up *)

\* The node after n steps of the function step from the node a
After(step, a, n) ==
  LET run[i \in 0..n] == IF i = 0 THEN a ELSE step[run[i - 1]]
  IN  run[n]

FindLeaf(t, key) ==
  LET down == [a \in DOMAIN t.mem |->
                 IF t.mem[a].leaf THEN a
                 ELSE t.mem[a].ptrs[UpperBound(t.mem[a].keys, key) + 1]]
  IN  After(down, t.root, Cardinality(DOMAIN t.mem))

Leftmost(t) ==
  LET down == [a \in DOMAIN t.mem |-> IF t.mem[a].leaf THEN a ELSE t.mem[a].ptrs[1]]
  IN  After(down, t.root, Cardinality(DOMAIN t.mem))

\* The list of leaves from a on
LeavesFrom(t, a) ==
  LET next == [b \in DOMAIN t.mem \cup {Null} |-> IF b = Null THEN Null ELSE t.mem[b].next]
      end == CHOOSE n \in 0..Cardinality(DOMAIN t.mem) :
               After(next, a, n) = Null /\ \A i \in 0..(n - 1) : After(next, a, i) # Null
  IN  [i \in 1..end |-> After(next, a, i - 1)]

Leaves(t) == IF t.root = Null THEN <<>> ELSE LeavesFrom(t, Leftmost(t))

KeysOf(t, leaves) == SE!FlattenSeq([i \in DOMAIN leaves |-> t.mem[leaves[i]].keys])
DataOf(t, leaves) == SE!FlattenSeq([i \in DOMAIN leaves |-> t.mem[leaves[i]].ptrs])

GetAllKeysInOrder(t) == KeysOf(t, Leaves(t))
GetAllDataInOrder(t) == DataOf(t, Leaves(t))

\* The first position of x in a list, 0 if there is none
PositionOf(s, x) ==
  IF x \in SE!ToSet(s)
  THEN CHOOSE i \in DOMAIN s : s[i] = x /\ \A j \in 1..(i - 1) : s[j] # x
  ELSE 0

Search(t, key) ==
  IF t.root = Null THEN Null
  ELSE LET leaf == t.mem[FindLeaf(t, key)]
           pos == PositionOf(leaf.keys, key)
       IN  IF pos = 0 THEN Null ELSE leaf.ptrs[pos]

RangeSearchInOneLeaf(t, start, end) ==
  IF t.root = Null THEN <<>>
  ELSE LET leaves == <<FindLeaf(t, start)>>
           keys == KeysOf(t, leaves)
       IN  SubSeq(DataOf(t, leaves), LowerBound(keys, start) + 1, UpperBound(keys, end))

\* From the leaf of start to the first key beyond end; the keys are in order, so
\* those that the loop skips for being below start are the leading ones
RangeSearch(t, start, end) ==
  IF t.root = Null THEN <<>>
  ELSE LET leaves == LeavesFrom(t, FindLeaf(t, start))
           keys == KeysOf(t, leaves)
       IN  SubSeq(DataOf(t, leaves), LowerBound(keys, start) + 1, UpperBound(keys, end))

-----------------------------------------------------------------------------
(* insert, and the splits it causes *)

OverfullLate(t, a) == Len(t.mem[a].keys) > t.order

Overfull(t, a) == Len(t.mem[a].keys) >= t.order

InsertIntoParent(t, left, key, right) ==
  IF left = t.root
  THEN LET new == NewAddress(t)
           grown == Allocated(t, new, InternalNode(<<key>>, <<left, right>>))
       IN  [Adopted(grown, new, <<left, right>>) EXCEPT !.root = new]
  ELSE LET parent == t.mem[left].parent
           pos == LowerBound(t.mem[parent].keys, key)
       IN  [t EXCEPT !.mem[right].parent = parent,
                     !.mem[parent].keys = SE!InsertAt(@, pos + 1, key),
                     !.mem[parent].ptrs = SE!InsertAt(@, pos + 2, right)]

SplitInternal(t, a) ==
  LET mid == t.order \div 2
      node == t.mem[a]
      new == NewAddress(t)
      moved == SubSeq(node.ptrs, mid + 2, Len(node.ptrs))
      u == Allocated([t EXCEPT !.mem[a].keys = SubSeq(@, 1, mid),
                               !.mem[a].ptrs = SubSeq(@, 1, mid + 1)],
                     new, InternalNode(SubSeq(node.keys, mid + 2, Len(node.keys)), moved))
  IN  InsertIntoParent(Adopted(u, new, moved), a, node.keys[mid + 1], new)

SplitLeaf(t, a) ==
  LET mid == (t.order + 1) \div 2
      node == t.mem[a]
      new == NewAddress(t)
      right == LeafNode(SubSeq(node.keys, mid + 1, Len(node.keys)),
                        SubSeq(node.ptrs, mid + 1, Len(node.ptrs)), node.next, a)
      u == Allocated([t EXCEPT !.mem[a].keys = SubSeq(@, 1, mid),
                               !.mem[a].ptrs = SubSeq(@, 1, mid),
                               !.mem[a].next = new],
                     new, right)
  IN  InsertIntoParent(BackLinked(u, node.next, new), a, right.keys[1], new)

\* An overfull node is split, which may leave its parent overfull, and so on
SplitUp(t, a) ==
  LET n == Cardinality(DOMAIN t.mem)
      run[i \in 0..n] ==
        IF i = 0 THEN [tree |-> t, at |-> a]
        ELSE LET s == run[i - 1]
                 u == IF s.tree.mem[s.at].leaf THEN SplitLeaf(s.tree, s.at)
                                               ELSE SplitInternal(s.tree, s.at)
             IN  IF Overfull(s.tree, s.at) THEN [tree |-> u, at |-> u.mem[s.at].parent] ELSE s
  IN  run[n].tree

Inserted(t, key, d) ==
  IF t.root = Null
  THEN LET new == NewAddress(t)
       IN  [Allocated(t, new, LeafNode(<<key>>, <<d>>, Null, Null))
              EXCEPT !.root = new, !.count = @ + 1]
  ELSE LET a == FindLeaf(t, key)
           pos == LowerBound(t.mem[a].keys, key)
           u == [t EXCEPT !.mem[a].keys = SE!InsertAt(@, pos + 1, key),
                          !.mem[a].ptrs = SE!InsertAt(@, pos + 1, d),
                          !.count = @ + 1]
       IN  SplitUp(u, a)

-----------------------------------------------------------------------------
(* remove, and the borrowing and merging it causes.  k is the position in  *)
(* the parent of the key between the node and its sibling.                 *)

MinKeys(t) == (t.order - 1) \div 2

\* The test that each of the four borrow functions makes first
CanLend(t, sibling) == Len(t.mem[sibling].keys) > MinKeys(t)

BorrowFromLeft(t, a, left, parent, k) ==
  LET key == SE!Last(t.mem[left].keys)
      ptr == SE!Last(t.mem[left].ptrs)
      u == [t EXCEPT !.mem[left].keys = SE!Front(@),
                     !.mem[left].ptrs = SE!Front(@),
                     !.mem[a].ptrs = <<ptr>> \o @,
                     !.mem[parent].keys[k] = key]
  IN  IF t.mem[a].leaf
      THEN [u EXCEPT !.mem[a].keys = <<key>> \o @]
      ELSE [u EXCEPT !.mem[a].keys = <<t.mem[parent].keys[k]>> \o @,
                     !.mem[ptr].parent = a]

BorrowFromRight(t, a, right, parent, k) ==
  LET key == t.mem[right].keys[1]
      ptr == t.mem[right].ptrs[1]
      u == [t EXCEPT !.mem[right].keys = Tail(@),
                     !.mem[right].ptrs = Tail(@),
                     !.mem[a].ptrs = Append(@, ptr)]
  IN  IF t.mem[a].leaf
      THEN [u EXCEPT !.mem[a].keys = Append(@, key),
                     !.mem[parent].keys[k] = u.mem[right].keys[1]]
      ELSE [u EXCEPT !.mem[a].keys = Append(@, t.mem[parent].keys[k]),
                     !.mem[parent].keys[k] = key,
                     !.mem[ptr].parent = a]

MergedWithStaleNext(t, left, right, parent, k) ==
  LET node == t.mem[right]
      u == [t EXCEPT
              !.mem[left].keys =
                 (IF node.leaf THEN @ ELSE Append(@, t.mem[parent].keys[k])) \o node.keys,
              !.mem[left].ptrs = @ \o node.ptrs,
              !.mem[parent].keys = SE!RemoveAt(@, k),
              !.mem[parent].ptrs = SE!RemoveAt(@, k + 1)]
  IN  Deleted(IF node.leaf THEN BackLinked(u, node.next, left) ELSE Adopted(u, left, node.ptrs),
              {right})

\* The two merge functions for leaves, and the two for internal nodes, both
\* move the right one of two siblings into the left one and delete it.
Merged(t, left, right, parent, k) ==
  LET node == t.mem[right]
      u == [t EXCEPT
              !.mem[left].keys =
                 (IF node.leaf THEN @ ELSE Append(@, t.mem[parent].keys[k])) \o node.keys,
              !.mem[left].ptrs = @ \o node.ptrs,
              !.mem[left].next = node.next,
              !.mem[parent].keys = SE!RemoveAt(@, k),
              !.mem[parent].ptrs = SE!RemoveAt(@, k + 1)]
  IN  Deleted(IF node.leaf THEN BackLinked(u, node.next, left) ELSE Adopted(u, left, node.ptrs),
              {right})

RootCollapsedLeaking(t) ==
  LET root == t.mem[t.root]
  IN  IF root.leaf \/ root.keys # <<>> THEN t
      ELSE [t EXCEPT !.root = root.ptrs[1], !.mem[root.ptrs[1]].parent = Null]

\* An internal root without keys gives way to its only child
RootCollapsed(t) ==
  LET root == t.mem[t.root]
  IN  IF root.leaf \/ root.keys # <<>> THEN t
      ELSE Deleted([t EXCEPT !.root = root.ptrs[1], !.mem[root.ptrs[1]].parent = Null], {t.root})

\* One call of handleUnderflow: the tree it makes and the node for which a merge
\* calls it again, or Null
Repaired(t, a) ==
  LET parent == t.mem[a].parent
      siblings == t.mem[parent].ptrs
      i == PositionOf(siblings, a)
      borrowsLeft == i > 1 /\ CanLend(t, siblings[i - 1])
      borrowsRight == i < Len(siblings) /\ CanLend(t, siblings[i + 1])
      Done(u) == [tree |-> u, at |-> Null]
  IN  CASE a = t.root -> Done(RootCollapsed(t))
        [] a # t.root /\ Len(t.mem[a].keys) >= MinKeys(t) -> Done(t)
        [] OTHER ->
             IF borrowsLeft THEN Done(BorrowFromLeft(t, a, siblings[i - 1], parent, i - 1))
             ELSE IF borrowsRight THEN Done(BorrowFromRight(t, a, siblings[i + 1], parent, i))
             ELSE [tree |-> IF i > 1 THEN Merged(t, siblings[i - 1], a, parent, i - 1)
                                     ELSE Merged(t, a, siblings[2], parent, 1),
                   at |-> parent]

HandleUnderflow(t, a) ==
  LET n == Cardinality(DOMAIN t.mem)
      run[i \in 0..n] ==
        IF i = 0 THEN [tree |-> t, at |-> a]
        ELSE LET s == run[i - 1] IN IF s.at = Null THEN s ELSE Repaired(s.tree, s.at)
  IN  run[n].tree

Removed(t, key) ==
  LET a == FindLeaf(t, key)
      pos == PositionOf(t.mem[a].keys, key)
      u == [t EXCEPT !.mem[a].keys = SE!RemoveAt(@, pos),
                     !.mem[a].ptrs = SE!RemoveAt(@, pos),
                     !.count = @ - 1]
  IN  IF t.root = Null \/ pos = 0 THEN t
      ELSE IF u.count = 0 THEN [Deleted(u, Subtree(u, u.root)) EXCEPT !.root = Null]
      ELSE HandleUnderflow(u, a)

-----------------------------------------------------------------------------
(* Specification *)

LeafNodes(t) == {a \in DOMAIN t.mem : t.mem[a].leaf}
Stored(t) == UNION {SE!ToSet(t.mem[a].keys) : a \in LeafNodes(t)}

Init == \E ord \in Orders : tree = NewTree(ord)

Insert(key, d) ==
  /\ tree.count < MaxCount
  /\ tree' = Inserted(tree, key, d)

Remove(key) == tree' = Removed(tree, key)

Next ==
  \/ \E key \in Keys : \E d \in Data[key] : Insert(key, d)
  \/ \E key \in Keys : Remove(key)

Spec == Init /\ [][Next]_tree

\* Callers that never insert a key that is in the tree, as in all tests but one.
\* (The benchmark narrows 64-bit keys to int, so its keys may coincide.)
NewKeysNext ==
  \/ \E key \in Keys \ Stored(tree) : \E d \in Data[key] : Insert(key, d)
  \/ \E key \in Keys : Remove(key)

NewKeysSpec == Init /\ [][NewKeysNext]_tree

-----------------------------------------------------------------------------
(* Properties.  All but SearchFindsStored are of NewKeysSpec.              *)

Nodes == DOMAIN tree.mem
Node(a) == tree.mem[a]

\* Type invariant: no pointer of the tree dangles.
TypeOK ==
  /\ tree.root \in Nodes \cup {Null} /\ tree.order \in Nat /\ tree.count \in 0..MaxCount
  /\ \A a \in Nodes :
       /\ Node(a).keys \in Seq(Keys)
       /\ Node(a).ptrs \in Seq(IF Node(a).leaf THEN AllData ELSE Nodes)
       /\ {Node(a).next, Node(a).prev, Node(a).parent} \subseteq Nodes \cup {Null}

\* Every allocated node is in the tree once, under the parent it points to: no
\* split, merge or collapse of the root leaks a node or leaves a stale parent.
NodesOwned ==
  IF tree.root = Null THEN Nodes = {}
  ELSE /\ Node(tree.root).parent = Null
       /\ Subtree(tree, tree.root) = Nodes
       /\ \A a \in Nodes : ~ Node(a).leaf =>
            /\ Len(Node(a).ptrs) = Len(Node(a).keys) + 1
            /\ \A i \in DOMAIN Node(a).ptrs :
                 /\ Node(Node(a).ptrs[i]).parent = a
                 /\ \A j \in DOMAIN Node(a).ptrs : Node(a).ptrs[i] = Node(a).ptrs[j] => i = j

\* The leaves are at one depth, and every node but the root has between MinKeys
\* and order - 1 keys: borrowing and merging repair what removals break.
Balanced ==
  tree.root # Null =>
    /\ \E n \in 0..Cardinality(Nodes) : LeafNodes(tree) = Level(tree, tree.root, n)
    /\ \A a \in Nodes :
         /\ Len(Node(a).keys) < tree.order
         /\ a # tree.root => Len(Node(a).keys) >= MinKeys(tree)
         /\ a = tree.root => Len(Node(a).keys) >= 1

\* The linked list of leaves has every leaf, is the same in both directions, and
\* along it the keys are in order; count, at 0 of which the tree is deleted, is
\* their number.
LeavesLinked ==
  LET leaves == Leaves(tree)
      keys == GetAllKeysInOrder(tree)
  IN  /\ SE!ToSet(leaves) = LeafNodes(tree)
      /\ \A i \in DOMAIN leaves :
           Node(leaves[i]).prev = IF i = 1 THEN Null ELSE leaves[i - 1]
      /\ \A i, j \in DOMAIN keys : i < j => keys[i] < keys[j]
      /\ tree.count = Len(keys)

\* "Search should find one of the duplicate entries" (bPlusTree_test.cpp:407):
\* what is in the leaves under a key, search finds, and nothing else.
StoredUnder(key) ==
  UNION {{Node(a).ptrs[i] : i \in {j \in DOMAIN Node(a).keys : Node(a).keys[j] = key}} :
           a \in LeafNodes(tree)}

SearchFindsStored ==
  \A key \in Keys :
    IF StoredUnder(key) = {} THEN Search(tree, key) = Null
                             ELSE Search(tree, key) \in StoredUnder(key)

\* A range search, which descends to the leaf of its start and follows the leaf
\* list, returns the data of the keys in the range in their order.
RangeSearchExact ==
  LET keys == GetAllKeysInOrder(tree)
      data == GetAllDataInOrder(tree)
  IN  \A start, end \in Keys :
        RangeSearch(tree, start, end) =
          SubSeq(data, LowerBound(keys, start) + 1, UpperBound(keys, end))

\* With callers that insert no key twice, the tree is an ordered map.
OM == INSTANCE OrderedMap WITH
        Values <- AllData, NoValue <- Null, map <- [k \in Keys |-> Search(tree, k)]
ImplementsOrderedMap == OM!Spec

=============================================================================

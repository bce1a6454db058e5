--------------------------- MODULE AdjacentSearch ---------------------------
(***************************************************************************)
(* RangeLH::get_left_adjacent_worker and get_right_adjacent_worker         *)
(* (Implement/rangeLH.cpp), one iteration of their loop at a time: a       *)
(* depth-first search of the tree of prefixes with an explicit stack,      *)
(* pruned by the filter, for the present key nearest to a target.          *)
(*                                                                         *)
(* The hash table is the set of keys it holds and the filter holds the     *)
(* bits of exactly these keys; hash collisions make some bits of absent    *)
(* prefixes set as well.                                                   *)
(*                                                                         *)
(* A definition named for what is wrong with it is a mutant of the one     *)
(* after it: it shows that a property can fail, and nothing uses it.       *)
(***************************************************************************)
EXTENDS PrefixFilter

CONSTANT MaxPresent     \* bound: size of the indexes that are searched

ASSUME ASAssumption ==
  /\ MaxPresent \in Nat
  /\ ShiftsDefined
  /\ MaxLevel >= 1      \* with a single level the root is a leaf

VARIABLES
  present,      \* keys with a worker in master_LH
  bits,         \* bits_ of bloom_RF
  side,         \* which of the two functions runs
  target,       \* worker_key
  stack,        \* search_stack, its top last
  result        \* Searching, or NoKey, or the key of the worker returned

vars == <<present, bits, side, target, stack, result>>

Sides == {"left", "right"}
Searching == -2

-----------------------------------------------------------------------------
(* Children *)

Fanout == Pow2[Delta]
Span(level) == Pow2[level * Delta]

Child(node, j) == node[1] + j * Span(node[2] - 1)

\* How many children of the node start below w, and which is the first above
Below(node, w) ==
  CHOOSE n \in 0..Fanout : \A j \in 0..(Fanout - 1) : Child(node, j) < w <=> j < n
Above(node, w) ==
  CHOOSE n \in 0..Fanout : \A j \in 0..(Fanout - 1) : Child(node, j) > w <=> j >= n

AlignedChildUnmasked(node, w) ==
  IF node[1] <= w /\ w < node[1] + Span(node[2]) THEN <<<<w, node[2] - 1>>>> ELSE <<>>
AlignedChildButFirst(node, w) ==
  IF node[1] < w /\ w < node[1] + Span(node[2])
  THEN <<<<AlignDown(w, (node[2] - 1) * Delta), node[2] - 1>>>>
  ELSE <<>>

\* The child whose interval holds w goes on top
AlignedChild(node, w) ==
  IF node[1] <= w /\ w < node[1] + Span(node[2])
  THEN <<<<AlignDown(w, (node[2] - 1) * Delta), node[2] - 1>>>>
  ELSE <<>>

LeftChildrenDescending(node, w) ==
  [i \in 1..Below(node, w) |-> <<Child(node, Below(node, w) - i), node[2] - 1>>]
    \o AlignedChild(node, w)

LeftChildren(node, w) ==
  [i \in 1..Below(node, w) |-> <<Child(node, i - 1), node[2] - 1>>] \o AlignedChild(node, w)

RightChildrenAscending(node, w) ==
  [i \in 1..(Fanout - Above(node, w)) |-> <<Child(node, Above(node, w) + i - 1), node[2] - 1>>]
    \o AlignedChild(node, w)

RightChildren(node, w) ==
  [i \in 1..(Fanout - Above(node, w)) |-> <<Child(node, Fanout - i), node[2] - 1>>]
    \o AlignedChild(node, w)

Children(node) ==
  IF side = "left" THEN LeftChildren(node, target) ELSE RightChildren(node, target)

-----------------------------------------------------------------------------
(* The loop *)

BitsOf(ks) == UNION {Added({}, k) : k \in ks}

Init ==
  /\ present \in {ks \in SUBSET Keys : Cardinality(ks) <= MaxPresent}
  /\ bits = BitsOf(present)
  /\ side \in Sides
  /\ target \in Keys
  /\ stack = <<<<0, MaxLevel>>>>
  /\ result = Searching

Top == stack[Len(stack)]
Rest == SubSeq(stack, 1, Len(stack) - 1)

Running == result = Searching /\ stack # <<>>

\* Level 0: the node is a key, and the hash table knows whether it is present
VisitLeaf ==
  /\ Running /\ Top[2] = 0
  /\ stack' = Rest
  /\ result' = IF Top[1] \in present THEN Top[1] ELSE Searching
  /\ UNCHANGED <<present, bits, side, target>>

Prune ==
  /\ Running /\ Top[2] # 0 /\ ~ CheckAtLevel(bits, Top[1], Top[2])
  /\ stack' = Rest
  /\ UNCHANGED <<present, bits, side, target, result>>

DescendWithoutPop ==
  /\ Running /\ Top[2] # 0 /\ CheckAtLevel(bits, Top[1], Top[2])
  /\ stack' = stack \o Children(Top)
  /\ UNCHANGED <<present, bits, side, target, result>>

Descend ==
  /\ Running /\ Top[2] # 0 /\ CheckAtLevel(bits, Top[1], Top[2])
  /\ stack' = Rest \o Children(Top)
  /\ UNCHANGED <<present, bits, side, target, result>>

GiveUp ==
  /\ result = Searching /\ stack = <<>>
  /\ result' = NoKey
  /\ UNCHANGED <<present, bits, side, target, stack>>

Returned == result # Searching /\ UNCHANGED vars

Next == VisitLeaf \/ Prune \/ Descend \/ GiveUp \/ Returned

\* The loop of a sequential function keeps running
Spec == Init /\ [][Next]_vars /\ WF_vars(Next)

-----------------------------------------------------------------------------
(* Properties *)

Node(s) == s[1] \in 0..(Coverage - 1) /\ s[2] \in 0..MaxLevel

\* Type invariant; the alignment of a node to its level is part of what a node is.
TypeOK ==
  /\ present \subseteq Keys /\ side \in Sides /\ target \in Keys
  /\ result = Searching \/ result \in present \cup {NoKey}
  /\ \A i \in DOMAIN stack : Node(stack[i]) /\ stack[i][1] = AlignDown(stack[i][1], stack[i][2] * Delta)

\* The keys the search may return: reachable ones on its side of the target
Candidates ==
  {x \in present : /\ Visible(present, bits, x)
                   /\ IF side = "left" THEN x <= target ELSE x >= target}

Under(x, node) == node[1] <= x /\ x < node[1] + Span(node[2])

\* Until the search returns, every candidate lies under a node of the stack: no
\* pop, prune or choice of children drops a key that should have been found.
NothingSkipped ==
  result = Searching =>
    \A x \in Candidates : \E i \in DOMAIN stack : Under(x, stack[i])

Nearest ==
  IF side = "left" THEN LeftAdjacent(present, bits, target) ELSE RightAdjacent(present, bits, target)

\* The first node from the top with a candidate under it has the nearest one
\* under it, so the first worker the search comes to is the one to return,
\* although a child that holds the target is pushed twice.
NearestOnTop ==
  result = Searching => \A i \in DOMAIN stack :
    /\ \E x \in Candidates : Under(x, stack[i])
    /\ \A j \in (i + 1)..Len(stack) : ~ \E x \in Candidates : Under(x, stack[j])
    => Under(Nearest, stack[i])

\* The search returns the nearest reachable key, what module PrefixFilter says
\* of it and RangeLH relies on when it links a worker into the chain; and for the
\* keys the tree covers the filter hides nothing: the result is the predecessor or
\* the successor of the target among them.
ReturnsAdjacent ==
  result # Searching =>
    LET near == {x \in present : x < Coverage /\ IF side = "left" THEN x <= target ELSE x >= target}
    IN  /\ result = Nearest
        /\ IF near = {} THEN result = NoKey
           ELSE result \in near /\ \A x \in near : IF side = "left" THEN x <= result ELSE result <= x

\* The stack never holds more than one family of children per level.
StackBounded == Len(stack) <= 1 + MaxLevel * Fanout

\* The search ends: each iteration pops a node and pushes only nodes of a
\* lower level.
Terminates == <>(result # Searching)

=============================================================================

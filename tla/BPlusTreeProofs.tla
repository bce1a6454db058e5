--------------------------- MODULE BPlusTreeProofs ---------------------------
(***************************************************************************)
(* Proofs about BPlusTree, for every order of 3 or more, every set of keys *)
(* and any number of them: insert and remove keep the shape of the tree,   *)
(* its nodes within their bounds and its leaves linked, and with callers   *)
(* that insert no key twice the tree is an ordered map.                    *)
(***************************************************************************)
EXTENDS BPlusTreeShape

-----------------------------------------------------------------------------
(* insert: splits                                                          *)

\* What the first half of a split makes of the node a and the new node b,
\* before b is put into the parent.
Halved(m, mv, a, b, sep) ==
  LET D == DOMAIN m
  IN  /\ b \notin D /\ b \in Nat \ {Null} /\ mv \in [D \cup {b} -> NodeSet]
      /\ \A c \in D : Leaf(mv, c) = Leaf(m, c)
      /\ Leaf(mv, b) = Leaf(m, a)
      /\ \A c \in D \ {a} : Ks(mv, c) = Ks(m, c) /\ Ps(mv, c) = Ps(m, c)
      /\ Joined(Ps(m, a), Ps(mv, a), Ps(mv, b))
      /\ \A c \in D : Up(mv, c) = IF ~ Leaf(m, a) /\ c \in Elems(Ps(mv, b)) THEN b ELSE Up(m, c)
      /\ Pv(mv, a) = Pv(m, a)
      /\ \A x \in D \ {a} : Nx(mv, x) = Nx(m, x)
      /\ IF Leaf(m, a)
         THEN /\ JoinedKeys(Ks(m, a), Ks(mv, a), Ks(mv, b)) /\ Below(Ks(mv, a), sep, Ks(mv, b))
              /\ Len(Ps(mv, a)) = Len(Ks(mv, a)) /\ Len(Ps(mv, b)) = Len(Ks(mv, b))
              /\ Nx(mv, a) = b /\ Pv(mv, b) = a /\ Nx(mv, b) = Nx(m, a)
              /\ \A x \in D \ {a} : Pv(mv, x) = IF x = Nx(m, a) THEN b ELSE Pv(m, x)
         ELSE /\ JoinedAround(Ks(m, a), Ks(mv, a), sep, Ks(mv, b))
              /\ Len(Ps(mv, a)) = Len(Ks(mv, a)) + 1 /\ Len(Ps(mv, b)) = Len(Ks(mv, b)) + 1
              /\ Nx(mv, a) = Nx(m, a) /\ Pv(mv, b) = Null /\ Nx(mv, b) = Null
              /\ \A x \in D \ {a} : Pv(mv, x) = Pv(m, x)

\* A node is not among the children of a node divided or of its own.
LEMMA NotOwnChild ==
  ASSUME NEW m, NEW root, NEW g, Shape(m, root, g), NEW a \in DOMAIN m, ~ Leaf(m, a)
  PROVE  a \notin Elems(Ps(m, a)) /\ \A c \in Elems(Ps(m, a)) : c \in DOMAIN m /\ Up(m, c) = a
<1> DEFINE q == Ps(m, a)
<1>1. q \in Seq(Nat) /\ \A i \in 1..Len(q) : q[i] \in DOMAIN m /\ Up(m, q[i]) = a /\ Ht(g, a) = Ht(g, q[i]) + 1
  BY ChildFacts
<1> HIDE DEF q
<1>2. \A c \in Elems(q) : c \in DOMAIN m /\ Up(m, c) = a /\ Ht(g, a) = Ht(g, c) + 1
  BY <1>1, ElemsFacts
<1>3. Ht(g, a) \in Nat
  BY NodeTypes DEF Shape
<1>4. a \notin Elems(q)
  BY <1>2, <1>3
<1> QED BY <1>2, <1>4 DEF q

\* insertIntoParent below the root
LEMMA InsertBelow ==
  ASSUME NEW m, NEW root, NEW g, Shape(m, root, g), NEW a \in DOMAIN m, a # root,
         NEW i \in 1..Len(Ps(m, Up(m, a))), Ps(m, Up(m, a))[i] = a,
         NEW sep \in Keys, Lo(g, a) < sep, sep < Hi(g, a),
         NEW v, IsTree(v), v.root = root, NEW b, Halved(m, v.mem, a, b, sep)
  PROVE  LET w == InsertIntoParent(v, a, sep, b)
         IN  /\ IsTree(w) /\ SameMembers(v, w)
             /\ Divides(m, w.mem, a, b, Up(m, a), i, sep)
             /\ Ks(w.mem, a) = Ks(v.mem, a) /\ Ks(w.mem, b) = Ks(v.mem, b)
<1> DEFINE D == DOMAIN m
           p == Up(m, a)
           mv == v.mem
           w == InsertIntoParent(v, a, sep, b)
           m2 == w.mem
<1>1. /\ b \notin D /\ b \in Nat \ {Null} /\ mv \in [D \cup {b} -> NodeSet]
      /\ \A c \in D : Leaf(mv, c) = Leaf(m, c)
      /\ Leaf(mv, b) = Leaf(m, a)
      /\ \A c \in D \ {a} : Ks(mv, c) = Ks(m, c) /\ Ps(mv, c) = Ps(m, c)
      /\ Joined(Ps(m, a), Ps(mv, a), Ps(mv, b))
      /\ \A c \in D : Up(mv, c) = IF ~ Leaf(m, a) /\ c \in Elems(Ps(mv, b)) THEN b ELSE Up(m, c)
  BY DEF Halved
<1>2. p \in D /\ p # a /\ ~ Leaf(m, p)
  BY ParentFacts
<1>3. Up(mv, a) = p
  <2>1. Elems(Ps(mv, b)) \subseteq Elems(Ps(m, a))
    BY <1>1 DEF Joined
  <2>2. ~ Leaf(m, a) => a \notin Elems(Ps(m, a))
    BY NotOwnChild
  <2> QED BY <1>1, <2>1, <2>2
<1>4. LowerBound(Ks(mv, p), sep) = i - 1
  <2> DEFINE k == Ks(m, p)
             q == Ps(m, p)
             lo == Lo(g, p)
             hi == Hi(g, p)
  <2>1. /\ k \in Seq(Keys) /\ InnerFits(k, q, lo, hi) /\ Len(k) \in Nat /\ Len(q) = Len(k) + 1
        /\ i \in 1..Len(q)
        /\ \A j \in 1..Len(q) : /\ Lo(g, q[j]) = Bound(k, lo, hi, j - 1)
                                /\ Hi(g, q[j]) = Bound(k, lo, hi, j)
    BY <1>2, ChildFacts
  <2>2. lo \in Int /\ hi \in Int /\ sep \in Int
    BY <1>2, NodeTypes, KeysAreInts DEF Shape
  <2>3. q[i] = a /\ Ks(mv, p) = k /\ Lo(g, a) < sep /\ sep < Hi(g, a)
    BY <1>1, <1>2
  <2> HIDE DEF k, q, lo, hi
  <2>4. Bound(k, lo, hi, i - 1) < sep /\ sep < Bound(k, lo, hi, i)
    BY <2>1, <2>3
  <2>5. i \in 1..(Len(k) + 1)
    BY <2>1
  <2>6. LowerBound(k, sep) = i - 1
    BY <2>1, <2>2, <2>4, <2>5, LowerBoundIs
  <2> QED BY <2>3, <2>6
<1>5. p # b /\ p \in DOMAIN mv /\ b \in DOMAIN mv /\ DOMAIN mv = D \cup {b} /\ a \in DOMAIN mv /\ a # b
  BY <1>1, <1>2
<1>6. i \in Nat /\ i - 1 + 1 = i /\ i - 1 + 2 = i + 1
  OBVIOUS
<1>7. w = [v EXCEPT !.mem[b].parent = p,
                    !.mem[p].keys = SE!InsertAt(@, i, sep),
                    !.mem[p].ptrs = SE!InsertAt(@, i + 1, b)]
  <2>1. v.mem[a].parent = p /\ LowerBound(v.mem[p].keys, sep) = i - 1
    BY <1>3, <1>4 DEF Up, Ks
  <2>2. a # v.root
    OBVIOUS
  <2> HIDE DEF p, D
  <2> QED BY <1>6, <2>1, <2>2 DEF InsertIntoParent
<1>8. p \in Nat /\ b \in Nat /\ Len(Ps(mv, p)) = Len(Ks(mv, p)) + 1 /\ i \in 1..(Len(Ks(mv, p)) + 1)
  <2>1. Len(Ps(m, p)) = Len(Ks(m, p)) + 1
    BY <1>2, ChildFacts
  <2> QED BY <1>1, <1>2, <2>1 DEF Shape, Typed
<1> DEFINE z == [v EXCEPT !.mem[b].parent = p,
                          !.mem[p].keys = SE!InsertAt(@, i, sep),
                          !.mem[p].ptrs = SE!InsertAt(@, i + 1, b)]
<1>9. IsTree(z) /\ SameMembers(v, z) /\ ChildPut(mv, z.mem, p, b, i, sep)
  <2> HIDE DEF p
  <2> QED BY <1>5, <1>8, ParentGetsChild
<1>10. w = z
  BY <1>7
<1> HIDE DEF z, w, mv, p
<1>11. IsTree(w) /\ SameMembers(v, w) /\ ChildPut(mv, m2, p, b, i, sep)
  BY <1>9, <1>10
<1>14. m2 \in [D \cup {b} -> NodeSet]
  BY <1>5, <1>11 DEF ChildPut, IsTree
<1>16. \A c \in D \cup {b} : Leaf(m2, c) = Leaf(mv, c) /\ Nx(m2, c) = Nx(mv, c) /\ Pv(m2, c) = Pv(mv, c)
  BY <1>5, <1>11 DEF ChildPut
<1>17. \A c \in D : Up(m2, c) = Up(mv, c)
  BY <1>1, <1>5, <1>11 DEF ChildPut
<1>18. \A c \in (D \cup {b}) \ {p} : Ks(m2, c) = Ks(mv, c) /\ Ps(m2, c) = Ps(mv, c)
  BY <1>5, <1>11 DEF ChildPut
<1>19. Up(m2, b) = p
  BY <1>11 DEF ChildPut
<1>20. PutAt(Ks(m2, p), Ks(m, p), i, sep) /\ PutAt(Ps(m2, p), Ps(m, p), i + 1, b)
  <2>1. Ks(m, p) = Ks(mv, p) /\ Ps(m, p) = Ps(mv, p)
    BY <1>1, <1>2
  <2> QED BY <1>11, <2>1 DEF ChildPut
<1>21. /\ Pv(mv, a) = Pv(m, a)
       /\ \A x \in D \ {a} : Nx(mv, x) = Nx(m, x)
       /\ IF Leaf(m, a)
          THEN /\ JoinedKeys(Ks(m, a), Ks(mv, a), Ks(mv, b)) /\ Below(Ks(mv, a), sep, Ks(mv, b))
               /\ Len(Ps(mv, a)) = Len(Ks(mv, a)) /\ Len(Ps(mv, b)) = Len(Ks(mv, b))
               /\ Nx(mv, a) = b /\ Pv(mv, b) = a /\ Nx(mv, b) = Nx(m, a)
               /\ \A x \in D \ {a} : Pv(mv, x) = IF x = Nx(m, a) THEN b ELSE Pv(m, x)
          ELSE /\ JoinedAround(Ks(m, a), Ks(mv, a), sep, Ks(mv, b))
               /\ Len(Ps(mv, a)) = Len(Ks(mv, a)) + 1 /\ Len(Ps(mv, b)) = Len(Ks(mv, b)) + 1
               /\ Nx(mv, a) = Nx(m, a) /\ Pv(mv, b) = Null /\ Nx(mv, b) = Null
               /\ \A x \in D \ {a} : Pv(mv, x) = Pv(m, x)
  BY DEF Halved, mv
<1>22. Ks(m2, a) = Ks(mv, a) /\ Ps(m2, a) = Ps(mv, a) /\ Ks(m2, b) = Ks(mv, b) /\ Ps(m2, b) = Ps(mv, b)
  BY <1>2, <1>5, <1>18
<1>23. Divides(m, m2, a, b, p, i, sep)
  <2>1. /\ \A c \in D : Leaf(m2, c) = Leaf(m, c)
        /\ Leaf(m2, b) = Leaf(m, a)
        /\ \A c \in D \ {a, p} : Ks(m2, c) = Ks(m, c) /\ Ps(m2, c) = Ps(m, c)
        /\ Joined(Ps(m, a), Ps(m2, a), Ps(m2, b))
        /\ \A c \in D : Up(m2, c) = IF ~ Leaf(m, a) /\ c \in Elems(Ps(m2, b)) THEN b ELSE Up(m, c)
    BY <1>1, <1>5, <1>16, <1>17, <1>18, <1>22
  <2>2. /\ Pv(m2, a) = Pv(m, a)
        /\ \A x \in D \ {a} : Nx(m2, x) = Nx(m, x)
        /\ IF Leaf(m, a)
           THEN /\ JoinedKeys(Ks(m, a), Ks(m2, a), Ks(m2, b)) /\ Below(Ks(m2, a), sep, Ks(m2, b))
                /\ Len(Ps(m2, a)) = Len(Ks(m2, a)) /\ Len(Ps(m2, b)) = Len(Ks(m2, b))
                /\ Nx(m2, a) = b /\ Pv(m2, b) = a /\ Nx(m2, b) = Nx(m, a)
                /\ \A x \in D \ {a} : Pv(m2, x) = IF x = Nx(m, a) THEN b ELSE Pv(m, x)
           ELSE /\ JoinedAround(Ks(m, a), Ks(m2, a), sep, Ks(m2, b))
                /\ Len(Ps(m2, a)) = Len(Ks(m2, a)) + 1 /\ Len(Ps(m2, b)) = Len(Ks(m2, b)) + 1
                /\ Nx(m2, a) = Nx(m, a) /\ Pv(m2, b) = Null /\ Nx(m2, b) = Null
                /\ \A x \in D \ {a} : Pv(m2, x) = Pv(m, x)
    BY <1>5, <1>16, <1>21, <1>22
  <2> QED BY <1>1, <1>14, <1>19, <1>20, <2>1, <2>2 DEF Divides
<1> QED BY <1>11, <1>22, <1>23 DEF w, p, mv


-----------------------------------------------------------------------------
(* splitLeaf and splitInternal up to the call of insertIntoParent          *)

\* The node a gets the keys k, the pointers q and the successor nx.
NodePut(m, m2, a, k, q, nx) ==
  LET D == DOMAIN m
  IN  /\ DOMAIN m2 = D
      /\ \A c \in D \ {a} : m2[c] = m[c]
      /\ Leaf(m2, a) = Leaf(m, a) /\ Ks(m2, a) = k /\ Ps(m2, a) = q
      /\ Nx(m2, a) = nx /\ Pv(m2, a) = Pv(m, a) /\ Up(m2, a) = Up(m, a)

\* The first half of a leaf ...
LEMMA CutLeaf ==
  ASSUME NEW t, IsTree(t), NEW a \in DOMAIN t.mem, NEW new \in Nat,
         NEW mid \in Nat, mid <= Len(Ks(t.mem, a)), mid <= Len(Ps(t.mem, a))
  PROVE  LET u == [t EXCEPT !.mem[a].keys = SubSeq(@, 1, mid),
                            !.mem[a].ptrs = SubSeq(@, 1, mid),
                            !.mem[a].next = new]
         IN  /\ IsTree(u) /\ SameMembers(t, u)
             /\ NodePut(t.mem, u.mem, a, SubSeq(Ks(t.mem, a), 1, mid), SubSeq(Ps(t.mem, a), 1, mid), new)
<1> DEFINE u == [t EXCEPT !.mem[a].keys = SubSeq(@, 1, mid),
                          !.mem[a].ptrs = SubSeq(@, 1, mid),
                          !.mem[a].next = new]
           n == t.mem[a]
           r == u.mem[a]
           k == SubSeq(t.mem[a].keys, 1, mid)
           q == SubSeq(t.mem[a].ptrs, 1, mid)
           m == t.mem
           m2 == u.mem
<1>1. /\ DOMAIN m2 = DOMAIN m /\ m2 = [c \in DOMAIN m |-> m2[c]]
      /\ m2[a] = [m[a] EXCEPT !.keys = k, !.ptrs = q, !.next = new]
      /\ \A c \in DOMAIN m \ {a} : m2[c] = m[c]
      /\ SameMembers(t, u)
      /\ u \in [order : Nat, root : Nat, count : Int, mem : {u.mem}]
  BY DEF IsTree, SameMembers, NodeSet
<1>2. \A c \in DOMAIN m : m[c] \in NodeSet
  BY DEF IsTree
<1>3. k \in Seq(Keys) /\ q \in Seq(Nat)
  <2> DEFINE k0 == m[a].keys
             q0 == m[a].ptrs
  <2>1. k0 \in Seq(Keys) /\ q0 \in Seq(Nat)
    BY <1>2, NodeAs
  <2>2. mid <= Len(k0) /\ mid <= Len(q0)
    BY DEF Ks, Ps
  <2> HIDE DEF k0, q0
  <2>3. mid \in 0..Len(k0) /\ mid \in 0..Len(q0)
    BY <2>1, <2>2, LenProperties
  <2>4. SubSeq(k0, 1, mid) \in Seq(Keys)
    BY <2>1, <2>3, PrefixFacts
  <2>5. SubSeq(q0, 1, mid) \in Seq(Nat)
    BY <2>1, <2>3, PrefixFacts
  <2> QED BY <2>4, <2>5 DEF k0, q0
<1>4. n \in NodeSet /\ r = [n EXCEPT !.keys = k, !.ptrs = q, !.next = new]
  BY <1>1, <1>2
<1> HIDE DEF n, r, k, q
<1>5. /\ r \in NodeSet /\ r.keys = k /\ r.ptrs = q /\ r.leaf = n.leaf
      /\ r.next = new /\ r.prev = n.prev /\ r.parent = n.parent
  BY <1>3, <1>4 DEF NodeSet
<1>6. r = m2[a] /\ n = m[a]
  BY DEF n, r
<1> HIDE DEF u, m
<1>7. \A c \in DOMAIN m2 : m2[c] \in NodeSet
  BY <1>1, <1>2, <1>5, <1>6
<1>8. IsTree(u)
  BY <1>1, <1>7, TreeWith
<1>9. NodePut(m, m2, a, k, q, new)
  BY <1>1, <1>5, <1>6 DEF NodePut, Leaf, Ks, Ps, Nx, Pv, Up
<1> QED BY <1>1, <1>8, <1>9 DEF u, m, k, q, Ks, Ps

\* ... and of an internal node
LEMMA CutInner ==
  ASSUME NEW t, IsTree(t), NEW a \in DOMAIN t.mem,
         NEW mid \in Nat, mid <= Len(Ks(t.mem, a)), mid + 1 <= Len(Ps(t.mem, a))
  PROVE  LET u == [t EXCEPT !.mem[a].keys = SubSeq(@, 1, mid),
                            !.mem[a].ptrs = SubSeq(@, 1, mid + 1)]
         IN  /\ IsTree(u) /\ SameMembers(t, u)
             /\ NodePut(t.mem, u.mem, a, SubSeq(Ks(t.mem, a), 1, mid), SubSeq(Ps(t.mem, a), 1, mid + 1),
                        Nx(t.mem, a))
<1> DEFINE u == [t EXCEPT !.mem[a].keys = SubSeq(@, 1, mid),
                          !.mem[a].ptrs = SubSeq(@, 1, mid + 1)]
           n == t.mem[a]
           r == u.mem[a]
           k == SubSeq(t.mem[a].keys, 1, mid)
           q == SubSeq(t.mem[a].ptrs, 1, mid + 1)
           m == t.mem
           m2 == u.mem
<1>1. /\ DOMAIN m2 = DOMAIN m /\ m2 = [c \in DOMAIN m |-> m2[c]]
      /\ m2[a] = [m[a] EXCEPT !.keys = k, !.ptrs = q]
      /\ \A c \in DOMAIN m \ {a} : m2[c] = m[c]
      /\ SameMembers(t, u)
      /\ u \in [order : Nat, root : Nat, count : Int, mem : {u.mem}]
  BY DEF IsTree, SameMembers, NodeSet
<1>2. \A c \in DOMAIN m : m[c] \in NodeSet
  BY DEF IsTree
<1>3. k \in Seq(Keys) /\ q \in Seq(Nat)
  <2> DEFINE k0 == m[a].keys
             q0 == m[a].ptrs
  <2>1. k0 \in Seq(Keys) /\ q0 \in Seq(Nat)
    BY <1>2, NodeAs
  <2>2. mid <= Len(k0) /\ mid + 1 <= Len(q0)
    BY DEF Ks, Ps
  <2> HIDE DEF k0, q0
  <2>3. mid \in 0..Len(k0) /\ mid + 1 \in 0..Len(q0)
    BY <2>1, <2>2, LenProperties
  <2>4. SubSeq(k0, 1, mid) \in Seq(Keys)
    BY <2>1, <2>3, PrefixFacts
  <2>5. SubSeq(q0, 1, mid + 1) \in Seq(Nat)
    BY <2>1, <2>3, PrefixFacts
  <2> QED BY <2>4, <2>5 DEF k0, q0
<1>4. n \in NodeSet /\ r = [n EXCEPT !.keys = k, !.ptrs = q]
  BY <1>1, <1>2
<1> HIDE DEF n, r, k, q
<1>5. /\ r \in NodeSet /\ r.keys = k /\ r.ptrs = q /\ r.leaf = n.leaf
      /\ r.next = n.next /\ r.prev = n.prev /\ r.parent = n.parent
  BY <1>3, <1>4 DEF NodeSet
<1>6. r = m2[a] /\ n = m[a]
  BY DEF n, r
<1> HIDE DEF u, m
<1>7. \A c \in DOMAIN m2 : m2[c] \in NodeSet
  BY <1>1, <1>2, <1>5, <1>6
<1>8. IsTree(u)
  BY <1>1, <1>7, TreeWith
<1>9. NodePut(m, m2, a, k, q, Nx(m, a))
  BY <1>1, <1>5, <1>6 DEF NodePut, Leaf, Ks, Ps, Nx, Pv, Up
<1> QED BY <1>1, <1>8, <1>9 DEF u, m, k, q, Ks, Ps

LeafHalf(t, a, mid, new) ==
  LET node == t.mem[a]
      right == LeafNode(SubSeq(node.keys, mid + 1, Len(node.keys)),
                        SubSeq(node.ptrs, mid + 1, Len(node.ptrs)), node.next, a)
      u == Allocated([t EXCEPT !.mem[a].keys = SubSeq(@, 1, mid),
                               !.mem[a].ptrs = SubSeq(@, 1, mid),
                               !.mem[a].next = new],
                     new, right)
  IN  BackLinked(u, node.next, new)

LeafSeparator(t, a, mid) == SubSeq(t.mem[a].keys, mid + 1, Len(t.mem[a].keys))[1]

\* splitLeaf makes two halves and puts the second one into the parent.
LEMMA SplitLeafIs ==
  ASSUME NEW t, NEW a
  PROVE  LET mid == (t.order + 1) \div 2
             new == NewAddress(t)
         IN  SplitLeaf(t, a) = InsertIntoParent(LeafHalf(t, a, mid, new), a, LeafSeparator(t, a, mid), new)
BY DEF SplitLeaf, LeafHalf, LeafSeparator, LeafNode

\* A new node is a node.
LEMMA LeafNodeFacts ==
  ASSUME NEW k \in Seq(Keys), NEW q \in Seq(Nat), NEW n \in Nat, NEW p \in Nat
  PROVE  LET r == LeafNode(k, q, n, p)
         IN  r \in NodeSet /\ r.leaf /\ r.keys = k /\ r.ptrs = q /\ r.next = n /\ r.prev = p /\ r.parent = Null
BY DEF LeafNode, NodeSet, Null

\* A new internal node
LEMMA InternalNodeFacts ==
  ASSUME NEW k \in Seq(Keys), NEW q \in Seq(Nat)
  PROVE  LET r == InternalNode(k, q)
         IN  /\ r \in NodeSet /\ ~ r.leaf /\ r.keys = k /\ r.ptrs = q
             /\ r.next = Null /\ r.prev = Null /\ r.parent = Null
BY DEF InternalNode, NodeSet, Null

\* What the shape says of a leaf
LEMMA LeafFacts ==
  ASSUME NEW m, NEW root, NEW g, Shape(m, root, g), NEW a \in DOMAIN m, Leaf(m, a)
  PROVE  /\ Ks(m, a) \in Seq(Keys) /\ Ps(m, a) \in Seq(Nat) /\ Len(Ps(m, a)) = Len(Ks(m, a))
         /\ Ps(m, a) \in Seq(AllData) /\ Ascending(Ks(m, a))
         /\ \A x \in Elems(Ks(m, a)) : Lo(g, a) <= x /\ x < Hi(g, a)
         /\ Nx(m, a) \in Nat /\ Nx(m, a) # a /\ (Nx(m, a) # Null => Nx(m, a) \in DOMAIN m)
<1>1. Typed(m, g) /\ Fits(m, g, a) /\ Linked(m, g)
  BY DEF Shape
<1>2. Ks(m, a) \in Seq(Keys) /\ Ps(m, a) \in Seq(Nat) /\ Nx(m, a) \in Nat /\ Lo(g, a) \in Int /\ Hi(g, a) \in Int
  BY <1>1, NodeTypes
<1>3. LeafFits(Ks(m, a), Ps(m, a), Lo(g, a), Hi(g, a))
  BY <1>1 DEF Fits
<1>4. Nx(m, a) # Null => Nx(m, a) \in DOMAIN m /\ Lo(g, Nx(m, a)) = Hi(g, a)
  BY <1>1 DEF Linked, NextOK
<1>5. a # Null
  BY <1>1, NodeTypes
<1>6. Nx(m, a) # a
  BY <1>2, <1>3, <1>4, <1>5 DEF LeafFits
<1> QED BY <1>2, <1>3, <1>4, <1>6 DEF LeafFits

\* Two parts of an ascending list are on their sides of the first key of the second.
LEMMA BorderKeys ==
  ASSUME NEW u \in Seq(Keys), NEW v \in Seq(Keys), 0 < Len(u), 0 < Len(v), Ascending(u \o v),
         NEW lo \in Int, NEW hi \in Int, \A x \in Elems(u \o v) : lo <= x /\ x < hi
  PROVE  /\ JoinedKeys(u \o v, u, v) /\ Below(u, v[1], v)
         /\ v[1] \in Keys /\ lo < v[1] /\ v[1] < hi
<1> DEFINE k == u \o v
           n == Len(u)
           l == Len(k)
<1>2. /\ k \in Seq(Keys) /\ k = u \o v /\ Len(u) = n /\ Len(v) = l - n /\ v[1] = k[n + 1]
      /\ n \in Nat /\ l \in Nat /\ Len(v) \in Nat
  <2>1. /\ k \in Seq(Keys) /\ l = Len(u) + Len(v) /\ Len(u) \in Nat /\ Len(v) \in Nat
        /\ \A i \in 1..Len(v) : k[Len(u) + i] = v[i]
    BY JoinPositions, LenProperties
  <2>2. 1 \in 1..Len(v)
    BY <2>1
  <2> QED BY <2>1, <2>2
<1>0. Ascending(k) /\ \A x \in Elems(k) : lo <= x /\ x < hi
  OBVIOUS
<1> HIDE DEF k, n
<1>1. n \in 0..l /\ n + 1 \in 1..l /\ 1 \in 1..l /\ n < l
  BY <1>2
<1>3. JoinedKeys(k, u, v)
  <2>1. JoinedKeys(u \o v, u, v)
    BY <1>2, JoinIsJoinedKeys
  <2> QED BY <1>2, <2>1
<1>4. Ascending(u) /\ Ascending(v) /\ \A x \in Elems(u), y \in Elems(v) : x < y
  BY <1>0, <1>3 DEF JoinedKeys
<1>5. 1 \in 1..Len(v)
  BY <1>1, <1>2
<1>6. v[1] \in Elems(v) /\ \A y \in Elems(v) : \E i \in 1..Len(v) : v[i] = y
  BY <1>2, <1>5, ElemsFacts
<1>7. Elems(v) \subseteq Keys /\ Keys \subseteq Int
  BY <1>2, ElemsFacts, KeysAreInts
<1>8. \A y \in Elems(v) : v[1] <= y
  <2> SUFFICES ASSUME NEW i \in 1..Len(v) PROVE v[1] <= v[i]
    BY <1>6
  <2>1. v[1] \in Int /\ v[i] \in Int
    BY <1>2, <1>5, <1>7, ElemsFacts
  <2>2. CASE i = 1
    BY <2>1, <2>2
  <2>3. CASE 1 < i
    <3>1. v[1] < v[i]
      BY <1>4, <1>5, <2>3 DEF Ascending
    <3> QED BY <2>1, <3>1
  <2> QED BY <2>2, <2>3
<1>9. Below(u, v[1], v)
  BY <1>4, <1>6, <1>8 DEF Below
<1>10. k[1] \in Elems(k) /\ k[n + 1] \in Elems(k) /\ Elems(k) \subseteq Keys
  BY <1>1, <1>2, ElemsFacts
<1>11. k[1] < k[n + 1]
  <2> HIDE DEF l
  <2>1. n + 1 \in 1..Len(k) /\ 1 \in 1..Len(k)
    BY <1>1 DEF l
  <2>2. 1 < n + 1
    BY <1>2
  <2> QED BY <1>0, <2>1, <2>2 DEF Ascending
<1>12. v[1] \in Keys /\ lo < v[1] /\ v[1] < hi
  <2>1. lo <= k[1] /\ k[n + 1] < hi
    BY <1>0, <1>10
  <2>2. k[1] \in Int /\ k[n + 1] \in Int /\ v[1] \in Keys
    BY <1>2, <1>7, <1>10
  <2> DEFINE x == k[1]
             y == k[n + 1]
  <2>3. v[1] = y /\ x \in Int /\ y \in Int /\ lo <= x /\ x < y /\ y < hi
    BY <1>2, <1>11, <2>1, <2>2
  <2> HIDE DEF x, y
  <2> QED BY <2>2, <2>3
<1> QED BY <1>3, <1>9, <1>12 DEF k

\* The keys of a leaf that is cut are on their sides of the first key of the rest.
LEMMA CutKeys ==
  ASSUME NEW k \in Seq(Keys), Ascending(k), NEW n \in Nat, 0 < n, n < Len(k),
         NEW lo \in Int, NEW hi \in Int, \A x \in Elems(k) : lo <= x /\ x < hi
  PROVE  LET u == SubSeq(k, 1, n)
             v == SubSeq(k, n + 1, Len(k))
         IN  /\ u \in Seq(Keys) /\ v \in Seq(Keys) /\ Len(u) = n /\ Len(v) = Len(k) - n
             /\ JoinedKeys(k, u, v) /\ Below(u, v[1], v)
             /\ v[1] \in Keys /\ lo < v[1] /\ v[1] < hi
<1> DEFINE u == SubSeq(k, 1, n)
           v == SubSeq(k, n + 1, Len(k))
<1>1. n \in 0..Len(k)
  BY LenProperties
<1>2. u \in Seq(Keys) /\ v \in Seq(Keys) /\ k = u \o v /\ Len(u) = n /\ Len(v) = Len(k) - n
  BY <1>1, CutFacts, ZenonT(40)
<1> HIDE DEF u, v
<1>3. 0 < Len(u) /\ 0 < Len(v)
  BY <1>2, LenProperties
<1>4. /\ JoinedKeys(u \o v, u, v) /\ Below(u, v[1], v)
      /\ v[1] \in Keys /\ lo < v[1] /\ v[1] < hi
  <2>1. Ascending(u \o v) /\ \A x \in Elems(u \o v) : lo <= x /\ x < hi
    BY <1>2
  <2> QED BY <1>2, <1>3, <2>1, BorderKeys
<1> QED BY <1>2, <1>4 DEF u, v

\* What remains of a and what b gets, n1 and n2 keys
HalvesAt(t, g, a, v, sep, b, n1, n2) ==
  /\ IsTree(v) /\ SameMembers(t, v)
  /\ sep \in Keys /\ Lo(g, a) < sep /\ sep < Hi(g, a)
  /\ Halved(t.mem, v.mem, a, b, sep)
  /\ Len(Ks(v.mem, a)) = n1 /\ Len(Ks(v.mem, b)) = n2

\* splitLeaf up to the call of insertIntoParent halves the leaf.
LEMMA LeafHalved ==
  ASSUME NEW t, IsTree(t), NEW g, Shape(t.mem, t.root, g), NEW a \in DOMAIN t.mem, Leaf(t.mem, a),
         NEW mid \in Nat, 0 < mid, mid < Len(Ks(t.mem, a)),
         NEW new \in Nat \ {Null}, new \notin DOMAIN t.mem
  PROVE  HalvesAt(t, g, a, LeafHalf(t, a, mid, new), LeafSeparator(t, a, mid), new,
                  mid, Len(Ks(t.mem, a)) - mid)
<1> DEFINE m == t.mem
           D == DOMAIN m
           k == Ks(m, a)
           q == Ps(m, a)
           nx == Nx(m, a)
           k1 == SubSeq(k, 1, mid)
           q1 == SubSeq(q, 1, mid)
           k2 == SubSeq(k, mid + 1, Len(k))
           q2 == SubSeq(q, mid + 1, Len(q))
           sep == k2[1]
           right == LeafNode(k2, q2, nx, a)
           x == [t EXCEPT !.mem[a].keys = SubSeq(@, 1, mid),
                          !.mem[a].ptrs = SubSeq(@, 1, mid),
                          !.mem[a].next = new]
           u == Allocated(x, new, right)
           v == BackLinked(u, nx, new)
<1>1. v = LeafHalf(t, a, mid, new) /\ sep = LeafSeparator(t, a, mid)
  BY DEF LeafHalf, LeafSeparator, Ks, Ps, Nx
<1>2. /\ k \in Seq(Keys) /\ q \in Seq(Nat) /\ Len(q) = Len(k)
      /\ Ascending(k) /\ \A y \in Elems(k) : Lo(g, a) <= y /\ y < Hi(g, a)
      /\ nx \in Nat /\ nx # a /\ (nx # Null => nx \in D)
  BY LeafFacts
<1>3. Lo(g, a) \in Int /\ Hi(g, a) \in Int /\ a \in Nat /\ a # Null
  BY NodeTypes DEF Shape
<1>4. /\ k1 \in Seq(Keys) /\ k2 \in Seq(Keys) /\ Len(k1) = mid /\ Len(k2) = Len(k) - mid
      /\ JoinedKeys(k, k1, k2) /\ Below(k1, sep, k2)
      /\ sep \in Keys /\ Lo(g, a) < sep /\ sep < Hi(g, a)
  <2> HIDE DEF k
  <2> QED BY <1>2, <1>3, CutKeys DEF k
<1>5. q1 \in Seq(Nat) /\ q2 \in Seq(Nat) /\ q = q1 \o q2 /\ Len(q1) = mid /\ Len(q2) = Len(q) - mid
  <2>1. mid \in 0..Len(q)
    BY <1>2, LenProperties
  <2> HIDE DEF q
  <2> QED BY <1>2, <2>1, CutFacts, ZenonT(40)
<1>6. Joined(q, q1, q2)
  <2> HIDE DEF q1, q2
  <2>1. Joined(q1 \o q2, q1, q2)
    BY <1>5, JoinIsJoined
  <2> QED BY <1>5, <2>1
<1>7. IsTree(x) /\ SameMembers(t, x) /\ NodePut(m, x.mem, a, k1, q1, new)
  <2>1. mid <= Len(k) /\ mid <= Len(q)
    BY <1>2, LenProperties
  <2> QED BY <2>1, CutLeaf
<1> HIDE DEF x, k1, q1, k2, q2, k, q, nx
<1>8. /\ right \in NodeSet /\ right.leaf /\ right.keys = k2 /\ right.ptrs = q2
      /\ right.next = nx /\ right.prev = a /\ right.parent = Null
  <2>1. k2 \in Seq(Keys) /\ q2 \in Seq(Nat) /\ nx \in Nat /\ a \in Nat
    BY <1>2, <1>3, <1>4, <1>5
  <2> QED BY <2>1, LeafNodeFacts
<1> HIDE DEF right
<1>9. DOMAIN x.mem = D
  BY <1>7 DEF NodePut
<1>10. /\ DOMAIN u.mem = D \cup {new}
       /\ u.mem[new] = right /\ \A c \in D \ {new} : u.mem[c] = x.mem[c]
       /\ SameMembers(x, u) /\ IsTree(u)
  BY <1>7, <1>8, <1>9, AllocatedFacts
<1> HIDE DEF u
<1>11. /\ DOMAIN v.mem = D \cup {new}
       /\ \A c \in D \cup {new} :
            v.mem[c] = IF c = nx /\ nx # Null THEN [u.mem[c] EXCEPT !.prev = new] ELSE u.mem[c]
       /\ SameMembers(u, v) /\ IsTree(v)
  <2>1. nx = Null \/ nx \in DOMAIN u.mem
    BY <1>2, <1>10
  <2>2. /\ DOMAIN v.mem = DOMAIN u.mem
        /\ \A c \in DOMAIN u.mem :
             v.mem[c] = IF c = nx /\ nx # Null THEN [u.mem[c] EXCEPT !.prev = new] ELSE u.mem[c]
        /\ SameMembers(u, v) /\ IsTree(v)
    <3>1. IsTree(u)
      BY <1>10
    <3>2. new \in Nat
      OBVIOUS
    <3> QED BY <2>1, <3>1, <3>2, BackLinkedFacts
  <2>3. DOMAIN u.mem = D \cup {new}
    BY <1>10
  <2> HIDE DEF v
  <2> QED BY <2>2, <2>3
<1> HIDE DEF v
<1>12. SameMembers(t, v)
  BY <1>7, <1>10, <1>11 DEF SameMembers
<1> DEFINE mv == v.mem
<1>13. mv \in [D \cup {new} -> NodeSet]
  BY <1>11 DEF IsTree
<1>14. mv[new] = right /\ new # nx
  <2>1. new # nx
    BY <1>2
  <2> QED BY <1>10, <1>11, <2>1
<1>15. mv[a] = x.mem[a]
  BY <1>2, <1>10, <1>11
<1>16. \A c \in D \ {a} : mv[c] = IF c = nx THEN [m[c] EXCEPT !.prev = new] ELSE m[c]
  <2> SUFFICES ASSUME NEW c \in D \ {a} PROVE mv[c] = IF c = nx THEN [m[c] EXCEPT !.prev = new] ELSE m[c]
    OBVIOUS
  <2>1. u.mem[c] = m[c]
    BY <1>7, <1>10 DEF NodePut
  <2>2. c # Null
    BY NodeTypes DEF Shape
  <2> QED BY <1>11, <2>1, <2>2
<1>17. /\ Leaf(mv, a) = Leaf(m, a) /\ Ks(mv, a) = k1 /\ Ps(mv, a) = q1
       /\ Nx(mv, a) = new /\ Pv(mv, a) = Pv(m, a) /\ Up(mv, a) = Up(m, a)
  BY <1>7, <1>15 DEF NodePut, Leaf, Ks, Ps, Nx, Pv, Up
<1>18. /\ Leaf(mv, new) /\ Ks(mv, new) = k2 /\ Ps(mv, new) = q2
       /\ Nx(mv, new) = nx /\ Pv(mv, new) = a
  BY <1>8, <1>14 DEF Leaf, Ks, Ps, Nx, Pv
<1>19. \A c \in D \ {a} :
         /\ Leaf(mv, c) = Leaf(m, c) /\ Ks(mv, c) = Ks(m, c) /\ Ps(mv, c) = Ps(m, c)
         /\ Nx(mv, c) = Nx(m, c) /\ Up(mv, c) = Up(m, c)
         /\ Pv(mv, c) = IF c = nx THEN new ELSE Pv(m, c)
  <2> SUFFICES ASSUME NEW c \in D \ {a}
               PROVE  /\ Leaf(mv, c) = Leaf(m, c) /\ Ks(mv, c) = Ks(m, c) /\ Ps(mv, c) = Ps(m, c)
                      /\ Nx(mv, c) = Nx(m, c) /\ Up(mv, c) = Up(m, c)
                      /\ Pv(mv, c) = IF c = nx THEN new ELSE Pv(m, c)
    OBVIOUS
  <2>1. CASE c # nx
    <3>1. mv[c] = m[c]
      BY <1>16, <2>1
    <3> QED BY <2>1, <3>1 DEF Leaf, Ks, Ps, Nx, Pv, Up
  <2>2. CASE c = nx
    <3> DEFINE n == m[c]
               r == mv[c]
    <3>1. n \in NodeSet
      BY DEF IsTree
    <3>2. r = [n EXCEPT !.prev = new]
      BY <1>16, <2>2
    <3> HIDE DEF n, r
    <3>3. /\ r.leaf = n.leaf /\ r.keys = n.keys /\ r.ptrs = n.ptrs
          /\ r.next = n.next /\ r.parent = n.parent /\ r.prev = new
      BY <3>1, <3>2 DEF NodeSet
    <3> QED BY <2>2, <3>3 DEF n, r, Leaf, Ks, Ps, Nx, Pv, Up
  <2> QED BY <2>1, <2>2
<1> HIDE DEF mv, D
<1>20. Halved(m, mv, a, new, sep)
  <2>1. D = DOMAIN m
    BY DEF D
  <2>2. /\ \A c \in D : Leaf(mv, c) = Leaf(m, c)
        /\ Leaf(mv, new) = Leaf(m, a)
        /\ \A c \in D : Up(mv, c) = Up(m, c)
    BY <1>17, <1>18, <1>19
  <2>3. /\ JoinedKeys(Ks(m, a), Ks(mv, a), Ks(mv, new)) /\ Below(Ks(mv, a), sep, Ks(mv, new))
        /\ Joined(Ps(m, a), Ps(mv, a), Ps(mv, new))
        /\ Len(Ps(mv, a)) = Len(Ks(mv, a)) /\ Len(Ps(mv, new)) = Len(Ks(mv, new))
    BY <1>2, <1>4, <1>5, <1>6, <1>17, <1>18 DEF k, q
  <2>4. Nx(mv, a) = new /\ Pv(mv, new) = a /\ Nx(mv, new) = Nx(m, a) /\ Pv(mv, a) = Pv(m, a)
    BY <1>17, <1>18 DEF nx
  <2>5. /\ \A y \in D \ {a} : Pv(mv, y) = IF y = Nx(m, a) THEN new ELSE Pv(m, y)
        /\ \A y \in D \ {a} : Nx(mv, y) = Nx(m, y) /\ Ks(mv, y) = Ks(m, y) /\ Ps(mv, y) = Ps(m, y)
    BY <1>19 DEF nx
  <2>6. new \notin D
    BY <2>1
  <2>7. Leaf(m, a)
    BY DEF m
  <2> QED BY <1>13, <2>1, <2>2, <2>3, <2>4, <2>5, <2>6, <2>7 DEF Halved
<1>21. Len(Ks(mv, a)) = mid /\ Len(Ks(mv, new)) = Len(k) - mid
  BY <1>4, <1>17, <1>18
<1> QED BY <1>1, <1>4, <1>11, <1>12, <1>20, <1>21 DEF mv, k, m, HalvesAt

InnerHalf(t, a, mid, new) ==
  LET node == t.mem[a]
      moved == SubSeq(node.ptrs, mid + 2, Len(node.ptrs))
      u == Allocated([t EXCEPT !.mem[a].keys = SubSeq(@, 1, mid),
                               !.mem[a].ptrs = SubSeq(@, 1, mid + 1)],
                     new, InternalNode(SubSeq(node.keys, mid + 2, Len(node.keys)), moved))
  IN  Adopted(u, new, moved)

\* splitInternal makes two halves and puts the second one into the parent.
LEMMA SplitInternalIs ==
  ASSUME NEW t, NEW a
  PROVE  LET mid == t.order \div 2
             new == NewAddress(t)
         IN  SplitInternal(t, a) = InsertIntoParent(InnerHalf(t, a, mid, new), a, t.mem[a].keys[mid + 1], new)
BY DEF SplitInternal, InnerHalf

\* splitInternal up to the call of insertIntoParent halves the node.
LEMMA InnerHalved ==
  ASSUME NEW t, IsTree(t), NEW g, Shape(t.mem, t.root, g), NEW a \in DOMAIN t.mem, ~ Leaf(t.mem, a),
         NEW mid \in Nat, mid < Len(Ks(t.mem, a)),
         NEW new \in Nat \ {Null}, new \notin DOMAIN t.mem
  PROVE  HalvesAt(t, g, a, InnerHalf(t, a, mid, new), t.mem[a].keys[mid + 1], new,
                  mid, Len(Ks(t.mem, a)) - mid - 1)
<1> DEFINE m == t.mem
           D == DOMAIN m
           k == Ks(m, a)
           q == Ps(m, a)
           k1 == SubSeq(k, 1, mid)
           q1 == SubSeq(q, 1, mid + 1)
           k2 == SubSeq(k, mid + 2, Len(k))
           q2 == SubSeq(q, mid + 2, Len(q))
           sep == k[mid + 1]
           right == InternalNode(k2, q2)
           x == [t EXCEPT !.mem[a].keys = SubSeq(@, 1, mid),
                          !.mem[a].ptrs = SubSeq(@, 1, mid + 1)]
           u == Allocated(x, new, right)
           v == Adopted(u, new, q2)
<1>1. v = InnerHalf(t, a, mid, new) /\ sep = t.mem[a].keys[mid + 1]
  BY DEF InnerHalf, Ks, Ps
<1>2. /\ k \in Seq(Keys) /\ q \in Seq(Nat) /\ Len(q) = Len(k) + 1 /\ Len(k) \in Nat
      /\ InnerFits(k, q, Lo(g, a), Hi(g, a))
  BY ChildFacts
<1>3. a \notin Elems(q) /\ Elems(q) \subseteq D
  BY NotOwnChild
<1>4. k1 \in Seq(Keys) /\ k2 \in Seq(Keys) /\ sep \in Keys /\ Len(k1) = mid /\ Len(k2) = Len(k) - mid - 1
      /\ k = (k1 \o <<sep>>) \o k2
  <2>1. mid \in 0..(Len(k) - 1)
    BY <1>2
  <2>2. k \in Seq(Keys)
    BY <1>2
  <2> HIDE DEF k
  <2>3. /\ SubSeq(k, 1, mid) \in Seq(Keys) /\ SubSeq(k, mid + 2, Len(k)) \in Seq(Keys) /\ k[mid + 1] \in Keys
        /\ IsAround(k, SubSeq(k, 1, mid), k[mid + 1], SubSeq(k, mid + 2, Len(k)))
        /\ Len(SubSeq(k, 1, mid)) = mid /\ Len(SubSeq(k, mid + 2, Len(k))) = Len(k) - mid - 1
    BY <2>1, <2>2, CutAroundFacts
  <2> QED BY <2>3 DEF IsAround
<1>5. q1 \in Seq(Nat) /\ q2 \in Seq(Nat) /\ q = q1 \o q2 /\ Len(q1) = mid + 1 /\ Len(q2) = Len(q) - (mid + 1)
  <2> DEFINE l == mid + 1
  <2>1. l \in 0..Len(q) /\ l + 1 = mid + 2
    BY <1>2
  <2> HIDE DEF q, l
  <2>2. /\ SubSeq(q, 1, l) \in Seq(Nat) /\ SubSeq(q, l + 1, Len(q)) \in Seq(Nat)
        /\ q = SubSeq(q, 1, l) \o SubSeq(q, l + 1, Len(q))
        /\ Len(SubSeq(q, 1, l)) = l /\ Len(SubSeq(q, l + 1, Len(q))) = Len(q) - l
    BY <1>2, <2>1, CutFacts, ZenonT(40)
  <2>3. q1 = SubSeq(q, 1, l) /\ q2 = SubSeq(q, l + 1, Len(q)) /\ mid + 1 = l
    BY <2>1 DEF l
  <2> HIDE DEF q1, q2
  <2> QED BY <2>2, <2>3
<1>6. Joined(q, q1, q2)
  <2> HIDE DEF q1, q2
  <2>1. Joined(q1 \o q2, q1, q2)
    BY <1>5, JoinIsJoined
  <2> QED BY <1>5, <2>1
<1>7. JoinedAround(k, k1, sep, k2)
  <2> HIDE DEF k1, k2, sep
  <2>1. k1 \in Seq(Keys) /\ k2 \in Seq(Keys) /\ sep \in Keys /\ Keys \subseteq Int
    BY <1>4, KeysAreInts
  <2>2. JoinedAround((k1 \o <<sep>>) \o k2, k1, sep, k2)
    BY <2>1, JoinIsAround
  <2> QED BY <1>4, <2>2
<1>8. Lo(g, a) < sep /\ sep < Hi(g, a)
  <2>1. sep \in Elems(k)
    BY <1>7 DEF JoinedAround
  <2> HIDE DEF sep, k
  <2> QED BY <1>2, <2>1 DEF InnerFits
<1>9. IsTree(x) /\ SameMembers(t, x) /\ NodePut(m, x.mem, a, k1, q1, Nx(m, a))
  <2>1. mid <= Len(k) /\ mid + 1 <= Len(q)
    BY <1>2
  <2> QED BY <2>1, CutInner
<1> HIDE DEF x, k1, q1, k2, q2, k, q, sep
<1>10. /\ right \in NodeSet /\ ~ right.leaf /\ right.keys = k2 /\ right.ptrs = q2
       /\ right.next = Null /\ right.prev = Null /\ right.parent = Null
  <2>1. k2 \in Seq(Keys) /\ q2 \in Seq(Nat)
    BY <1>4, <1>5
  <2> QED BY <2>1, InternalNodeFacts
<1> HIDE DEF right
<1>11. DOMAIN x.mem = D
  BY <1>9 DEF NodePut
<1>12. /\ DOMAIN u.mem = D \cup {new}
       /\ u.mem[new] = right /\ \A c \in D \ {new} : u.mem[c] = x.mem[c]
       /\ SameMembers(x, u) /\ IsTree(u)
  BY <1>9, <1>10, <1>11, AllocatedFacts
<1> HIDE DEF u
<1>13. /\ DOMAIN v.mem = D \cup {new}
       /\ \A c \in D \cup {new} :
            v.mem[c] = IF c \in Elems(q2) THEN [u.mem[c] EXCEPT !.parent = new] ELSE u.mem[c]
       /\ SameMembers(u, v) /\ IsTree(v)
  <2>1. IsTree(u) /\ new \in Nat
    BY <1>12
  <2>2. /\ DOMAIN v.mem = DOMAIN u.mem
        /\ \A c \in DOMAIN u.mem :
             v.mem[c] = IF c \in Elems(q2) THEN [u.mem[c] EXCEPT !.parent = new] ELSE u.mem[c]
        /\ SameMembers(u, v) /\ IsTree(v)
    BY <2>1, AdoptedFacts
  <2>3. DOMAIN u.mem = D \cup {new}
    BY <1>12
  <2> HIDE DEF v
  <2> QED BY <2>2, <2>3
<1> HIDE DEF v
<1>14. SameMembers(t, v)
  BY <1>9, <1>12, <1>13 DEF SameMembers
<1> DEFINE mv == v.mem
<1>15. mv \in [D \cup {new} -> NodeSet]
  BY <1>13 DEF IsTree
<1>16. Elems(q2) \subseteq Elems(q)
  BY <1>6 DEF Joined
<1>17. mv[new] = right
  BY <1>3, <1>12, <1>13, <1>16
<1>18. mv[a] = x.mem[a]
  BY <1>3, <1>12, <1>13, <1>16
<1>19. \A c \in D \ {a} : mv[c] = IF c \in Elems(q2) THEN [m[c] EXCEPT !.parent = new] ELSE m[c]
  <2> SUFFICES ASSUME NEW c \in D \ {a}
               PROVE  mv[c] = IF c \in Elems(q2) THEN [m[c] EXCEPT !.parent = new] ELSE m[c]
    OBVIOUS
  <2>1. u.mem[c] = m[c]
    BY <1>9, <1>12 DEF NodePut
  <2> QED BY <1>13, <2>1
<1>20. /\ Leaf(mv, a) = Leaf(m, a) /\ Ks(mv, a) = k1 /\ Ps(mv, a) = q1
       /\ Nx(mv, a) = Nx(m, a) /\ Pv(mv, a) = Pv(m, a) /\ Up(mv, a) = Up(m, a)
  BY <1>9, <1>18 DEF NodePut, Leaf, Ks, Ps, Nx, Pv, Up
<1>21. /\ ~ Leaf(mv, new) /\ Ks(mv, new) = k2 /\ Ps(mv, new) = q2
       /\ Nx(mv, new) = Null /\ Pv(mv, new) = Null
  BY <1>10, <1>17 DEF Leaf, Ks, Ps, Nx, Pv
<1>22. \A c \in D \ {a} :
         /\ Leaf(mv, c) = Leaf(m, c) /\ Ks(mv, c) = Ks(m, c) /\ Ps(mv, c) = Ps(m, c)
         /\ Nx(mv, c) = Nx(m, c) /\ Pv(mv, c) = Pv(m, c)
         /\ Up(mv, c) = IF c \in Elems(q2) THEN new ELSE Up(m, c)
  <2> SUFFICES ASSUME NEW c \in D \ {a}
               PROVE  /\ Leaf(mv, c) = Leaf(m, c) /\ Ks(mv, c) = Ks(m, c) /\ Ps(mv, c) = Ps(m, c)
                      /\ Nx(mv, c) = Nx(m, c) /\ Pv(mv, c) = Pv(m, c)
                      /\ Up(mv, c) = IF c \in Elems(q2) THEN new ELSE Up(m, c)
    OBVIOUS
  <2>1. CASE c \notin Elems(q2)
    <3>1. mv[c] = m[c]
      BY <1>19, <2>1
    <3> QED BY <2>1, <3>1 DEF Leaf, Ks, Ps, Nx, Pv, Up
  <2>2. CASE c \in Elems(q2)
    <3> DEFINE n == m[c]
               r == mv[c]
    <3>1. n \in NodeSet
      BY DEF IsTree
    <3>2. r = [n EXCEPT !.parent = new]
      BY <1>19, <2>2
    <3> HIDE DEF n, r
    <3>3. /\ r.leaf = n.leaf /\ r.keys = n.keys /\ r.ptrs = n.ptrs
          /\ r.next = n.next /\ r.prev = n.prev /\ r.parent = new
      BY <3>1, <3>2 DEF NodeSet
    <3> QED BY <2>2, <3>3 DEF n, r, Leaf, Ks, Ps, Nx, Pv, Up
  <2> QED BY <2>1, <2>2
<1>23. a \notin Elems(q2)
  BY <1>3, <1>16
<1> HIDE DEF mv, D
<1>24. Halved(m, mv, a, new, sep)
  <2>1. D = DOMAIN m
    BY DEF D
  <2>2. ~ Leaf(m, a)
    BY DEF m
  <2>3. /\ \A c \in D : Leaf(mv, c) = Leaf(m, c)
        /\ \A c \in D : Up(mv, c) = IF ~ Leaf(m, a) /\ c \in Elems(Ps(mv, new)) THEN new ELSE Up(m, c)
    BY <1>20, <1>21, <1>22, <1>23, <2>2
  <2>4. Leaf(mv, new) = Leaf(m, a)
    <3>1. mv[new] \in NodeSet /\ m[a] \in NodeSet
      BY <1>15 DEF IsTree, m
    <3>2. Leaf(mv, new) \in BOOLEAN /\ Leaf(m, a) \in BOOLEAN
      BY <3>1, NodeAs DEF Leaf
    <3> QED BY <1>21, <2>2, <3>2
  <2>5. /\ JoinedAround(Ks(m, a), Ks(mv, a), sep, Ks(mv, new))
        /\ Joined(Ps(m, a), Ps(mv, a), Ps(mv, new))
    BY <1>6, <1>7, <1>20, <1>21 DEF k, q
  <2>6. Len(Ps(mv, a)) = Len(Ks(mv, a)) + 1 /\ Len(Ps(mv, new)) = Len(Ks(mv, new)) + 1
    BY <1>2, <1>4, <1>5, <1>20, <1>21, SMTT(30)
  <2>7. Nx(mv, a) = Nx(m, a) /\ Pv(mv, new) = Null /\ Nx(mv, new) = Null /\ Pv(mv, a) = Pv(m, a)
    BY <1>20, <1>21
  <2>8. /\ \A y \in D \ {a} : Pv(mv, y) = Pv(m, y) /\ Nx(mv, y) = Nx(m, y)
        /\ \A y \in D \ {a} : Ks(mv, y) = Ks(m, y) /\ Ps(mv, y) = Ps(m, y)
    BY <1>22
  <2>9. new \notin D
    BY <2>1
  <2> QED BY <1>15, <2>1, <2>2, <2>3, <2>4, <2>5, <2>6, <2>7, <2>8, <2>9 DEF Halved
<1>25. Len(Ks(mv, a)) = mid /\ Len(Ks(mv, new)) = Len(k) - mid - 1
  BY <1>4, <1>20, <1>21
<1> QED BY <1>1, <1>4, <1>8, <1>13, <1>14, <1>24, <1>25 DEF mv, k, m, HalvesAt

\* The heap with a new root r above the root a
UnderRoot(m, a, r) ==
  [c \in DOMAIN m \cup {r} |-> IF c = r THEN InternalNode(<<>>, <<a>>)
                               ELSE IF c = a THEN [m[a] EXCEPT !.parent = r] ELSE m[c]]

\* A heap with a new root above the old one
LEMMA UnderRootFacts ==
  ASSUME NEW m, m \in [DOMAIN m -> NodeSet], NEW a \in DOMAIN m, a \in Nat,
         NEW r \in Nat \ {Null}, r \notin DOMAIN m
  PROVE  Roots(m, UnderRoot(m, a, r), a, r)
<1> DEFINE D == DOMAIN m
           o == InternalNode(<<>>, <<a>>)
           m1 == UnderRoot(m, a, r)
           n == m[a]
           e == [n EXCEPT !.parent = r]
<1>1. /\ o \in NodeSet /\ ~ o.leaf /\ o.keys = <<>> /\ o.ptrs = <<a>>
      /\ o.next = Null /\ o.prev = Null /\ o.parent = Null
  <2> DEFINE k == <<>>
             q == <<a>>
  <2>1. k \in Seq(Keys) /\ q \in Seq(Nat)
    OBVIOUS
  <2> HIDE DEF k, q
  <2>2. LET x == InternalNode(k, q)
        IN  /\ x \in NodeSet /\ ~ x.leaf /\ x.keys = k /\ x.ptrs = q
            /\ x.next = Null /\ x.prev = Null /\ x.parent = Null
    BY <2>1, InternalNodeFacts
  <2> QED BY <2>2 DEF k, q
<1>2. n \in NodeSet
  OBVIOUS
<1>3. m1 = [c \in D \cup {r} |-> IF c = r THEN o ELSE IF c = a THEN e ELSE m[c]]
  BY DEF UnderRoot
<1> HIDE DEF o, n, m1
<1>4. /\ e \in NodeSet /\ e.leaf = n.leaf /\ e.keys = n.keys /\ e.ptrs = n.ptrs
      /\ e.next = n.next /\ e.prev = n.prev /\ e.parent = r
  BY <1>2 DEF NodeSet
<1> HIDE DEF e
<1>5. m1 \in [D \cup {r} -> NodeSet]
  BY <1>1, <1>3, <1>4
<1>6. m1[r] = o /\ m1[a] = e /\ \A c \in D \ {a} : m1[c] = m[c]
  BY <1>3
<1>7. n = m[a]
  BY DEF n
<1>8. SameNodes(m, m1, D)
  <2> SUFFICES ASSUME NEW c \in D
               PROVE  /\ Leaf(m1, c) = Leaf(m, c) /\ Ks(m1, c) = Ks(m, c) /\ Ps(m1, c) = Ps(m, c)
                      /\ Nx(m1, c) = Nx(m, c) /\ Pv(m1, c) = Pv(m, c)
    BY DEF SameNodes
  <2>1. CASE c = a
    BY <1>4, <1>6, <1>7, <2>1 DEF Leaf, Ks, Ps, Nx, Pv
  <2>2. CASE c # a
    BY <1>6, <2>2 DEF Leaf, Ks, Ps, Nx, Pv
  <2> QED BY <2>1, <2>2
<1>9. \A c \in D : Up(m1, c) = IF c = a THEN r ELSE Up(m, c)
  BY <1>4, <1>6 DEF Up
<1>10. /\ ~ Leaf(m1, r) /\ Ks(m1, r) = <<>> /\ Ps(m1, r) = <<a>>
       /\ Nx(m1, r) = Null /\ Pv(m1, r) = Null /\ Up(m1, r) = Null
  BY <1>1, <1>6 DEF Leaf, Ks, Ps, Nx, Pv, Up
<1> QED BY <1>5, <1>8, <1>9, <1>10 DEF Roots, m1

\* One element put into a list of none or one
LEMMA FirstPuts ==
  ASSUME NEW a \in Nat, NEW b \in Nat, NEW x \in Keys
  PROVE  /\ <<x>> \in Seq(Keys) /\ <<a, b>> \in Seq(Nat)
         /\ PutAt(<<x>>, <<>>, 1, x) /\ PutAt(<<a, b>>, <<a>>, 2, b)
         /\ Elems(<<a, b>>) = {a, b}
<1>1. <<x>> \in Seq(Keys) /\ <<a, b>> \in Seq(Nat)
  OBVIOUS
<1>2. Len(<<x>>) = 1 /\ <<x>>[1] = x /\ Len(<<a, b>>) = 2 /\ <<a, b>>[1] = a /\ <<a, b>>[2] = b
      /\ Len(<<>>) = 0 /\ Len(<<a>>) = 1 /\ <<a>>[1] = a
  OBVIOUS
<1>3. PutAt(<<x>>, <<>>, 1, x)
  BY <1>2 DEF PutAt
<1>4. PutAt(<<a, b>>, <<a>>, 2, b)
  BY <1>2 DEF PutAt
<1>5. Elems(<<a, b>>) = {a, b}
  <2> DEFINE s == <<a, b>>
  <2>1. s \in Seq(Nat) /\ Len(s) = 2 /\ s[1] = a /\ s[2] = b
    BY <1>1, <1>2
  <2> HIDE DEF s
  <2>2. (\A i \in 1..Len(s) : s[i] \in Elems(s)) /\ \A y \in Elems(s) : \E i \in 1..Len(s) : s[i] = y
    BY <2>1, ElemsFacts
  <2>3. 1 \in 1..Len(s) /\ 2 \in 1..Len(s) /\ \A i \in 1..Len(s) : i = 1 \/ i = 2
    BY <2>1
  <2>4. Elems(s) = {a, b}
    BY <2>1, <2>2, <2>3
  <2> QED BY <2>4 DEF s
<1> QED BY <1>1, <1>3, <1>4, <1>5

\* insertIntoParent at the root: as if the root had first been put under a new
\* one and then divided
LEMMA InsertAbove ==
  ASSUME NEW m, NEW a, NEW g, Shape(m, a, g), NEW sep \in Keys,
         NEW v, IsTree(v), v.root = a, NEW b, Halved(m, v.mem, a, b, sep)
  PROVE  LET w == InsertIntoParent(v, a, sep, b)
             r == NewAddress(v)
             m1 == UnderRoot(m, a, r)
         IN  /\ IsTree(w) /\ w.root = r /\ w.order = v.order /\ w.count = v.count
             /\ Roots(m, m1, a, r) /\ Divides(m1, w.mem, a, b, r, 1, sep)
             /\ Ks(w.mem, a) = Ks(v.mem, a) /\ Ks(w.mem, b) = Ks(v.mem, b)
<1> DEFINE D == DOMAIN m
           mv == v.mem
           r == NewAddress(v)
           m1 == UnderRoot(m, a, r)
           o == InternalNode(<<sep>>, <<a, b>>)
           grown == Allocated(v, r, o)
           z == Adopted(grown, r, <<a, b>>)
           w == InsertIntoParent(v, a, sep, b)
           m2 == w.mem
<1>1. /\ b \notin D /\ b \in Nat \ {Null} /\ mv \in [D \cup {b} -> NodeSet]
      /\ \A c \in D : Leaf(mv, c) = Leaf(m, c)
      /\ Leaf(mv, b) = Leaf(m, a)
      /\ \A c \in D \ {a} : Ks(mv, c) = Ks(m, c) /\ Ps(mv, c) = Ps(m, c)
      /\ Joined(Ps(m, a), Ps(mv, a), Ps(mv, b))
      /\ \A c \in D : Up(mv, c) = IF ~ Leaf(m, a) /\ c \in Elems(Ps(mv, b)) THEN b ELSE Up(m, c)
  BY DEF Halved
<1>2. /\ Pv(mv, a) = Pv(m, a)
      /\ \A x \in D \ {a} : Nx(mv, x) = Nx(m, x)
      /\ IF Leaf(m, a)
         THEN /\ JoinedKeys(Ks(m, a), Ks(mv, a), Ks(mv, b)) /\ Below(Ks(mv, a), sep, Ks(mv, b))
              /\ Len(Ps(mv, a)) = Len(Ks(mv, a)) /\ Len(Ps(mv, b)) = Len(Ks(mv, b))
              /\ Nx(mv, a) = b /\ Pv(mv, b) = a /\ Nx(mv, b) = Nx(m, a)
              /\ \A x \in D \ {a} : Pv(mv, x) = IF x = Nx(m, a) THEN b ELSE Pv(m, x)
         ELSE /\ JoinedAround(Ks(m, a), Ks(mv, a), sep, Ks(mv, b))
              /\ Len(Ps(mv, a)) = Len(Ks(mv, a)) + 1 /\ Len(Ps(mv, b)) = Len(Ks(mv, b)) + 1
              /\ Nx(mv, a) = Nx(m, a) /\ Pv(mv, b) = Null /\ Nx(mv, b) = Null
              /\ \A x \in D \ {a} : Pv(mv, x) = Pv(m, x)
  BY DEF Halved
<1>3. /\ IsFiniteSet(D) /\ D \subseteq Nat \ {Null} /\ m \in [D -> NodeSet] /\ a \in D /\ Nx(m, a) \in Nat
      /\ \A c \in D : Leaf(m, c) \in BOOLEAN
  BY NodeTypes DEF Shape, Typed, Rooted
<1>4. DOMAIN v.mem = D \cup {b} /\ IsFiniteSet(DOMAIN v.mem)
  <2>1. IsFiniteSet(D \cup {b})
    BY <1>3, FS_AddElement
  <2> QED BY <1>1, <2>1
<1>5. r \in Nat \ {Null} /\ r \notin D \cup {b}
  BY <1>4, NewAddressFacts
<1> HIDE DEF r
<1>6. Roots(m, m1, a, r)
  <2> HIDE DEF m1
  <2>1. m \in [DOMAIN m -> NodeSet] /\ a \in DOMAIN m /\ a \in Nat /\ r \notin DOMAIN m /\ r \in Nat \ {Null}
    BY <1>3, <1>5
  <2> QED BY <2>1, UnderRootFacts DEF m1
<1> HIDE DEF m1
<1>7. /\ DOMAIN m1 = D \cup {r} /\ m1 \in [D \cup {r} -> NodeSet]
      /\ \A c \in D : /\ Leaf(m1, c) = Leaf(m, c) /\ Ks(m1, c) = Ks(m, c) /\ Ps(m1, c) = Ps(m, c)
                      /\ Nx(m1, c) = Nx(m, c) /\ Pv(m1, c) = Pv(m, c)
      /\ \A c \in D : Up(m1, c) = IF c = a THEN r ELSE Up(m, c)
      /\ ~ Leaf(m1, r) /\ Ks(m1, r) = <<>> /\ Ps(m1, r) = <<a>>
      /\ Nx(m1, r) = Null /\ Pv(m1, r) = Null /\ Up(m1, r) = Null
  BY <1>6 DEF Roots, SameNodes
<1>8. /\ <<sep>> \in Seq(Keys) /\ <<a, b>> \in Seq(Nat)
      /\ PutAt(<<sep>>, <<>>, 1, sep) /\ PutAt(<<a, b>>, <<a>>, 2, b)
      /\ Elems(<<a, b>>) = {a, b}
  <2>1. a \in Nat /\ b \in Nat
    BY <1>1, <1>3
  <2> QED BY <2>1, FirstPuts
<1>9. /\ o \in NodeSet /\ ~ o.leaf /\ o.keys = <<sep>> /\ o.ptrs = <<a, b>>
      /\ o.next = Null /\ o.prev = Null /\ o.parent = Null
  <2> DEFINE k == <<sep>>
             q == <<a, b>>
  <2>1. k \in Seq(Keys) /\ q \in Seq(Nat)
    BY <1>8
  <2> HIDE DEF k, q
  <2>2. LET x == InternalNode(k, q)
        IN  /\ x \in NodeSet /\ ~ x.leaf /\ x.keys = k /\ x.ptrs = q
            /\ x.next = Null /\ x.prev = Null /\ x.parent = Null
    BY <2>1, InternalNodeFacts
  <2> QED BY <2>2 DEF k, q
<1>10. w = [z EXCEPT !.root = r]
  BY DEF InsertIntoParent, r
<1> HIDE DEF w, o
<1>11. /\ DOMAIN grown.mem = (D \cup {b}) \cup {r}
       /\ grown.mem[r] = o /\ \A c \in D \cup {b} : grown.mem[c] = mv[c]
       /\ SameMembers(v, grown) /\ IsTree(grown)
  <2>1. /\ DOMAIN grown.mem = DOMAIN v.mem \cup {r}
        /\ grown.mem[r] = o /\ \A c \in DOMAIN v.mem \ {r} : grown.mem[c] = v.mem[c]
        /\ SameMembers(v, grown)
        /\ o \in NodeSet => IsTree(grown)
    BY AllocatedFacts
  <2> HIDE DEF grown
  <2> QED BY <1>4, <1>5, <1>9, <2>1
<1> HIDE DEF grown
<1>12. /\ DOMAIN z.mem = D \cup {b, r}
       /\ \A c \in D \cup {b, r} :
            z.mem[c] = IF c \in {a, b} THEN [grown.mem[c] EXCEPT !.parent = r] ELSE grown.mem[c]
       /\ SameMembers(grown, z) /\ IsTree(z)
  <2>1. IsTree(grown) /\ r \in Nat
    BY <1>5, <1>11
  <2>2. /\ DOMAIN z.mem = DOMAIN grown.mem
        /\ \A c \in DOMAIN grown.mem :
             z.mem[c] = IF c \in Elems(<<a, b>>) THEN [grown.mem[c] EXCEPT !.parent = r] ELSE grown.mem[c]
        /\ SameMembers(grown, z) /\ IsTree(z)
    BY <2>1, AdoptedFacts
  <2> HIDE DEF z
  <2> QED BY <1>8, <1>11, <2>2
<1> HIDE DEF z
<1>13. IsTree(w) /\ w.mem = z.mem /\ w.root = r /\ w.order = v.order /\ w.count = v.count
  <2>1. /\ z \in [order : Nat, root : Nat, count : Int, mem : {z.mem}]
        /\ z.mem \in [DOMAIN z.mem -> NodeSet]
    BY <1>12 DEF IsTree
  <2>2. /\ w \in [order : Nat, root : Nat, count : Int, mem : {w.mem}]
        /\ w.mem = z.mem /\ w.root = r /\ w.order = z.order /\ w.count = z.count
    BY <1>5, <1>10, <2>1
  <2>3. w.mem \in [DOMAIN w.mem -> NodeSet]
    BY <2>1, <2>2
  <2> QED BY <1>11, <1>12, <2>2, <2>3 DEF IsTree, SameMembers
<1>14. m2 \in [(D \cup {r}) \cup {b} -> NodeSet]
  <2>1. DOMAIN m2 = (D \cup {r}) \cup {b}
    BY <1>12, <1>13
  <2> QED BY <1>13, <2>1 DEF IsTree
<1>15. m2[r] = o /\ \A c \in D \ {a} : m2[c] = mv[c]
  BY <1>1, <1>3, <1>5, <1>11, <1>12, <1>13
<1>16. \A c \in {a, b} : /\ Leaf(m2, c) = Leaf(mv, c) /\ Ks(m2, c) = Ks(mv, c) /\ Ps(m2, c) = Ps(mv, c)
                         /\ Nx(m2, c) = Nx(mv, c) /\ Pv(m2, c) = Pv(mv, c) /\ Up(m2, c) = r
  <2> SUFFICES ASSUME NEW c \in {a, b}
               PROVE  /\ Leaf(m2, c) = Leaf(mv, c) /\ Ks(m2, c) = Ks(mv, c) /\ Ps(m2, c) = Ps(mv, c)
                      /\ Nx(m2, c) = Nx(mv, c) /\ Pv(m2, c) = Pv(mv, c) /\ Up(m2, c) = r
    OBVIOUS
  <2> DEFINE n == mv[c]
             e == m2[c]
  <2>1. n \in NodeSet
    BY <1>1, <1>3
  <2>2. e = [n EXCEPT !.parent = r]
    BY <1>3, <1>11, <1>12, <1>13
  <2> HIDE DEF n, e
  <2>3. /\ e.leaf = n.leaf /\ e.keys = n.keys /\ e.ptrs = n.ptrs
        /\ e.next = n.next /\ e.prev = n.prev /\ e.parent = r
    BY <2>1, <2>2 DEF NodeSet
  <2> QED BY <2>3 DEF n, e, Leaf, Ks, Ps, Nx, Pv, Up
<1>17. \A c \in D \ {a} : /\ Leaf(m2, c) = Leaf(mv, c) /\ Ks(m2, c) = Ks(mv, c) /\ Ps(m2, c) = Ps(mv, c)
                           /\ Nx(m2, c) = Nx(mv, c) /\ Pv(m2, c) = Pv(mv, c) /\ Up(m2, c) = Up(mv, c)
  BY <1>15 DEF Leaf, Ks, Ps, Nx, Pv, Up
<1>18. /\ ~ Leaf(m2, r) /\ Ks(m2, r) = <<sep>> /\ Ps(m2, r) = <<a, b>>
       /\ Nx(m2, r) = Null /\ Pv(m2, r) = Null /\ Up(m2, r) = Null
  BY <1>9, <1>15 DEF Leaf, Ks, Ps, Nx, Pv, Up
<1>19. ~ Leaf(m, a) => Elems(Ps(mv, b)) \subseteq D \ {a}
  <2> SUFFICES ASSUME ~ Leaf(m, a) PROVE Elems(Ps(mv, b)) \subseteq D \ {a}
    OBVIOUS
  <2>1. Elems(Ps(mv, b)) \subseteq Elems(Ps(m, a))
    BY <1>1 DEF Joined
  <2>2. a \in D
    BY <1>3
  <2>3. a \notin Elems(Ps(m, a)) /\ \A c \in Elems(Ps(m, a)) : c \in D
    BY <2>2, NotOwnChild
  <2> QED BY <2>1, <2>3
<1>20. Leaf(m, a) => r # Nx(m, a)
  <2> SUFFICES ASSUME Leaf(m, a) PROVE r # Nx(m, a)
    OBVIOUS
  <2>1. a \in D
    BY <1>3
  <2>2. Nx(m, a) # Null => Nx(m, a) \in D
    BY <2>1, LeafFacts
  <2> QED BY <1>5, <2>2
<1>21. Leaf(m1, r) = Leaf(m2, r)
  <2>1. m1[r] \in NodeSet /\ m2[r] \in NodeSet
    BY <1>7, <1>14
  <2>2. Leaf(m1, r) \in BOOLEAN /\ Leaf(m2, r) \in BOOLEAN
    BY <2>1, NodeAs DEF Leaf
  <2> QED BY <1>7, <1>18, <2>2
<1> DEFINE D1 == DOMAIN m1
<1> HIDE DEF D, mv, m2
<1>22. D1 = D \cup {r} /\ a \in D /\ r \notin D /\ a # b /\ r # b /\ r # a /\ b \notin D
  BY <1>1, <1>3, <1>5, <1>7
<1> HIDE DEF D1
<1>23. /\ \A c \in D1 : Leaf(m2, c) = Leaf(m1, c)
       /\ Leaf(m2, b) = Leaf(m1, a)
  BY <1>1, <1>7, <1>16, <1>17, <1>21, <1>22
<1>24. \A c \in D1 \ {a, r} : Ks(m2, c) = Ks(m1, c) /\ Ps(m2, c) = Ps(m1, c)
  BY <1>1, <1>7, <1>17, <1>22
<1>25. PutAt(Ks(m2, r), Ks(m1, r), 1, sep) /\ PutAt(Ps(m2, r), Ps(m1, r), 1 + 1, b)
  <2>1. 1 + 1 = 2
    OBVIOUS
  <2> QED BY <1>7, <1>8, <1>18, <2>1
<1>26. Joined(Ps(m1, a), Ps(m2, a), Ps(m2, b)) /\ Up(m2, b) = r
  BY <1>1, <1>7, <1>16, <1>22
<1>27. \A c \in D1 : Up(m2, c) = IF ~ Leaf(m1, a) /\ c \in Elems(Ps(m2, b)) THEN b ELSE Up(m1, c)
  <2> SUFFICES ASSUME NEW c \in D1
               PROVE  Up(m2, c) = IF ~ Leaf(m1, a) /\ c \in Elems(Ps(m2, b)) THEN b ELSE Up(m1, c)
    OBVIOUS
  <2>1. Leaf(m1, a) = Leaf(m, a) /\ Ps(m2, b) = Ps(mv, b)
    BY <1>7, <1>16, <1>22
  <2>2. CASE c = r
    BY <1>7, <1>18, <1>19, <1>22, <2>1, <2>2
  <2>3. CASE c = a
    BY <1>7, <1>16, <1>19, <1>22, <2>1, <2>3
  <2>4. CASE c \in D \ {a}
    BY <1>1, <1>7, <1>17, <2>1, <2>4
  <2> QED BY <1>22, <2>2, <2>3, <2>4
<1>28. Pv(m2, a) = Pv(m1, a) /\ \A x \in D1 \ {a} : Nx(m2, x) = Nx(m1, x)
  BY <1>2, <1>7, <1>16, <1>17, <1>18, <1>22
<1>29. CASE Leaf(m, a)
  <2>1. /\ JoinedKeys(Ks(m1, a), Ks(m2, a), Ks(m2, b)) /\ Below(Ks(m2, a), sep, Ks(m2, b))
        /\ Len(Ps(m2, a)) = Len(Ks(m2, a)) /\ Len(Ps(m2, b)) = Len(Ks(m2, b))
        /\ Nx(m2, a) = b /\ Pv(m2, b) = a /\ Nx(m2, b) = Nx(m1, a)
    BY <1>2, <1>7, <1>16, <1>22, <1>29
  <2>2. \A x \in D1 \ {a} : Pv(m2, x) = IF x = Nx(m1, a) THEN b ELSE Pv(m1, x)
    BY <1>2, <1>7, <1>17, <1>18, <1>20, <1>22, <1>29
  <2>3. Divides(m1, m2, a, b, r, 1, sep)
    <3>1. b \notin D1 /\ b \in Nat \ {Null} /\ m2 \in [D1 \cup {b} -> NodeSet] /\ D1 = DOMAIN m1 /\ Leaf(m1, a)
      BY <1>1, <1>7, <1>14, <1>22, <1>29 DEF D1
    <3> QED BY <1>23, <1>24, <1>25, <1>26, <1>27, <1>28, <2>1, <2>2, <3>1 DEF Divides
  <2> QED BY <1>6, <1>13, <1>16, <2>3 DEF r, w, m1, mv, m2
<1>30. CASE ~ Leaf(m, a)
  <2>1. /\ JoinedAround(Ks(m1, a), Ks(m2, a), sep, Ks(m2, b))
        /\ Len(Ps(m2, a)) = Len(Ks(m2, a)) + 1 /\ Len(Ps(m2, b)) = Len(Ks(m2, b)) + 1
        /\ Nx(m2, a) = Nx(m1, a) /\ Pv(m2, b) = Null /\ Nx(m2, b) = Null
    BY <1>2, <1>7, <1>16, <1>22, <1>30
  <2>2. \A x \in D1 \ {a} : Pv(m2, x) = Pv(m1, x)
    BY <1>2, <1>7, <1>17, <1>18, <1>22, <1>30
  <2>3. Divides(m1, m2, a, b, r, 1, sep)
    <3>1. b \notin D1 /\ b \in Nat \ {Null} /\ m2 \in [D1 \cup {b} -> NodeSet] /\ D1 = DOMAIN m1 /\ ~ Leaf(m1, a)
      BY <1>1, <1>7, <1>14, <1>22, <1>30 DEF D1
    <3> QED BY <1>23, <1>24, <1>25, <1>26, <1>27, <1>28, <2>1, <2>2, <3>1 DEF Divides
  <2> QED BY <1>6, <1>13, <1>16, <2>3 DEF r, w, m1, mv, m2
<1> QED BY <1>29, <1>30

-----------------------------------------------------------------------------
(* How many keys nodes have                                                *)

NotOver(t, c) == Len(Ks(t.mem, c)) < t.order
NotUnder(t, c) == Len(Ks(t.mem, c)) >= (IF c = t.root THEN 1 ELSE MinKeys(t))

\* In a tree that grows only the node a may have a key too many ...
Growing(t, a) ==
  /\ \A c \in DOMAIN t.mem : NotUnder(t, c) /\ (c # a => NotOver(t, c))
  /\ Len(Ks(t.mem, a)) <= t.order

\* A node that has one splits into two that fit.
Split(t, a) == IF t.mem[a].leaf THEN SplitLeaf(t, a) ELSE SplitInternal(t, a)

SplitsInto(t, g, a, v, sep, b) ==
  /\ Split(t, a) = InsertIntoParent(v, a, sep, b)
  /\ IsTree(v) /\ SameMembers(t, v)
  /\ sep \in Keys /\ Lo(g, a) < sep /\ sep < Hi(g, a)
  /\ Halved(t.mem, v.mem, a, b, sep)
  /\ MinKeys(t) <= Len(Ks(v.mem, a)) /\ Len(Ks(v.mem, a)) < t.order
  /\ MinKeys(t) <= Len(Ks(v.mem, b)) /\ Len(Ks(v.mem, b)) < t.order

\* Both kinds of split make two halves.
LEMMA SplitInto ==
  ASSUME NEW t, IsTree(t), NEW g, Shape(t.mem, t.root, g), NEW a \in DOMAIN t.mem,
         t.order >= 3, Len(Ks(t.mem, a)) = t.order
  PROVE  \E v, sep, b : SplitsInto(t, g, a, v, sep, b)
<1> DEFINE ord == t.order
           b == NewAddress(t)
           l == Len(Ks(t.mem, a))
<1>1. ord \in Nat /\ ord >= 3 /\ l = ord
  BY DEF IsTree
<1>2. b \in Nat \ {Null} /\ b \notin DOMAIN t.mem
  BY NewAddressFacts DEF Shape, Typed
<1> HIDE DEF b, l, ord
<1>3. CASE Leaf(t.mem, a)
  <2> DEFINE mid == (ord + 1) \div 2
             v == LeafHalf(t, a, mid, b)
             sep == LeafSeparator(t, a, mid)
  <2>1. mid \in Nat /\ 0 < mid /\ mid < ord /\ (ord - 1) \div 2 <= mid
        /\ ord - mid < ord /\ (ord - 1) \div 2 <= ord - mid
    BY <1>1
  <2>2. Split(t, a) = InsertIntoParent(v, a, sep, b)
    <3>1. Split(t, a) = SplitLeaf(t, a)
      BY <1>3 DEF Split, Leaf
    <3>2. SplitLeaf(t, a) = InsertIntoParent(v, a, sep, b)
      BY SplitLeafIs DEF b, ord
    <3> QED BY <3>1, <3>2
  <2> HIDE DEF mid
  <2>3. HalvesAt(t, g, a, v, sep, b, mid, Len(Ks(t.mem, a)) - mid)
    <3>1. mid < Len(Ks(t.mem, a)) /\ mid \in Nat /\ 0 < mid
      BY <1>1, <2>1 DEF l
    <3> QED BY <1>2, <1>3, <3>1, LeafHalved
  <2> HIDE DEF v, sep
  <2>4. /\ MinKeys(t) <= Len(Ks(v.mem, a)) /\ Len(Ks(v.mem, a)) < t.order
        /\ MinKeys(t) <= Len(Ks(v.mem, b)) /\ Len(Ks(v.mem, b)) < t.order
    BY <1>1, <2>1, <2>3 DEF l, ord, MinKeys, HalvesAt
  <2>5. SplitsInto(t, g, a, v, sep, b)
    BY <2>2, <2>3, <2>4 DEF SplitsInto, HalvesAt
  <2> QED BY <2>5
<1>4. CASE ~ Leaf(t.mem, a)
  <2> DEFINE mid == ord \div 2
             v == InnerHalf(t, a, mid, b)
             sep == t.mem[a].keys[mid + 1]
  <2>1. mid \in Nat /\ mid < ord /\ (ord - 1) \div 2 <= mid
        /\ ord - mid - 1 < ord /\ (ord - 1) \div 2 <= ord - mid - 1
    BY <1>1
  <2>2. Split(t, a) = InsertIntoParent(v, a, sep, b)
    <3>1. Split(t, a) = SplitInternal(t, a)
      BY <1>4 DEF Split, Leaf
    <3>2. SplitInternal(t, a) = InsertIntoParent(v, a, sep, b)
      BY SplitInternalIs DEF b, ord
    <3> QED BY <3>1, <3>2
  <2> HIDE DEF mid
  <2>3. HalvesAt(t, g, a, v, sep, b, mid, Len(Ks(t.mem, a)) - mid - 1)
    <3>1. mid < Len(Ks(t.mem, a)) /\ mid \in Nat
      BY <1>1, <2>1 DEF l
    <3> QED BY <1>2, <1>4, <3>1, InnerHalved
  <2> HIDE DEF v, sep
  <2>4. /\ MinKeys(t) <= Len(Ks(v.mem, a)) /\ Len(Ks(v.mem, a)) < t.order
        /\ MinKeys(t) <= Len(Ks(v.mem, b)) /\ Len(Ks(v.mem, b)) < t.order
    BY <1>1, <2>1, <2>3 DEF l, ord, MinKeys, HalvesAt
  <2>5. SplitsInto(t, g, a, v, sep, b)
    BY <2>2, <2>3, <2>4 DEF SplitsInto, HalvesAt
  <2> QED BY <2>5
<1> QED BY <1>3, <1>4

\* What one split does to the tree: the places g2 are those of the new tree, and
\* p is the node that the loop looks at next.
SplitMakes(t, g, a, w, g2, p) ==
  /\ IsTree(w) /\ w.order = t.order /\ w.count = t.count
  /\ Shape(w.mem, w.root, g2) /\ SameEntries(t.mem, w.mem)
  /\ p = w.mem[a].parent /\ p \in DOMAIN w.mem /\ Growing(w, p)
  /\ NotOver(w, p) \/ (Ht(g2, p) = Ht(g, a) + 1 /\ Ht(g2, w.root) = Ht(g, t.root))

\* A split below the root makes what it should: the loop can go on at the parent.
LEMMA SplitBelow ==
  ASSUME NEW t, IsTree(t), NEW g, Shape(t.mem, t.root, g), NEW a \in DOMAIN t.mem, a # t.root,
         t.order >= 3, Len(Ks(t.mem, a)) = t.order, Growing(t, a),
         NEW v, NEW sep, NEW b, SplitsInto(t, g, a, v, sep, b)
  PROVE  \E g2, p : SplitMakes(t, g, a, Split(t, a), g2, p)
<1> DEFINE m == t.mem
           D == DOMAIN m
           p == Up(m, a)
           w == Split(t, a)
           g2 == DividedPlaces(g, D, a, b, sep)
<1>1. /\ w = InsertIntoParent(v, a, sep, b)
      /\ IsTree(v) /\ SameMembers(t, v)
      /\ sep \in Keys /\ Lo(g, a) < sep /\ sep < Hi(g, a)
      /\ Halved(t.mem, v.mem, a, b, sep)
      /\ MinKeys(t) <= Len(Ks(v.mem, a)) /\ Len(Ks(v.mem, a)) < t.order
      /\ MinKeys(t) <= Len(Ks(v.mem, b)) /\ Len(Ks(v.mem, b)) < t.order
  BY DEF SplitsInto
<1> HIDE DEF w
<1>2. /\ p \in D /\ p # a /\ ~ Leaf(m, p)
      /\ \E i \in 1..Len(Ps(m, p)) : Ps(m, p)[i] = a
  BY ParentFacts
<1>3. PICK i \in 1..Len(Ps(m, p)) : Ps(m, p)[i] = a
  BY <1>2
<1>4. /\ IsTree(w) /\ SameMembers(v, w)
      /\ Divides(m, w.mem, a, b, Up(m, a), i, sep)
      /\ Ks(w.mem, a) = Ks(v.mem, a) /\ Ks(w.mem, b) = Ks(v.mem, b)
  <2>1. v.root = t.root
    BY <1>1 DEF SameMembers
  <2>2. LET w2 == InsertIntoParent(v, a, sep, b)
        IN  /\ IsTree(w2) /\ SameMembers(v, w2)
            /\ Divides(m, w2.mem, a, b, Up(m, a), i, sep)
            /\ Ks(w2.mem, a) = Ks(v.mem, a) /\ Ks(w2.mem, b) = Ks(v.mem, b)
    BY <1>1, <1>3, <2>1, InsertBelow
  <2> QED BY <1>1, <2>2
<1>5. w.root = t.root /\ w.order = t.order /\ w.count = t.count
  BY <1>1, <1>4 DEF SameMembers
<1>6. Shape(w.mem, t.root, g2) /\ SameEntries(m, w.mem)
  BY <1>1, <1>3, <1>4, DivideKeepsShape
<1>7. PlacesDivided(g, g2, D, a, b, sep)
  <2>1. g \in [D -> Place] /\ b \notin D /\ sep \in Int
    BY <1>1, <1>4, KeysAreInts DEF Shape, Typed, Divides
  <2> QED BY <2>1, DividedPlaceFacts
<1> HIDE DEF g2
<1>8. Ht(g2, p) = Ht(g, a) + 1 /\ Ht(g2, t.root) = Ht(g, t.root)
  <2>1. Ht(g, p) = Ht(g, a) + 1
    BY <1>2, <1>3, ChildFacts
  <2>2. t.root \in D \ {a} /\ p \in D \ {a}
    BY <1>2 DEF Shape, Rooted
  <2> HIDE DEF D, m, p
  <2> QED BY <1>7, <2>1, <2>2 DEF PlacesDivided
<1>9. /\ b \notin D /\ DOMAIN w.mem = D \cup {b}
      /\ \A c \in D \ {a, p} : Ks(w.mem, c) = Ks(m, c)
      /\ PutAt(Ks(w.mem, p), Ks(m, p), i, sep)
      /\ Joined(Ps(m, a), Ps(w.mem, a), Ps(w.mem, b))
      /\ Up(w.mem, a) = IF ~ Leaf(m, a) /\ a \in Elems(Ps(w.mem, b)) THEN b ELSE p
  BY <1>4 DEF Divides
<1>10. Up(w.mem, a) = p
  <2>1. Elems(Ps(w.mem, b)) \subseteq Elems(Ps(m, a))
    BY <1>9 DEF Joined
  <2>2. ~ Leaf(m, a) => a \notin Elems(Ps(m, a))
    BY NotOwnChild
  <2> QED BY <1>9, <2>1, <2>2
<1>11. Len(Ks(w.mem, p)) = Len(Ks(m, p)) + 1
  BY <1>9 DEF PutAt
<1>12. Len(Ks(m, p)) \in Nat /\ t.order \in Nat
  BY <1>2, ChildFacts DEF IsTree
<1>13. MinKeys(w) = MinKeys(t) /\ MinKeys(t) \in Int
  BY <1>5, <1>12 DEF MinKeys
<1>14. Growing(w, p)
  <2>1. \A c \in D : NotUnder(t, c) /\ (c # a => NotOver(t, c))
    BY DEF Growing
  <2>2. t.root # b
    BY <1>9 DEF Shape, Rooted
  <2> HIDE DEF p, D
  <2>3. NotUnder(w, a) /\ NotOver(w, a)
    BY <1>1, <1>4, <1>5, <1>13 DEF NotUnder, NotOver
  <2>4. NotUnder(w, b) /\ NotOver(w, b)
    BY <1>1, <1>4, <1>5, <1>13, <2>2 DEF NotUnder, NotOver
  <2>5. NotUnder(w, p) /\ Len(Ks(w.mem, p)) <= w.order
    <3>1. NotUnder(t, p) /\ NotOver(t, p)
      BY <1>2, <2>1
    <3> QED BY <1>5, <1>11, <1>12, <1>13, <3>1 DEF NotUnder, NotOver
  <2>6. \A c \in D \ {a, p} : NotUnder(w, c) /\ NotOver(w, c)
    BY <1>5, <1>9, <1>13, <2>1 DEF NotUnder, NotOver
  <2> QED BY <1>9, <2>3, <2>4, <2>5, <2>6 DEF Growing
<1>15. SplitMakes(t, g, a, w, g2, p)
  <2>1. p = w.mem[a].parent /\ p \in DOMAIN w.mem
    BY <1>2, <1>9, <1>10 DEF Up
  <2> HIDE DEF p
  <2> QED BY <1>4, <1>5, <1>6, <1>8, <1>14, <2>1 DEF SplitMakes
<1> QED BY <1>15 DEF w

\* A new root changes the place of no other node.
LEMMA RootedPlaceFacts ==
  ASSUME NEW g, NEW D, NEW a \in D, NEW r, r \notin D
  PROVE  LET g1 == RootedPlaces(g, D, a, r)
         IN  \A c \in D : Ht(g1, c) = Ht(g, c) /\ Lo(g1, c) = Lo(g, c) /\ Hi(g1, c) = Hi(g, c)
BY DEF RootedPlaces, Ht, Lo, Hi

\* A split of the root makes what it should.
LEMMA SplitAbove ==
  ASSUME NEW t, IsTree(t), NEW g, Shape(t.mem, t.root, g),
         t.order >= 3, Growing(t, t.root),
         NEW v, NEW sep, NEW b, SplitsInto(t, g, t.root, v, sep, b)
  PROVE  \E g2, p : SplitMakes(t, g, t.root, Split(t, t.root), g2, p)
<1> DEFINE m == t.mem
           a == t.root
           D == DOMAIN m
           w == Split(t, a)
           r == NewAddress(v)
           m1 == UnderRoot(m, a, r)
           g1 == RootedPlaces(g, D, a, r)
           g2 == DividedPlaces(g1, DOMAIN m1, a, b, sep)
<1>1. /\ w = InsertIntoParent(v, a, sep, b)
      /\ IsTree(v) /\ SameMembers(t, v)
      /\ sep \in Keys /\ Lo(g, a) < sep /\ sep < Hi(g, a)
      /\ Halved(t.mem, v.mem, a, b, sep)
      /\ MinKeys(t) <= Len(Ks(v.mem, a)) /\ Len(Ks(v.mem, a)) < t.order
      /\ MinKeys(t) <= Len(Ks(v.mem, b)) /\ Len(Ks(v.mem, b)) < t.order
  BY DEF SplitsInto
<1> HIDE DEF w
<1>2. Shape(m, a, g) /\ a \in D
  BY DEF Shape, Rooted
<1>3. v.root = a /\ v.order = t.order /\ v.count = t.count
  BY <1>1 DEF SameMembers
<1>4. /\ IsTree(w) /\ w.root = r /\ w.order = v.order /\ w.count = v.count
      /\ Roots(m, m1, a, r) /\ Divides(m1, w.mem, a, b, r, 1, sep)
      /\ Ks(w.mem, a) = Ks(v.mem, a) /\ Ks(w.mem, b) = Ks(v.mem, b)
  <2> HIDE DEF m, a, r, m1
  <2>1. LET w2 == InsertIntoParent(v, a, sep, b)
            r2 == NewAddress(v)
            n1 == UnderRoot(m, a, r2)
        IN  /\ IsTree(w2) /\ w2.root = r2 /\ w2.order = v.order /\ w2.count = v.count
            /\ Roots(m, n1, a, r2) /\ Divides(n1, w2.mem, a, b, r2, 1, sep)
            /\ Ks(w2.mem, a) = Ks(v.mem, a) /\ Ks(w2.mem, b) = Ks(v.mem, b)
    BY <1>1, <1>2, <1>3, InsertAbove DEF m
  <2> QED BY <1>1, <2>1 DEF r, m1
<1> HIDE DEF m1, r
<1>5. Shape(m1, r, g1) /\ SameEntries(m, m1)
  BY <1>2, <1>4, RootKeepsShape
<1>6. /\ DOMAIN m1 = D \cup {r} /\ r \notin D /\ r # Null
      /\ \A c \in D : Ks(m1, c) = Ks(m, c)
      /\ Up(m1, a) = r /\ Ks(m1, r) = <<>> /\ Ps(m1, r) = <<a>>
      /\ \A c \in D : Leaf(m1, c) = Leaf(m, c)
  BY <1>2, <1>4 DEF Roots, SameNodes
<1>7. Lo(g1, a) = Lo(g, a) /\ Hi(g1, a) = Hi(g, a)
  BY <1>2, <1>6, RootedPlaceFacts
<1> HIDE DEF g1, a, m
<1>8. Shape(w.mem, r, g2) /\ SameEntries(m1, w.mem)
  <2>1. 1 \in 1..Len(Ps(m1, Up(m1, a))) /\ Ps(m1, Up(m1, a))[1] = a
    BY <1>6
  <2>2. Lo(g1, a) < sep /\ sep < Hi(g1, a) /\ a \in DOMAIN m1 /\ a # r
    BY <1>1, <1>2, <1>6, <1>7
  <2>3. Divides(m1, w.mem, a, b, Up(m1, a), 1, sep)
    BY <1>4, <1>6
  <2> QED BY <1>1, <1>5, <2>1, <2>2, <2>3, DivideKeepsShape
<1>9. SameEntries(m, w.mem)
  BY <1>5, <1>8 DEF SameEntries
<1> HIDE DEF g2
<1>10. /\ DOMAIN w.mem = (D \cup {r}) \cup {b} /\ b \notin D \cup {r}
       /\ \A c \in D \ {a} : Ks(w.mem, c) = Ks(m, c)
       /\ PutAt(Ks(w.mem, r), <<>>, 1, sep)
       /\ Joined(Ps(m1, a), Ps(w.mem, a), Ps(w.mem, b))
       /\ Up(w.mem, a) = IF ~ Leaf(m1, a) /\ a \in Elems(Ps(w.mem, b)) THEN b ELSE r
  <2>1. /\ w.mem \in [DOMAIN m1 \cup {b} -> NodeSet] /\ b \notin DOMAIN m1
        /\ \A c \in DOMAIN m1 \ {a, r} : Ks(w.mem, c) = Ks(m1, c)
        /\ PutAt(Ks(w.mem, r), Ks(m1, r), 1, sep)
        /\ Joined(Ps(m1, a), Ps(w.mem, a), Ps(w.mem, b))
        /\ \A c \in DOMAIN m1 : Up(w.mem, c) = IF ~ Leaf(m1, a) /\ c \in Elems(Ps(w.mem, b)) THEN b ELSE Up(m1, c)
    BY <1>4 DEF Divides
  <2> HIDE DEF D
  <2> QED BY <1>2, <1>6, <2>1
<1>11. Up(w.mem, a) = r
  <2>1. Elems(Ps(w.mem, b)) \subseteq Elems(Ps(m1, a))
    BY <1>10 DEF Joined
  <2>2. a \in DOMAIN m1
    BY <1>2, <1>6
  <2>3. ~ Leaf(m1, a) => a \notin Elems(Ps(m1, a))
    BY <1>5, <2>2, NotOwnChild
  <2> QED BY <1>10, <2>1, <2>3
<1>12. Up(w.mem, r) = Null
  BY <1>8 DEF Shape, Rooted
<1>13. Len(Ks(w.mem, r)) = 1
  <2>1. Len(<<>>) = 0
    OBVIOUS
  <2> QED BY <1>10, <2>1 DEF PutAt
<1>14. t.order \in Nat
  BY DEF IsTree
<1>15. MinKeys(w) = MinKeys(t) /\ w.order = t.order
  BY <1>3, <1>4 DEF MinKeys
<1>16. Growing(w, r) /\ NotOver(w, r)
  <2>1. \A c \in D : NotUnder(t, c) /\ (c # a => NotOver(t, c))
    BY DEF Growing, a, m
  <2>2. a # r /\ b # r /\ w.root = r /\ a = t.root
    BY <1>2, <1>4, <1>6, <1>10 DEF a
  <2>3. NotUnder(w, a) /\ NotOver(w, a)
    BY <1>1, <1>4, <1>15, <2>2 DEF NotUnder, NotOver
  <2>4. NotUnder(w, b) /\ NotOver(w, b)
    BY <1>1, <1>4, <1>15, <2>2 DEF NotUnder, NotOver
  <2>5. NotUnder(w, r) /\ NotOver(w, r) /\ Len(Ks(w.mem, r)) <= w.order
    BY <1>13, <1>14, <1>15, <2>2 DEF NotUnder, NotOver
  <2>6. \A c \in D \ {a} : NotUnder(w, c) /\ NotOver(w, c)
    BY <1>6, <1>10, <1>15, <2>1, <2>2 DEF NotUnder, NotOver, m
  <2> HIDE DEF D
  <2> QED BY <1>10, <2>3, <2>4, <2>5, <2>6 DEF Growing
<1>17. SplitMakes(t, g, a, w, g2, r)
  <2>1. r = w.mem[a].parent /\ r \in DOMAIN w.mem
    BY <1>10, <1>11 DEF Up
  <2>2. SameEntries(t.mem, w.mem)
    BY <1>9 DEF m
  <2> QED BY <1>3, <1>4, <1>8, <1>16, <2>1, <2>2 DEF SplitMakes
<1> QED BY <1>17 DEF w, a

\* Every split makes what it should.
LEMMA SplitOnce ==
  ASSUME NEW t, IsTree(t), NEW g, Shape(t.mem, t.root, g), NEW a \in DOMAIN t.mem,
         t.order >= 3, Growing(t, a), Overfull(t, a)
  PROVE  \E g2, p : SplitMakes(t, g, a, Split(t, a), g2, p)
<1>1. Len(Ks(t.mem, a)) = t.order
  <2>1. Len(Ks(t.mem, a)) \in Nat /\ t.order \in Nat
    BY NodeTypes, LenProperties DEF Shape, IsTree
  <2> QED BY <2>1 DEF Overfull, Growing, Ks
<1>2. PICK v, sep, b : SplitsInto(t, g, a, v, sep, b)
  BY <1>1, SplitInto
<1>3. CASE a = t.root
  BY <1>2, <1>3, SplitAbove
<1>4. CASE a # t.root
  BY <1>1, <1>2, <1>4, SplitBelow
<1> QED BY <1>3, <1>4

-----------------------------------------------------------------------------
(* The loop of splits                                                      *)

TreeSet == [order : Nat, root : Nat, count : Int, mem : UNION {[S -> NodeSet] : S \in SUBSET Nat}]

\* Trees are records of the right type.
LEMMA TreeInSet ==
  ASSUME NEW t, IsTree(t), DOMAIN t.mem \subseteq Nat
  PROVE  t \in TreeSet
<1>1. t.mem \in UNION {[S -> NodeSet] : S \in SUBSET Nat}
  BY DEF IsTree
<1>2. t \in [order : Nat, root : Nat, count : Int, mem : {t.mem}]
  BY DEF IsTree
<1> QED BY <1>1, <1>2 DEF TreeSet

SplitStep(s) ==
  IF Overfull(s.tree, s.at)
  THEN [tree |-> Split(s.tree, s.at), at |-> Split(s.tree, s.at).mem[s.at].parent]
  ELSE s

GrowsFrom(t, u, b) ==
  /\ IsTree(u) /\ u.order = t.order /\ u.count = t.count
  /\ SameEntries(t.mem, u.mem) /\ b \in DOMAIN u.mem /\ Growing(u, b)
  /\ \E g : Shape(u.mem, u.root, g)

GrowStates(t) == {s \in [tree : TreeSet, at : Nat] : GrowsFrom(t, s.tree, s.at)}

\* The height of the node that the loop looks at
GrowHeight(u, b, i, h) ==
  \E g : /\ Shape(u.mem, u.root, g)
         /\ NotOver(u, b) \/ (Ht(g, b) = i /\ Ht(g, u.root) = h)

\* The states of the loop of splits, made
LEMMA GrowStatesFacts ==
  ASSUME NEW t, NEW u, NEW b, GrowsFrom(t, u, b)
  PROVE  [tree |-> u, at |-> b] \in GrowStates(t)
<1>1. DOMAIN u.mem \subseteq Nat /\ b \in Nat
  BY DEF GrowsFrom, Shape, Typed
<1>2. u \in TreeSet
  BY <1>1, TreeInSet DEF GrowsFrom
<1> DEFINE s == [tree |-> u, at |-> b]
<1>3. s \in [tree : TreeSet, at : Nat] /\ s.tree = u /\ s.at = b
  BY <1>1, <1>2
<1> HIDE DEF s
<1>4. s \in GrowStates(t)
  BY <1>3 DEF GrowStates
<1> QED BY <1>4 DEF s

\* The states of the loop of splits, taken apart
LEMMA GrowStatesHave ==
  ASSUME NEW t, NEW s \in GrowStates(t)
  PROVE  s = [tree |-> s.tree, at |-> s.at] /\ GrowsFrom(t, s.tree, s.at)
BY DEF GrowStates

\* One iteration keeps to those states, and climbs while nodes are overfull.
LEMMA SplitStepFacts ==
  ASSUME NEW t, t.order >= 3, NEW s \in GrowStates(t)
  PROVE  /\ SplitStep(s) \in GrowStates(t)
         /\ \A i, h : GrowHeight(s.tree, s.at, i, h) =>
              GrowHeight(SplitStep(s).tree, SplitStep(s).at, i + 1, h)
<1> DEFINE u == s.tree
           b == s.at
           w == Split(u, b)
           z == SplitStep(s)
<1>1. GrowsFrom(t, u, b)
  BY GrowStatesHave
<1>2. /\ IsTree(u) /\ u.order = t.order /\ u.count = t.count
      /\ SameEntries(t.mem, u.mem) /\ b \in DOMAIN u.mem /\ Growing(u, b)
  BY <1>1 DEF GrowsFrom
<1>3. u.order >= 3
  BY <1>2
<1> HIDE DEF u, b, w, z
<1>4. CASE ~ Overfull(u, b)
  <2>1. z = s
    BY <1>4 DEF z, SplitStep, u, b
  <2>2. NotOver(u, b)
    <3>1. Len(u.mem[b].keys) \in Nat /\ u.order \in Nat
      <4>1. u.mem[b] \in NodeSet
        BY <1>2 DEF IsTree
      <4>2. u.mem[b].keys \in Seq(Keys)
        BY <4>1, NodeAs
      <4> QED BY <1>2, <4>2, LenProperties DEF IsTree
    <3> QED BY <1>4, <3>1 DEF Overfull, NotOver, Ks
  <2>3. \A i, h : GrowHeight(u, b, i, h) => GrowHeight(u, b, i + 1, h)
    BY <2>2 DEF GrowHeight
  <2> QED BY <2>1, <2>3 DEF z, u, b
<1>5. CASE Overfull(u, b)
  <2>1. \A g : Shape(u.mem, u.root, g) => \E g2, p : SplitMakes(u, g, b, w, g2, p)
    BY <1>2, <1>3, <1>5, SplitOnce DEF w
  <2>2. z = [tree |-> w, at |-> w.mem[b].parent]
    BY <1>5 DEF z, SplitStep, u, b, w
  <2>3. z.tree = w /\ z.at = w.mem[b].parent
    BY <2>2
  <2>4. \A g, g2, p : SplitMakes(u, g, b, w, g2, p) =>
          p = w.mem[b].parent /\ GrowsFrom(t, w, p) /\ Shape(w.mem, w.root, g2)
    <3> SUFFICES ASSUME NEW g, NEW g2, NEW p, SplitMakes(u, g, b, w, g2, p)
                 PROVE  p = w.mem[b].parent /\ GrowsFrom(t, w, p) /\ Shape(w.mem, w.root, g2)
      OBVIOUS
    <3>1. /\ IsTree(w) /\ w.order = u.order /\ w.count = u.count
          /\ Shape(w.mem, w.root, g2) /\ SameEntries(u.mem, w.mem)
          /\ p = w.mem[b].parent /\ p \in DOMAIN w.mem /\ Growing(w, p)
      BY DEF SplitMakes
    <3>2. SameEntries(t.mem, w.mem)
      BY <1>2, <3>1 DEF SameEntries
    <3> QED BY <1>2, <3>1, <3>2 DEF GrowsFrom
  <2>5. \E g : Shape(u.mem, u.root, g)
    BY <1>1 DEF GrowsFrom
  <2>6. GrowsFrom(t, w, z.at)
    BY <2>1, <2>3, <2>4, <2>5
  <2>7. z \in GrowStates(t)
    <3>1. [tree |-> w, at |-> z.at] \in GrowStates(t)
      BY <2>6, GrowStatesFacts
    <3> QED BY <2>2, <2>3, <3>1
  <2>8. \A i, h : GrowHeight(u, b, i, h) => GrowHeight(w, z.at, i + 1, h)
    <3> SUFFICES ASSUME NEW i, NEW h, GrowHeight(u, b, i, h) PROVE GrowHeight(w, z.at, i + 1, h)
      OBVIOUS
    <3>1. PICK g : /\ Shape(u.mem, u.root, g)
                   /\ NotOver(u, b) \/ (Ht(g, b) = i /\ Ht(g, u.root) = h)
      BY DEF GrowHeight
    <3>2. ~ NotOver(u, b)
      <4>1. Len(u.mem[b].keys) \in Nat /\ u.order \in Nat
        <5>1. u.mem[b] \in NodeSet
          BY <1>2 DEF IsTree
        <5>2. u.mem[b].keys \in Seq(Keys)
          BY <5>1, NodeAs
        <5> QED BY <1>2, <5>2, LenProperties DEF IsTree
      <4> QED BY <1>5, <4>1 DEF Overfull, NotOver, Ks
    <3>3. PICK g2, p : SplitMakes(u, g, b, w, g2, p)
      BY <2>1, <3>1
    <3>4. p = z.at /\ Shape(w.mem, w.root, g2)
      BY <2>3, <2>4, <3>3
    <3>5. NotOver(w, p) \/ (Ht(g2, p) = Ht(g, b) + 1 /\ Ht(g2, w.root) = Ht(g, u.root))
      BY <3>3 DEF SplitMakes
    <3> QED BY <3>1, <3>2, <3>4, <3>5 DEF GrowHeight
  <2> QED BY <2>3, <2>7, <2>8 DEF z, u, b
<1> QED BY <1>4, <1>5

\* What the loop makes of a tree in which the leaf a may be overfull
Grown(t, w) ==
  /\ IsTree(w) /\ w.order = t.order /\ w.count = t.count
  /\ SameEntries(t.mem, w.mem) /\ \E g : Shape(w.mem, w.root, g)
  /\ \A c \in DOMAIN w.mem : NotUnder(w, c) /\ NotOver(w, c)

\* The loop's states: those of the steps from [tree |-> t, at |-> a]
LEMMA SplitUpSteps ==
  ASSUME NEW t, t.order >= 3, NEW a, GrowsFrom(t, t, a), NEW n \in Nat, n = Cardinality(DOMAIN t.mem)
  PROVE  \E f : /\ f \in [0..n -> GrowStates(t)] /\ f[0] = [tree |-> t, at |-> a]
                /\ \A i \in 1..n : f[i] = SplitStep(f[i - 1])
                /\ SplitUp(t, a) = f[n].tree
<1> DEFINE X == GrowStates(t)
           step == [s \in X |-> SplitStep(s)]
           base == [tree |-> t, at |-> a]
           Run(r) == r = [i \in 0..n |-> IF i = 0 THEN base ELSE SplitStep(r[i - 1])]
           run == CHOOSE r : Run(r)
<1>1. step \in [X -> X] /\ \A s \in X : step[s] = SplitStep(s)
  BY SplitStepFacts
<1>2. base \in X
  BY GrowStatesFacts
<1>3. SplitUp(t, a) = run[n].tree
  BY DEF SplitUp, SplitStep, Split
<1> HIDE DEF X, step, base
<1>4. PICK f : StepsTo(f, X, step, base, n)
  BY <1>1, <1>2, AfterSteps
<1>5. f \in [0..n -> X] /\ f[0] = base /\ \A i \in 1..n : f[i] = step[f[i - 1]]
  BY <1>4 DEF StepsTo
<1>6. \A i \in 1..n : f[i] = SplitStep(f[i - 1])
  <2> SUFFICES ASSUME NEW i \in 1..n PROVE f[i] = SplitStep(f[i - 1])
    OBVIOUS
  <2>1. i - 1 \in 0..n
    OBVIOUS
  <2>2. f[i - 1] \in X
    BY <1>5, <2>1
  <2> QED BY <1>1, <1>5, <2>2
<1>7. Run(f)
  <2>1. \A i \in 0..n : i # 0 => i \in 1..n
    OBVIOUS
  <2>2. \A i \in 0..n : f[i] = IF i = 0 THEN base ELSE SplitStep(f[i - 1])
    BY <1>5, <1>6, <2>1
  <2> QED BY <1>5, <2>2
<1>8. Run(run)
  <2> HIDE DEF Run
  <2> QED BY <1>7
<1>9. \A i \in 0..n : run[i] = f[i]
  <2> DEFINE T == {i \in 0..n : run[i] # f[i]}
  <2> SUFFICES ASSUME T # {} PROVE FALSE
    OBVIOUS
  <2> HIDE DEF run
  <2>1. T \subseteq Nat
    OBVIOUS
  <2>2. PICK i \in T : \A j \in T : i <= j
    BY <2>1, LeastNat
  <2>3. run[i] = IF i = 0 THEN base ELSE SplitStep(run[i - 1])
    BY <1>8
  <2>4. i # 0
    BY <1>5, <2>3
  <2>5. i \in 1..n /\ i - 1 \in 0..n /\ ~ (i <= i - 1)
    BY <2>4
  <2>6. i - 1 \notin T
    <3> HIDE DEF T
    <3> QED BY <2>2, <2>5
  <2>7. run[i - 1] = f[i - 1]
    BY <2>5, <2>6
  <2>8. run[i] = f[i]
    BY <1>6, <2>3, <2>4, <2>5, <2>7
  <2> QED BY <2>8
<1>10. SplitUp(t, a) = f[n].tree
  <2>1. n \in 0..n
    OBVIOUS
  <2> HIDE DEF run
  <2> QED BY <1>3, <1>9, <2>1
<1> QED BY <1>5, <1>6, <1>10 DEF X, base

\* The loop of splits ends with no node too full.
LEMMA SplitUpFacts ==
  ASSUME NEW t, t.order >= 3, NEW a, IsTree(t), NEW g, Shape(t.mem, t.root, g),
         a \in DOMAIN t.mem, Leaf(t.mem, a), Growing(t, a)
  PROVE  Grown(t, SplitUp(t, a))
<1> DEFINE n == Cardinality(DOMAIN t.mem)
           H == Ht(g, t.root)
<1>1. H \in Nat /\ n \in Nat /\ H < n
  BY HeightBound
<1>2. GrowsFrom(t, t, a)
  BY DEF GrowsFrom, SameEntries
<1>3. PICK f : /\ f \in [0..n -> GrowStates(t)] /\ f[0] = [tree |-> t, at |-> a]
               /\ \A i \in 1..n : f[i] = SplitStep(f[i - 1])
               /\ SplitUp(t, a) = f[n].tree
  BY <1>1, <1>2, SplitUpSteps
<1>4. GrowHeight(t, a, 0, H)
  <2>1. Ht(g, a) = 0
    BY DEF Shape, Fits
  <2> QED BY <2>1 DEF GrowHeight
<1> HIDE DEF n, H
<1> DEFINE At(i) == GrowHeight(f[i].tree, f[i].at, i, H)
<1>5. \A i \in 0..n : At(i)
  <2> DEFINE T == {i \in 0..n : ~ At(i)}
  <2> SUFFICES ASSUME T # {} PROVE FALSE
    OBVIOUS
  <2>1. T \subseteq Nat
    BY <1>1
  <2> HIDE DEF At
  <2>2. PICK i \in T : \A j \in T : i <= j
    BY <2>1, LeastNat
  <2>3. At(0)
    BY <1>3, <1>4 DEF At
  <2>4. i # 0
    BY <2>2, <2>3
  <2>5. i \in 1..n /\ i - 1 \in 0..n /\ ~ (i <= i - 1) /\ (i - 1) + 1 = i
    BY <1>1, <2>4
  <2>6. i - 1 \notin T
    <3> HIDE DEF T
    <3> QED BY <2>2, <2>5
  <2>7. At(i - 1)
    BY <2>5, <2>6
  <2> DEFINE s == f[i - 1]
             j == i - 1
  <2>8. s \in GrowStates(t) /\ f[i] = SplitStep(s)
    BY <1>3, <2>5
  <2>9. GrowHeight(s.tree, s.at, j, H)
    BY <2>7 DEF At
  <2>10. j + 1 = i
    BY <2>5
  <2> HIDE DEF s, j
  <2>11. GrowHeight(SplitStep(s).tree, SplitStep(s).at, j + 1, H)
    BY <2>8, <2>9, SplitStepFacts
  <2>12. At(i)
    BY <2>8, <2>10, <2>11 DEF At
  <2> QED BY <2>2, <2>12
<1> DEFINE w == f[n].tree
           b == f[n].at
<1>6. GrowHeight(w, b, n, H) /\ GrowsFrom(t, w, b)
  <2>1. n \in 0..n
    BY <1>1
  <2>2. f[n] \in GrowStates(t)
    BY <1>3, <2>1
  <2> QED BY <1>5, <2>1, <2>2, GrowStatesHave
<1>7. SplitUp(t, a) = w
  BY <1>3
<1> HIDE DEF w, b
<1>8. NotOver(w, b)
  <2> SUFFICES ASSUME ~ NotOver(w, b) PROVE FALSE
    OBVIOUS
  <2>1. PICK g2 : Shape(w.mem, w.root, g2) /\ Ht(g2, b) = n /\ Ht(g2, w.root) = H
    BY <1>6 DEF GrowHeight
  <2>2. b \in DOMAIN w.mem
    BY <1>6 DEF GrowsFrom
  <2>3. b = w.root \/ Ht(g2, b) < Ht(g2, w.root)
    BY <2>1, <2>2 DEF Shape, Rooted
  <2> QED BY <1>1, <2>1, <2>3
<1>9. Grown(t, w)
  BY <1>6, <1>8 DEF Grown, GrowsFrom, Growing
<1> QED BY <1>7, <1>9

-----------------------------------------------------------------------------
(* The leaf of an insertion or a removal                                   *)

\* A leaf with other keys and data, in a tree with another count
LEMMA LeafRewritten ==
  ASSUME NEW t, IsTree(t), NEW a \in DOMAIN t.mem, NEW k \in Seq(Keys), NEW q \in Seq(Nat), NEW n \in Int
  PROVE  LET u == [t EXCEPT !.mem[a].keys = k, !.mem[a].ptrs = q, !.count = n]
         IN  /\ IsTree(u) /\ u.order = t.order /\ u.root = t.root /\ u.count = n
             /\ NodePut(t.mem, u.mem, a, k, q, Nx(t.mem, a))
<1> DEFINE u == [t EXCEPT !.mem[a].keys = k, !.mem[a].ptrs = q, !.count = n]
           o == t.mem[a]
           r == u.mem[a]
           m == t.mem
           m2 == u.mem
<1>1. /\ DOMAIN m2 = DOMAIN m /\ m2 = [c \in DOMAIN m |-> m2[c]]
      /\ m2[a] = [m[a] EXCEPT !.keys = k, !.ptrs = q]
      /\ \A c \in DOMAIN m \ {a} : m2[c] = m[c]
      /\ u.order = t.order /\ u.root = t.root /\ u.count = n
      /\ u \in [order : Nat, root : Nat, count : Int, mem : {u.mem}]
  BY DEF IsTree, NodeSet
<1>2. \A c \in DOMAIN m : m[c] \in NodeSet
  BY DEF IsTree
<1>3. o \in NodeSet /\ r = [o EXCEPT !.keys = k, !.ptrs = q]
  BY <1>1, <1>2
<1> HIDE DEF o, r
<1>4. /\ r \in NodeSet /\ r.keys = k /\ r.ptrs = q /\ r.leaf = o.leaf
      /\ r.next = o.next /\ r.prev = o.prev /\ r.parent = o.parent
  BY <1>3 DEF NodeSet
<1>5. r = m2[a] /\ o = m[a]
  BY DEF o, r
<1> HIDE DEF u, m
<1>6. \A c \in DOMAIN m2 : m2[c] \in NodeSet
  BY <1>1, <1>2, <1>4, <1>5
<1>7. m2 \in [DOMAIN m2 -> NodeSet]
  BY <1>1, <1>6
<1>8. IsTree(u)
  BY <1>1, <1>7 DEF IsTree
<1>9. NodePut(m, m2, a, k, q, Nx(m, a))
  BY <1>1, <1>4, <1>5 DEF NodePut, Leaf, Ks, Ps, Nx, Pv, Up
<1> QED BY <1>1, <1>8, <1>9 DEF u, m

\* A leaf that gets other keys and data is refilled.
LEMMA PutRefills ==
  ASSUME NEW m, NEW m2, m2 \in [DOMAIN m2 -> NodeSet], NEW a \in DOMAIN m, Leaf(m, a), NEW k, NEW q,
         NodePut(m, m2, a, k, q, Nx(m, a))
  PROVE  Refills(m, m2, a)
<1>1. /\ DOMAIN m2 = DOMAIN m /\ \A c \in DOMAIN m \ {a} : m2[c] = m[c]
      /\ Leaf(m2, a) = Leaf(m, a) /\ Nx(m2, a) = Nx(m, a) /\ Pv(m2, a) = Pv(m, a) /\ Up(m2, a) = Up(m, a)
  BY DEF NodePut
<1>2. SameNodes(m, m2, DOMAIN m \ {a})
  BY <1>1 DEF SameNodes, Leaf, Ks, Ps, Nx, Pv
<1>3. \A c \in DOMAIN m : Up(m2, c) = Up(m, c)
  BY <1>1 DEF Up
<1> QED BY <1>1, <1>2, <1>3 DEF Refills

\* Only the leaf in whose range a key is has entries for it.
LEMMA OneLeaf ==
  ASSUME NEW m, NEW root, NEW g, Shape(m, root, g), NEW a \in DOMAIN m, Leaf(m, a),
         NEW x \in Keys, Lo(g, a) <= x, x < Hi(g, a), NEW c \in DOMAIN m \ {a}, Leaf(m, c)
  PROVE  x \notin Elems(Ks(m, c))
<1>1. /\ Lo(g, a) \in Int /\ Hi(g, a) \in Int /\ Lo(g, c) \in Int /\ Hi(g, c) \in Int /\ x \in Int
  BY NodeTypes, KeysAreInts DEF Shape
<1>2. Ht(g, a) = 0 /\ Ht(g, c) = 0
  BY DEF Shape, Fits
<1>3. Hi(g, a) <= Lo(g, c) \/ Hi(g, c) <= Lo(g, a)
  BY <1>2 DEF Shape, Apart
<1>4. \A y \in Elems(Ks(m, c)) : Lo(g, c) <= y /\ y < Hi(g, c)
  BY LeafFacts
<1> QED BY <1>1, <1>3, <1>4

\* An entry is for a key of the node.
LEMMA EntryHasKey ==
  ASSUME NEW k \in Seq(Keys), NEW q, NEW x, NEW d, Entry(k, q, x, d)
  PROVE  x \in Elems(k)
BY ElemsFacts DEF Entry

\* Every key of a node has an entry.
LEMMA KeyHasEntry ==
  ASSUME NEW k \in Seq(Keys), NEW q, NEW x \in Elems(k)
  PROVE  \E d : Entry(k, q, x, d)
<1>1. PICK i \in 1..Len(k) : k[i] = x
  BY ElemsFacts
<1>2. Entry(k, q, x, q[i])
  BY <1>1 DEF Entry
<1> QED BY <1>2

\* What the heap has when the leaf of x gets or loses an entry for x
LEMMA RefilledHas ==
  ASSUME NEW m, NEW root, NEW g, Shape(m, root, g), NEW a \in DOMAIN m, Leaf(m, a),
         NEW x \in Keys, Lo(g, a) <= x, x < Hi(g, a), NEW m2, Refills(m, m2, a)
  PROVE  /\ \A d : (\A y, e : Entry(Ks(m2, a), Ps(m2, a), y, e) <=>
                              Entry(Ks(m, a), Ps(m, a), y, e) \/ (y = x /\ e = d))
              => \A y, e : Has(m2, y, e) <=> Has(m, y, e) \/ (y = x /\ e = d)
         /\ (\A y, e : Entry(Ks(m2, a), Ps(m2, a), y, e) <=> Entry(Ks(m, a), Ps(m, a), y, e) /\ y # x)
              => \A y, e : Has(m2, y, e) <=> Has(m, y, e) /\ y # x
<1> DEFINE D == DOMAIN m
           E(c, y, e) == Leaf(m, c) /\ Entry(Ks(m, c), Ps(m, c), y, e)
           E2(c, y, e) == Leaf(m2, c) /\ Entry(Ks(m2, c), Ps(m2, c), y, e)
<1>1. DOMAIN m2 = D /\ Leaf(m2, a) /\ SameNodes(m, m2, D \ {a})
  BY DEF Refills
<1>2. \A c \in D \ {a} : \A y, e : E2(c, y, e) <=> E(c, y, e)
  BY <1>1 DEF SameNodes
<1>3. \A c \in D \ {a} : \A e : ~ E(c, x, e)
  <2> SUFFICES ASSUME NEW c \in D \ {a}, NEW e, Leaf(m, c), Entry(Ks(m, c), Ps(m, c), x, e) PROVE FALSE
    OBVIOUS
  <2>1. x \notin Elems(Ks(m, c))
    BY OneLeaf
  <2>2. Ks(m, c) \in Seq(Keys)
    BY LeafFacts
  <2> QED BY <2>1, <2>2, EntryHasKey
<1>4. \A y, e : /\ E(a, y, e) <=> Entry(Ks(m, a), Ps(m, a), y, e)
                /\ E2(a, y, e) <=> Entry(Ks(m2, a), Ps(m2, a), y, e)
  BY <1>1
<1>5. \A y, e : /\ Has(m, y, e) <=> \E c \in D : E(c, y, e)
                /\ Has(m2, y, e) <=> \E c \in D : E2(c, y, e)
  BY <1>1 DEF Has
<1>6. a \in D
  OBVIOUS
<1> HIDE DEF E, E2, D
<1>7. ASSUME NEW d, \A y, e : Entry(Ks(m2, a), Ps(m2, a), y, e) <=>
                              Entry(Ks(m, a), Ps(m, a), y, e) \/ (y = x /\ e = d)
      PROVE  \A y, e : Has(m2, y, e) <=> Has(m, y, e) \/ (y = x /\ e = d)
  <2>1. \A y, e : E2(a, y, e) <=> E(a, y, e) \/ (y = x /\ e = d)
    BY <1>4, <1>7
  <2> QED BY <1>2, <1>5, <1>6, <2>1
<1>8. ASSUME \A y, e : Entry(Ks(m2, a), Ps(m2, a), y, e) <=> Entry(Ks(m, a), Ps(m, a), y, e) /\ y # x
      PROVE  \A y, e : Has(m2, y, e) <=> Has(m, y, e) /\ y # x
  <2>1. \A y, e : E2(a, y, e) <=> E(a, y, e) /\ y # x
    BY <1>4, <1>8
  <2> QED BY <1>2, <1>3, <1>5, <1>6, <2>1
<1> QED BY <1>7, <1>8

-----------------------------------------------------------------------------
(* insert                                                                  *)

HasAlso(m, m2, x, d) == \A y, e : Has(m2, y, e) <=> Has(m, y, e) \/ (y = x /\ e = d)

\* What insert does to the leaf, before any split
LEMMA LeafInsertion ==
  ASSUME NEW t, IsTree(t), NEW g, Shape(t.mem, t.root, g),
         \A c \in DOMAIN t.mem : NotUnder(t, c) /\ NotOver(t, c),
         NEW x \in Keys, NEW d \in AllData, \A e : ~ Has(t.mem, x, e)
  PROVE  LET a == FindLeaf(t, x)
             i == LowerBound(t.mem[a].keys, x) + 1
             u == [t EXCEPT !.mem[a].keys = SE!InsertAt(@, i, x),
                            !.mem[a].ptrs = SE!InsertAt(@, i, d),
                            !.count = @ + 1]
         IN  /\ IsTree(u) /\ u.order = t.order /\ u.count = t.count + 1
             /\ Shape(u.mem, u.root, g) /\ HasAlso(t.mem, u.mem, x, d)
             /\ a \in DOMAIN u.mem /\ Leaf(u.mem, a) /\ Growing(u, a)
<1> DEFINE m == t.mem
           a == FindLeaf(t, x)
           i == LowerBound(t.mem[a].keys, x) + 1
           k == Ks(m, a)
           q == Ps(m, a)
           k2 == SE!InsertAt(k, i, x)
           q2 == SE!InsertAt(q, i, d)
           u == [t EXCEPT !.mem[a].keys = SE!InsertAt(@, i, x),
                          !.mem[a].ptrs = SE!InsertAt(@, i, d),
                          !.count = @ + 1]
           m2 == u.mem
           lo == Lo(g, a)
           hi == Hi(g, a)
<1>1. a \in DOMAIN m /\ Leaf(m, a) /\ lo <= x /\ x < hi
  BY FindLeafFacts
<1> HIDE DEF a
<1>2. /\ k \in Seq(Keys) /\ q \in Seq(Nat) /\ Len(q) = Len(k) /\ Ascending(k)
  BY <1>1, LeafFacts
<1>3. lo \in Int /\ hi \in Int /\ x \in Int /\ d \in Nat
  <2>1. lo \in Int /\ hi \in Int
    BY <1>1, NodeTypes DEF Shape
  <2>2. d \in Nat
    BY BPTAssumption DEF AllData
  <2> QED BY <2>1, <2>2, KeysAreInts
<1>4. LeafFits(k, q, lo, hi)
  BY <1>1 DEF Shape, Fits
<1> DEFINE n == LowerBound(k, x)
<1>5. n \in 0..Len(k) /\ (\A j \in 1..n : k[j] < x) /\ \A j \in (n + 1)..Len(k) : x <= k[j]
  <2> HIDE DEF k
  <2> QED BY <1>2, <1>3, LowerBoundFacts
<1>6. i = n + 1
  BY DEF Ks
<1>7. \A j \in 1..Len(k) : k[j] # x /\ k[j] \in Int
  <2> SUFFICES ASSUME NEW j \in 1..Len(k) PROVE k[j] # x /\ k[j] \in Int
    OBVIOUS
  <2>1. k[j] = x => Entry(k, q, x, q[j])
    BY DEF Entry
  <2>2. ~ Entry(k, q, x, q[j])
    BY <1>1 DEF Has
  <2>3. k[j] \in Int
    <3>1. k \in Seq(Keys)
      BY <1>2
    <3> HIDE DEF k
    <3>2. k[j] \in Keys
      BY <3>1, ElementOfSeq
    <3> QED BY <3>2, KeysAreInts
  <2> QED BY <2>1, <2>2, <2>3
<1> HIDE DEF n, i
<1>8. /\ i \in 1..(Len(k) + 1) /\ i \in 1..(Len(q) + 1)
      /\ (\A j \in 1..(i - 1) : k[j] < x) /\ \A j \in i..Len(k) : x < k[j]
  <2>1. Len(k) \in Nat
    BY <1>2
  <2>2. i \in 1..(Len(k) + 1) /\ i - 1 = n
    BY <1>5, <1>6, <2>1
  <2>3. \A j \in 1..(i - 1) : k[j] < x
    BY <1>5, <2>2
  <2>4. ASSUME NEW j \in i..Len(k) PROVE x < k[j]
    <3>1. j \in 1..Len(k) /\ j \in (n + 1)..Len(k)
      BY <1>6, <2>1, <2>2, <2>4
    <3> QED BY <1>3, <1>5, <1>7, <3>1
  <2> QED BY <1>2, <2>2, <2>3, <2>4
<1> HIDE DEF k, q, lo, hi
<1>9. k2 \in Seq(Keys) /\ PutAt(k2, k, i, x)
  BY <1>2, <1>8, InsertAtPuts
<1>10. q2 \in Seq(Nat) /\ PutAt(q2, q, i, d)
  BY <1>2, <1>3, <1>8, InsertAtPuts
<1> HIDE DEF k2, q2
<1>11. LeafFits(k2, q2, lo, hi) /\ \A y, e : Entry(k2, q2, y, e) <=> Entry(k, q, y, e) \/ (y = x /\ e = d)
  BY <1>1, <1>2, <1>3, <1>4, <1>8, <1>9, <1>10, LeafPut, SMTT(30)
<1>12. t.count + 1 \in Int /\ t.count \in Int
  BY DEF IsTree
<1>13. u = [t EXCEPT !.mem[a].keys = k2, !.mem[a].ptrs = q2, !.count = t.count + 1]
  BY <1>1 DEF k2, q2, k, q, Ks, Ps, IsTree, NodeSet
<1> DEFINE z == [t EXCEPT !.mem[a].keys = k2, !.mem[a].ptrs = q2, !.count = t.count + 1]
<1>14. /\ IsTree(z) /\ z.order = t.order /\ z.root = t.root /\ z.count = t.count + 1
       /\ NodePut(t.mem, z.mem, a, k2, q2, Nx(t.mem, a))
  BY <1>1, <1>9, <1>10, <1>12, LeafRewritten
<1> HIDE DEF z
<1>15. u = z
  BY <1>13 DEF z
<1> HIDE DEF u
<1>16. /\ IsTree(u) /\ u.order = t.order /\ u.root = t.root /\ u.count = t.count + 1
       /\ NodePut(m, m2, a, k2, q2, Nx(m, a))
  BY <1>14, <1>15
<1>17. DOMAIN m2 = DOMAIN m /\ Ks(m2, a) = k2 /\ Ps(m2, a) = q2 /\ \A c \in DOMAIN m \ {a} : m2[c] = m[c]
  BY <1>16 DEF NodePut
<1>18. Refills(m, m2, a)
  <2>1. m2 \in [DOMAIN m2 -> NodeSet]
    BY <1>16 DEF IsTree
  <2> QED BY <1>1, <1>16, <2>1, PutRefills
<1>19. Shape(m2, t.root, g)
  <2>1. LeafFits(Ks(m2, a), Ps(m2, a), Lo(g, a), Hi(g, a))
    BY <1>11, <1>17 DEF lo, hi
  <2> QED BY <1>1, <1>18, <2>1, RefillKeepsShape
<1>20. HasAlso(m, m2, x, d)
  <2>1. \A y, e : Entry(Ks(m2, a), Ps(m2, a), y, e) <=> Entry(Ks(m, a), Ps(m, a), y, e) \/ (y = x /\ e = d)
    BY <1>11, <1>17 DEF k, q
  <2>2. Lo(g, a) <= x /\ x < Hi(g, a)
    BY <1>1 DEF lo, hi
  <2>3. \A y, e : Has(m2, y, e) <=> Has(m, y, e) \/ (y = x /\ e = d)
    BY <1>1, <1>18, <2>1, <2>2, RefilledHas
  <2> QED BY <2>3 DEF HasAlso
<1>21. Leaf(m2, a)
  BY <1>18 DEF Refills
<1>22. Growing(u, a)
  <2>1. Len(k2) = Len(k) + 1 /\ Len(k) \in Nat /\ t.order \in Nat
    BY <1>2, <1>9 DEF PutAt, IsTree
  <2>2. MinKeys(u) = MinKeys(t) /\ MinKeys(t) \in Int
    BY <1>16, <2>1 DEF MinKeys
  <2>3. NotUnder(t, a) /\ NotOver(t, a)
    BY <1>1
  <2>4. NotUnder(u, a) /\ Len(Ks(u.mem, a)) <= u.order
    BY <1>16, <1>17, <2>1, <2>2, <2>3 DEF NotUnder, NotOver, k
  <2>5. \A c \in DOMAIN m \ {a} : NotUnder(u, c) /\ NotOver(u, c)
    BY <1>16, <1>17, <2>2 DEF NotUnder, NotOver, Ks
  <2> QED BY <1>17, <2>4, <2>5 DEF Growing
<1>23. a \in DOMAIN m2
  BY <1>1, <1>17
<1> QED BY <1>16, <1>19, <1>20, <1>21, <1>22, <1>23 DEF u, i, a

\* The keys that have an entry
KeysIn(m) == {x \in Keys : \E d : Has(m, x, d)}

(***************************************************************************)
(* The inductive invariant: the tree is empty, or its heap is well shaped  *)
(* and each node has as many keys as it should; count is the number of     *)
(* keys stored.                                                            *)
(***************************************************************************)
TreeInv(t) ==
  /\ IsTree(t) /\ t.order >= 3 /\ t.count = Cardinality(KeysIn(t.mem))
  /\ IF t.root = Null THEN DOMAIN t.mem = {}
     ELSE /\ \E g : Shape(t.mem, t.root, g)
          /\ \A c \in DOMAIN t.mem : NotUnder(t, c) /\ NotOver(t, c)

\* There are finitely many keys.
LEMMA KeysInFinite ==
  ASSUME NEW m
  PROVE  IsFiniteSet(KeysIn(m)) /\ Cardinality(KeysIn(m)) \in Nat
<1>1. KeysIn(m) \subseteq IntMin..IntMax
  BY BPTAssumption DEF KeysIn
<1>2. IsFiniteSet(IntMin..IntMax)
  BY BPTAssumption, FS_Interval
<1>3. IsFiniteSet(KeysIn(m))
  BY <1>1, <1>2, FS_Subset
<1> QED BY <1>3, FS_CardinalityType

\* A new key is one more.
LEMMA CountsAlso ==
  ASSUME NEW m, NEW m2, NEW x \in Keys, NEW d, HasAlso(m, m2, x, d), \A e : ~ Has(m, x, e)
  PROVE  Cardinality(KeysIn(m2)) = Cardinality(KeysIn(m)) + 1
<1>1. x \notin KeysIn(m)
  BY DEF KeysIn
<1>2. KeysIn(m2) = KeysIn(m) \cup {x}
  BY DEF KeysIn, HasAlso
<1>3. IsFiniteSet(KeysIn(m))
  BY KeysInFinite
<1> QED BY <1>1, <1>2, <1>3, FS_AddElement

\* A tree with a shape has a root.
LEMMA HeapIsNotNull ==
  ASSUME NEW m, NEW root, NEW g, Shape(m, root, g)
  PROVE  root \in DOMAIN m /\ root # Null
BY DEF Shape, Rooted, Typed

\* A tree of one leaf
LEMMA FirstInsertion ==
  ASSUME NEW t, TreeInv(t), t.root = Null, NEW x \in Keys, NEW d \in AllData
  PROVE  LET w == Inserted(t, x, d)
         IN  TreeInv(w) /\ w.order = t.order /\ w.count = t.count + 1 /\ HasAlso(t.mem, w.mem, x, d)
<1> DEFINE w == Inserted(t, x, d)
           a == NewAddress(t)
           k == <<x>>
           q == <<d>>
           o == LeafNode(k, q, Null, Null)
           u == Allocated(t, a, o)
           z == [u EXCEPT !.root = a, !.count = @ + 1]
           m2 == w.mem
<1>1. w = z
  BY DEF Inserted
<1>2. /\ IsTree(t) /\ t.order >= 3 /\ t.count = Cardinality(KeysIn(t.mem)) /\ DOMAIN t.mem = {}
      /\ t.order \in Nat /\ t.count \in Int
  BY DEF TreeInv, IsTree
<1>3. a \in Nat \ {Null}
  BY <1>2, FS_EmptySet, NewAddressFacts
<1>4. /\ k \in Seq(Keys) /\ q \in Seq(Nat) /\ q \in Seq(AllData) /\ Len(k) = 1 /\ Len(q) = 1
      /\ k[1] = x /\ q[1] = d /\ Ascending(k) /\ Elems(k) = {x}
  <2>1. d \in Nat
    BY BPTAssumption DEF AllData
  <2>2. Ascending(k)
    BY AscendingOne
  <2>3. Elems(k) = {x}
    BY ElemsOfOne
  <2>4. k \in Seq(Keys) /\ q \in Seq(Nat) /\ q \in Seq(AllData) /\ Len(k) = 1 /\ Len(q) = 1 /\ k[1] = x /\ q[1] = d
    BY <2>1
  <2> QED BY <2>2, <2>3, <2>4
<1> HIDE DEF k, q
<1>5. o \in NodeSet /\ o.leaf /\ o.keys = k /\ o.ptrs = q /\ o.next = Null /\ o.prev = Null /\ o.parent = Null
  <2>1. Null \in Nat /\ k \in Seq(Keys) /\ q \in Seq(Nat)
    BY <1>4 DEF Null
  <2> QED BY <2>1, LeafNodeFacts
<1> HIDE DEF a, o
<1>6. /\ DOMAIN u.mem = {a} /\ u.mem[a] = o /\ SameMembers(t, u) /\ IsTree(u)
  <2>1. /\ DOMAIN u.mem = DOMAIN t.mem \cup {a}
        /\ u.mem[a] = o
        /\ SameMembers(t, u)
        /\ o \in NodeSet => IsTree(u)
    BY <1>2, AllocatedFacts
  <2> HIDE DEF u
  <2> QED BY <1>2, <1>5, <2>1
<1> HIDE DEF u
<1>7. /\ z \in [order : Nat, root : Nat, count : Int, mem : {z.mem}] /\ z.mem = u.mem
      /\ z.root = a /\ z.order = t.order /\ z.count = t.count + 1
  <2> DEFINE c == t.count + 1
             h == u.mem
  <2>1. u \in [order : Nat, root : Nat, count : Int, mem : {h}] /\ u.order = t.order /\ u.count = t.count
    BY <1>6 DEF IsTree, SameMembers
  <2>2. z = [u EXCEPT !.root = a, !.count = c]
    BY <2>1
  <2>3. c \in Int /\ a \in Nat
    BY <1>2, <1>3
  <2> HIDE DEF c, z, h
  <2>4. /\ z \in [order : Nat, root : Nat, count : Int, mem : {h}]
        /\ z.root = a /\ z.order = u.order /\ z.count = c /\ z.mem = h
    BY <2>1, <2>2, <2>3
  <2> QED BY <2>1, <2>4 DEF c, h
<1> HIDE DEF w, z
<1>8. IsTree(w) /\ w.root = a /\ w.order = t.order /\ w.count = t.count + 1 /\ DOMAIN m2 = {a} /\ m2[a] = o
  <2>1. u.mem \in [DOMAIN u.mem -> NodeSet]
    BY <1>6 DEF IsTree
  <2> QED BY <1>1, <1>6, <1>7, <2>1 DEF IsTree
<1>9. /\ Leaf(m2, a) /\ Ks(m2, a) = k /\ Ps(m2, a) = q
      /\ Nx(m2, a) = Null /\ Pv(m2, a) = Null /\ Up(m2, a) = Null
  BY <1>5, <1>8 DEF Leaf, Ks, Ps, Nx, Pv, Up
<1>10. LeafFits(k, q, IntMin, High)
  <2>1. IntMin <= x /\ x < High /\ IntMin < High /\ IntMin <= IntMin /\ High <= High
    BY BPTAssumption DEF High
  <2> QED BY <1>4, <2>1 DEF LeafFits
<1>11. \E g : Shape(m2, a, g)
  <2>1. m2 \in [{a} -> NodeSet]
    BY <1>8 DEF IsTree
  <2> QED BY <1>3, <1>9, <1>10, <2>1, FirstLeafShape
<1>12. HasAlso(t.mem, m2, x, d)
  <2>1. \A y, e : ~ Has(t.mem, y, e)
    BY <1>2 DEF Has
  <2>2. \A y, e : Has(m2, y, e) <=> Entry(k, q, y, e)
    BY <1>8, <1>9 DEF Has
  <2>3. \A y, e : Entry(k, q, y, e) <=> (y = x /\ e = d)
    BY <1>4 DEF Entry
  <2> QED BY <2>1, <2>2, <2>3 DEF HasAlso
<1>13. w.count = Cardinality(KeysIn(m2))
  <2>1. \A e : ~ Has(t.mem, x, e)
    BY <1>2 DEF Has
  <2>2. Cardinality(KeysIn(m2)) = Cardinality(KeysIn(t.mem)) + 1
    BY <1>12, <2>1, CountsAlso
  <2> QED BY <1>2, <1>8, <2>2
<1>14. NotUnder(w, a) /\ NotOver(w, a)
  <2>1. Len(Ks(w.mem, a)) = 1 /\ w.order >= 3 /\ w.order \in Int /\ w.root = a
    BY <1>2, <1>4, <1>8, <1>9
  <2> HIDE DEF m2
  <2> QED BY <2>1 DEF NotUnder, NotOver
<1>15. TreeInv(w)
  BY <1>2, <1>3, <1>8, <1>11, <1>13, <1>14 DEF TreeInv
<1> QED BY <1>8, <1>12, <1>15 DEF w

\* insert keeps the invariant, and adds the new entry and nothing else.
LEMMA InsertedFacts ==
  ASSUME NEW t, TreeInv(t), NEW x \in Keys, NEW d \in AllData, \A e : ~ Has(t.mem, x, e)
  PROVE  LET w == Inserted(t, x, d)
         IN  TreeInv(w) /\ w.order = t.order /\ w.count = t.count + 1 /\ HasAlso(t.mem, w.mem, x, d)
<1>1. CASE t.root = Null
  BY <1>1, FirstInsertion
<1>2. CASE t.root # Null
  <2> DEFINE a == FindLeaf(t, x)
             i == LowerBound(t.mem[a].keys, x) + 1
             u == [t EXCEPT !.mem[a].keys = SE!InsertAt(@, i, x),
                            !.mem[a].ptrs = SE!InsertAt(@, i, d),
                            !.count = @ + 1]
             w == Inserted(t, x, d)
  <2>1. /\ IsTree(t) /\ t.order >= 3 /\ t.count = Cardinality(KeysIn(t.mem))
        /\ \E g : Shape(t.mem, t.root, g)
        /\ \A c \in DOMAIN t.mem : NotUnder(t, c) /\ NotOver(t, c)
    BY <1>2 DEF TreeInv
  <2>2. PICK g : Shape(t.mem, t.root, g)
    BY <2>1
  <2>3. w = SplitUp(u, a)
    BY <1>2 DEF Inserted
  <2>4. /\ IsTree(u) /\ u.order = t.order /\ u.count = t.count + 1
        /\ Shape(u.mem, u.root, g) /\ HasAlso(t.mem, u.mem, x, d)
        /\ a \in DOMAIN u.mem /\ Leaf(u.mem, a) /\ Growing(u, a)
    BY <2>1, <2>2, LeafInsertion
  <2> HIDE DEF a, u, w
  <2>5. Grown(u, w)
    BY <2>1, <2>3, <2>4, SplitUpFacts
  <2>6. /\ IsTree(w) /\ w.order = t.order /\ w.count = t.count + 1
        /\ SameEntries(u.mem, w.mem) /\ \E g2 : Shape(w.mem, w.root, g2)
        /\ \A c \in DOMAIN w.mem : NotUnder(w, c) /\ NotOver(w, c)
    BY <2>4, <2>5 DEF Grown
  <2>7. HasAlso(t.mem, w.mem, x, d)
    BY <2>4, <2>6 DEF HasAlso, SameEntries
  <2>8. w.count = Cardinality(KeysIn(w.mem))
    <3>1. Cardinality(KeysIn(w.mem)) = Cardinality(KeysIn(t.mem)) + 1
      BY <2>7, CountsAlso
    <3> QED BY <2>1, <2>6, <3>1
  <2>9. w.root # Null
    BY <2>6, HeapIsNotNull
  <2>10. TreeInv(w)
    BY <2>1, <2>6, <2>8, <2>9 DEF TreeInv
  <2> QED BY <2>6, <2>7, <2>10 DEF w
<1> QED BY <1>1, <1>2

-----------------------------------------------------------------------------
(* remove: borrowing and merging                                           *)

\* Three nodes a, b and p of a tree with other contents; b and a are neighbours,
\* p is their parent.
Exchanged(m, m2, a, b, p, ka, qa, kb, qb, kp) ==
  /\ m2 \in [DOMAIN m -> NodeSet]
  /\ Ks(m2, a) = ka /\ Ps(m2, a) = qa /\ Ks(m2, b) = kb /\ Ps(m2, b) = qb
  /\ Ks(m2, p) = kp /\ Ps(m2, p) = Ps(m, p)
  /\ \A c \in DOMAIN m \ {a, b, p} : Ks(m2, c) = Ks(m, c) /\ Ps(m2, c) = Ps(m, c)
  /\ \A c \in DOMAIN m : Leaf(m2, c) = Leaf(m, c) /\ Nx(m2, c) = Nx(m, c) /\ Pv(m2, c) = Pv(m, c)

SameParents(m, m2) == \A c \in DOMAIN m : Up(m2, c) = Up(m, c)

\* One node gets other keys, other pointers or another parent.
KeysPut(t, u, a, k) == u = [t EXCEPT !.mem[a].keys = k]
PtrsPut(t, u, a, q) == u = [t EXCEPT !.mem[a].ptrs = q]
ParentPut(t, u, a, p) == u = [t EXCEPT !.mem[a].parent = p]

\* What is put is in the node, ...
LEMMA KeysSet ==
  ASSUME NEW t, IsTree(t), NEW a \in DOMAIN t.mem, NEW k \in Seq(Keys),
         NEW u, KeysPut(t, u, a, k)
  PROVE  /\ IsTree(u) /\ SameMembers(t, u)
         /\ NodePut(t.mem, u.mem, a, k, Ps(t.mem, a), Nx(t.mem, a))
<1> DEFINE m == t.mem
           m2 == u.mem
           n == m[a]
           r == m2[a]
<1>1. /\ DOMAIN m2 = DOMAIN m /\ m2 = [x \in DOMAIN m |-> m2[x]]
      /\ m2[a] = [m[a] EXCEPT !.keys = k]
      /\ \A x \in DOMAIN m \ {a} : m2[x] = m[x]
      /\ SameMembers(t, u)
      /\ u \in [order : Nat, root : Nat, count : Int, mem : {u.mem}]
  BY DEF IsTree, SameMembers, NodeSet, KeysPut, PtrsPut, ParentPut
<1>2. \A x \in DOMAIN m : m[x] \in NodeSet
  BY DEF IsTree
<1>3. n \in NodeSet /\ r = [n EXCEPT !.keys = k]
  BY <1>1, <1>2
<1> HIDE DEF n, r
<1>4. /\ r \in NodeSet /\ r.keys = k /\ r.ptrs = n.ptrs /\ r.leaf = n.leaf
      /\ r.next = n.next /\ r.prev = n.prev /\ r.parent = n.parent
  BY <1>3 DEF NodeSet
<1>5. r = m2[a] /\ n = m[a] /\ a \in DOMAIN m
  BY DEF n, r
<1> HIDE DEF m
<1>6. \A x \in DOMAIN m2 : m2[x] \in NodeSet
  BY <1>1, <1>2, <1>4, <1>5
<1>7. IsTree(u)
  BY <1>1, <1>6, TreeWith
<1>8. NodePut(m, m2, a, k, Ps(m, a), Nx(m, a))
  BY <1>1, <1>4, <1>5 DEF NodePut, Leaf, Ks, Ps, Nx, Pv, Up
<1> QED BY <1>1, <1>7, <1>8 DEF m

\* One node or other pointers, ...
LEMMA PtrsSet ==
  ASSUME NEW t, IsTree(t), NEW a \in DOMAIN t.mem, NEW q \in Seq(Nat),
         NEW u, PtrsPut(t, u, a, q)
  PROVE  /\ IsTree(u) /\ SameMembers(t, u)
         /\ NodePut(t.mem, u.mem, a, Ks(t.mem, a), q, Nx(t.mem, a))
<1> DEFINE m == t.mem
           m2 == u.mem
           n == m[a]
           r == m2[a]
<1>1. /\ DOMAIN m2 = DOMAIN m /\ m2 = [x \in DOMAIN m |-> m2[x]]
      /\ m2[a] = [m[a] EXCEPT !.ptrs = q]
      /\ \A x \in DOMAIN m \ {a} : m2[x] = m[x]
      /\ SameMembers(t, u)
      /\ u \in [order : Nat, root : Nat, count : Int, mem : {u.mem}]
  BY DEF IsTree, SameMembers, NodeSet, KeysPut, PtrsPut, ParentPut
<1>2. \A x \in DOMAIN m : m[x] \in NodeSet
  BY DEF IsTree
<1>3. n \in NodeSet /\ r = [n EXCEPT !.ptrs = q]
  BY <1>1, <1>2
<1> HIDE DEF n, r
<1>4. /\ r \in NodeSet /\ r.ptrs = q /\ r.keys = n.keys /\ r.leaf = n.leaf
      /\ r.next = n.next /\ r.prev = n.prev /\ r.parent = n.parent
  BY <1>3 DEF NodeSet
<1>5. r = m2[a] /\ n = m[a] /\ a \in DOMAIN m
  BY DEF n, r
<1> HIDE DEF m
<1>6. \A x \in DOMAIN m2 : m2[x] \in NodeSet
  BY <1>1, <1>2, <1>4, <1>5
<1>7. IsTree(u)
  BY <1>1, <1>6, TreeWith
<1>8. NodePut(m, m2, a, Ks(m, a), q, Nx(m, a))
  BY <1>1, <1>4, <1>5 DEF NodePut, Leaf, Ks, Ps, Nx, Pv, Up
<1> QED BY <1>1, <1>7, <1>8 DEF m

\* ... and for the parent.
LEMMA ParentSet ==
  ASSUME NEW t, IsTree(t), NEW c \in DOMAIN t.mem, NEW p \in Nat,
         NEW u, ParentPut(t, u, c, p)
  PROVE  /\ IsTree(u) /\ SameMembers(t, u) /\ DOMAIN u.mem = DOMAIN t.mem
         /\ SameNodes(t.mem, u.mem, DOMAIN t.mem)
         /\ \A x \in DOMAIN t.mem : Up(u.mem, x) = IF x = c THEN p ELSE Up(t.mem, x)
<1> DEFINE m == t.mem
           m2 == u.mem
           n == m[c]
           r == m2[c]
<1>1. /\ DOMAIN m2 = DOMAIN m /\ m2 = [x \in DOMAIN m |-> m2[x]]
      /\ m2[c] = [m[c] EXCEPT !.parent = p]
      /\ \A x \in DOMAIN m \ {c} : m2[x] = m[x]
      /\ SameMembers(t, u)
      /\ u \in [order : Nat, root : Nat, count : Int, mem : {u.mem}]
  BY DEF IsTree, SameMembers, NodeSet, KeysPut, PtrsPut, ParentPut
<1>2. \A x \in DOMAIN m : m[x] \in NodeSet
  BY DEF IsTree
<1>3. n \in NodeSet /\ r = [n EXCEPT !.parent = p]
  BY <1>1, <1>2
<1> HIDE DEF n, r
<1>4. /\ r \in NodeSet /\ r.keys = n.keys /\ r.ptrs = n.ptrs /\ r.leaf = n.leaf
      /\ r.next = n.next /\ r.prev = n.prev /\ r.parent = p
  BY <1>3, NodeUnder
<1>5. r = m2[c] /\ n = m[c] /\ c \in DOMAIN m
  BY DEF n, r
<1> HIDE DEF m
<1>6. \A x \in DOMAIN m2 : m2[x] \in NodeSet
  BY <1>1, <1>2, <1>4, <1>5
<1>7. IsTree(u)
  BY <1>1, <1>6, TreeWith
<1>8. SameNodes(m, m2, DOMAIN m) /\ \A x \in DOMAIN m : Up(m2, x) = IF x = c THEN p ELSE Up(m, x)
  <2>1. \A x \in DOMAIN m : x # c => m2[x] = m[x]
    BY <1>1
  <2> HIDE DEF m2
  <2>2. /\ m2[c].keys = m[c].keys /\ m2[c].ptrs = m[c].ptrs /\ m2[c].leaf = m[c].leaf
        /\ m2[c].next = m[c].next /\ m2[c].prev = m[c].prev /\ m2[c].parent = p
    BY <1>4, <1>5
  <2> QED BY <2>1, <2>2 DEF SameNodes, Leaf, Ks, Ps, Nx, Pv, Up
<1> QED BY <1>1, <1>7, <1>8 DEF m

\* The border between the neighbours a and b is moved to sep.
Borrows(m, g, m2, a, b, p, i, sep) ==
  /\ \E k, q : Shifts(m, m2, a, b, p, i, k, q, sep)
  /\ Lo(g, a) < sep /\ sep < Hi(g, b)

\* Leaves exchange keys and data ...
LEMMA LeavesBorrow ==
  ASSUME NEW m, NEW root, NEW g, Shape(m, root, g), NEW a, NEW b, NEW p, NEW i,
         Neighbours(m, g, a, b, p, i), Leaf(m, a), NEW m2,
         NEW ka \in Seq(Keys), NEW qa \in Seq(Nat), NEW kb \in Seq(Keys), NEW qb \in Seq(Nat),
         NEW kp \in Seq(Keys), Exchanged(m, m2, a, b, p, ka, qa, kb, qb, kp), SameParents(m, m2),
         ka \o kb = Ks(m, a) \o Ks(m, b), qa \o qb = Ps(m, a) \o Ps(m, b),
         0 < Len(ka), 0 < Len(kb), Len(qa) = Len(ka), Len(qb) = Len(kb),
         SetAt(kp, Ks(m, p), i, kb[1])
  PROVE  Borrows(m, g, m2, a, b, p, i, kb[1])
<1> DEFINE k0 == Ks(m, a)
           r0 == Ks(m, b)
           q0 == Ps(m, a)
           s0 == Ps(m, b)
           k == k0 \o r0
           q == q0 \o s0
           sep == kb[1]
           lo == Lo(g, a)
           hi == Hi(g, b)
           brd == Hi(g, a)
<1>1. a \in DOMAIN m /\ b \in DOMAIN m /\ Leaf(m, b) /\ brd = Lo(g, b)
  BY DEF Neighbours
<1>2. lo \in Int /\ hi \in Int /\ brd \in Int /\ lo < brd /\ brd < hi
  <2>1. NonEmpty(m, g) /\ Typed(m, g)
    BY FitsFacts DEF Shape
  <2> QED BY <1>1, <2>1, NodeTypes DEF NonEmpty
<1>3. /\ k0 \in Seq(Keys) /\ q0 \in Seq(Nat) /\ Len(q0) = Len(k0) /\ Ascending(k0)
      /\ \A x \in Elems(k0) : lo <= x /\ x < brd
  BY <1>1, LeafFacts
<1>4. /\ r0 \in Seq(Keys) /\ s0 \in Seq(Nat) /\ Len(s0) = Len(r0) /\ Ascending(r0)
      /\ \A x \in Elems(r0) : brd <= x /\ x < hi
  BY <1>1, LeafFacts
<1>5. ka \o kb = k /\ qa \o qb = q /\ SetAt(kp, Ks(m, p), i, sep)
  OBVIOUS
<1> HIDE DEF k0, r0, q0, s0, lo, hi, brd
<1>6. JoinedKeys(k, k0, r0) /\ k \in Seq(Keys)
  BY <1>3, <1>4, JoinIsJoinedKeys
<1>7. Joined(q, q0, s0) /\ q \in Seq(Nat)
  BY <1>3, <1>4, JoinIsJoined, ConcatProperties
<1>8. Joined(qa \o qb, qa, qb)
  BY JoinIsJoined
<1> HIDE DEF k, q
<1>9. Elems(k0) \subseteq Int /\ Elems(r0) \subseteq Int
  BY <1>3, <1>4, ElemsFacts, KeysAreInts
<1>10. \A x \in Elems(k0), y \in Elems(r0) : x < y
  <2> TAKE x \in Elems(k0), y \in Elems(r0)
  <2>1. x \in Int /\ y \in Int /\ x < brd /\ brd <= y
    BY <1>3, <1>4, <1>9
  <2> QED BY <1>2, <2>1
<1>11. Ascending(k)
  BY <1>3, <1>4, <1>6, <1>10 DEF JoinedKeys
<1>12. \A x \in Elems(k) : lo <= x /\ x < hi
  <2> TAKE x \in Elems(k)
  <2>1. x \in Elems(k0) \/ x \in Elems(r0)
    BY <1>6 DEF JoinedKeys, Joined
  <2>2. CASE x \in Elems(k0)
    <3>1. x \in Int /\ lo <= x /\ x < brd
      BY <1>3, <1>9, <2>2
    <3> QED BY <1>2, <3>1
  <2>3. CASE x \in Elems(r0)
    <3>1. x \in Int /\ brd <= x /\ x < hi
      BY <1>4, <1>9, <2>3
    <3> QED BY <1>2, <3>1
  <2> QED BY <2>1, <2>2, <2>3
<1>13. /\ JoinedKeys(ka \o kb, ka, kb) /\ Below(ka, sep, kb)
       /\ sep \in Keys /\ lo < sep /\ sep < hi
  <2>1. Ascending(ka \o kb) /\ \A x \in Elems(ka \o kb) : lo <= x /\ x < hi
    BY <1>5, <1>11, <1>12
  <2> QED BY <1>2, <2>1, BorderKeys
<1> HIDE DEF sep
<1>14. Shifts(m, m2, a, b, p, i, k, q, sep)
  <2>1. /\ m2 \in [DOMAIN m -> NodeSet]
        /\ Ks(m2, a) = ka /\ Ps(m2, a) = qa /\ Ks(m2, b) = kb /\ Ps(m2, b) = qb
        /\ Ks(m2, p) = kp /\ Ps(m2, p) = Ps(m, p)
        /\ \A c \in DOMAIN m \ {a, b, p} : Ks(m2, c) = Ks(m, c) /\ Ps(m2, c) = Ps(m, c)
        /\ \A c \in DOMAIN m : Leaf(m2, c) = Leaf(m, c) /\ Nx(m2, c) = Nx(m, c) /\ Pv(m2, c) = Pv(m, c)
    BY DEF Exchanged
  <2>2. ShiftParts(k, q, Ks(m, a), Ps(m, a), Ks(m, p)[i], Ks(m, b), Ps(m, b), Leaf(m, a))
    BY <1>3, <1>4, <1>6, <1>7 DEF ShiftParts, k0, r0, q0, s0
  <2>3. ShiftParts(k, q, Ks(m2, a), Ps(m2, a), sep, Ks(m2, b), Ps(m2, b), Leaf(m, a))
    BY <1>5, <1>8, <1>13, <2>1 DEF ShiftParts
  <2>4. Below(Ks(m2, a), sep, Ks(m2, b)) /\ SetAt(Ks(m2, p), Ks(m, p), i, sep)
    BY <1>5, <1>13, <2>1
  <2>5. \A c \in DOMAIN m : Up(m2, c) = Up(m, c)
    BY DEF SameParents
  <2> QED BY <1>6, <1>7, <1>13, <2>1, <2>2, <2>3, <2>4, <2>5 DEF Shifts
<1> QED BY <1>13, <1>14 DEF Borrows, sep, lo, hi

\* ... and internal nodes keys and children, over their parent's key.
LEMMA InnersBorrow ==
  ASSUME NEW m, NEW root, NEW g, Shape(m, root, g), NEW a, NEW b, NEW p, NEW i,
         Neighbours(m, g, a, b, p, i), ~ Leaf(m, a), NEW m2,
         NEW ka \in Seq(Keys), NEW qa \in Seq(Nat), NEW kb \in Seq(Keys), NEW qb \in Seq(Nat),
         NEW kp \in Seq(Keys), Exchanged(m, m2, a, b, p, ka, qa, kb, qb, kp),
         NEW sep \in Keys, Lo(g, a) < sep, sep < Hi(g, b),
         IsAround((Ks(m, a) \o <<Ks(m, p)[i]>>) \o Ks(m, b), ka, sep, kb),
         qa \o qb = Ps(m, a) \o Ps(m, b), Len(qa) = Len(ka) + 1, Len(qb) = Len(kb) + 1,
         SetAt(kp, Ks(m, p), i, sep),
         \A c \in Elems(qa) : Up(m2, c) = a, \A c \in Elems(qb) : Up(m2, c) = b,
         \A c \in DOMAIN m : c \notin Elems(Ps(m, a)) \cup Elems(Ps(m, b)) => Up(m2, c) = Up(m, c)
  PROVE  Borrows(m, g, m2, a, b, p, i, sep)
<1> DEFINE k0 == Ks(m, a)
           r0 == Ks(m, b)
           q0 == Ps(m, a)
           s0 == Ps(m, b)
           e == Ks(m, p)[i]
           k == (k0 \o <<e>>) \o r0
           q == q0 \o s0
           k2 == (ka \o <<sep>>) \o kb
<1>1. a \in DOMAIN m /\ b \in DOMAIN m /\ ~ Leaf(m, b) /\ Ks(m, p) \in Seq(Keys) /\ i \in 1..Len(Ks(m, p))
  BY DEF Neighbours
<1>2. e \in Keys
  <2> DEFINE kk == Ks(m, p)
  <2>1. kk \in Seq(Keys) /\ i \in 1..Len(kk)
    BY <1>1
  <2> HIDE DEF kk
  <2>2. kk[i] \in Keys
    BY <2>1, ElementOfSeq
  <2> QED BY <2>2 DEF kk
<1>3. k0 \in Seq(Keys) /\ q0 \in Seq(Nat) /\ Len(q0) = Len(k0) + 1
  BY <1>1, ChildFacts
<1>4. r0 \in Seq(Keys) /\ s0 \in Seq(Nat) /\ Len(s0) = Len(r0) + 1
  BY <1>1, ChildFacts
<1>5. k = k2 /\ qa \o qb = q
  BY DEF IsAround
<1> HIDE DEF k0, r0, q0, s0, e
<1>6. JoinedAround(k, k0, e, r0) /\ k \in Seq(Keys)
  BY <1>2, <1>3, <1>4, JoinIsAround, KeysAreInts
<1>7. Joined(q, q0, s0) /\ q \in Seq(Nat)
  BY <1>3, <1>4, JoinIsJoined, ConcatProperties
<1>8. Joined(qa \o qb, qa, qb)
  BY JoinIsJoined
<1>9. JoinedAround(k2, ka, sep, kb)
  BY JoinIsAround, KeysAreInts
<1> HIDE DEF k, q, k2
<1>10. Shifts(m, m2, a, b, p, i, k, q, sep)
  <2>1. /\ m2 \in [DOMAIN m -> NodeSet]
        /\ Ks(m2, a) = ka /\ Ps(m2, a) = qa /\ Ks(m2, b) = kb /\ Ps(m2, b) = qb
        /\ Ks(m2, p) = kp /\ Ps(m2, p) = Ps(m, p)
        /\ \A c \in DOMAIN m \ {a, b, p} : Ks(m2, c) = Ks(m, c) /\ Ps(m2, c) = Ps(m, c)
        /\ \A c \in DOMAIN m : Leaf(m2, c) = Leaf(m, c) /\ Nx(m2, c) = Nx(m, c) /\ Pv(m2, c) = Pv(m, c)
    BY DEF Exchanged
  <2>2. ShiftParts(k, q, Ks(m, a), Ps(m, a), Ks(m, p)[i], Ks(m, b), Ps(m, b), Leaf(m, a))
    BY <1>3, <1>4, <1>6, <1>7 DEF ShiftParts, k0, r0, q0, s0, e
  <2>3. ShiftParts(k, q, Ks(m2, a), Ps(m2, a), sep, Ks(m2, b), Ps(m2, b), Leaf(m, a))
    BY <1>5, <1>8, <1>9, <2>1 DEF ShiftParts
  <2>4. SetAt(Ks(m2, p), Ks(m, p), i, sep)
    BY <2>1
  <2>5. Elems(q) = Elems(q0) \cup Elems(s0)
    BY <1>7 DEF Joined
  <2>6. \A c \in DOMAIN m : Leaf(m, a) \/ c \notin Elems(q) => Up(m2, c) = Up(m, c)
    BY <2>5 DEF q0, s0
  <2>7. /\ \A c \in Elems(Ps(m2, a)) : Up(m2, c) = a
        /\ \A c \in Elems(Ps(m2, b)) : Up(m2, c) = b
    BY <2>1
  <2> QED BY <1>6, <1>7, <2>1, <2>2, <2>3, <2>4, <2>6, <2>7 DEF Shifts
<1> QED BY <1>10 DEF Borrows

\* One of two neighbours lends a key to the other.
Lent(t, g, w, a, b, p, i, lender, borrower) ==
  /\ IsTree(w) /\ SameMembers(t, w)
  /\ \E sep : Borrows(t.mem, g, w.mem, a, b, p, i, sep)
  /\ Len(Ks(w.mem, lender)) = Len(Ks(t.mem, lender)) - 1
  /\ Len(Ks(w.mem, borrower)) = Len(Ks(t.mem, borrower)) + 1
  /\ \A c \in DOMAIN t.mem \ {lender, borrower} : Len(Ks(w.mem, c)) = Len(Ks(t.mem, c))

\* In the parent a key is replaced.
LEMMA KeySet ==
  ASSUME NEW k \in Seq(Keys), NEW i \in 1..Len(k), NEW x \in Keys
  PROVE  [k EXCEPT ![i] = x] \in Seq(Keys) /\ SetAt([k EXCEPT ![i] = x], k, i, x)
BY ExceptSeq DEF SetAt

\* The assignments of the borrow functions, in their order: the lender x, the
\* borrower y, the parent p
LEMMA PutsExchange ==
  ASSUME NEW m, NEW x \in DOMAIN m, NEW y \in DOMAIN m, NEW p \in DOMAIN m, x # y, x # p, y # p,
         NEW kx, NEW qx, NEW ky, NEW qy, NEW kp, NEW m1, NEW m2, NEW m3, NEW m4, NEW m5,
         NodePut(m, m1, x, kx, Ps(m, x), Nx(m, x)), NodePut(m1, m2, x, Ks(m1, x), qx, Nx(m1, x)),
         NodePut(m2, m3, y, Ks(m2, y), qy, Nx(m2, y)),
         \/ /\ NodePut(m3, m4, p, kp, Ps(m3, p), Nx(m3, p)) /\ NodePut(m4, m5, y, ky, Ps(m4, y), Nx(m4, y))
         \/ /\ NodePut(m3, m4, y, ky, Ps(m3, y), Nx(m3, y)) /\ NodePut(m4, m5, p, kp, Ps(m4, p), Nx(m4, p)),
         m5 \in [DOMAIN m5 -> NodeSet]
  PROVE  /\ Exchanged(m, m5, x, y, p, kx, qx, ky, qy, kp) /\ SameParents(m, m5)
         /\ Exchanged(m, m5, y, x, p, ky, qy, kx, qx, kp)
<1> DEFINE D == DOMAIN m
<1>1. DOMAIN m1 = D /\ DOMAIN m2 = D /\ DOMAIN m3 = D /\ DOMAIN m4 = D /\ DOMAIN m5 = D
  BY DEF NodePut
<1>2. \A c \in D \ {x, y, p} : m5[c] = m[c]
  <2>1. \A c \in D \ {x, y, p} : m3[c] = m[c]
    BY <1>1 DEF NodePut
  <2> QED BY <1>1, <2>1 DEF NodePut
<1>3. /\ Ks(m3, x) = kx /\ Ps(m3, x) = qx /\ Leaf(m3, x) = Leaf(m, x)
      /\ Nx(m3, x) = Nx(m, x) /\ Pv(m3, x) = Pv(m, x) /\ Up(m3, x) = Up(m, x) /\ m5[x] = m3[x]
  <2>1. m3[x] = m2[x] /\ m4[x] = m3[x] /\ m5[x] = m4[x]
    BY <1>1 DEF NodePut
  <2>2. /\ Ks(m2, x) = kx /\ Ps(m2, x) = qx /\ Leaf(m2, x) = Leaf(m, x)
        /\ Nx(m2, x) = Nx(m, x) /\ Pv(m2, x) = Pv(m, x) /\ Up(m2, x) = Up(m, x)
    BY DEF NodePut
  <2> QED BY <2>1, <2>2 DEF Ks, Ps, Leaf, Nx, Pv, Up
<1>4. /\ m2[y] = m[y] /\ m3[p] = m[p]
  BY <1>1 DEF NodePut
<1>5. /\ Ks(m5, y) = ky /\ Ps(m5, y) = qy /\ Leaf(m5, y) = Leaf(m, y)
      /\ Nx(m5, y) = Nx(m, y) /\ Pv(m5, y) = Pv(m, y) /\ Up(m5, y) = Up(m, y)
  <2>1. /\ Ps(m3, y) = qy /\ Leaf(m3, y) = Leaf(m, y)
        /\ Nx(m3, y) = Nx(m, y) /\ Pv(m3, y) = Pv(m, y) /\ Up(m3, y) = Up(m, y)
    BY <1>4 DEF NodePut, Leaf, Nx, Pv, Up
  <2>2. CASE NodePut(m3, m4, p, kp, Ps(m3, p), Nx(m3, p)) /\ NodePut(m4, m5, y, ky, Ps(m4, y), Nx(m4, y))
    <3>1. m4[y] = m3[y]
      BY <1>1, <2>2 DEF NodePut
    <3> QED BY <2>1, <2>2, <3>1 DEF NodePut, Ps, Leaf, Nx, Pv, Up
  <2>3. CASE NodePut(m3, m4, y, ky, Ps(m3, y), Nx(m3, y)) /\ NodePut(m4, m5, p, kp, Ps(m4, p), Nx(m4, p))
    <3>1. m5[y] = m4[y]
      BY <1>1, <2>3 DEF NodePut
    <3> QED BY <2>1, <2>3, <3>1 DEF NodePut, Ps, Ks, Leaf, Nx, Pv, Up
  <2> QED BY <2>2, <2>3
<1>6. /\ Ks(m5, p) = kp /\ Ps(m5, p) = Ps(m, p) /\ Leaf(m5, p) = Leaf(m, p)
      /\ Nx(m5, p) = Nx(m, p) /\ Pv(m5, p) = Pv(m, p) /\ Up(m5, p) = Up(m, p)
  <2>2. CASE NodePut(m3, m4, p, kp, Ps(m3, p), Nx(m3, p)) /\ NodePut(m4, m5, y, ky, Ps(m4, y), Nx(m4, y))
    <3>1. m5[p] = m4[p]
      BY <1>1, <2>2 DEF NodePut
    <3> QED BY <1>4, <2>2, <3>1 DEF NodePut, Ks, Ps, Leaf, Nx, Pv, Up
  <2>3. CASE NodePut(m3, m4, y, ky, Ps(m3, y), Nx(m3, y)) /\ NodePut(m4, m5, p, kp, Ps(m4, p), Nx(m4, p))
    <3>1. m4[p] = m3[p]
      BY <1>1, <2>3 DEF NodePut
    <3> QED BY <1>4, <2>3, <3>1 DEF NodePut, Ks, Ps, Leaf, Nx, Pv, Up
  <2> QED BY <2>2, <2>3
<1>7. /\ Ks(m5, x) = kx /\ Ps(m5, x) = qx /\ Leaf(m5, x) = Leaf(m, x)
      /\ Nx(m5, x) = Nx(m, x) /\ Pv(m5, x) = Pv(m, x) /\ Up(m5, x) = Up(m, x)
  BY <1>3 DEF Ks, Ps, Leaf, Nx, Pv, Up
<1>8. \A c \in D \ {x, y, p} : Ks(m5, c) = Ks(m, c) /\ Ps(m5, c) = Ps(m, c)
  BY <1>2 DEF Ks, Ps
<1>9. \A c \in D : /\ Leaf(m5, c) = Leaf(m, c) /\ Nx(m5, c) = Nx(m, c) /\ Pv(m5, c) = Pv(m, c)
                   /\ Up(m5, c) = Up(m, c)
  <2> TAKE c \in D
  <2>1. CASE c \in {x, y, p}
    BY <1>5, <1>6, <1>7, <2>1
  <2>2. CASE c \notin {x, y, p}
    BY <1>2, <2>2 DEF Leaf, Nx, Pv, Up
  <2> QED BY <2>1, <2>2
<1>10. m5 \in [D -> NodeSet]
  BY <1>1
<1> QED BY <1>5, <1>6, <1>7, <1>8, <1>9, <1>10 DEF Exchanged, SameParents

Puts(t, v1, v2, v3, v4, v5, x, y, p, kx, qx, ky, qy, kp) ==
  /\ KeysPut(t, v1, x, kx) /\ PtrsPut(v1, v2, x, qx) /\ PtrsPut(v2, v3, y, qy)
  /\ \/ KeysPut(v3, v4, p, kp) /\ KeysPut(v4, v5, y, ky)
     \/ KeysPut(v3, v4, y, ky) /\ KeysPut(v4, v5, p, kp)

\* The assignments of an exchange between neighbours, one after the other
LEMMA PutsInTree ==
  ASSUME NEW t, IsTree(t), NEW x \in DOMAIN t.mem, NEW y \in DOMAIN t.mem, NEW p \in DOMAIN t.mem,
         x # y, x # p, y # p,
         NEW kx \in Seq(Keys), NEW qx \in Seq(Nat), NEW ky \in Seq(Keys), NEW qy \in Seq(Nat),
         NEW kp \in Seq(Keys),
         NEW v1, NEW v2, NEW v3, NEW v4, NEW v5,
         Puts(t, v1, v2, v3, v4, v5, x, y, p, kx, qx, ky, qy, kp)
  PROVE  /\ IsTree(v5) /\ SameMembers(t, v5) /\ SameParents(t.mem, v5.mem)
         /\ Exchanged(t.mem, v5.mem, x, y, p, kx, qx, ky, qy, kp)
         /\ Exchanged(t.mem, v5.mem, y, x, p, ky, qy, kx, qx, kp)
         /\ v3.mem[p] = t.mem[p] /\ Ks(v3.mem, y) = Ks(t.mem, y) /\ Ks(v3.mem, x) = kx
         /\ KeysPut(v3, v4, p, kp) => Ks(v4.mem, y) = Ks(t.mem, y)
         /\ KeysPut(v3, v4, y, ky) => v4.mem[p] = t.mem[p]
<1> DEFINE D == DOMAIN t.mem
           P(v, w, c, k, q) == /\ IsTree(w) /\ SameMembers(v, w)
                               /\ NodePut(v.mem, w.mem, c, k, q, Nx(v.mem, c))
<1>0. x \in D /\ y \in D /\ p \in D
  OBVIOUS
<1> HIDE DEF D
<1>14. /\ KeysPut(t, v1, x, kx) /\ PtrsPut(v1, v2, x, qx) /\ PtrsPut(v2, v3, y, qy)
       /\ \/ KeysPut(v3, v4, p, kp) /\ KeysPut(v4, v5, y, ky)
          \/ KeysPut(v3, v4, y, ky) /\ KeysPut(v4, v5, p, kp)
  BY DEF Puts
<1>10. P(t, v1, x, kx, Ps(t.mem, x))
  BY <1>14, KeysSet
<1>1. P(t, v1, x, kx, Ps(t.mem, x)) /\ DOMAIN v1.mem = D
  BY <1>10 DEF NodePut, D
<1>11. P(v1, v2, x, Ks(v1.mem, x), qx)
  BY <1>0, <1>1, <1>14, PtrsSet
<1>2. P(v1, v2, x, Ks(v1.mem, x), qx) /\ DOMAIN v2.mem = D
  BY <1>1, <1>11 DEF NodePut
<1>12. P(v2, v3, y, Ks(v2.mem, y), qy)
  BY <1>0, <1>2, <1>14, PtrsSet
<1>3. P(v2, v3, y, Ks(v2.mem, y), qy) /\ DOMAIN v3.mem = D
  BY <1>2, <1>12 DEF NodePut
<1>4. /\ IsTree(v5) /\ SameMembers(v3, v5)
      /\ \/ /\ NodePut(v3.mem, v4.mem, p, kp, Ps(v3.mem, p), Nx(v3.mem, p))
            /\ NodePut(v4.mem, v5.mem, y, ky, Ps(v4.mem, y), Nx(v4.mem, y))
         \/ /\ NodePut(v3.mem, v4.mem, y, ky, Ps(v3.mem, y), Nx(v3.mem, y))
            /\ NodePut(v4.mem, v5.mem, p, kp, Ps(v4.mem, p), Nx(v4.mem, p))
  <2>1. CASE KeysPut(v3, v4, p, kp) /\ KeysPut(v4, v5, y, ky)
    <3>1. P(v3, v4, p, kp, Ps(v3.mem, p))
      BY <1>0, <1>3, <2>1, KeysSet
    <3>2. DOMAIN v4.mem = D
      BY <1>3, <3>1 DEF NodePut
    <3>3. P(v4, v5, y, ky, Ps(v4.mem, y))
      BY <1>0, <2>1, <3>1, <3>2, KeysSet
    <3> QED BY <3>1, <3>3 DEF SameMembers
  <2>2. CASE KeysPut(v3, v4, y, ky) /\ KeysPut(v4, v5, p, kp)
    <3>1. P(v3, v4, y, ky, Ps(v3.mem, y))
      BY <1>0, <1>3, <2>2, KeysSet
    <3>2. DOMAIN v4.mem = D
      BY <1>3, <3>1 DEF NodePut
    <3>3. P(v4, v5, p, kp, Ps(v4.mem, p))
      BY <1>0, <2>2, <3>1, <3>2, KeysSet
    <3> QED BY <3>1, <3>3 DEF SameMembers
  <2> QED BY <1>14, <2>1, <2>2
<1>5. SameMembers(t, v5)
  BY <1>1, <1>2, <1>3, <1>4 DEF SameMembers
<1>6. v5.mem \in [DOMAIN v5.mem -> NodeSet]
  BY <1>4 DEF IsTree
<1>7. /\ Exchanged(t.mem, v5.mem, x, y, p, kx, qx, ky, qy, kp) /\ SameParents(t.mem, v5.mem)
      /\ Exchanged(t.mem, v5.mem, y, x, p, ky, qy, kx, qx, kp)
  <2> DEFINE m == t.mem
             m1 == v1.mem
             m2 == v2.mem
             m3 == v3.mem
             m4 == v4.mem
             m5 == v5.mem
  <2>1. /\ NodePut(m, m1, x, kx, Ps(m, x), Nx(m, x)) /\ NodePut(m1, m2, x, Ks(m1, x), qx, Nx(m1, x))
        /\ NodePut(m2, m3, y, Ks(m2, y), qy, Nx(m2, y))
    BY <1>1, <1>2, <1>3
  <2>2. \/ /\ NodePut(m3, m4, p, kp, Ps(m3, p), Nx(m3, p)) /\ NodePut(m4, m5, y, ky, Ps(m4, y), Nx(m4, y))
        \/ /\ NodePut(m3, m4, y, ky, Ps(m3, y), Nx(m3, y)) /\ NodePut(m4, m5, p, kp, Ps(m4, p), Nx(m4, p))
    BY <1>4
  <2>3. x \in DOMAIN m /\ y \in DOMAIN m /\ p \in DOMAIN m /\ m5 \in [DOMAIN m5 -> NodeSet]
    BY <1>6
  <2> HIDE DEF m, m1, m2, m3, m4, m5
  <2>4. /\ Exchanged(m, m5, x, y, p, kx, qx, ky, qy, kp) /\ SameParents(m, m5)
        /\ Exchanged(m, m5, y, x, p, ky, qy, kx, qx, kp)
    BY <2>1, <2>2, <2>3, PutsExchange
  <2> QED BY <2>4 DEF m, m5
<1>8. v3.mem[p] = t.mem[p] /\ Ks(v3.mem, y) = Ks(t.mem, y) /\ Ks(v3.mem, x) = kx
  <2>1. v3.mem[p] = t.mem[p] /\ v2.mem[y] = t.mem[y] /\ v3.mem[x] = v2.mem[x]
    BY <1>0, <1>1, <1>2, <1>3 DEF NodePut, D
  <2>2. Ks(v2.mem, x) = kx /\ Ks(v3.mem, y) = Ks(v2.mem, y)
    BY <1>1, <1>2, <1>3 DEF NodePut
  <2> QED BY <2>1, <2>2 DEF Ks
<1>9. KeysPut(v3, v4, p, kp) => Ks(v4.mem, y) = Ks(t.mem, y)
  <2> SUFFICES ASSUME KeysPut(v3, v4, p, kp) PROVE Ks(v4.mem, y) = Ks(t.mem, y)
    OBVIOUS
  <2>1. P(v3, v4, p, kp, Ps(v3.mem, p))
    BY <1>0, <1>3, KeysSet
  <2>2. v4.mem[y] = v3.mem[y]
    BY <1>0, <1>3, <2>1 DEF NodePut
  <2> QED BY <1>8, <2>2 DEF Ks
<1>13. KeysPut(v3, v4, y, ky) => v4.mem[p] = t.mem[p]
  <2> SUFFICES ASSUME KeysPut(v3, v4, y, ky) PROVE v4.mem[p] = t.mem[p]
    OBVIOUS
  <2>1. P(v3, v4, y, ky, Ps(v3.mem, y))
    BY <1>0, <1>3, KeysSet
  <2>2. v4.mem[p] = v3.mem[p]
    BY <1>0, <1>3, <2>1 DEF NodePut
  <2> QED BY <1>8, <2>2
<1> QED BY <1>4, <1>5, <1>7, <1>8, <1>9, <1>13

\* A child that changes its parent changes nothing else.
LEMMA ExchangedAlso ==
  ASSUME NEW m, NEW m5, NEW m2, NEW a, NEW b, NEW p, NEW ka, NEW qa, NEW kb, NEW qb, NEW kp,
         Exchanged(m, m5, a, b, p, ka, qa, kb, qb, kp), SameNodes(m5, m2, DOMAIN m),
         a \in DOMAIN m, b \in DOMAIN m, p \in DOMAIN m, m2 \in [DOMAIN m -> NodeSet]
  PROVE  Exchanged(m, m2, a, b, p, ka, qa, kb, qb, kp)
BY DEF Exchanged, SameNodes

\* The left neighbour lends its last key.
LEMMA LeftLends ==
  ASSUME NEW t, IsTree(t), NEW g, Shape(t.mem, t.root, g), NEW l, NEW a, NEW p, NEW i,
         Neighbours(t.mem, g, l, a, p, i), 1 < Len(Ks(t.mem, l))
  PROVE  Lent(t, g, BorrowFromLeft(t, a, l, p, i), l, a, p, i, l, a)
<1> DEFINE m == t.mem
           kl == m[l].keys
           ql == m[l].ptrs
           ka == m[a].keys
           qa == m[a].ptrs
           kp == m[p].keys
           key == SE!Last(kl)
           ptr == SE!Last(ql)
           brd == kp[i]
           down == IF Leaf(m, a) THEN key ELSE brd
           kl2 == SE!Front(kl)
           ql2 == SE!Front(ql)
           ka2 == <<down>> \o ka
           qa2 == <<ptr>> \o qa
           kp2 == [kp EXCEPT ![i] = key]
           v1 == [t EXCEPT !.mem[l].keys = kl2]
           v2 == [v1 EXCEPT !.mem[l].ptrs = ql2]
           v3 == [v2 EXCEPT !.mem[a].ptrs = qa2]
           v4 == [v3 EXCEPT !.mem[p].keys = kp2]
           v5 == [v4 EXCEPT !.mem[a].keys = ka2]
           u == [t EXCEPT !.mem[l].keys = SE!Front(@),
                          !.mem[l].ptrs = SE!Front(@),
                          !.mem[a].ptrs = <<ptr>> \o @,
                          !.mem[p].keys[i] = key]
           u4 == [v3 EXCEPT !.mem[p].keys[i] = key]
           w == BorrowFromLeft(t, a, l, p, i)
<1>1. w = IF m[a].leaf THEN [u EXCEPT !.mem[a].keys = <<key>> \o @]
          ELSE [u EXCEPT !.mem[a].keys = <<brd>> \o @, !.mem[ptr].parent = a]
  BY DEF BorrowFromLeft
<1>2. u = u4
  BY DEF BorrowFromLeft
<1>3. /\ KeysPut(t, v1, l, kl2) /\ PtrsPut(v1, v2, l, ql2) /\ PtrsPut(v2, v3, a, qa2)
      /\ KeysPut(v3, v4, p, kp2) /\ KeysPut(v4, v5, a, ka2)
  BY DEF KeysPut, PtrsPut
<1>4. /\ l \in DOMAIN m /\ a \in DOMAIN m /\ p \in DOMAIN m /\ l # a /\ l # p /\ a # p
      /\ Leaf(m, a) = Leaf(m, l) /\ i \in 1..Len(kp) /\ kp \in Seq(Keys)
  BY DEF Neighbours, Ks
<1>5. /\ kl \in Seq(Keys) /\ ql \in Seq(Nat) /\ ka \in Seq(Keys) /\ qa \in Seq(Nat)
      /\ m[a].leaf \in BOOLEAN /\ l \in Nat /\ a \in Nat
  <2>1. Typed(m, g)
    BY DEF Shape
  <2>2. m[l] \in NodeSet /\ m[a] \in NodeSet /\ l \in Nat /\ a \in Nat
    BY <1>4, <2>1 DEF Typed
  <2> QED BY <2>2, NodeAs
<1>6. 1 < Len(kl)
  BY DEF Ks
<1>7. Len(ql) = Len(kl) + (IF Leaf(m, a) THEN 0 ELSE 1) /\ Len(qa) = Len(ka) + (IF Leaf(m, a) THEN 0 ELSE 1)
  <2>1. Len(kl) \in Nat /\ Len(ka) \in Nat
    BY <1>5, LenProperties
  <2>2. CASE Leaf(m, a)
    <3>1. Len(Ps(m, l)) = Len(Ks(m, l)) /\ Len(Ps(m, a)) = Len(Ks(m, a))
      BY <1>4, <2>2, LeafFacts
    <3> QED BY <2>1, <2>2, <3>1 DEF Ks, Ps
  <2>3. CASE ~ Leaf(m, a)
    <3>1. Len(Ps(m, l)) = Len(Ks(m, l)) + 1 /\ Len(Ps(m, a)) = Len(Ks(m, a)) + 1
      BY <1>4, <2>3, ChildFacts
    <3> QED BY <2>1, <2>3, <3>1 DEF Ks, Ps
  <2> QED BY <2>2, <2>3
<1>8. Leaf(m, a) = m[a].leaf /\ Ks(m, l) = kl /\ Ks(m, a) = ka /\ Ps(m, l) = ql /\ Ps(m, a) = qa /\ Ks(m, p) = kp
  BY DEF Ks, Ps, Leaf
<1>9. Shape(m, t.root, g) /\ Neighbours(m, g, l, a, p, i)
  OBVIOUS
<1> HIDE DEF u, w, m, kl, ql, ka, qa, kp
<1>10. Len(kl) \in Nat /\ Len(ka) \in Nat /\ Len(ql) \in Nat /\ Len(qa) \in Nat /\ 0 < Len(kl) /\ 0 < Len(ql)
  BY <1>5, <1>6, <1>7, LenProperties
<1>11. LastMoved(Keys, kl, ka, key, kl2, <<key>> \o ka)
  BY <1>5, <1>10, LastMoves
<1>12. LastMoved(Nat, ql, qa, ptr, ql2, qa2)
  BY <1>5, <1>10, LastMoves
<1>13. brd \in Keys /\ key \in Keys
  BY <1>4, <1>11, ElementOfSeq DEF LastMoved
<1>14. down \in Keys
  BY <1>13
<1>15. ka2 \in Seq(Keys) /\ Len(ka2) = Len(ka) + 1
  <2> DEFINE c == <<down>>
  <2>1. c \in Seq(Keys) /\ Len(c) = 1
    BY <1>14, OneElement
  <2> HIDE DEF c, down
  <2>2. c \o ka \in Seq(Keys) /\ Len(c \o ka) = Len(c) + Len(ka)
    BY <1>5, <2>1, JoinPositions
  <2> QED BY <1>10, <2>1, <2>2 DEF c
<1>16. kp2 \in Seq(Keys) /\ SetAt(kp2, kp, i, key)
  BY <1>4, <1>13, KeySet
<1>17. kl2 \in Seq(Keys) /\ ql2 \in Seq(Nat) /\ qa2 \in Seq(Nat)
  BY <1>11, <1>12 DEF LastMoved
<1> HIDE DEF kl2, ql2, ka2, qa2, kp2, v1, v2, v3, v4, v5
<1>18. /\ IsTree(v5) /\ SameMembers(t, v5) /\ SameParents(m, v5.mem)
       /\ Exchanged(m, v5.mem, l, a, p, kl2, ql2, ka2, qa2, kp2)
       /\ v3.mem[p] = m[p] /\ Ks(v4.mem, a) = ka
  <2>1. l \in DOMAIN t.mem /\ a \in DOMAIN t.mem /\ p \in DOMAIN t.mem
    BY <1>4 DEF m
  <2>2. KeysPut(v3, v4, p, kp2)
    BY <1>3
  <2>3. Puts(t, v1, v2, v3, v4, v5, l, a, p, kl2, ql2, ka2, qa2, kp2)
    BY <1>3 DEF Puts
  <2>4. /\ IsTree(v5) /\ SameMembers(t, v5) /\ SameParents(t.mem, v5.mem)
        /\ Exchanged(t.mem, v5.mem, l, a, p, kl2, ql2, ka2, qa2, kp2)
        /\ v3.mem[p] = t.mem[p] /\ Ks(v3.mem, a) = Ks(t.mem, a)
        /\ KeysPut(v3, v4, p, kp2) => Ks(v4.mem, a) = Ks(t.mem, a)
    BY <1>4, <1>15, <1>16, <1>17, <2>1, <2>3, PutsInTree
  <2> QED BY <1>8, <2>2, <2>4 DEF m
<1>19. u = v4
  BY <1>2, <1>18 DEF u4, v4, kp2, kp
<1>20. Leaf(m, a) => w = v5
  <2>1. u.mem[a].keys = ka
    BY <1>18, <1>19 DEF Ks
  <2>2. Leaf(m, a) => down = key
    OBVIOUS
  <2> QED BY <1>1, <1>8, <1>19, <2>1, <2>2 DEF v5, ka2
<1>21. ~ Leaf(m, a) => ParentPut(v5, w, ptr, a)
  <2>1. u.mem[a].keys = ka
    BY <1>18, <1>19 DEF Ks
  <2>2. ~ Leaf(m, a) => down = brd
    OBVIOUS
  <2> QED BY <1>1, <1>8, <1>19, <2>1, <2>2 DEF v5, ka2, ParentPut
<1> HIDE DEF down, key, ptr, brd, u4
<1>22. CASE Leaf(m, a)
  <2>1. down = key /\ w = v5
    BY <1>20, <1>22 DEF down
  <2>2. ka2 = <<key>> \o ka
    BY <2>1 DEF ka2
  <2>3. LastMoved(Keys, kl, ka, key, kl2, ka2)
    BY <1>11, <2>2
  <2>4. /\ kl2 \o ka2 = Ks(m, l) \o Ks(m, a) /\ ql2 \o qa2 = Ps(m, l) \o Ps(m, a)
        /\ Len(kl2) = Len(kl) - 1 /\ Len(ql2) = Len(ql) - 1 /\ Len(qa2) = Len(qa) + 1 /\ ka2[1] = key
    BY <1>8, <1>12, <2>3 DEF LastMoved
  <2>5. /\ 0 < Len(kl2) /\ 0 < Len(ka2) /\ Len(ql2) = Len(kl2) /\ Len(qa2) = Len(ka2)
    BY <1>6, <1>7, <1>10, <1>15, <1>22, <2>4
  <2>6. SetAt(kp2, Ks(m, p), i, ka2[1]) /\ Leaf(m, l)
    BY <1>4, <1>8, <1>16, <1>22, <2>4
  <2> DEFINE m2 == v5.mem
  <2>7. Exchanged(m, m2, l, a, p, kl2, ql2, ka2, qa2, kp2) /\ SameParents(m, m2)
    BY <1>18
  <2>8. kl2 \o ka2 = Ks(m, l) \o Ks(m, a) /\ ql2 \o qa2 = Ps(m, l) \o Ps(m, a)
    BY <2>4
  <2> HIDE DEF m2
  <2>9. Borrows(m, g, m2, l, a, p, i, ka2[1])
    BY <1>9, <1>15, <1>16, <1>17, <2>5, <2>6, <2>7, <2>8, LeavesBorrow
  <2>10. /\ Len(Ks(m2, l)) = Len(Ks(m, l)) - 1 /\ Len(Ks(m2, a)) = Len(Ks(m, a)) + 1
         /\ \A c \in DOMAIN m \ {l, a} : Len(Ks(m2, c)) = Len(Ks(m, c))
    BY <1>8, <1>15, <1>16, <2>4, <2>7 DEF Exchanged, SetAt
  <2> QED BY <1>18, <2>1, <2>9, <2>10 DEF Lent, m, m2, w
<1>23. CASE ~ Leaf(m, a)
  <2> DEFINE m5 == v5.mem
             m2 == w.mem
             D == DOMAIN m
  <2>1. down = brd /\ ParentPut(v5, w, ptr, a)
    BY <1>21, <1>23 DEF down
  <2>2. ~ Leaf(m, l)
    BY <1>4, <1>23
  <2>3. /\ \A c \in Elems(ql) : c \in D /\ Up(m, c) = l
        /\ \A c \in Elems(qa) : c \in D /\ Up(m, c) = a
        /\ Distinct(ql) /\ InnerFits(kl, ql, Lo(g, l), Hi(g, l))
    BY <1>4, <1>8, <1>9, <1>23, <2>2, NotOwnChild, ChildFacts
  <2>4. /\ Elems(qa2) = Elems(qa) \cup {ptr} /\ Elems(ql) = Elems(ql2) \cup {ptr}
        /\ ptr = ql[Len(ql)] /\ Len(ql2) = Len(ql) - 1 /\ Len(qa2) = Len(qa) + 1
        /\ \A j \in 1..Len(ql2) : ql2[j] = ql[j]
        /\ ql2 \o qa2 = Ps(m, l) \o Ps(m, a)
    BY <1>8, <1>12 DEF LastMoved
  <2>5. ptr \notin Elems(ql2)
    <3> SUFFICES ASSUME ptr \in Elems(ql2) PROVE FALSE
      OBVIOUS
    <3>1. PICK j \in 1..Len(ql2) : ql2[j] = ptr
      BY <1>17, ElemsFacts
    <3>2. j \in 1..Len(ql) /\ Len(ql) \in 1..Len(ql) /\ j # Len(ql)
      BY <1>10, <2>4
    <3> QED BY <2>3, <2>4, <3>1, <3>2 DEF Distinct
  <2>6. DOMAIN m5 = D /\ ptr \in DOMAIN m5 /\ l # a
    BY <1>4, <1>18, <2>3, <2>4 DEF Exchanged
  <2>7. /\ IsTree(w) /\ SameMembers(v5, w) /\ DOMAIN m2 = DOMAIN m5
        /\ SameNodes(m5, m2, DOMAIN m5)
        /\ \A x \in DOMAIN m5 : Up(m2, x) = IF x = ptr THEN a ELSE Up(m5, x)
    BY <1>5, <1>18, <2>1, <2>6, ParentSet
  <2> HIDE DEF m5, m2
  <2>8. m2 \in [D -> NodeSet]
    BY <2>6, <2>7 DEF IsTree, m2
  <2>9. Exchanged(m, m5, l, a, p, kl2, ql2, ka2, qa2, kp2) /\ SameParents(m, m5)
    BY <1>18 DEF m5
  <2>10. Exchanged(m, m2, l, a, p, kl2, ql2, ka2, qa2, kp2)
    BY <1>4, <2>6, <2>7, <2>8, <2>9, ExchangedAlso
  <2>11. \A c \in D : Up(m2, c) = IF c = ptr THEN a ELSE Up(m, c)
    BY <2>6, <2>7, <2>9 DEF SameParents
  <2>12. \A c \in Elems(ql2) : Up(m2, c) = l
    BY <2>3, <2>4, <2>5, <2>11
  <2>13. \A c \in Elems(qa2) : Up(m2, c) = a
    BY <2>3, <2>4, <2>11
  <2>14. \A c \in D : c \notin Elems(Ps(m, l)) \cup Elems(Ps(m, a)) => Up(m2, c) = Up(m, c)
    BY <1>8, <2>4, <2>11
  <2>15. Lo(g, l) < key /\ key < Hi(g, a)
    <3>1. key \in Elems(kl)
      BY <1>11 DEF LastMoved
    <3>2. Lo(g, l) < key /\ key < Hi(g, l)
      BY <2>3, <3>1 DEF InnerFits
    <3>3. Hi(g, l) = Lo(g, a)
      BY <1>9 DEF Neighbours
    <3>4. Lo(g, a) < Hi(g, a) /\ Lo(g, a) \in Int /\ Hi(g, a) \in Int
      <4>1. Typed(m, g) /\ NonEmpty(m, g)
        BY <1>9, FitsFacts DEF Shape
      <4> QED BY <1>4, <4>1, NodeTypes DEF NonEmpty
    <3>5. key \in Int
      BY <1>13, KeysAreInts
    <3> QED BY <3>2, <3>3, <3>4, <3>5
  <2>16. IsAround((Ks(m, l) \o <<Ks(m, p)[i]>>) \o Ks(m, a), kl2, key, ka2)
    <3>1. IsAround((kl \o <<brd>>) \o ka, kl2, key, <<brd>> \o ka)
      BY <1>5, <1>10, <1>13, BorderMoves DEF key, kl2
    <3> QED BY <1>8, <2>1, <3>1 DEF ka2, brd
  <2>17. Len(ql2) = Len(kl2) + 1 /\ Len(qa2) = Len(ka2) + 1 /\ Len(kl2) = Len(kl) - 1
    <3>1. Len(kl2) = Len(kl) - 1
      BY <1>11 DEF LastMoved
    <3> QED BY <1>7, <1>10, <1>15, <1>23, <2>4, <3>1
  <2>18. SetAt(kp2, Ks(m, p), i, key)
    BY <1>8, <1>16
  <2>19. Borrows(m, g, m2, l, a, p, i, key)
    BY <1>9, <1>13, <1>15, <1>16, <1>17, <2>2, <2>4, <2>10, <2>12, <2>13, <2>14, <2>15, <2>16, <2>17, <2>18,
       InnersBorrow
  <2>20. /\ Len(Ks(m2, l)) = Len(Ks(m, l)) - 1 /\ Len(Ks(m2, a)) = Len(Ks(m, a)) + 1
         /\ \A c \in DOMAIN m \ {l, a} : Len(Ks(m2, c)) = Len(Ks(m, c))
    BY <1>8, <1>15, <1>16, <2>10, <2>17 DEF Exchanged, SetAt
  <2>21. SameMembers(t, w)
    BY <1>18, <2>7 DEF SameMembers
  <2> QED BY <2>7, <2>19, <2>20, <2>21 DEF Lent, m, m2, w
<1> QED BY <1>5, <1>8, <1>22, <1>23

\* The right neighbour lends its first key.
LEMMA RightLends ==
  ASSUME NEW t, IsTree(t), NEW g, Shape(t.mem, t.root, g), NEW r, NEW a, NEW p, NEW i,
         Neighbours(t.mem, g, a, r, p, i), 1 < Len(Ks(t.mem, r))
  PROVE  Lent(t, g, BorrowFromRight(t, a, r, p, i), a, r, p, i, r, a)
<1> DEFINE m == t.mem
           kr == m[r].keys
           qr == m[r].ptrs
           ka == m[a].keys
           qa == m[a].ptrs
           kp == m[p].keys
           key == kr[1]
           ptr == qr[1]
           brd == kp[i]
           down == IF Leaf(m, a) THEN key ELSE brd
           kr2 == Tail(kr)
           sep == IF Leaf(m, a) THEN kr2[1] ELSE key
           qr2 == Tail(qr)
           ka2 == Append(ka, down)
           qa2 == Append(qa, ptr)
           kp2 == [kp EXCEPT ![i] = sep]
           v1 == [t EXCEPT !.mem[r].keys = kr2]
           v2 == [v1 EXCEPT !.mem[r].ptrs = qr2]
           v3 == [v2 EXCEPT !.mem[a].ptrs = qa2]
           v4 == [v3 EXCEPT !.mem[a].keys = ka2]
           v5 == [v4 EXCEPT !.mem[p].keys = kp2]
           u == [t EXCEPT !.mem[r].keys = Tail(@),
                          !.mem[r].ptrs = Tail(@),
                          !.mem[a].ptrs = Append(@, ptr)]
           w == BorrowFromRight(t, a, r, p, i)
<1>1. w = IF m[a].leaf
          THEN [u EXCEPT !.mem[a].keys = Append(@, key), !.mem[p].keys[i] = u.mem[r].keys[1]]
          ELSE [u EXCEPT !.mem[a].keys = Append(@, brd), !.mem[p].keys[i] = key, !.mem[ptr].parent = a]
  BY DEF BorrowFromRight
<1>2. u = v3
  BY DEF BorrowFromRight
<1>3. /\ KeysPut(t, v1, r, kr2) /\ PtrsPut(v1, v2, r, qr2) /\ PtrsPut(v2, v3, a, qa2)
      /\ KeysPut(v3, v4, a, ka2) /\ KeysPut(v4, v5, p, kp2)
  BY DEF KeysPut, PtrsPut
<1>4. /\ r \in DOMAIN m /\ a \in DOMAIN m /\ p \in DOMAIN m /\ r # a /\ r # p /\ a # p
      /\ Leaf(m, a) = Leaf(m, r) /\ i \in 1..Len(kp) /\ kp \in Seq(Keys)
  BY DEF Neighbours, Ks
<1>5. /\ kr \in Seq(Keys) /\ qr \in Seq(Nat) /\ ka \in Seq(Keys) /\ qa \in Seq(Nat)
      /\ m[a].leaf \in BOOLEAN /\ r \in Nat /\ a \in Nat
  <2>1. Typed(m, g)
    BY DEF Shape
  <2>2. m[r] \in NodeSet /\ m[a] \in NodeSet /\ r \in Nat /\ a \in Nat
    BY <1>4, <2>1 DEF Typed
  <2> QED BY <2>2, NodeAs
<1>6. 1 < Len(kr)
  BY DEF Ks
<1>7. Len(qr) = Len(kr) + (IF Leaf(m, a) THEN 0 ELSE 1) /\ Len(qa) = Len(ka) + (IF Leaf(m, a) THEN 0 ELSE 1)
  <2>1. Len(kr) \in Nat /\ Len(ka) \in Nat
    BY <1>5, LenProperties
  <2>2. CASE Leaf(m, a)
    <3>1. Len(Ps(m, r)) = Len(Ks(m, r)) /\ Len(Ps(m, a)) = Len(Ks(m, a))
      BY <1>4, <2>2, LeafFacts
    <3> QED BY <2>1, <2>2, <3>1 DEF Ks, Ps
  <2>3. CASE ~ Leaf(m, a)
    <3>1. Len(Ps(m, r)) = Len(Ks(m, r)) + 1 /\ Len(Ps(m, a)) = Len(Ks(m, a)) + 1
      BY <1>4, <2>3, ChildFacts
    <3> QED BY <2>1, <2>3, <3>1 DEF Ks, Ps
  <2> QED BY <2>2, <2>3
<1>8. Leaf(m, a) = m[a].leaf /\ Ks(m, r) = kr /\ Ks(m, a) = ka /\ Ps(m, r) = qr /\ Ps(m, a) = qa /\ Ks(m, p) = kp
  BY DEF Ks, Ps, Leaf
<1>9. Shape(m, t.root, g) /\ Neighbours(m, g, a, r, p, i)
  OBVIOUS
<1> HIDE DEF u, w, m, kr, qr, ka, qa, kp
<1>10. Len(kr) \in Nat /\ Len(ka) \in Nat /\ Len(qr) \in Nat /\ Len(qa) \in Nat /\ 0 < Len(kr) /\ 0 < Len(qr)
  BY <1>5, <1>6, <1>7, LenProperties
<1>11. FirstMoved(Keys, ka, kr, key, Append(ka, key), kr2)
  BY <1>5, <1>10, FirstMoves
<1>12. FirstMoved(Nat, qa, qr, ptr, qa2, qr2)
  BY <1>5, <1>10, FirstMoves
<1>13. brd \in Keys /\ key \in Keys
  BY <1>4, <1>11, ElementOfSeq DEF FirstMoved
<1>14. kr2 \in Seq(Keys) /\ Len(kr2) = Len(kr) - 1
  BY <1>11 DEF FirstMoved
<1>24. kr2[1] \in Keys
  <2>1. 1 \in 1..Len(kr2)
    BY <1>6, <1>10, <1>14
  <2> HIDE DEF kr2
  <2> QED BY <1>14, <2>1, ElementOfSeq
<1>25. down \in Keys /\ sep \in Keys
  BY <1>13, <1>24
<1>15. ka2 \in Seq(Keys) /\ Len(ka2) = Len(ka) + 1
  <2> HIDE DEF down
  <2> QED BY <1>5, <1>25, AppendProperties
<1>16. kp2 \in Seq(Keys) /\ SetAt(kp2, kp, i, sep)
  BY <1>4, <1>25, KeySet
<1>17. kr2 \in Seq(Keys) /\ qr2 \in Seq(Nat) /\ qa2 \in Seq(Nat)
  BY <1>11, <1>12 DEF FirstMoved
<1> HIDE DEF kr2, qr2, ka2, qa2, kp2, v1, v2, v3, v4, v5, sep
<1>18. /\ IsTree(v5) /\ SameMembers(t, v5) /\ SameParents(m, v5.mem)
       /\ Exchanged(m, v5.mem, a, r, p, ka2, qa2, kr2, qr2, kp2)
       /\ v3.mem[p] = m[p] /\ Ks(v3.mem, a) = ka /\ Ks(v3.mem, r) = kr2 /\ v4.mem[p] = m[p]
  <2>1. r \in DOMAIN t.mem /\ a \in DOMAIN t.mem /\ p \in DOMAIN t.mem
    BY <1>4 DEF m
  <2>2. KeysPut(v3, v4, a, ka2)
    BY <1>3
  <2>3. Puts(t, v1, v2, v3, v4, v5, r, a, p, kr2, qr2, ka2, qa2, kp2)
    BY <1>3 DEF Puts
  <2>4. /\ IsTree(v5) /\ SameMembers(t, v5) /\ SameParents(t.mem, v5.mem)
        /\ Exchanged(t.mem, v5.mem, a, r, p, ka2, qa2, kr2, qr2, kp2)
        /\ v3.mem[p] = t.mem[p] /\ Ks(v3.mem, a) = Ks(t.mem, a) /\ Ks(v3.mem, r) = kr2
        /\ KeysPut(v3, v4, a, ka2) => v4.mem[p] = t.mem[p]
    BY <1>4, <1>15, <1>16, <1>17, <2>1, <2>3, PutsInTree
  <2> QED BY <1>8, <2>2, <2>4 DEF m
<1>19. u.mem[a].keys = ka /\ u.mem[r].keys = kr2 /\ v4.mem[p].keys = kp
  BY <1>2, <1>8, <1>18 DEF Ks
<1>20. Leaf(m, a) => w = v5
  <2> SUFFICES ASSUME Leaf(m, a) PROVE w = v5
    OBVIOUS
  <2>2. down = key /\ sep = kr2[1]
    BY DEF sep
  <2>3. w = [u EXCEPT !.mem[a].keys = Append(@, key), !.mem[p].keys[i] = u.mem[r].keys[1]]
    BY <1>1, <1>8
  <2>4. w = [u EXCEPT !.mem[a].keys = ka2, !.mem[p].keys[i] = sep]
    BY <1>19, <2>2, <2>3 DEF ka2
  <2>5. w = [v4 EXCEPT !.mem[p].keys[i] = sep]
    BY <1>2, <2>4 DEF v4
  <2> QED BY <1>19, <2>5 DEF v5, kp2
<1>21. ~ Leaf(m, a) => ParentPut(v5, w, ptr, a)
  <2> SUFFICES ASSUME ~ Leaf(m, a) PROVE ParentPut(v5, w, ptr, a)
    OBVIOUS
  <2>2. down = brd /\ sep = key
    BY DEF sep
  <2>3. w = [u EXCEPT !.mem[a].keys = Append(@, brd), !.mem[p].keys[i] = key, !.mem[ptr].parent = a]
    BY <1>1, <1>8
  <2>4. w = [u EXCEPT !.mem[a].keys = ka2, !.mem[p].keys[i] = sep, !.mem[ptr].parent = a]
    BY <1>19, <2>2, <2>3 DEF ka2
  <2>5. w = [[v4 EXCEPT !.mem[p].keys[i] = sep] EXCEPT !.mem[ptr].parent = a]
    BY <1>2, <2>4 DEF v4
  <2>6. v5 = [v4 EXCEPT !.mem[p].keys[i] = sep]
    BY <1>19 DEF v5, kp2
  <2> QED BY <2>5, <2>6 DEF ParentPut
<1> HIDE DEF down, key, ptr, brd
<1>22. CASE Leaf(m, a)
  <2>1. down = key /\ sep = kr2[1] /\ w = v5
    BY <1>20, <1>22 DEF down, sep
  <2>2. ka2 = Append(ka, key)
    BY <2>1 DEF ka2
  <2>3. FirstMoved(Keys, ka, kr, key, ka2, kr2)
    BY <1>11, <2>2
  <2>4. /\ ka2 \o kr2 = Ks(m, a) \o Ks(m, r) /\ qa2 \o qr2 = Ps(m, a) \o Ps(m, r)
        /\ Len(qr2) = Len(qr) - 1 /\ Len(qa2) = Len(qa) + 1
    BY <1>8, <1>12, <2>3 DEF FirstMoved
  <2>5. /\ 0 < Len(kr2) /\ 0 < Len(ka2) /\ Len(qr2) = Len(kr2) /\ Len(qa2) = Len(ka2)
    BY <1>6, <1>7, <1>10, <1>14, <1>15, <1>22, <2>4
  <2>6. SetAt(kp2, Ks(m, p), i, kr2[1])
    BY <1>8, <1>16, <2>1
  <2> DEFINE m2 == v5.mem
  <2>7. Exchanged(m, m2, a, r, p, ka2, qa2, kr2, qr2, kp2) /\ SameParents(m, m2)
    BY <1>18
  <2>8. ka2 \o kr2 = Ks(m, a) \o Ks(m, r) /\ qa2 \o qr2 = Ps(m, a) \o Ps(m, r)
    BY <2>4
  <2> HIDE DEF m2
  <2>9. Borrows(m, g, m2, a, r, p, i, kr2[1])
    BY <1>9, <1>15, <1>16, <1>17, <1>22, <2>5, <2>6, <2>7, <2>8, LeavesBorrow
  <2>10. /\ Len(Ks(m2, r)) = Len(Ks(m, r)) - 1 /\ Len(Ks(m2, a)) = Len(Ks(m, a)) + 1
         /\ \A c \in DOMAIN m \ {r, a} : Len(Ks(m2, c)) = Len(Ks(m, c))
    BY <1>8, <1>14, <1>15, <1>16, <2>7 DEF Exchanged, SetAt
  <2> QED BY <1>18, <2>1, <2>9, <2>10 DEF Lent, m, m2, w
<1>23. CASE ~ Leaf(m, a)
  <2> DEFINE m5 == v5.mem
             m2 == w.mem
             D == DOMAIN m
  <2>1. down = brd /\ sep = key /\ ParentPut(v5, w, ptr, a)
    BY <1>21, <1>23 DEF down, sep
  <2>2. ~ Leaf(m, r)
    BY <1>4, <1>23
  <2>3. /\ \A c \in Elems(qr) : c \in D /\ Up(m, c) = r
        /\ \A c \in Elems(qa) : c \in D /\ Up(m, c) = a
        /\ Distinct(qr) /\ InnerFits(kr, qr, Lo(g, r), Hi(g, r))
    BY <1>4, <1>8, <1>9, <1>23, <2>2, NotOwnChild, ChildFacts
  <2>4. /\ Elems(qa2) = Elems(qa) \cup {ptr} /\ Elems(qr) = Elems(qr2) \cup {ptr}
        /\ Len(qr2) = Len(qr) - 1 /\ Len(qa2) = Len(qa) + 1
        /\ \A j \in 1..Len(qr2) : qr2[j] = qr[j + 1]
        /\ qa2 \o qr2 = Ps(m, a) \o Ps(m, r)
    BY <1>8, <1>12 DEF FirstMoved
  <2>5. ptr \notin Elems(qr2)
    <3> SUFFICES ASSUME ptr \in Elems(qr2) PROVE FALSE
      OBVIOUS
    <3>1. PICK j \in 1..Len(qr2) : qr2[j] = ptr
      BY <1>17, ElemsFacts
    <3>2. j + 1 \in 1..Len(qr) /\ 1 \in 1..Len(qr) /\ j + 1 # 1
      BY <1>10, <2>4
    <3> QED BY <2>3, <2>4, <3>1, <3>2 DEF Distinct, ptr
  <2>6. DOMAIN m5 = D /\ ptr \in DOMAIN m5
    BY <1>4, <1>18, <2>3, <2>4 DEF Exchanged
  <2>7. /\ IsTree(w) /\ SameMembers(v5, w) /\ DOMAIN m2 = DOMAIN m5
        /\ SameNodes(m5, m2, DOMAIN m5)
        /\ \A x \in DOMAIN m5 : Up(m2, x) = IF x = ptr THEN a ELSE Up(m5, x)
    BY <1>5, <1>18, <2>1, <2>6, ParentSet
  <2> HIDE DEF m5, m2
  <2>8. m2 \in [D -> NodeSet]
    BY <2>6, <2>7 DEF IsTree, m2
  <2>9. Exchanged(m, m5, a, r, p, ka2, qa2, kr2, qr2, kp2) /\ SameParents(m, m5)
    BY <1>18 DEF m5
  <2>10. Exchanged(m, m2, a, r, p, ka2, qa2, kr2, qr2, kp2)
    BY <1>4, <2>6, <2>7, <2>8, <2>9, ExchangedAlso
  <2>11. \A c \in D : Up(m2, c) = IF c = ptr THEN a ELSE Up(m, c)
    BY <2>6, <2>7, <2>9 DEF SameParents
  <2>12. \A c \in Elems(qr2) : Up(m2, c) = r
    BY <2>3, <2>4, <2>5, <2>11
  <2>13. \A c \in Elems(qa2) : Up(m2, c) = a
    BY <2>3, <2>4, <2>11
  <2>14. \A c \in D : c \notin Elems(Ps(m, a)) \cup Elems(Ps(m, r)) => Up(m2, c) = Up(m, c)
    BY <1>8, <2>4, <2>11
  <2>15. Lo(g, a) < key /\ key < Hi(g, r)
    <3>1. key \in Elems(kr)
      BY <1>11 DEF FirstMoved
    <3>2. Lo(g, r) < key /\ key < Hi(g, r)
      BY <2>3, <3>1 DEF InnerFits
    <3>3. Hi(g, a) = Lo(g, r)
      BY <1>9 DEF Neighbours
    <3>4. Lo(g, a) < Hi(g, a) /\ Lo(g, a) \in Int /\ Hi(g, a) \in Int
      <4>1. Typed(m, g) /\ NonEmpty(m, g)
        BY <1>9, FitsFacts DEF Shape
      <4> QED BY <1>4, <4>1, NodeTypes DEF NonEmpty
    <3>5. key \in Int
      BY <1>13, KeysAreInts
    <3> QED BY <3>2, <3>3, <3>4, <3>5
  <2>16. IsAround((Ks(m, a) \o <<Ks(m, p)[i]>>) \o Ks(m, r), ka2, key, kr2)
    <3>1. IsAround((ka \o <<brd>>) \o kr, Append(ka, brd), key, kr2)
      BY <1>5, <1>10, <1>13, BorderMoves DEF key, kr2
    <3> QED BY <1>8, <2>1, <3>1 DEF ka2, brd
  <2>17. Len(qr2) = Len(kr2) + 1 /\ Len(qa2) = Len(ka2) + 1
    BY <1>7, <1>10, <1>14, <1>15, <1>23, <2>4
  <2>18. SetAt(kp2, Ks(m, p), i, key)
    BY <1>8, <1>16, <2>1
  <2>19. Borrows(m, g, m2, a, r, p, i, key)
    BY <1>9, <1>13, <1>15, <1>16, <1>17, <1>23, <2>4, <2>10, <2>12, <2>13, <2>14, <2>15, <2>16, <2>17, <2>18,
       InnersBorrow
  <2>20. /\ Len(Ks(m2, r)) = Len(Ks(m, r)) - 1 /\ Len(Ks(m2, a)) = Len(Ks(m, a)) + 1
         /\ \A c \in DOMAIN m \ {r, a} : Len(Ks(m2, c)) = Len(Ks(m, c))
    BY <1>8, <1>14, <1>15, <1>16, <2>10 DEF Exchanged, SetAt
  <2>21. SameMembers(t, w)
    BY <1>18, <2>7 DEF SameMembers
  <2> QED BY <2>7, <2>19, <2>20, <2>21 DEF Lent, m, m2, w
<1> QED BY <1>5, <1>8, <1>22, <1>23

\* One node gets another successor.
NextPut(t, u, a, n) == u = [t EXCEPT !.mem[a].next = n]

\* A leaf with another successor
LEMMA NextSet ==
  ASSUME NEW t, IsTree(t), NEW a \in DOMAIN t.mem, NEW n \in Nat,
         NEW u, NextPut(t, u, a, n)
  PROVE  /\ IsTree(u) /\ SameMembers(t, u)
         /\ NodePut(t.mem, u.mem, a, Ks(t.mem, a), Ps(t.mem, a), n)
<1> DEFINE m == t.mem
           m2 == u.mem
           x == m[a]
           r == m2[a]
<1>1. /\ DOMAIN m2 = DOMAIN m /\ m2 = [c \in DOMAIN m |-> m2[c]]
      /\ m2[a] = [m[a] EXCEPT !.next = n]
      /\ \A c \in DOMAIN m \ {a} : m2[c] = m[c]
      /\ SameMembers(t, u)
      /\ u \in [order : Nat, root : Nat, count : Int, mem : {u.mem}]
  BY DEF IsTree, SameMembers, NodeSet, NextPut
<1>2. \A c \in DOMAIN m : m[c] \in NodeSet
  BY DEF IsTree
<1>3. x \in NodeSet /\ r = [x EXCEPT !.next = n]
  BY <1>1, <1>2
<1> HIDE DEF x, r
<1>4. /\ r \in NodeSet /\ r.ptrs = x.ptrs /\ r.keys = x.keys /\ r.leaf = x.leaf
      /\ r.next = n /\ r.prev = x.prev /\ r.parent = x.parent
  BY <1>3 DEF NodeSet
<1>5. r = m2[a] /\ x = m[a] /\ a \in DOMAIN m
  BY DEF x, r
<1> HIDE DEF m
<1>6. \A c \in DOMAIN m2 : m2[c] \in NodeSet
  BY <1>1, <1>2, <1>4, <1>5
<1>7. IsTree(u)
  BY <1>1, <1>6, TreeWith
<1>8. NodePut(m, m2, a, Ks(m, a), Ps(m, a), n)
  BY <1>1, <1>4, <1>5 DEF NodePut, Leaf, Ks, Ps, Nx, Pv, Up
<1> QED BY <1>1, <1>7, <1>8 DEF m

\* The assignments of a merge, but for those to the nodes that the right one leads to:
\* the node l gets the keys k, the pointers q and the successor nx, its parent p the
\* keys kp and the children qp.
Gathers(t, v1, v2, v3, v4, u, l, p, k, q, nx, kp, qp) ==
  /\ KeysPut(t, v1, l, k) /\ PtrsPut(v1, v2, l, q) /\ NextPut(v2, v3, l, nx)
  /\ KeysPut(v3, v4, p, kp) /\ PtrsPut(v4, u, p, qp)

Gathered(m, m2, l, p, k, q, nx, kp, qp) ==
  /\ DOMAIN m2 = DOMAIN m /\ \A c \in DOMAIN m \ {l, p} : m2[c] = m[c]
  /\ Ks(m2, l) = k /\ Ps(m2, l) = q /\ Nx(m2, l) = nx
  /\ Ks(m2, p) = kp /\ Ps(m2, p) = qp /\ Nx(m2, p) = Nx(m, p)
  /\ \A c \in DOMAIN m : Leaf(m2, c) = Leaf(m, c) /\ Pv(m2, c) = Pv(m, c) /\ Up(m2, c) = Up(m, c)

\* The assignments of a merge, one after the other
LEMMA GathersFacts ==
  ASSUME NEW t, IsTree(t), NEW l \in DOMAIN t.mem, NEW p \in DOMAIN t.mem, l # p,
         NEW k \in Seq(Keys), NEW q \in Seq(Nat), NEW nx \in Nat, NEW kp \in Seq(Keys), NEW qp \in Seq(Nat),
         NEW v1, NEW v2, NEW v3, NEW v4, NEW u, Gathers(t, v1, v2, v3, v4, u, l, p, k, q, nx, kp, qp)
  PROVE  IsTree(u) /\ SameMembers(t, u) /\ Gathered(t.mem, u.mem, l, p, k, q, nx, kp, qp)
<1> DEFINE D == DOMAIN t.mem
           P(v, w, c, kc, qc, n) == IsTree(w) /\ SameMembers(v, w) /\ NodePut(v.mem, w.mem, c, kc, qc, n)
<1>0. l \in D /\ p \in D
  OBVIOUS
<1> HIDE DEF D
<1>1. /\ KeysPut(t, v1, l, k) /\ PtrsPut(v1, v2, l, q) /\ NextPut(v2, v3, l, nx)
      /\ KeysPut(v3, v4, p, kp) /\ PtrsPut(v4, u, p, qp)
  BY DEF Gathers
<1>2. P(t, v1, l, k, Ps(t.mem, l), Nx(t.mem, l))
  BY <1>1, KeysSet
<1>3. DOMAIN v1.mem = D
  BY <1>2 DEF NodePut, D
<1>4. P(v1, v2, l, Ks(v1.mem, l), q, Nx(v1.mem, l))
  BY <1>0, <1>1, <1>2, <1>3, PtrsSet
<1>5. DOMAIN v2.mem = D
  BY <1>3, <1>4 DEF NodePut
<1>6. P(v2, v3, l, Ks(v2.mem, l), Ps(v2.mem, l), nx)
  BY <1>0, <1>1, <1>4, <1>5, NextSet
<1>7. DOMAIN v3.mem = D
  BY <1>5, <1>6 DEF NodePut
<1>8. P(v3, v4, p, kp, Ps(v3.mem, p), Nx(v3.mem, p))
  BY <1>0, <1>1, <1>6, <1>7, KeysSet
<1>9. DOMAIN v4.mem = D
  BY <1>7, <1>8 DEF NodePut
<1>10. P(v4, u, p, Ks(v4.mem, p), qp, Nx(v4.mem, p))
  BY <1>0, <1>1, <1>8, <1>9, PtrsSet
<1>11. SameMembers(t, u)
  BY <1>2, <1>4, <1>6, <1>8, <1>10 DEF SameMembers
<1> DEFINE m == t.mem
           m1 == v1.mem
           m2 == v2.mem
           m3 == v3.mem
           m4 == v4.mem
           m5 == u.mem
<1>12. /\ NodePut(m, m1, l, k, Ps(m, l), Nx(m, l)) /\ NodePut(m1, m2, l, Ks(m1, l), q, Nx(m1, l))
       /\ NodePut(m2, m3, l, Ks(m2, l), Ps(m2, l), nx)
       /\ NodePut(m3, m4, p, kp, Ps(m3, p), Nx(m3, p)) /\ NodePut(m4, m5, p, Ks(m4, p), qp, Nx(m4, p))
  BY <1>2, <1>4, <1>6, <1>8, <1>10
<1>13. D = DOMAIN m /\ DOMAIN m1 = D /\ DOMAIN m2 = D /\ DOMAIN m3 = D /\ DOMAIN m4 = D
  BY <1>3, <1>5, <1>7, <1>9 DEF D
<1> HIDE DEF m, m1, m2, m3, m4, m5
<1>14. /\ DOMAIN m5 = D /\ \A c \in D \ {l, p} : m5[c] = m[c]
  <2>1. DOMAIN m5 = D /\ \A c \in D \ {p} : m5[c] = m4[c] /\ m4[c] = m3[c]
    BY <1>12, <1>13 DEF NodePut
  <2>2. \A c \in D \ {l} : m3[c] = m2[c] /\ m2[c] = m1[c] /\ m1[c] = m[c]
    BY <1>12, <1>13 DEF NodePut
  <2> QED BY <2>1, <2>2
<1>15. /\ Leaf(m3, l) = Leaf(m, l) /\ Ks(m3, l) = k /\ Ps(m3, l) = q /\ Nx(m3, l) = nx
       /\ Pv(m3, l) = Pv(m, l) /\ Up(m3, l) = Up(m, l)
  BY <1>12 DEF NodePut
<1>16. m5[l] = m3[l] /\ m3[p] = m[p]
  <2>1. m5[l] = m4[l] /\ m4[l] = m3[l]
    BY <1>0, <1>12, <1>13 DEF NodePut
  <2>2. m3[p] = m2[p] /\ m2[p] = m1[p] /\ m1[p] = m[p]
    BY <1>0, <1>12, <1>13 DEF NodePut
  <2> QED BY <2>1, <2>2
<1>17. /\ Leaf(m5, l) = Leaf(m, l) /\ Ks(m5, l) = k /\ Ps(m5, l) = q /\ Nx(m5, l) = nx
       /\ Pv(m5, l) = Pv(m, l) /\ Up(m5, l) = Up(m, l)
  BY <1>15, <1>16 DEF Leaf, Ks, Ps, Nx, Pv, Up
<1>18. /\ Leaf(m5, p) = Leaf(m3, p) /\ Ks(m5, p) = kp /\ Ps(m5, p) = qp /\ Nx(m5, p) = Nx(m3, p)
       /\ Pv(m5, p) = Pv(m3, p) /\ Up(m5, p) = Up(m3, p)
  BY <1>12 DEF NodePut
<1>19. /\ Leaf(m3, p) = Leaf(m, p) /\ Nx(m3, p) = Nx(m, p) /\ Pv(m3, p) = Pv(m, p) /\ Up(m3, p) = Up(m, p)
  BY <1>16 DEF Leaf, Nx, Pv, Up
<1>20. \A c \in D \ {l, p} : Leaf(m5, c) = Leaf(m, c) /\ Pv(m5, c) = Pv(m, c) /\ Up(m5, c) = Up(m, c)
  BY <1>14 DEF Leaf, Pv, Up
<1>21. Gathered(m, m5, l, p, k, q, nx, kp, qp)
  BY <1>13, <1>14, <1>17, <1>18, <1>19, <1>20 DEF Gathered
<1> QED BY <1>10, <1>11, <1>21 DEF m, m5

\* The predecessors, or the parents, of the nodes that the right one led to, after
\* which the right one is deleted
Handed(m, mu, mw, l, r, back) ==
  /\ mw \in [DOMAIN m \ {r} -> NodeSet]
  /\ \A c \in DOMAIN m \ {r} :
       /\ Leaf(mw, c) = Leaf(mu, c) /\ Ks(mw, c) = Ks(mu, c) /\ Ps(mw, c) = Ps(mu, c) /\ Nx(mw, c) = Nx(mu, c)
       /\ Pv(mw, c) = IF back /\ c = Nx(m, r) THEN l ELSE Pv(mu, c)
       /\ Up(mw, c) = IF ~ back /\ c \in Elems(Ps(m, r)) THEN l ELSE Up(mu, c)

\* Merging two leaves, or two internal nodes over their parent's key, unites them.
LEMMA HandedUnites ==
  ASSUME NEW m, NEW root, NEW g, Shape(m, root, g), NEW l, NEW r, NEW p, NEW i,
         Neighbours(m, g, l, r, p, i), NEW mu, NEW mw, NEW k, NEW q, NEW nx, NEW kp, NEW qp,
         Gathered(m, mu, l, p, k, q, nx, kp, qp), Handed(m, mu, mw, l, r, Leaf(m, l)),
         TakenAt(kp, Ks(m, p), i), TakenAt(qp, Ps(m, p), i + 1), Joined(q, Ps(m, l), Ps(m, r)),
         nx = Nx(m, r),
         IF Leaf(m, l) THEN JoinedKeys(k, Ks(m, l), Ks(m, r))
                       ELSE JoinedAround(k, Ks(m, l), Ks(m, p)[i], Ks(m, r))
  PROVE  Unites(m, mw, l, r, p, i)
<1> DEFINE D == DOMAIN m
<1>1. l \in D /\ r \in D /\ p \in D /\ l # r /\ l # p /\ r # p /\ Leaf(m, r) = Leaf(m, l) /\ Hi(g, l) = Lo(g, r)
  BY DEF Neighbours
<1>2. \A c \in D \ {l, p} : mu[c] = m[c]
  BY DEF Gathered
<1>3. \A c \in D \ {l, p} : Ks(mu, c) = Ks(m, c) /\ Ps(mu, c) = Ps(m, c) /\ Nx(mu, c) = Nx(m, c)
  BY <1>2 DEF Ks, Ps, Nx
<1>4. /\ Ks(mu, l) = k /\ Ps(mu, l) = q /\ Nx(mu, l) = nx
      /\ Ks(mu, p) = kp /\ Ps(mu, p) = qp /\ Nx(mu, p) = Nx(m, p)
      /\ \A c \in D : Leaf(mu, c) = Leaf(m, c) /\ Pv(mu, c) = Pv(m, c) /\ Up(mu, c) = Up(m, c)
  BY DEF Gathered
<1>5. /\ mw \in [D \ {r} -> NodeSet]
      /\ \A c \in D \ {r} :
           /\ Leaf(mw, c) = Leaf(mu, c) /\ Ks(mw, c) = Ks(mu, c) /\ Ps(mw, c) = Ps(mu, c) /\ Nx(mw, c) = Nx(mu, c)
           /\ Pv(mw, c) = IF Leaf(m, l) /\ c = Nx(m, r) THEN l ELSE Pv(mu, c)
           /\ Up(mw, c) = IF ~ Leaf(m, l) /\ c \in Elems(Ps(m, r)) THEN l ELSE Up(mu, c)
  BY DEF Handed
<1>6. Leaf(m, l) => Nx(m, r) # l
  <2> SUFFICES ASSUME Leaf(m, l), Nx(m, r) = l PROVE FALSE
    OBVIOUS
  <2>1. Typed(m, g) /\ NonEmpty(m, g) /\ Linked(m, g)
    BY FitsFacts DEF Shape
  <2>2. l # Null /\ Lo(g, l) \in Int /\ Hi(g, l) \in Int /\ Lo(g, r) \in Int /\ Hi(g, r) \in Int
    BY <1>1, <2>1, NodeTypes
  <2>3. NextOK(m, g, r)
    BY <1>1, <2>1 DEF Linked
  <2>4. Lo(g, l) = Hi(g, r)
    BY <2>2, <2>3 DEF NextOK
  <2>5. Lo(g, l) < Hi(g, l) /\ Lo(g, r) < Hi(g, r)
    BY <1>1, <2>1 DEF NonEmpty
  <2> QED BY <1>1, <2>2, <2>4, <2>5
<1>7. ~ Leaf(m, l) => Nx(m, r) = Null /\ Nx(m, l) = Null
  <2>1. Linked(m, g)
    BY DEF Shape
  <2> QED BY <1>1, <2>1 DEF Linked
<1>8. Ks(mw, l) = k /\ Ps(mw, l) = q /\ Ks(mw, p) = kp /\ Ps(mw, p) = qp /\ Nx(mw, l) = Nx(m, r)
  BY <1>1, <1>4, <1>5
<1>9. \A c \in D \ {l, r, p} : Ks(mw, c) = Ks(m, c) /\ Ps(mw, c) = Ps(m, c)
  BY <1>3, <1>5
<1>10. \A c \in D \ {l, r} : Nx(mw, c) = Nx(m, c)
  BY <1>1, <1>3, <1>4, <1>5
<1>11. \A c \in D \ {r} : Leaf(mw, c) = Leaf(m, c)
  BY <1>4, <1>5
<1>12. \A c \in D \ {r} : Up(mw, c) = IF ~ Leaf(m, l) /\ c \in Elems(Ps(m, r)) THEN l ELSE Up(m, c)
  BY <1>4, <1>5
<1>13. \A c \in D \ {r} : Pv(mw, c) = IF Leaf(m, l) /\ c = Nx(m, r) THEN l ELSE Pv(m, c)
  BY <1>4, <1>5
<1>14. Pv(mw, l) = Pv(m, l)
  BY <1>1, <1>6, <1>13
<1>15. IF Leaf(m, l)
       THEN /\ JoinedKeys(Ks(mw, l), Ks(m, l), Ks(m, r))
            /\ Nx(mw, l) = Nx(m, r)
            /\ \A x \in D \ {l, r} : Pv(mw, x) = IF x = Nx(m, r) THEN l ELSE Pv(m, x)
       ELSE /\ JoinedAround(Ks(mw, l), Ks(m, l), Ks(m, p)[i], Ks(m, r))
            /\ Nx(mw, l) = Nx(m, l)
            /\ \A x \in D \ {l, r} : Pv(mw, x) = Pv(m, x)
  <2>1. CASE Leaf(m, l)
    BY <1>8, <1>13, <2>1
  <2>2. CASE ~ Leaf(m, l)
    BY <1>7, <1>8, <1>13, <2>2
  <2> QED BY <2>1, <2>2
<1>16. /\ TakenAt(Ks(mw, p), Ks(m, p), i) /\ TakenAt(Ps(mw, p), Ps(m, p), i + 1)
       /\ Joined(Ps(mw, l), Ps(m, l), Ps(m, r))
  BY <1>8
<1> QED BY <1>5, <1>9, <1>10, <1>11, <1>12, <1>14, <1>15, <1>16 DEF Unites

\* What is handed over to the left one of two leaves ...
LEMMA BackHanded ==
  ASSUME NEW t, NEW u, IsTree(u), NEW l \in Nat, NEW r, DOMAIN u.mem = DOMAIN t.mem,
         DOMAIN t.mem \subseteq Nat \ {Null},
         NEW nx, nx = Nx(t.mem, r), nx = Null \/ nx \in DOMAIN t.mem
  PROVE  LET w == Deleted(BackLinked(u, nx, l), {r})
         IN  IsTree(w) /\ SameMembers(u, w) /\ Handed(t.mem, u.mem, w.mem, l, r, TRUE)
<1> DEFINE D == DOMAIN t.mem
           v == BackLinked(u, nx, l)
           w == Deleted(v, {r})
<1>1. /\ DOMAIN v.mem = DOMAIN u.mem
      /\ \A c \in DOMAIN u.mem :
           v.mem[c] = IF c = nx /\ nx # Null THEN [u.mem[c] EXCEPT !.prev = l] ELSE u.mem[c]
      /\ SameMembers(u, v) /\ IsTree(v)
  <2>1. nx = Null \/ nx \in DOMAIN u.mem
    OBVIOUS
  <2>2. IsTree(u) /\ l \in Nat
    OBVIOUS
  <2> QED BY ONLY <2>1, <2>2, BackLinkedFacts
<1> HIDE DEF v
<1>2. /\ DOMAIN w.mem = DOMAIN v.mem \ {r}
      /\ \A c \in DOMAIN v.mem \ {r} : w.mem[c] = v.mem[c]
      /\ SameMembers(v, w) /\ IsTree(w)
  BY <1>1, DeletedFacts
<1> HIDE DEF w
<1>3. SameMembers(u, w)
  BY <1>1, <1>2 DEF SameMembers
<1>4. w.mem \in [D \ {r} -> NodeSet]
  BY <1>1, <1>2 DEF IsTree
<1>5. ASSUME NEW c \in D \ {r}
      PROVE  /\ Leaf(w.mem, c) = Leaf(u.mem, c) /\ Ks(w.mem, c) = Ks(u.mem, c)
             /\ Ps(w.mem, c) = Ps(u.mem, c) /\ Nx(w.mem, c) = Nx(u.mem, c)
             /\ Pv(w.mem, c) = (IF TRUE /\ c = Nx(t.mem, r) THEN l ELSE Pv(u.mem, c))
             /\ Up(w.mem, c) = (IF ~ TRUE /\ c \in Elems(Ps(t.mem, r)) THEN l ELSE Up(u.mem, c))
  <2> DEFINE n == u.mem[c]
  <2>1. n \in NodeSet /\ w.mem[c] = IF c = nx THEN [n EXCEPT !.prev = l] ELSE n
    BY <1>1, <1>2 DEF IsTree
  <2> HIDE DEF n
  <2>2. CASE c = nx
    <3> DEFINE x == w.mem[c]
    <3>1. x = [n EXCEPT !.prev = l]
      BY <2>1, <2>2
    <3> HIDE DEF x
    <3>2. /\ x.leaf = n.leaf /\ x.keys = n.keys /\ x.ptrs = n.ptrs /\ x.next = n.next
          /\ x.prev = l /\ x.parent = n.parent
      BY <2>1, <3>1 DEF NodeSet
    <3> QED BY <2>2, <3>2 DEF x, n, Leaf, Ks, Ps, Nx, Pv, Up
  <2>3. CASE c # nx
    BY <2>1, <2>3 DEF n, Leaf, Ks, Ps, Nx, Pv, Up
  <2> QED BY <2>2, <2>3
<1>6. Handed(t.mem, u.mem, w.mem, l, r, TRUE)
  BY <1>4, <1>5 DEF Handed
<1> QED BY <1>2, <1>3, <1>6 DEF w, v

\* ... and of two internal nodes
LEMMA ChildrenHanded ==
  ASSUME NEW t, NEW u, IsTree(u), NEW l \in Nat, NEW r, DOMAIN u.mem = DOMAIN t.mem,
         NEW q, q = Ps(t.mem, r)
  PROVE  LET w == Deleted(Adopted(u, l, q), {r})
         IN  IsTree(w) /\ SameMembers(u, w) /\ Handed(t.mem, u.mem, w.mem, l, r, FALSE)
<1> DEFINE D == DOMAIN t.mem
           v == Adopted(u, l, q)
           w == Deleted(v, {r})
<1>1. /\ DOMAIN v.mem = DOMAIN u.mem
      /\ \A c \in DOMAIN u.mem :
           v.mem[c] = IF c \in Elems(q) THEN [u.mem[c] EXCEPT !.parent = l] ELSE u.mem[c]
      /\ SameMembers(u, v) /\ IsTree(v)
  BY AdoptedFacts
<1> HIDE DEF v
<1>2. /\ DOMAIN w.mem = DOMAIN v.mem \ {r}
      /\ \A c \in DOMAIN v.mem \ {r} : w.mem[c] = v.mem[c]
      /\ SameMembers(v, w) /\ IsTree(w)
  BY <1>1, DeletedFacts
<1> HIDE DEF w
<1>3. SameMembers(u, w)
  BY <1>1, <1>2 DEF SameMembers
<1>4. w.mem \in [D \ {r} -> NodeSet]
  BY <1>1, <1>2 DEF IsTree
<1>5. ASSUME NEW c \in D \ {r}
      PROVE  /\ Leaf(w.mem, c) = Leaf(u.mem, c) /\ Ks(w.mem, c) = Ks(u.mem, c)
             /\ Ps(w.mem, c) = Ps(u.mem, c) /\ Nx(w.mem, c) = Nx(u.mem, c)
             /\ Pv(w.mem, c) = (IF FALSE /\ c = Nx(t.mem, r) THEN l ELSE Pv(u.mem, c))
             /\ Up(w.mem, c) = (IF ~ FALSE /\ c \in Elems(Ps(t.mem, r)) THEN l ELSE Up(u.mem, c))
  <2> DEFINE n == u.mem[c]
  <2>1. n \in NodeSet /\ w.mem[c] = IF c \in Elems(q) THEN [n EXCEPT !.parent = l] ELSE n
    BY <1>1, <1>2 DEF IsTree
  <2> HIDE DEF n
  <2>2. CASE c \in Elems(q)
    <3> DEFINE x == w.mem[c]
    <3>1. x = [n EXCEPT !.parent = l]
      BY <2>1, <2>2
    <3> HIDE DEF x
    <3>2. /\ x.leaf = n.leaf /\ x.keys = n.keys /\ x.ptrs = n.ptrs /\ x.next = n.next
          /\ x.prev = n.prev /\ x.parent = l
      BY <2>1, <3>1, NodeUnder
    <3> QED BY <2>2, <3>2 DEF x, n, Leaf, Ks, Ps, Nx, Pv, Up
  <2>3. CASE c \notin Elems(q)
    BY <2>1, <2>3 DEF n, Leaf, Ks, Ps, Nx, Pv, Up
  <2> QED BY <2>2, <2>3
<1>6. Handed(t.mem, u.mem, w.mem, l, r, FALSE)
  BY <1>4, <1>5 DEF Handed
<1> QED BY <1>2, <1>3, <1>6 DEF w, v

\* What a merge makes of the tree
MergesInto(t, w, l, r, p, i) ==
  /\ IsTree(w) /\ SameMembers(t, w) /\ Unites(t.mem, w.mem, l, r, p, i)
  /\ Len(Ks(w.mem, l)) =
       Len(Ks(t.mem, l)) + Len(Ks(t.mem, r)) + (IF Leaf(t.mem, l) THEN 0 ELSE 1)

\* A merge unites two neighbours.
LEMMA MergedUnites ==
  ASSUME NEW t, IsTree(t), NEW g, Shape(t.mem, t.root, g), NEW l, NEW r, NEW p, NEW i,
         Neighbours(t.mem, g, l, r, p, i)
  PROVE  MergesInto(t, Merged(t, l, r, p, i), l, r, p, i)
<1> DEFINE m == t.mem
           kl == m[l].keys
           ql == m[l].ptrs
           kr == m[r].keys
           qr == m[r].ptrs
           kp == m[p].keys
           qp == m[p].ptrs
           nx == m[r].next
           brd == kp[i]
           k == (IF m[r].leaf THEN kl ELSE Append(kl, brd)) \o kr
           q == ql \o qr
           kp2 == SE!RemoveAt(kp, i)
           qp2 == SE!RemoveAt(qp, i + 1)
           v1 == [t EXCEPT !.mem[l].keys = k]
           v2 == [v1 EXCEPT !.mem[l].ptrs = q]
           v3 == [v2 EXCEPT !.mem[l].next = nx]
           v4 == [v3 EXCEPT !.mem[p].keys = kp2]
           v5 == [v4 EXCEPT !.mem[p].ptrs = qp2]
           u == [t EXCEPT
              !.mem[l].keys = (IF m[r].leaf THEN @ ELSE Append(@, kp[i])) \o kr,
              !.mem[l].ptrs = @ \o qr,
              !.mem[l].next = nx,
              !.mem[p].keys = SE!RemoveAt(@, i),
              !.mem[p].ptrs = SE!RemoveAt(@, i + 1)]
           w == Merged(t, l, r, p, i)
<1>1. w = Deleted(IF m[r].leaf THEN BackLinked(u, nx, l) ELSE Adopted(u, l, qr), {r})
  BY DEF Merged
<1>2. /\ l \in DOMAIN m /\ r \in DOMAIN m /\ p \in DOMAIN m /\ l # r /\ l # p /\ r # p
      /\ Leaf(m, r) = Leaf(m, l) /\ i \in 1..Len(kp) /\ kp \in Seq(Keys) /\ qp \in Seq(Nat)
      /\ Len(qp) = Len(kp) + 1
  BY DEF Neighbours, Ks, Ps
<1>3. u = v5
  <2>1. l # p /\ l \in DOMAIN m /\ p \in DOMAIN m
    BY <1>2
  <2> QED BY <2>1
<1>4. Gathers(t, v1, v2, v3, v4, v5, l, p, k, q, nx, kp2, qp2)
  BY DEF Gathers, KeysPut, PtrsPut, NextPut
<1>5. /\ kl \in Seq(Keys) /\ ql \in Seq(Nat) /\ kr \in Seq(Keys) /\ qr \in Seq(Nat)
      /\ m[r].leaf \in BOOLEAN /\ nx \in Nat /\ l \in Nat /\ DOMAIN m \subseteq Nat \ {Null}
  <2>1. Typed(m, g)
    BY DEF Shape
  <2>2. m[r] \in NodeSet /\ m[l] \in NodeSet /\ l \in Nat
    BY <1>2, <2>1 DEF Typed
  <2> QED BY <2>1, <2>2, NodeAs DEF Typed
<1>6. /\ Leaf(m, r) = m[r].leaf /\ Ks(m, l) = kl /\ Ks(m, r) = kr /\ Ps(m, l) = ql /\ Ps(m, r) = qr
      /\ Ks(m, p) = kp /\ Ps(m, p) = qp /\ Nx(m, r) = nx
  BY DEF Ks, Ps, Leaf, Nx
<1>7. Shape(m, t.root, g) /\ Neighbours(m, g, l, r, p, i)
  OBVIOUS
<1> DEFINE lf == m[r].leaf
<1>8. lf \in BOOLEAN /\ Leaf(m, l) = lf
  BY <1>2, <1>5, <1>6
<1>9. k = (IF lf THEN kl ELSE Append(kl, brd)) \o kr
  OBVIOUS
<1>10. w = Deleted(IF lf THEN BackLinked(u, nx, l) ELSE Adopted(u, l, qr), {r})
  BY <1>1
<1> HIDE DEF u, w, m, kl, ql, kr, qr, kp, qp, nx, v1, v2, v3, v4, v5, lf, k
<1>11. brd \in Keys
  BY <1>2, ElementOfSeq
<1> HIDE DEF brd
<1>12. /\ k \in Seq(Keys) /\ Len(k) = Len(kl) + Len(kr) + (IF lf THEN 0 ELSE 1)
       /\ IF lf THEN JoinedKeys(k, kl, kr) ELSE JoinedAround(k, kl, brd, kr)
  <2>1. Len(kl) \in Nat /\ Len(kr) \in Nat
    BY <1>5, LenProperties
  <2>2. CASE lf
    <3>1. JoinedKeys(kl \o kr, kl, kr) /\ kl \o kr \in Seq(Keys)
      BY <1>5, JoinIsJoinedKeys
    <3>2. k = kl \o kr
      BY <1>9, <2>2
    <3>3. Len(k) = Len(kl) + Len(kr)
      BY <3>1, <3>2 DEF JoinedKeys, Joined
    <3> QED BY <2>1, <2>2, <3>1, <3>2, <3>3
  <2>3. CASE ~ lf
    <3> DEFINE k1 == (kl \o <<brd>>) \o kr
    <3>1. JoinedAround(k1, kl, brd, kr) /\ k1 \in Seq(Keys)
      BY <1>5, <1>11, JoinIsAround, KeysAreInts
    <3>2. Append(kl, brd) = kl \o <<brd>>
      BY <1>5, <1>11, AppendIsConcat
    <3>3. k = k1
      BY <1>9, <2>3, <3>2
    <3> HIDE DEF k1
    <3>4. Len(k) = Len(kl) + 1 + Len(kr)
      BY <3>1, <3>3 DEF JoinedAround
    <3> QED BY <2>1, <2>3, <3>1, <3>3, <3>4
  <2> QED BY <2>2, <2>3, <1>8
<1>13. Joined(q, ql, qr) /\ q \in Seq(Nat)
  BY <1>5, JoinIsJoined, ConcatProperties
<1>14. /\ kp2 \in Seq(Keys) /\ TakenAt(kp2, kp, i)
       /\ qp2 \in Seq(Nat) /\ TakenAt(qp2, qp, i + 1)
  <2>1. i + 1 \in 1..Len(qp)
    <3>1. Len(kp) \in Nat
      BY <1>2, LenProperties
    <3> QED BY <1>2, <3>1
  <2> QED BY <1>2, <2>1, RemoveAtTakes
<1> HIDE DEF q, kp2, qp2
<1>15. IsTree(v5) /\ SameMembers(t, v5) /\ Gathered(m, v5.mem, l, p, k, q, nx, kp2, qp2)
  <2>1. l \in DOMAIN t.mem /\ p \in DOMAIN t.mem /\ l # p
    BY <1>2 DEF m
  <2>2. IsTree(v5) /\ SameMembers(t, v5) /\ Gathered(t.mem, v5.mem, l, p, k, q, nx, kp2, qp2)
    BY <1>4, <1>5, <1>12, <1>13, <1>14, <2>1, GathersFacts
  <2> QED BY <2>2 DEF m
<1>16. DOMAIN u.mem = DOMAIN t.mem /\ IsTree(u) /\ SameMembers(t, u)
       /\ Gathered(m, u.mem, l, p, k, q, nx, kp2, qp2)
  BY <1>3, <1>15 DEF Gathered, m
<1>17. IsTree(w) /\ SameMembers(u, w) /\ Handed(t.mem, u.mem, w.mem, l, r, lf)
  <2>1. CASE lf
    <3>1. nx = Null \/ nx \in DOMAIN t.mem
      <4>1. Leaf(m, r)
        BY <1>2, <1>8, <2>1
      <4> QED BY <1>2, <1>6, <1>7, <4>1, LeafFacts DEF m
    <3>2. nx = Nx(t.mem, r) /\ DOMAIN t.mem \subseteq Nat \ {Null} /\ l \in Nat
      BY <1>5, <1>6 DEF m
    <3> DEFINE x == Deleted(BackLinked(u, nx, l), {r})
    <3>3. IsTree(x) /\ SameMembers(u, x) /\ Handed(t.mem, u.mem, x.mem, l, r, TRUE)
      BY <1>16, <3>1, <3>2, BackHanded
    <3>4. w = x
      BY <1>10, <2>1
    <3>5. lf = TRUE
      BY <2>1, <1>8
    <3> HIDE DEF x
    <3> QED BY <3>3, <3>4, <3>5
  <2>2. CASE ~ lf
    <3>1. qr = Ps(t.mem, r)
      BY <1>6 DEF m
    <3> DEFINE x == Deleted(Adopted(u, l, qr), {r})
    <3>3. IsTree(x) /\ SameMembers(u, x) /\ Handed(t.mem, u.mem, x.mem, l, r, FALSE)
      BY <1>5, <1>16, <3>1, ChildrenHanded
    <3>4. w = x
      BY <1>10, <2>2
    <3>5. lf = FALSE
      BY <2>2, <1>8
    <3> HIDE DEF x
    <3> QED BY <3>3, <3>4, <3>5
  <2> QED BY <2>1, <2>2
<1> DEFINE mu == u.mem
           mw == w.mem
<1>18. Gathered(m, mu, l, p, k, q, nx, kp2, qp2) /\ Handed(m, mu, mw, l, r, Leaf(m, l))
  BY <1>8, <1>16, <1>17 DEF m
<1> HIDE DEF mu, mw
<1>19. Unites(m, mw, l, r, p, i)
  <2>1. TakenAt(kp2, Ks(m, p), i) /\ TakenAt(qp2, Ps(m, p), i + 1) /\ Joined(q, Ps(m, l), Ps(m, r)) /\ nx = Nx(m, r)
    BY <1>6, <1>13, <1>14
  <2>2. IF Leaf(m, l) THEN JoinedKeys(k, Ks(m, l), Ks(m, r))
                      ELSE JoinedAround(k, Ks(m, l), Ks(m, p)[i], Ks(m, r))
    BY <1>6, <1>8, <1>12 DEF brd
  <2> QED BY <1>7, <1>18, <2>1, <2>2, HandedUnites
<1>20. Ks(mw, l) = k
  BY <1>2, <1>18 DEF Handed, Gathered
<1>21. Len(Ks(mw, l)) = Len(Ks(m, l)) + Len(Ks(m, r)) + (IF Leaf(m, l) THEN 0 ELSE 1)
  BY <1>6, <1>8, <1>12, <1>20
<1>22. SameMembers(t, w)
  BY <1>16, <1>17 DEF SameMembers
<1> QED BY <1>17, <1>19, <1>21, <1>22 DEF MergesInto, m, mw, w

\* A root without keys collapses, if it is not a leaf.
LEMMA RootCollapses ==
  ASSUME NEW t, IsTree(t), NEW g, Shape(t.mem, t.root, g), ~ Leaf(t.mem, t.root),
         Len(Ks(t.mem, t.root)) = 0
  PROVE  LET w == RootCollapsed(t)
         IN  /\ IsTree(w) /\ w.order = t.order /\ w.count = t.count
             /\ Collapses(t.mem, w.mem, t.root, w.root)
<1> DEFINE m == t.mem
           n == t.root
           c == m[n].ptrs[1]
           v == [t EXCEPT !.mem[c].parent = Null]
           u == [v EXCEPT !.root = c]
           w == RootCollapsed(t)
<1>1. Typed(m, g) /\ n \in DOMAIN m
  BY DEF Shape, Rooted
<1>2. /\ Ks(m, n) \in Seq(Keys) /\ Ps(m, n) \in Seq(Nat) /\ Len(Ps(m, n)) = Len(Ks(m, n)) + 1
      /\ \A i \in 1..Len(Ps(m, n)) : Ps(m, n)[i] \in DOMAIN m /\ Up(m, Ps(m, n)[i]) = n
  BY <1>1, ChildFacts
<1>3. Len(Ps(m, n)) = 1 /\ c = Ps(m, n)[1]
  BY <1>2 DEF Ps
<1>4. c \in DOMAIN m /\ Up(m, c) = n
  BY <1>2, <1>3
<1>5. c # n /\ c \in Nat
  <2>1. Up(m, n) = Null /\ n # Null
    BY <1>1, NodeTypes DEF Shape, Rooted
  <2> QED BY <1>1, <1>4, <2>1, NodeTypes
<1>6. m[n].keys = <<>> /\ m[n].leaf = FALSE
  <2>1. m[n].keys = <<>>
    BY <1>2, EmptySeq DEF Ks
  <2>2. Leaf(m, n) \in BOOLEAN
    BY <1>1, NodeTypes
  <2> QED BY <2>1, <2>2 DEF Leaf
<1>7. w = Deleted(u, {n})
  BY <1>6 DEF RootCollapsed
<1>8. ParentPut(t, v, c, Null)
  BY DEF ParentPut
<1>9. OnlyChild(Ks(m, n), Ps(m, n), c)
  BY <1>3 DEF OnlyChild
<1>14. Null \in Nat
  BY DEF Null
<1> HIDE DEF v, w, c
<1>10. /\ IsTree(v) /\ SameMembers(t, v) /\ DOMAIN v.mem = DOMAIN m /\ SameNodes(m, v.mem, DOMAIN m)
       /\ \A x \in DOMAIN m : Up(v.mem, x) = IF x = c THEN Null ELSE Up(m, x)
  BY <1>4, <1>8, <1>14, ParentSet
<1>11. IsTree(u) /\ u.mem = v.mem /\ u.root = c /\ u.order = v.order /\ u.count = v.count
  BY <1>5, <1>10 DEF IsTree
<1> HIDE DEF u
<1>12. /\ DOMAIN w.mem = DOMAIN u.mem \ {n}
       /\ \A x \in DOMAIN u.mem \ {n} : w.mem[x] = u.mem[x]
       /\ SameMembers(u, w) /\ IsTree(w)
  BY <1>7, <1>11, DeletedFacts
<1> DEFINE m2 == w.mem
           mv == v.mem
<1>13. Collapses(m, m2, n, c)
  <2>1. m2 \in [DOMAIN m \ {n} -> NodeSet] /\ \A x \in DOMAIN m \ {n} : m2[x] = mv[x]
    BY <1>10, <1>11, <1>12 DEF IsTree
  <2>2. SameNodes(m, mv, DOMAIN m) /\ \A x \in DOMAIN m : Up(mv, x) = IF x = c THEN Null ELSE Up(m, x)
    BY <1>10
  <2>3. ~ Leaf(m, n)
    OBVIOUS
  <2> HIDE DEF m, m2, mv
  <2>4. SameNodes(m, m2, DOMAIN m \ {n})
    BY <2>1, <2>2 DEF SameNodes, Leaf, Ks, Ps, Nx, Pv
  <2>5. \A x \in DOMAIN m \ {n} : Up(m2, x) = IF x = c THEN Null ELSE Up(m, x)
    BY <2>1, <2>2 DEF Up
  <2> QED BY <1>1, <1>9, <2>1, <2>3, <2>4, <2>5 DEF Collapses
<1> QED BY <1>10, <1>11, <1>12, <1>13 DEF SameMembers, m, m2, w
-----------------------------------------------------------------------------
(* handleUnderflow                                                         *)

\* In a tree that shrinks only the node a, if it is not Null, may have too few keys.
Shrinking(t, a) ==
  /\ a = Null \/ a \in DOMAIN t.mem
  /\ \A c \in DOMAIN t.mem : NotOver(t, c) /\ (c # a => NotUnder(t, c))
  /\ a # Null /\ a # t.root => Len(Ks(t.mem, a)) + 1 >= MinKeys(t)

\* What one call does to the tree: b is the node for which it calls itself.
Repairs(t, g, a, w, g2, b) ==
  /\ IsTree(w) /\ w.order = t.order /\ w.count = t.count
  /\ Shape(w.mem, w.root, g2) /\ SameEntries(t.mem, w.mem) /\ Shrinking(w, b)
  /\ b = Null \/ (Ht(g2, b) = Ht(g, a) + 1 /\ Ht(g2, w.root) = Ht(g, t.root))

\* The least number of keys, with which two nodes fit into one
LEMMA MinKeysFacts ==
  ASSUME NEW t, t.order \in Nat, t.order >= 3
  PROVE  MinKeys(t) \in Nat /\ 1 <= MinKeys(t) /\ MinKeys(t) + MinKeys(t) < t.order
<1> DEFINE n == t.order
<1> HIDE DEF n
<1>1. n \in Nat /\ n >= 3
  BY DEF n
<1>2. (n - 1) \div 2 \in Nat /\ 1 <= (n - 1) \div 2 /\ (n - 1) \div 2 + (n - 1) \div 2 < n
  BY <1>1
<1> QED BY <1>2 DEF MinKeys, n

\* The number of keys of a node
LEMMA KeyCount ==
  ASSUME NEW m, NEW root, NEW g, Shape(m, root, g), NEW a \in DOMAIN m
  PROVE  Len(Ks(m, a)) \in Nat
<1>1. Ks(m, a) \in Seq(Keys)
  BY NodeTypes DEF Shape
<1> QED BY <1>1, LenProperties

\* Borrowing a key repairs the node a.
LEMMA BorrowRepairs ==
  ASSUME NEW t, IsTree(t), NEW g, Shape(t.mem, t.root, g), NEW a \in DOMAIN t.mem, a # t.root,
         t.order >= 3, Shrinking(t, a), Len(Ks(t.mem, a)) < MinKeys(t),
         NEW x, NEW y, NEW p, NEW i, Neighbours(t.mem, g, x, y, p, i),
         NEW lender \in DOMAIN t.mem, lender # a, MinKeys(t) < Len(Ks(t.mem, lender)),
         NEW w, Lent(t, g, w, x, y, p, i, lender, a)
  PROVE  \E g2 : Repairs(t, g, a, w, g2, Null)
<1> DEFINE D == DOMAIN t.mem
           n == MinKeys(t)
<1>1. PICK sep : Borrows(t.mem, g, w.mem, x, y, p, i, sep)
  BY DEF Lent
<1>2. PICK k, q : Shifts(t.mem, w.mem, x, y, p, i, k, q, sep)
  BY <1>1 DEF Borrows
<1>3. Lo(g, x) < sep /\ sep < Hi(g, y)
  BY <1>1 DEF Borrows
<1> DEFINE g2 == ShiftedPlaces(g, DOMAIN t.mem, x, y, sep)
<1>4. Shape(w.mem, t.root, g2) /\ SameEntries(t.mem, w.mem)
  BY <1>2, <1>3, ShiftKeepsShape
<1>5. /\ IsTree(w) /\ w.order = t.order /\ w.root = t.root /\ w.count = t.count
      /\ Len(Ks(w.mem, lender)) = Len(Ks(t.mem, lender)) - 1
      /\ Len(Ks(w.mem, a)) = Len(Ks(t.mem, a)) + 1
      /\ \A c \in D \ {lender, a} : Len(Ks(w.mem, c)) = Len(Ks(t.mem, c))
  BY DEF Lent, SameMembers
<1>6. DOMAIN w.mem = D
  BY <1>2 DEF Shifts
<1> HIDE DEF g2
<1>7. n \in Nat /\ 1 <= n /\ n + n < t.order /\ t.order \in Nat /\ MinKeys(w) = n
  BY <1>5, MinKeysFacts DEF IsTree, MinKeys
<1>8. \A c \in D : Len(Ks(t.mem, c)) \in Nat /\ Len(Ks(t.mem, c)) < t.order
  BY KeyCount DEF Shrinking, NotOver
<1>9. n <= Len(Ks(t.mem, a)) + 1
  <2>1. a # Null
    BY NodeTypes DEF Shape
  <2> QED BY <2>1 DEF Shrinking
<1> HIDE DEF n
<1>10. ASSUME NEW c \in D
       PROVE  NotOver(w, c) /\ NotUnder(w, c)
  <2>1. Len(Ks(t.mem, c)) \in Nat /\ Len(Ks(t.mem, c)) < t.order
    BY <1>8
  <2>2. CASE c = a
    <3>1. Len(Ks(w.mem, c)) = n
      BY <1>5, <1>7, <1>8, <1>9, <2>2 DEF n
    <3> QED BY <1>5, <1>7, <3>1 DEF NotOver, NotUnder
  <2>3. CASE c = lender
    <3>1. n <= Len(Ks(w.mem, c)) /\ Len(Ks(w.mem, c)) < t.order /\ Len(Ks(w.mem, c)) \in Nat
      BY <1>5, <1>7, <2>1, <2>3 DEF n
    <3> QED BY <1>5, <1>7, <3>1 DEF NotOver, NotUnder
  <2>4. CASE c # a /\ c # lender
    <3>1. Len(Ks(w.mem, c)) = Len(Ks(t.mem, c))
      BY <1>5, <2>4
    <3>2. NotOver(t, c) /\ NotUnder(t, c)
      BY <2>4 DEF Shrinking
    <3> QED BY <1>5, <1>7, <3>1, <3>2 DEF NotOver, NotUnder, n
  <2> QED BY <2>2, <2>3, <2>4
<1>11. Shrinking(w, Null)
  BY <1>6, <1>10 DEF Shrinking
<1>12. Repairs(t, g, a, w, g2, Null)
  BY <1>4, <1>5, <1>11 DEF Repairs
<1> QED BY <1>12

\* A merge leaves the parent with a key less.
LEMMA MergeRepairs ==
  ASSUME NEW t, IsTree(t), NEW g, Shape(t.mem, t.root, g), NEW a \in DOMAIN t.mem, a # t.root,
         t.order >= 3, Shrinking(t, a), Len(Ks(t.mem, a)) < MinKeys(t),
         NEW x, NEW y, NEW p, NEW i, Neighbours(t.mem, g, x, y, p, i),
         NEW b, {x, y} = {a, b}, Len(Ks(t.mem, b)) <= MinKeys(t),
         NEW w, MergesInto(t, w, x, y, p, i)
  PROVE  \E g2 : Repairs(t, g, a, w, g2, p)
<1> DEFINE D == DOMAIN t.mem
           n == MinKeys(t)
           g2 == UnitedPlaces(g, DOMAIN t.mem, x, y)
<1>1. /\ x \in D /\ y \in D /\ p \in D /\ x # y /\ x # p /\ y # p /\ ~ Leaf(t.mem, p)
      /\ Up(t.mem, x) = p /\ Up(t.mem, y) = p /\ Ht(g, y) = Ht(g, x)
      /\ Ks(t.mem, p) \in Seq(Keys) /\ Ps(t.mem, p)[i] = x /\ i \in 1..Len(Ks(t.mem, p))
      /\ Len(Ps(t.mem, p)) = Len(Ks(t.mem, p)) + 1
  BY DEF Neighbours
<1>2. Unites(t.mem, w.mem, x, y, p, i)
  BY DEF MergesInto
<1>3. Shape(w.mem, t.root, g2) /\ SameEntries(t.mem, w.mem)
  BY <1>2, UniteKeepsShape
<1>4. /\ IsTree(w) /\ w.order = t.order /\ w.root = t.root /\ w.count = t.count
      /\ Len(Ks(w.mem, x)) = Len(Ks(t.mem, x)) + Len(Ks(t.mem, y)) + (IF Leaf(t.mem, x) THEN 0 ELSE 1)
  BY DEF MergesInto, SameMembers
<1>5. /\ DOMAIN w.mem = D \ {y}
      /\ \A c \in D \ {x, y, p} : Len(Ks(w.mem, c)) = Len(Ks(t.mem, c))
      /\ Len(Ks(w.mem, p)) = Len(Ks(t.mem, p)) - 1
  BY <1>2 DEF Unites, TakenAt
<1>6. g \in [D -> Place] /\ \A c \in D : c # Null /\ Ht(g, c) \in Nat
  <2>1. Typed(t.mem, g)
    BY DEF Shape
  <2> QED BY <2>1, NodeTypes DEF Typed
<1>7. \A c \in D \ {y} : Ht(g2, c) = Ht(g, c)
  <2>1. PlacesUnited(g, g2, D, x, y)
    BY <1>1, <1>6, UnitedPlaceFacts
  <2> QED BY <1>1, <2>1 DEF PlacesUnited
<1> HIDE DEF g2
<1>8. n \in Nat /\ 1 <= n /\ n + n < t.order /\ t.order \in Nat /\ MinKeys(w) = n
  BY <1>4, MinKeysFacts DEF IsTree, MinKeys
<1>9. \A c \in D : Len(Ks(t.mem, c)) \in Nat /\ Len(Ks(t.mem, c)) < t.order
  BY KeyCount DEF Shrinking, NotOver
<1>10. n <= Len(Ks(t.mem, a)) + 1
  BY <1>6 DEF Shrinking
<1>11. Up(t.mem, t.root) = Null /\ t.root \in D
  BY DEF Shape, Rooted
<1>12. x # t.root /\ y # t.root
  BY <1>1, <1>6, <1>11
<1>13. b \in D /\ b # a /\ b # t.root /\ p # a
  BY <1>1, <1>12
<1>14. n <= Len(Ks(t.mem, b))
  BY <1>13 DEF Shrinking, NotUnder
<1>15. n <= Len(Ks(w.mem, x)) /\ Len(Ks(w.mem, x)) < t.order /\ Len(Ks(w.mem, x)) \in Nat
  <2> DEFINE e == IF Leaf(t.mem, x) THEN 0 ELSE 1
             la == Len(Ks(t.mem, a))
             lb == Len(Ks(t.mem, b))
             lw == Len(Ks(w.mem, x))
  <2>1. lw = la + lb + e
    <3>1. Len(Ks(t.mem, a)) \in Nat /\ Len(Ks(t.mem, b)) \in Nat
      BY <1>9, <1>13
    <3>2. CASE x = a /\ y = b
      BY <1>4, <3>2
    <3>3. CASE x = b /\ y = a
      BY <1>4, <3>1, <3>3
    <3> QED BY <1>1, <3>2, <3>3
  <2>2. e \in {0, 1}
    OBVIOUS
  <2>3. la \in Nat /\ lb \in Nat /\ la < n /\ lb <= n /\ n <= lb /\ n <= la + 1
    BY <1>9, <1>10, <1>13, <1>14
  <2> HIDE DEF e, la, lb, lw, n
  <2>4. n <= lw /\ lw < t.order /\ lw \in Nat
    BY <1>8, <2>1, <2>2, <2>3
  <2> QED BY <2>4 DEF lw
<1> HIDE DEF n
<1>16. ASSUME NEW c \in D \ {y}
       PROVE  NotOver(w, c) /\ (c # p => NotUnder(w, c))
  <2>1. Len(Ks(t.mem, c)) \in Nat /\ Len(Ks(t.mem, c)) < t.order
    BY <1>9
  <2>2. CASE c = x
    BY <1>4, <1>8, <1>12, <1>15, <2>2 DEF NotOver, NotUnder
  <2>3. CASE c = p
    <3>1. Len(Ks(w.mem, c)) < t.order
      BY <1>5, <1>8, <2>1, <2>3
    <3> QED BY <1>4, <2>3, <3>1 DEF NotOver
  <2>4. CASE c # x /\ c # p
    <3>1. Len(Ks(w.mem, c)) = Len(Ks(t.mem, c))
      BY <1>5, <2>4
    <3>2. c # a
      BY <1>1, <2>4
    <3>3. NotOver(t, c) /\ NotUnder(t, c)
      BY <3>2 DEF Shrinking
    <3> QED BY <1>4, <1>8, <3>1, <3>3 DEF NotOver, NotUnder, n
  <2> QED BY <2>2, <2>3, <2>4
<1>17. p # t.root => Len(Ks(w.mem, p)) + 1 >= n
  <2> SUFFICES ASSUME p # t.root PROVE Len(Ks(w.mem, p)) + 1 >= n
    OBVIOUS
  <2>1. NotUnder(t, p)
    BY <1>1, <1>13 DEF Shrinking
  <2>2. Len(Ks(t.mem, p)) \in Nat
    BY <1>1, <1>9
  <2> QED BY <1>5, <1>8, <2>1, <2>2 DEF NotUnder, n
<1>18. Shrinking(w, p)
  BY <1>1, <1>4, <1>5, <1>8, <1>16, <1>17 DEF Shrinking
<1>19. Ht(g2, p) = Ht(g, a) + 1 /\ Ht(g2, w.root) = Ht(g, t.root)
  <2>1. Ht(g2, w.root) = Ht(g, t.root) /\ Ht(g2, p) = Ht(g, p)
    BY <1>1, <1>4, <1>7, <1>11, <1>12
  <2>2. Ht(g, p) = Ht(g, x) + 1
    <3>1. i \in 1..Len(Ps(t.mem, p))
      <4>1. Len(Ks(t.mem, p)) \in Nat
        BY <1>1, <1>9
      <4> QED BY <1>1, <4>1
    <3> QED BY <1>1, <3>1, ChildFacts
  <2>3. Ht(g, a) = Ht(g, x)
    BY <1>1
  <2> QED BY <2>1, <2>2, <2>3
<1>20. Repairs(t, g, a, w, g2, p)
  BY <1>3, <1>4, <1>18, <1>19 DEF Repairs
<1> QED BY <1>20

Call(w, b) == [tree |-> w, at |-> b]

\* The call for the root
LEMMA RootRepairs ==
  ASSUME NEW t, IsTree(t), NEW g, Shape(t.mem, t.root, g),
         t.order >= 3, Shrinking(t, t.root), NEW x, NEW d, Has(t.mem, x, d)
  PROVE  \E g2 : Repairs(t, g, t.root, RootCollapsed(t), g2, Null)
<1> DEFINE m == t.mem
           n == t.root
           w == RootCollapsed(t)
<1>1. n \in DOMAIN m /\ Typed(m, g) /\ LeavesLow(m, g)
  BY FitsFacts DEF Shape, Rooted
<1>2. Leaf(m, n) \in BOOLEAN /\ Ks(m, n) \in Seq(Keys) /\ Len(Ks(m, n)) \in Nat
  BY <1>1, NodeTypes, LenProperties
<1>3. ASSUME Leaf(m, n) \/ Len(Ks(m, n)) # 0
      PROVE  w = t
  <2>1. Leaf(m, n) = m[n].leaf /\ Ks(m, n) = m[n].keys
    BY DEF Leaf, Ks
  <2>2. Len(Ks(m, n)) # 0 => Ks(m, n) # <<>>
    BY <1>2, EmptySeq
  <2> QED BY <1>3, <2>1, <2>2 DEF RootCollapsed
<1>4. Leaf(m, n) => 1 <= Len(Ks(m, n))
  <2> SUFFICES ASSUME Leaf(m, n) PROVE 1 <= Len(Ks(m, n))
    OBVIOUS
  <2>1. PICK c \in DOMAIN m : Leaf(m, c) /\ Entry(Ks(m, c), Ps(m, c), x, d)
    BY DEF Has
  <2>2. Ht(g, n) = 0 /\ Ht(g, c) = 0
    BY <1>1, <2>1 DEF LeavesLow
  <2>3. c = n
    BY <2>2 DEF Shape, Rooted
  <2>4. PICK i \in 1..Len(Ks(m, n)) : TRUE
    BY <2>1, <2>3 DEF Entry
  <2> QED BY <1>2, <2>4
<1>5. CASE Leaf(m, n) \/ Len(Ks(m, n)) # 0
  <2>1. w = t
    BY <1>3, <1>5
  <2>2. 1 <= Len(Ks(m, n))
    BY <1>2, <1>4, <1>5
  <2>3. \A c \in DOMAIN m : NotOver(t, c) /\ NotUnder(t, c)
    <3> TAKE c \in DOMAIN m
    <3>1. NotOver(t, c) /\ (c # n => NotUnder(t, c))
      BY DEF Shrinking
    <3>2. NotUnder(t, n)
      BY <1>2, <2>2 DEF NotUnder
    <3> QED BY <3>1, <3>2
  <2>4. Shrinking(t, Null) /\ SameEntries(m, m)
    BY <2>3 DEF Shrinking, SameEntries
  <2>5. Repairs(t, g, t.root, t, g, Null)
    BY <2>4 DEF Repairs
  <2> QED BY <2>1, <2>5
<1>6. CASE ~ Leaf(m, n) /\ Len(Ks(m, n)) = 0
  <2>1. /\ IsTree(w) /\ w.order = t.order /\ w.count = t.count
        /\ Collapses(m, w.mem, n, w.root)
    BY <1>6, RootCollapses
  <2> DEFINE c == w.root
             g2 == CollapsedPlaces(g, DOMAIN m, n)
  <2>2. Shape(w.mem, c, g2) /\ SameEntries(m, w.mem) /\ c \in DOMAIN m /\ c # n
    BY <2>1, CollapseKeepsShape
  <2>3. DOMAIN w.mem = DOMAIN m \ {n} /\ \A y \in DOMAIN m \ {n} : Ks(w.mem, y) = Ks(m, y)
    BY <2>1 DEF Collapses, SameNodes
  <2>4. MinKeys(w) = MinKeys(t) /\ 1 <= MinKeys(t) /\ MinKeys(t) \in Nat
    BY <2>1, MinKeysFacts DEF IsTree, MinKeys
  <2> HIDE DEF w, g2
  <2>5. ASSUME NEW y \in DOMAIN m \ {n} PROVE NotOver(w, y) /\ NotUnder(w, y)
    <3>1. NotOver(t, y) /\ NotUnder(t, y)
      BY DEF Shrinking
    <3>2. Len(Ks(m, y)) \in Nat /\ Len(Ks(m, y)) < t.order /\ MinKeys(t) <= Len(Ks(m, y))
      BY <3>1, KeyCount DEF NotOver, NotUnder
    <3> QED BY <2>1, <2>3, <2>4, <3>2 DEF NotOver, NotUnder
  <2>6. Shrinking(w, Null)
    BY <2>3, <2>5 DEF Shrinking
  <2>7. Repairs(t, g, t.root, w, g2, Null)
    BY <2>1, <2>2, <2>6 DEF Repairs
  <2> QED BY <2>7 DEF w
<1> QED BY <1>2, <1>5, <1>6

\* A call for another node, which borrows a key or is merged with a sibling if it
\* has too few
LEMMA NodeRepairs ==
  ASSUME NEW t, IsTree(t), NEW g, Shape(t.mem, t.root, g), NEW a \in DOMAIN t.mem, a # t.root,
         t.order >= 3, Shrinking(t, a)
  PROVE  \E w, g2, b : Repaired(t, a) = Call(w, b) /\ Repairs(t, g, a, w, g2, b)
<1> DEFINE m == t.mem
           n == MinKeys(t)
           la == Len(Ks(m, a))
           p == m[a].parent
           q == m[p].ptrs
           i == PositionOf(q, a)
           l == q[i - 1]
           r == q[i + 1]
           borrowsLeft == i > 1 /\ CanLend(t, l)
           borrowsRight == i < Len(q) /\ CanLend(t, r)
           z == Repaired(t, a)
<1>1. z = IF la >= n THEN Call(t, Null)
          ELSE IF borrowsLeft THEN Call(BorrowFromLeft(t, a, l, p, i - 1), Null)
          ELSE IF borrowsRight THEN Call(BorrowFromRight(t, a, r, p, i), Null)
          ELSE Call(IF i > 1 THEN Merged(t, l, a, p, i - 1) ELSE Merged(t, a, q[2], p, 1), p)
  BY DEF Repaired, Call, Ks
<1>2. n \in Nat /\ 1 <= n /\ n + n < t.order /\ t.order \in Nat
  BY MinKeysFacts DEF IsTree
<1>3. la \in Nat
  BY KeyCount
<1>4. /\ p \in DOMAIN m /\ p # a /\ ~ Leaf(m, p)
      /\ q = Ps(m, p) /\ \E j \in 1..Len(q) : q[j] = a
  BY ParentFacts DEF Up, Ps
<1>5. q \in Seq(Nat) /\ Len(q) = Len(Ks(m, p)) + 1 /\ Len(Ks(m, p)) \in Nat
  BY <1>4, ChildFacts
<1>6. i \in 1..Len(q) /\ q[i] = a
  <2>1. a \in Elems(q)
    BY <1>4, <1>5, ElemsFacts
  <2> HIDE DEF q
  <2> QED BY <1>5, <2>1, PositionOfFacts
<1>7. 1 <= Len(Ks(m, p))
  <2>1. NotUnder(t, p)
    BY <1>4 DEF Shrinking
  <2> QED BY <1>2, <1>5, <2>1 DEF NotUnder
<1> DEFINE Sib(b) == b \in DOMAIN m /\ b # a /\ Len(Ks(m, b)) \in Nat /\ Len(Ks(m, b)) = Len(t.mem[b].keys)
<1>8. i > 1 => Neighbours(m, g, l, a, p, i - 1) /\ Sib(l)
  <2> SUFFICES ASSUME i > 1 PROVE Neighbours(m, g, l, a, p, i - 1) /\ Sib(l)
    OBVIOUS
  <2> DEFINE h == i - 1
  <2>1. h \in 1..Len(Ks(m, p)) /\ h + 1 = i
    BY <1>5, <1>6
  <2>2. l = Ps(m, p)[h] /\ a = Ps(m, p)[h + 1]
    BY <1>4, <1>6, <2>1
  <2> HIDE DEF h, l
  <2>3. Neighbours(m, g, l, a, p, h)
    BY <1>4, <2>1, <2>2, NeighbourFacts
  <2>4. l \in DOMAIN m /\ l # a
    BY <2>3 DEF Neighbours
  <2> QED BY <2>3, <2>4, KeyCount DEF h, Ks
<1>9. i < Len(q) => Neighbours(m, g, a, r, p, i) /\ Sib(r)
  <2> SUFFICES ASSUME i < Len(q) PROVE Neighbours(m, g, a, r, p, i) /\ Sib(r)
    OBVIOUS
  <2>1. i \in 1..Len(Ks(m, p))
    BY <1>5, <1>6
  <2>2. a = Ps(m, p)[i] /\ r = Ps(m, p)[i + 1]
    BY <1>4, <1>6
  <2> HIDE DEF i, r
  <2>3. Neighbours(m, g, a, r, p, i)
    BY <1>4, <2>1, <2>2, NeighbourFacts
  <2>4. r \in DOMAIN m /\ r # a
    BY <2>3 DEF Neighbours
  <2> QED BY <2>3, <2>4, KeyCount DEF Ks
<1>10. /\ CanLend(t, l) <=> Len(Ks(m, l)) > n
       /\ CanLend(t, r) <=> Len(Ks(m, r)) > n
  BY DEF CanLend, Ks
<1> HIDE DEF z, p, q, i, l, r, n
<1>11. ASSUME NEW w, NEW b, z = Call(w, b), \E g2 : Repairs(t, g, a, w, g2, b)
       PROVE  \E w1, g2, b1 : z = Call(w1, b1) /\ Repairs(t, g, a, w1, g2, b1)
  BY <1>11
<1>12. CASE la >= n
  <2>1. NotUnder(t, a)
    BY <1>12 DEF NotUnder, n
  <2>2. \A c \in DOMAIN m : NotOver(t, c) /\ NotUnder(t, c)
    BY <2>1 DEF Shrinking
  <2>3. Shrinking(t, Null) /\ SameEntries(m, m)
    BY <2>2 DEF Shrinking, SameEntries
  <2>4. Repairs(t, g, a, t, g, Null)
    BY <2>3 DEF Repairs
  <2> QED BY <1>1, <1>11, <1>12, <2>4 DEF z
<1>13. CASE la < n /\ borrowsLeft
  <2> DEFINE w == BorrowFromLeft(t, a, l, p, i - 1)
             h == i - 1
  <2>1. z = Call(w, Null)
    BY <1>1, <1>2, <1>3, <1>13
  <2>2. Neighbours(t.mem, g, l, a, p, h) /\ Sib(l) /\ n < Len(Ks(m, l))
    BY <1>8, <1>10, <1>13
  <2>3. 1 < Len(Ks(t.mem, l))
    BY <1>2, <2>2
  <2>4. Lent(t, g, w, l, a, p, h, l, a)
    BY <2>2, <2>3, LeftLends
  <2> HIDE DEF w, h
  <2>5. MinKeys(t) < Len(Ks(t.mem, l)) /\ Len(Ks(t.mem, a)) < MinKeys(t)
    BY <1>13, <2>2 DEF n
  <2>6. \E g2 : Repairs(t, g, a, w, g2, Null)
    BY <2>2, <2>4, <2>5, BorrowRepairs
  <2> QED BY <1>11, <2>1, <2>6 DEF z
<1>14. CASE la < n /\ ~ borrowsLeft /\ borrowsRight
  <2> DEFINE w == BorrowFromRight(t, a, r, p, i)
  <2>1. z = Call(w, Null)
    BY <1>1, <1>2, <1>3, <1>14
  <2>2. Neighbours(t.mem, g, a, r, p, i) /\ Sib(r) /\ n < Len(Ks(m, r))
    BY <1>9, <1>10, <1>14
  <2>3. 1 < Len(Ks(t.mem, r))
    BY <1>2, <2>2
  <2>4. Lent(t, g, w, a, r, p, i, r, a)
    BY <2>2, <2>3, RightLends
  <2> HIDE DEF w
  <2>5. MinKeys(t) < Len(Ks(t.mem, r)) /\ Len(Ks(t.mem, a)) < MinKeys(t)
    BY <1>14, <2>2 DEF n
  <2>6. \E g2 : Repairs(t, g, a, w, g2, Null)
    BY <2>2, <2>4, <2>5, BorrowRepairs
  <2> QED BY <1>11, <2>1, <2>6 DEF z
<1>15. CASE la < n /\ ~ borrowsLeft /\ ~ borrowsRight /\ i > 1
  <2> DEFINE h == i - 1
             w == Merged(t, l, a, p, h)
  <2>1. z = Call(w, p)
    BY <1>1, <1>2, <1>3, <1>15
  <2>2. Neighbours(t.mem, g, l, a, p, h) /\ Sib(l) /\ Len(Ks(t.mem, l)) <= MinKeys(t)
    BY <1>2, <1>8, <1>10, <1>15 DEF n
  <2> HIDE DEF h
  <2>3. MergesInto(t, w, l, a, p, h)
    BY <2>2, MergedUnites
  <2> HIDE DEF w
  <2>4. {l, a} = {a, l} /\ Len(Ks(t.mem, a)) < MinKeys(t)
    BY <1>15 DEF n
  <2>5. \E g2 : Repairs(t, g, a, w, g2, p)
    BY <2>2, <2>3, <2>4, MergeRepairs
  <2> QED BY <1>11, <2>1, <2>5 DEF z
<1>16. CASE la < n /\ ~ borrowsLeft /\ ~ borrowsRight /\ ~ (i > 1)
  <2> DEFINE w == Merged(t, a, r, p, i)
  <2>0. i = 1 /\ r = q[2]
    BY <1>6, <1>16 DEF r
  <2>1. z = Call(w, p)
    BY <1>1, <1>2, <1>3, <1>16, <2>0
  <2>2. i < Len(q)
    BY <1>5, <1>7, <2>0
  <2>3. Neighbours(t.mem, g, a, r, p, i) /\ Sib(r) /\ Len(Ks(t.mem, r)) <= MinKeys(t)
    BY <1>2, <1>9, <1>10, <1>16, <2>2 DEF n
  <2>4. MergesInto(t, w, a, r, p, i)
    BY <2>3, MergedUnites
  <2> HIDE DEF w
  <2>5. {a, r} = {a, r} /\ Len(Ks(t.mem, a)) < MinKeys(t)
    BY <1>16 DEF n
  <2>6. \E g2 : Repairs(t, g, a, w, g2, p)
    BY <2>3, <2>4, <2>5, MergeRepairs
  <2> QED BY <1>11, <2>1, <2>6 DEF z
<1> QED BY <1>2, <1>3, <1>12, <1>13, <1>14, <1>15, <1>16 DEF z

-----------------------------------------------------------------------------
(* The loop of repairs                                                     *)

RepairStep(s) == IF s.at = Null THEN s ELSE Repaired(s.tree, s.at)

ShrinksFrom(t, u, b) ==
  /\ IsTree(u) /\ u.order = t.order /\ u.count = t.count
  /\ SameEntries(t.mem, u.mem) /\ Shrinking(u, b)
  /\ \E g : Shape(u.mem, u.root, g)

ShrinkStates(t) == {s \in [tree : TreeSet, at : Nat] : ShrinksFrom(t, s.tree, s.at)}

\* The height of the node for which the function is called
ShrinkHeight(u, b, i, h) ==
  \E g : /\ Shape(u.mem, u.root, g)
         /\ b = Null \/ (Ht(g, b) = i /\ Ht(g, u.root) = h)

\* A tree in which only one node may have too few keys is one of the loop's states.
LEMMA ShrinkStatesFacts ==
  ASSUME NEW t, NEW u, NEW b, ShrinksFrom(t, u, b)
  PROVE  Call(u, b) \in ShrinkStates(t)
<1>1. DOMAIN u.mem \subseteq Nat /\ b \in Nat
  BY DEF ShrinksFrom, Shape, Typed, Shrinking, Null
<1>2. u \in TreeSet
  BY <1>1, TreeInSet DEF ShrinksFrom
<1> DEFINE s == [tree |-> u, at |-> b]
<1>3. s \in [tree : TreeSet, at : Nat] /\ s.tree = u /\ s.at = b
  BY <1>1, <1>2
<1> HIDE DEF s
<1>4. s \in ShrinkStates(t)
  BY <1>3 DEF ShrinkStates
<1> QED BY <1>4 DEF s, Call

\* The states of the loop of repairs, taken apart
LEMMA ShrinkStatesHave ==
  ASSUME NEW t, NEW s \in ShrinkStates(t)
  PROVE  s = Call(s.tree, s.at) /\ ShrinksFrom(t, s.tree, s.at)
BY DEF ShrinkStates, Call

HasSome(m) == \E x, d : Has(m, x, d)

\* A call repairs its node.
LEMMA CallRepairs ==
  ASSUME NEW t, IsTree(t), NEW g, Shape(t.mem, t.root, g), NEW a, a # Null,
         t.order >= 3, Shrinking(t, a), NEW x, NEW d, Has(t.mem, x, d)
  PROVE  \E w, g2, b : Repaired(t, a) = Call(w, b) /\ Repairs(t, g, a, w, g2, b)
<1>1. a \in DOMAIN t.mem
  BY DEF Shrinking
<1>2. CASE a = t.root
  <2>1. Repaired(t, a) = Call(RootCollapsed(t), Null)
    BY <1>2 DEF Repaired, Call
  <2> DEFINE w == RootCollapsed(t)
  <2>2. \E g2 : Repairs(t, g, a, w, g2, Null)
    BY <1>2, RootRepairs
  <2> HIDE DEF w
  <2> QED BY <2>1, <2>2 DEF w
<1>3. CASE a # t.root
  BY <1>1, <1>3, NodeRepairs
<1> QED BY <1>2, <1>3

\* One call keeps to the loop's states, and climbs until it is done.
LEMMA RepairStepFacts ==
  ASSUME NEW t, t.order >= 3, NEW x, NEW d, Has(t.mem, x, d), NEW s \in ShrinkStates(t)
  PROVE  /\ RepairStep(s) \in ShrinkStates(t)
         /\ \A i, h : ShrinkHeight(s.tree, s.at, i, h) =>
              ShrinkHeight(RepairStep(s).tree, RepairStep(s).at, i + 1, h)
<1> DEFINE u == s.tree
           a == s.at
           z == RepairStep(s)
<1>1. ShrinksFrom(t, u, a)
  BY ShrinkStatesHave
<1>2. /\ IsTree(u) /\ u.order = t.order /\ u.count = t.count
      /\ SameEntries(t.mem, u.mem) /\ Shrinking(u, a)
  BY <1>1 DEF ShrinksFrom
<1>3. u.order >= 3 /\ Has(u.mem, x, d)
  BY <1>2 DEF SameEntries
<1>4. z = IF a = Null THEN s ELSE Repaired(u, a)
  BY DEF RepairStep
<1> HIDE DEF u, a, z
<1>5. CASE a = Null
  <2>1. z = s
    BY <1>4, <1>5
  <2>2. \A i, h : ShrinkHeight(u, a, i, h) => ShrinkHeight(u, a, i + 1, h)
    BY <1>5 DEF ShrinkHeight
  <2> QED BY <2>1, <2>2 DEF z, u, a
<1>6. CASE a # Null
  <2>1. \A g : Shape(u.mem, u.root, g) =>
          \E w, g2, b : Repaired(u, a) = Call(w, b) /\ Repairs(u, g, a, w, g2, b)
    BY <1>2, <1>3, <1>6, CallRepairs
  <2>2. z = Repaired(u, a)
    BY <1>4, <1>6
  <2>3. \A g, w, g2, b : z = Call(w, b) /\ Repairs(u, g, a, w, g2, b) =>
          ShrinksFrom(t, z.tree, z.at) /\ Shape(z.tree.mem, z.tree.root, g2) /\ z.tree = w /\ z.at = b
    <3> SUFFICES ASSUME NEW g, NEW w, NEW g2, NEW b, z = Call(w, b), Repairs(u, g, a, w, g2, b)
                 PROVE  ShrinksFrom(t, w, b) /\ Shape(w.mem, w.root, g2) /\ z.tree = w /\ z.at = b
      BY DEF Call
    <3>1. /\ IsTree(w) /\ w.order = u.order /\ w.count = u.count
          /\ Shape(w.mem, w.root, g2) /\ SameEntries(u.mem, w.mem) /\ Shrinking(w, b)
      BY DEF Repairs
    <3>2. SameEntries(t.mem, w.mem)
      BY <1>2, <3>1 DEF SameEntries
    <3>3. ShrinksFrom(t, w, b)
      BY <1>2, <3>1, <3>2 DEF ShrinksFrom
    <3> QED BY <3>1, <3>3 DEF Call
  <2>4. PICK g0 : Shape(u.mem, u.root, g0)
    BY <1>1 DEF ShrinksFrom
  <2>5. PICK w0, h0, b0 : z = Call(w0, b0) /\ Repairs(u, g0, a, w0, h0, b0)
    BY <2>1, <2>2, <2>4
  <2>6. ShrinksFrom(t, z.tree, z.at) /\ z.tree = w0 /\ z.at = b0
    BY <2>3, <2>5
  <2>7. z \in ShrinkStates(t)
    <3>1. Call(z.tree, z.at) \in ShrinkStates(t)
      BY <2>6, ShrinkStatesFacts
    <3> QED BY <2>5, <2>6, <3>1
  <2>8. \A i, h : ShrinkHeight(u, a, i, h) => ShrinkHeight(z.tree, z.at, i + 1, h)
    <3> SUFFICES ASSUME NEW i, NEW h, ShrinkHeight(u, a, i, h) PROVE ShrinkHeight(z.tree, z.at, i + 1, h)
      OBVIOUS
    <3>1. PICK g : Shape(u.mem, u.root, g) /\ Ht(g, a) = i /\ Ht(g, u.root) = h
      BY <1>6 DEF ShrinkHeight
    <3>2. PICK w, g2, b : z = Call(w, b) /\ Repairs(u, g, a, w, g2, b)
      BY <2>1, <2>2, <3>1
    <3>3. z.tree = w /\ z.at = b /\ Shape(w.mem, w.root, g2)
      BY <2>3, <3>2
    <3>4. b = Null \/ (Ht(g2, b) = Ht(g, a) + 1 /\ Ht(g2, w.root) = Ht(g, u.root))
      BY <3>2 DEF Repairs
    <3> QED BY <3>1, <3>3, <3>4 DEF ShrinkHeight
  <2> QED BY <2>7, <2>8 DEF z, u, a
<1> QED BY <1>5, <1>6

\* The loop's states: those of the steps from [tree |-> t, at |-> a]
LEMMA UnderflowSteps ==
  ASSUME NEW t, t.order >= 3, HasSome(t.mem), NEW a, ShrinksFrom(t, t, a),
         NEW n \in Nat, n = Cardinality(DOMAIN t.mem)
  PROVE  \E f : /\ f \in [0..n -> ShrinkStates(t)] /\ f[0] = Call(t, a)
                /\ \A i \in 1..n : f[i] = RepairStep(f[i - 1])
                /\ HandleUnderflow(t, a) = f[n].tree
<1> DEFINE X == ShrinkStates(t)
           step == [s \in X |-> RepairStep(s)]
           base == [tree |-> t, at |-> a]
           Run(r) == r = [i \in 0..n |-> IF i = 0 THEN base ELSE RepairStep(r[i - 1])]
           run == CHOOSE r : Run(r)
<1>0. PICK x, d : Has(t.mem, x, d)
  BY DEF HasSome
<1>1. step \in [X -> X] /\ \A s \in X : step[s] = RepairStep(s)
  BY <1>0, RepairStepFacts
<1>2. base \in X
  BY ShrinkStatesFacts DEF Call
<1>3. HandleUnderflow(t, a) = run[n].tree
  BY DEF HandleUnderflow, RepairStep
<1>11. base = Call(t, a)
  BY DEF Call
<1> HIDE DEF X, step, base
<1>4. PICK f : StepsTo(f, X, step, base, n)
  BY <1>1, <1>2, AfterSteps
<1>5. f \in [0..n -> X] /\ f[0] = base /\ \A i \in 1..n : f[i] = step[f[i - 1]]
  BY <1>4 DEF StepsTo
<1>6. \A i \in 1..n : f[i] = RepairStep(f[i - 1])
  <2> SUFFICES ASSUME NEW i \in 1..n PROVE f[i] = RepairStep(f[i - 1])
    OBVIOUS
  <2>1. i - 1 \in 0..n
    OBVIOUS
  <2>2. f[i - 1] \in X
    BY <1>5, <2>1
  <2> QED BY <1>1, <1>5, <2>2
<1>7. Run(f)
  <2>1. \A i \in 0..n : i # 0 => i \in 1..n
    OBVIOUS
  <2>2. \A i \in 0..n : f[i] = IF i = 0 THEN base ELSE RepairStep(f[i - 1])
    BY <1>5, <1>6, <2>1
  <2> QED BY <1>5, <2>2
<1>8. Run(run)
  <2> HIDE DEF Run
  <2> QED BY <1>7
<1>9. \A i \in 0..n : run[i] = f[i]
  <2> DEFINE T == {i \in 0..n : run[i] # f[i]}
  <2> SUFFICES ASSUME T # {} PROVE FALSE
    OBVIOUS
  <2> HIDE DEF run
  <2>1. T \subseteq Nat
    OBVIOUS
  <2>2. PICK i \in T : \A j \in T : i <= j
    BY <2>1, LeastNat
  <2>3. run[i] = IF i = 0 THEN base ELSE RepairStep(run[i - 1])
    BY <1>8
  <2>4. i # 0
    BY <1>5, <2>3
  <2>5. i \in 1..n /\ i - 1 \in 0..n /\ ~ (i <= i - 1)
    BY <2>4
  <2>6. i - 1 \notin T
    <3> HIDE DEF T
    <3> QED BY <2>2, <2>5
  <2>7. run[i - 1] = f[i - 1]
    BY <2>5, <2>6
  <2>8. run[i] = f[i]
    BY <1>6, <2>3, <2>4, <2>5, <2>7
  <2> QED BY <2>8
<1>10. HandleUnderflow(t, a) = f[n].tree
  <2>1. n \in 0..n
    OBVIOUS
  <2> HIDE DEF run
  <2> QED BY <1>3, <1>9, <2>1
<1> QED BY <1>5, <1>6, <1>10, <1>11 DEF X

\* A tree that has an entry, and in which the leaf a may have too few keys, is repaired.
LEMMA UnderflowFacts ==
  ASSUME NEW t, t.order >= 3, NEW a, IsTree(t), NEW g, Shape(t.mem, t.root, g),
         a \in DOMAIN t.mem, Leaf(t.mem, a), Shrinking(t, a), HasSome(t.mem)
  PROVE  Grown(t, HandleUnderflow(t, a))
<1> DEFINE n == Cardinality(DOMAIN t.mem)
           H == Ht(g, t.root)
<1>1. H \in Nat /\ n \in Nat /\ H < n
  BY HeightBound
<1>2. ShrinksFrom(t, t, a)
  BY DEF ShrinksFrom, SameEntries
<1>3. PICK f : /\ f \in [0..n -> ShrinkStates(t)] /\ f[0] = Call(t, a)
               /\ \A i \in 1..n : f[i] = RepairStep(f[i - 1])
               /\ HandleUnderflow(t, a) = f[n].tree
  BY <1>1, <1>2, UnderflowSteps, SMTT(30)
<1>10. PICK x, d : Has(t.mem, x, d)
  BY DEF HasSome
<1>4. ShrinkHeight(t, a, 0, H)
  <2>1. Ht(g, a) = 0
    BY DEF Shape, Fits
  <2> QED BY <2>1 DEF ShrinkHeight
<1> HIDE DEF n, H
<1> DEFINE At(i) == ShrinkHeight(f[i].tree, f[i].at, i, H)
<1>5. \A i \in 0..n : At(i)
  <2> DEFINE T == {i \in 0..n : ~ At(i)}
  <2> SUFFICES ASSUME T # {} PROVE FALSE
    OBVIOUS
  <2>1. T \subseteq Nat
    BY <1>1
  <2> HIDE DEF At
  <2>2. PICK i \in T : \A j \in T : i <= j
    BY <2>1, LeastNat
  <2>3. At(0)
    BY <1>3, <1>4 DEF At, Call
  <2>4. i # 0
    BY <2>2, <2>3
  <2>5. i \in 1..n /\ i - 1 \in 0..n /\ ~ (i <= i - 1) /\ (i - 1) + 1 = i
    BY <1>1, <2>4
  <2>6. i - 1 \notin T
    <3> HIDE DEF T
    <3> QED BY <2>2, <2>5
  <2>7. At(i - 1)
    BY <2>5, <2>6
  <2> DEFINE s == f[i - 1]
             j == i - 1
  <2>8. s \in ShrinkStates(t) /\ f[i] = RepairStep(s)
    BY <1>3, <2>5
  <2>9. ShrinkHeight(s.tree, s.at, j, H)
    BY <2>7 DEF At
  <2>10. j + 1 = i
    BY <2>5
  <2> HIDE DEF s, j
  <2>11. ShrinkHeight(RepairStep(s).tree, RepairStep(s).at, j + 1, H)
    BY <1>10, <2>8, <2>9, RepairStepFacts
  <2>12. At(i)
    BY <2>8, <2>10, <2>11 DEF At
  <2> QED BY <2>2, <2>12
<1> DEFINE w == f[n].tree
           b == f[n].at
<1>6. ShrinkHeight(w, b, n, H) /\ ShrinksFrom(t, w, b)
  <2>1. n \in 0..n
    BY <1>1
  <2>2. f[n] \in ShrinkStates(t)
    BY <1>3, <2>1
  <2> QED BY <1>5, <2>1, <2>2, ShrinkStatesHave
<1>7. HandleUnderflow(t, a) = w
  BY <1>3
<1> HIDE DEF w, b
<1>8. b = Null
  <2> SUFFICES ASSUME b # Null PROVE FALSE
    OBVIOUS
  <2>1. PICK g2 : Shape(w.mem, w.root, g2) /\ Ht(g2, b) = n /\ Ht(g2, w.root) = H
    BY <1>6 DEF ShrinkHeight
  <2>2. b \in DOMAIN w.mem
    BY <1>6 DEF ShrinksFrom, Shrinking
  <2>3. b = w.root \/ Ht(g2, b) < Ht(g2, w.root)
    BY <2>1, <2>2 DEF Shape, Rooted
  <2> QED BY <1>1, <2>1, <2>3
<1>9. Grown(t, w)
  <2>1. Null \notin DOMAIN w.mem
    BY <1>6 DEF ShrinksFrom, Shape, Typed
  <2> QED BY <1>6, <1>8, <2>1 DEF Grown, ShrinksFrom, Shrinking
<1> QED BY <1>7, <1>9

-----------------------------------------------------------------------------
(* remove                                                                  *)

\* The heap m2 has what m has, except under x.
HasLess(m, m2, x) == \A y, e : Has(m2, y, e) <=> Has(m, y, e) /\ y # x

\* The leaf a loses its i-th entry, which is under x.
LeafLoses(t, u, g, a, x) ==
  /\ IsTree(u) /\ u.order = t.order /\ u.count = t.count - 1 /\ u.root = t.root
  /\ Shape(u.mem, u.root, g) /\ HasLess(t.mem, u.mem, x)
  /\ a \in DOMAIN u.mem /\ Leaf(u.mem, a) /\ Shrinking(u, a)

\* Taking a key and its data from a leaf keeps the shape; the leaf may be left with
\* one key too few.
LEMMA LeafRemoval ==
  ASSUME NEW t, IsTree(t), NEW g, Shape(t.mem, t.root, g),
         \A c \in DOMAIN t.mem : NotUnder(t, c) /\ NotOver(t, c),
         NEW x \in Keys, NEW a \in DOMAIN t.mem, Leaf(t.mem, a),
         Lo(g, a) <= x, x < Hi(g, a),
         NEW i \in 1..Len(Ks(t.mem, a)), Ks(t.mem, a)[i] = x
  PROVE  LET u == [t EXCEPT !.mem[a].keys = SE!RemoveAt(@, i),
                            !.mem[a].ptrs = SE!RemoveAt(@, i),
                            !.count = @ - 1]
         IN  LeafLoses(t, u, g, a, x)
<1> DEFINE m == t.mem
           k == Ks(m, a)
           q == Ps(m, a)
           k2 == SE!RemoveAt(k, i)
           q2 == SE!RemoveAt(q, i)
           u == [t EXCEPT !.mem[a].keys = SE!RemoveAt(@, i),
                          !.mem[a].ptrs = SE!RemoveAt(@, i),
                          !.count = @ - 1]
           m2 == u.mem
           lo == Lo(g, a)
           hi == Hi(g, a)
<1>1. a \in DOMAIN m /\ Leaf(m, a) /\ lo <= x /\ x < hi
  OBVIOUS
<1>2. /\ k \in Seq(Keys) /\ q \in Seq(Nat) /\ Len(q) = Len(k) /\ Ascending(k)
  BY <1>1, LeafFacts
<1>3. lo \in Int /\ hi \in Int
  BY <1>1, NodeTypes DEF Shape
<1>4. LeafFits(k, q, lo, hi)
  BY <1>1 DEF Shape, Fits
<1>5. i \in 1..Len(k) /\ i \in 1..Len(q) /\ k[i] = x
  BY <1>2
<1> HIDE DEF k, q, lo, hi
<1>6. k2 \in Seq(Keys) /\ TakenAt(k2, k, i)
  BY <1>2, <1>5, RemoveAtTakes
<1>7. q2 \in Seq(Nat) /\ TakenAt(q2, q, i)
  BY <1>2, <1>5, RemoveAtTakes
<1> HIDE DEF k2, q2
<1>8. LeafFits(k2, q2, lo, hi) /\ \A y, e : Entry(k2, q2, y, e) <=> Entry(k, q, y, e) /\ y # x
  BY <1>2, <1>3, <1>4, <1>5, <1>6, <1>7, LeafTaken
<1>9. t.count - 1 \in Int /\ t.count \in Int
  BY DEF IsTree
<1>10. u = [t EXCEPT !.mem[a].keys = k2, !.mem[a].ptrs = q2, !.count = t.count - 1]
  BY <1>1 DEF k2, q2, k, q, Ks, Ps, IsTree, NodeSet
<1> DEFINE z == [t EXCEPT !.mem[a].keys = k2, !.mem[a].ptrs = q2, !.count = t.count - 1]
<1>11. /\ IsTree(z) /\ z.order = t.order /\ z.root = t.root /\ z.count = t.count - 1
       /\ NodePut(t.mem, z.mem, a, k2, q2, Nx(t.mem, a))
  BY <1>1, <1>6, <1>7, <1>9, LeafRewritten
<1> HIDE DEF z
<1>12. u = z
  BY <1>10 DEF z
<1> HIDE DEF u
<1>13. /\ IsTree(u) /\ u.order = t.order /\ u.root = t.root /\ u.count = t.count - 1
       /\ NodePut(m, m2, a, k2, q2, Nx(m, a))
  BY <1>11, <1>12
<1>14. DOMAIN m2 = DOMAIN m /\ Ks(m2, a) = k2 /\ Ps(m2, a) = q2 /\ \A c \in DOMAIN m \ {a} : m2[c] = m[c]
  BY <1>13 DEF NodePut
<1>15. Refills(m, m2, a)
  <2>1. m2 \in [DOMAIN m2 -> NodeSet]
    BY <1>13 DEF IsTree
  <2> QED BY <1>1, <1>13, <2>1, PutRefills
<1>16. Shape(m2, t.root, g)
  <2>1. LeafFits(Ks(m2, a), Ps(m2, a), Lo(g, a), Hi(g, a))
    BY <1>8, <1>14 DEF lo, hi
  <2> QED BY <1>1, <1>15, <2>1, RefillKeepsShape
<1>17. HasLess(m, m2, x)
  <2>1. \A y, e : Entry(Ks(m2, a), Ps(m2, a), y, e) <=> Entry(Ks(m, a), Ps(m, a), y, e) /\ y # x
    BY <1>8, <1>14 DEF k, q
  <2>2. Lo(g, a) <= x /\ x < Hi(g, a)
    BY <1>1 DEF lo, hi
  <2>3. \A y, e : Has(m2, y, e) <=> Has(m, y, e) /\ y # x
    BY <1>1, <1>15, <2>1, <2>2, RefilledHas
  <2> QED BY <2>3 DEF HasLess
<1>18. Leaf(m2, a)
  BY <1>15 DEF Refills
<1>19. Shrinking(u, a)
  <2>1. Len(k2) = Len(k) - 1 /\ Len(k) \in Nat /\ Len(k2) \in Nat /\ t.order \in Nat
    BY <1>2, <1>6 DEF TakenAt, IsTree
  <2>2. MinKeys(u) = MinKeys(t) /\ MinKeys(t) \in Int
    BY <1>13, <2>1 DEF MinKeys
  <2>3. NotUnder(t, a) /\ NotOver(t, a)
    BY <1>1
  <2>4. Len(k2) < u.order
    BY <1>13, <2>1, <2>3 DEF NotOver, k
  <2>5. NotOver(u, a)
    BY <1>14, <2>4 DEF NotOver
  <2>6. \A c \in DOMAIN m \ {a} : NotUnder(u, c) /\ NotOver(u, c)
    BY <1>13, <1>14, <2>2 DEF NotUnder, NotOver, Ks
  <2>7. ASSUME a # u.root PROVE Len(Ks(u.mem, a)) + 1 >= MinKeys(u)
    <3>1. a # t.root
      BY <1>13, <2>7
    <3>2. Len(k) >= MinKeys(t)
      BY <2>3, <3>1 DEF NotUnder, k
    <3> QED BY <1>14, <2>1, <2>2, <3>2
  <2> QED BY <1>14, <2>5, <2>6, <2>7 DEF Shrinking
<1>20. a \in DOMAIN m2
  BY <1>1, <1>14
<1>21. LeafLoses(t, u, g, a, x)
  BY <1>13, <1>16, <1>17, <1>18, <1>19, <1>20 DEF LeafLoses
<1> QED BY <1>21 DEF u

\* A key that the leaf of its range does not have has no entry.
LEMMA NoEntry ==
  ASSUME NEW m, NEW root, NEW g, Shape(m, root, g), NEW a \in DOMAIN m, Leaf(m, a),
         NEW x \in Keys, Lo(g, a) <= x, x < Hi(g, a), x \notin Elems(Ks(m, a))
  PROVE  \A e : ~ Has(m, x, e)
<1> SUFFICES ASSUME NEW e, Has(m, x, e) PROVE FALSE
  OBVIOUS
<1>1. PICK c \in DOMAIN m : Leaf(m, c) /\ Entry(Ks(m, c), Ps(m, c), x, e)
  BY DEF Has
<1>2. Ks(m, c) \in Seq(Keys)
  BY <1>1, LeafFacts
<1>3. x \in Elems(Ks(m, c))
  BY <1>1, <1>2, EntryHasKey
<1>4. c # a
  BY <1>3
<1>5. x \notin Elems(Ks(m, c))
  BY <1>1, <1>4, OneLeaf
<1> QED BY <1>3, <1>5

\* A key of a leaf has an entry, and with it one key fewer is stored.
LEMMA CountsLess ==
  ASSUME NEW m, NEW m2, NEW x \in KeysIn(m), HasLess(m, m2, x)
  PROVE  Cardinality(KeysIn(m2)) = Cardinality(KeysIn(m)) - 1
<1>1. KeysIn(m2) = KeysIn(m) \ {x}
  BY DEF KeysIn, HasLess
<1>2. IsFiniteSet(KeysIn(m))
  BY KeysInFinite
<1> QED BY <1>1, <1>2, FS_RemoveElement

\* What is stored is stored under a key.
LEMMA HasKey ==
  ASSUME NEW m, NEW root, NEW g, Shape(m, root, g), NEW x, NEW d, Has(m, x, d)
  PROVE  x \in KeysIn(m)
<1>1. PICK c \in DOMAIN m : Leaf(m, c) /\ Entry(Ks(m, c), Ps(m, c), x, d)
  BY DEF Has
<1>2. Ks(m, c) \in Seq(Keys)
  BY <1>1, LeafFacts
<1>3. x \in Elems(Ks(m, c))
  BY <1>1, <1>2, EntryHasKey
<1>4. x \in Keys
  BY <1>2, <1>3, ElemsFacts
<1> QED BY <1>4 DEF KeysIn

\* What remove makes of the tree t
Lost(t, w, x) ==
  TreeInv(w) /\ w.order = t.order /\ w.count <= t.count /\ HasLess(t.mem, w.mem, x)

\* Removing a key that is not there changes nothing.
LEMMA NothingLost ==
  ASSUME NEW t, TreeInv(t), NEW x, \A e : ~ Has(t.mem, x, e)
  PROVE  Lost(t, t, x)
<1>1. HasLess(t.mem, t.mem, x)
  BY DEF HasLess
<1>2. t.count <= t.count
  BY DEF TreeInv, IsTree
<1> QED BY <1>1, <1>2 DEF Lost

\* When the last entry goes, so do the nodes.
LEMMA LastLost ==
  ASSUME NEW t, TreeInv(t), NEW u, NEW g, NEW a, NEW x \in KeysIn(t.mem),
         LeafLoses(t, u, g, a, x), u.count = 0
  PROVE  Lost(t, [Deleted(u, Subtree(u, u.root)) EXCEPT !.root = Null], x)
<1> DEFINE v == Deleted(u, Subtree(u, u.root))
           w == [v EXCEPT !.root = Null]
           h == v.mem
<1>1. /\ IsTree(u) /\ u.order = t.order /\ u.count = t.count - 1
      /\ Shape(u.mem, u.root, g) /\ HasLess(t.mem, u.mem, x)
  BY DEF LeafLoses
<1>2. IsTree(t) /\ t.order >= 3 /\ t.count = Cardinality(KeysIn(t.mem)) /\ t.count \in Int
  BY DEF TreeInv, IsTree
<1>3. Subtree(u, u.root) = DOMAIN u.mem
  BY <1>1, SubtreeIs
<1>4. DOMAIN h = {} /\ SameMembers(u, v) /\ IsTree(v)
  <2>1. DOMAIN h = DOMAIN u.mem \ Subtree(u, u.root) /\ SameMembers(u, v) /\ IsTree(v)
    BY <1>1, DeletedFacts
  <2> HIDE DEF v
  <2> QED BY <1>3, <2>1
<1> HIDE DEF v
<1>5. /\ w \in [order : Nat, root : Nat, count : Int, mem : {h}] /\ w.mem = h
      /\ w.root = Null /\ w.order = t.order /\ w.count = u.count
  <2>1. v \in [order : Nat, root : Nat, count : Int, mem : {h}] /\ v.order = t.order /\ v.count = u.count
    BY <1>1, <1>4 DEF IsTree, SameMembers
  <2>2. Null \in Nat
    BY DEF Null
  <2> HIDE DEF h
  <2> QED BY <2>1, <2>2
<1>6. h \in [DOMAIN h -> NodeSet]
  BY <1>4 DEF IsTree
<1> HIDE DEF h, w
<1>7. IsTree(w)
  BY <1>5, <1>6 DEF IsTree
<1>8. Cardinality(KeysIn(u.mem)) = 0
  <2>1. Cardinality(KeysIn(u.mem)) = Cardinality(KeysIn(t.mem)) - 1
    BY <1>1, CountsLess
  <2> QED BY <1>1, <1>2, <2>1
<1>9. \A y, e : ~ Has(u.mem, y, e)
  <2>1. KeysIn(u.mem) = {}
    BY <1>8, KeysInFinite, FS_EmptySet
  <2> QED BY <1>1, <2>1, HasKey
<1>10. \A y, e : ~ Has(w.mem, y, e)
  BY <1>4, <1>5 DEF Has
<1>11. HasLess(t.mem, w.mem, x)
  BY <1>1, <1>9, <1>10 DEF HasLess
<1>12. Cardinality(KeysIn(w.mem)) = 0
  <2>1. KeysIn(w.mem) = {}
    BY <1>10 DEF KeysIn
  <2> QED BY <2>1, FS_EmptySet
<1>13. TreeInv(w)
  BY <1>2, <1>4, <1>5, <1>7, <1>12 DEF TreeInv
<1>14. w.count <= t.count
  BY <1>1, <1>2, <1>5
<1> QED BY <1>5, <1>11, <1>13, <1>14 DEF Lost, w, v

\* Otherwise the tree is repaired.
LEMMA OneLost ==
  ASSUME NEW t, TreeInv(t), NEW u, NEW g, NEW a, NEW x \in KeysIn(t.mem),
         LeafLoses(t, u, g, a, x), u.count # 0
  PROVE  Lost(t, HandleUnderflow(u, a), x)
<1> DEFINE w == HandleUnderflow(u, a)
<1>1. /\ IsTree(u) /\ u.order = t.order /\ u.count = t.count - 1
      /\ Shape(u.mem, u.root, g) /\ HasLess(t.mem, u.mem, x)
      /\ a \in DOMAIN u.mem /\ Leaf(u.mem, a) /\ Shrinking(u, a)
  BY DEF LeafLoses
<1>2. IsTree(t) /\ t.order >= 3 /\ t.count = Cardinality(KeysIn(t.mem)) /\ t.count \in Int
  BY DEF TreeInv, IsTree
<1>3. Cardinality(KeysIn(u.mem)) = Cardinality(KeysIn(t.mem)) - 1
  BY <1>1, CountsLess
<1>4. HasSome(u.mem)
  <2>1. KeysIn(u.mem) # {}
    <3>1. Cardinality(KeysIn(u.mem)) # 0
      BY <1>1, <1>2, <1>3
    <3> QED BY <3>1, FS_EmptySet
  <2> QED BY <2>1 DEF KeysIn, HasSome
<1>5. Grown(u, w)
  BY <1>1, <1>2, <1>4, UnderflowFacts
<1> HIDE DEF w
<1>6. /\ IsTree(w) /\ w.order = t.order /\ w.count = t.count - 1
      /\ SameEntries(u.mem, w.mem) /\ \E g2 : Shape(w.mem, w.root, g2)
      /\ \A c \in DOMAIN w.mem : NotUnder(w, c) /\ NotOver(w, c)
  BY <1>1, <1>5 DEF Grown
<1>7. HasLess(t.mem, w.mem, x)
  BY <1>1, <1>6 DEF HasLess, SameEntries
<1>8. w.count = Cardinality(KeysIn(w.mem))
  <2>1. Cardinality(KeysIn(w.mem)) = Cardinality(KeysIn(t.mem)) - 1
    BY <1>7, CountsLess
  <2> QED BY <1>2, <1>6, <2>1
<1>9. w.root # Null
  BY <1>6, HeapIsNotNull
<1>10. TreeInv(w)
  BY <1>2, <1>6, <1>8, <1>9 DEF TreeInv
<1>11. w.count <= t.count
  BY <1>2, <1>6
<1> QED BY <1>6, <1>7, <1>10, <1>11 DEF Lost, w

\* remove keeps the invariant, and takes away what is under its key and nothing else.
LEMMA RemovedFacts ==
  ASSUME NEW t, TreeInv(t), NEW x \in Keys
  PROVE  Lost(t, Removed(t, x), x)
<1> DEFINE m == t.mem
           a == FindLeaf(t, x)
           i == PositionOf(t.mem[a].keys, x)
           u == [t EXCEPT !.mem[a].keys = SE!RemoveAt(@, i),
                          !.mem[a].ptrs = SE!RemoveAt(@, i),
                          !.count = @ - 1]
           w == Removed(t, x)
<1>1. CASE t.root = Null
  <2>1. w = t
    BY <1>1 DEF Removed
  <2>2. \A e : ~ Has(t.mem, x, e)
    BY <1>1 DEF TreeInv, Has
  <2> QED BY <2>1, <2>2, NothingLost
<1>2. CASE t.root # Null
  <2>1. /\ IsTree(t)
        /\ \E g : Shape(t.mem, t.root, g)
        /\ \A c \in DOMAIN t.mem : NotUnder(t, c) /\ NotOver(t, c)
    BY <1>2 DEF TreeInv
  <2>2. PICK g : Shape(t.mem, t.root, g)
    BY <2>1
  <2>3. a \in DOMAIN m /\ Leaf(m, a) /\ Lo(g, a) <= x /\ x < Hi(g, a)
    BY <2>2, FindLeafFacts
  <2>4. w = IF i = 0 THEN t ELSE IF u.count = 0 THEN [Deleted(u, Subtree(u, u.root)) EXCEPT !.root = Null]
            ELSE HandleUnderflow(u, a)
    BY <1>2, SMTT(30) DEF Removed
  <2> HIDE DEF a, w
  <2>5. Ks(m, a) \in Seq(Keys) /\ Ks(m, a) = t.mem[a].keys
    BY <2>2, <2>3, LeafFacts DEF Ks
  <2>6. /\ x \notin Elems(Ks(m, a)) => i = 0
        /\ x \in Elems(Ks(m, a)) => i \in 1..Len(Ks(m, a)) /\ Ks(m, a)[i] = x
    BY <2>5, PositionOfFacts
  <2> HIDE DEF i
  <2>7. CASE i = 0
    <3>1. Len(Ks(m, a)) \in Nat
      BY <2>5
    <3>2. x \notin Elems(Ks(m, a))
      BY <2>6, <2>7, <3>1
    <3>3. \A e : ~ Has(t.mem, x, e)
      BY <2>2, <2>3, <3>2, NoEntry
    <3>4. w = t
      BY <2>4, <2>7
    <3> QED BY <3>3, <3>4, NothingLost DEF w
  <2>8. CASE i # 0
    <3>1. i \in 1..Len(Ks(m, a)) /\ Ks(m, a)[i] = x
      BY <2>6, <2>8
    <3>2. LeafLoses(t, u, g, a, x)
      BY <2>1, <2>2, <2>3, <3>1, LeafRemoval
    <3>3. x \in KeysIn(t.mem)
      <4>1. Entry(Ks(m, a), Ps(m, a), x, Ps(m, a)[i])
        BY <3>1 DEF Entry
      <4>2. Has(m, x, Ps(m, a)[i])
        BY <2>3, <4>1 DEF Has
      <4> QED BY <4>2 DEF KeysIn
    <3> HIDE DEF u
    <3>4. CASE u.count = 0
      <4>1. w = [Deleted(u, Subtree(u, u.root)) EXCEPT !.root = Null]
        BY <2>4, <2>8, <3>4
      <4>2. Lost(t, [Deleted(u, Subtree(u, u.root)) EXCEPT !.root = Null], x)
        BY <3>2, <3>3, <3>4, LastLost
      <4> QED BY <4>1, <4>2 DEF w
    <3>5. CASE u.count # 0
      <4>1. w = HandleUnderflow(u, a)
        BY <2>4, <2>8, <3>5
      <4>2. Lost(t, HandleUnderflow(u, a), x)
        BY <3>2, <3>3, <3>5, OneLost
      <4> QED BY <4>1, <4>2 DEF w
    <3> QED BY <3>4, <3>5
  <2> QED BY <2>7, <2>8
<1> QED BY <1>1, <1>2

-----------------------------------------------------------------------------
(* What search returns                                                     *)

\* No key has two entries.
LEMMA OneEntry ==
  ASSUME NEW m, NEW root, NEW g, Shape(m, root, g), NEW x, NEW d, NEW e, Has(m, x, d), Has(m, x, e)
  PROVE  d = e
<1>1. PICK a \in DOMAIN m : Leaf(m, a) /\ Entry(Ks(m, a), Ps(m, a), x, d)
  BY DEF Has
<1>2. PICK c \in DOMAIN m : Leaf(m, c) /\ Entry(Ks(m, c), Ps(m, c), x, e)
  BY DEF Has
<1>3. /\ Ks(m, a) \in Seq(Keys) /\ Ascending(Ks(m, a))
      /\ \A y \in Elems(Ks(m, a)) : Lo(g, a) <= y /\ y < Hi(g, a)
  BY <1>1, LeafFacts
<1>4. Ks(m, c) \in Seq(Keys)
  BY <1>2, LeafFacts
<1>5. x \in Elems(Ks(m, a)) /\ x \in Elems(Ks(m, c))
  BY <1>1, <1>2, <1>3, <1>4, EntryHasKey
<1>6. x \in Keys
  BY <1>3, <1>5, ElemsFacts
<1>7. Lo(g, a) <= x /\ x < Hi(g, a)
  BY <1>3, <1>5
<1>8. c = a
  <2>1. c # a => x \notin Elems(Ks(m, c))
    BY <1>1, <1>2, <1>6, <1>7, OneLeaf
  <2> QED BY <1>5, <2>1
<1>9. PICK i \in 1..Len(Ks(m, a)) : Ks(m, a)[i] = x /\ Ps(m, a)[i] = d
  BY <1>1 DEF Entry
<1>10. PICK j \in 1..Len(Ks(m, a)) : Ks(m, a)[j] = x /\ Ps(m, a)[j] = e
  BY <1>2, <1>8 DEF Entry
<1>11. i = j
  <2>1. x \in Int
    BY <1>6, KeysAreInts
  <2>2. i < j => Ks(m, a)[i] < Ks(m, a)[j]
    BY <1>3 DEF Ascending
  <2>3. j < i => Ks(m, a)[j] < Ks(m, a)[i]
    BY <1>3 DEF Ascending
  <2>4. ~ (x < x)
    BY <2>1
  <2>5. ~ (i < j) /\ ~ (j < i)
    BY <1>9, <1>10, <2>2, <2>3, <2>4
  <2>6. i \in Int /\ j \in Int
    OBVIOUS
  <2> QED BY <2>5, <2>6
<1> QED BY <1>9, <1>10, <1>11

\* The data are addresses of objects.
LEMMA DataFacts ==
  ASSUME NEW m, NEW root, NEW g, Shape(m, root, g), NEW x, NEW d, Has(m, x, d)
  PROVE  d \in AllData
<1>1. PICK a \in DOMAIN m : Leaf(m, a) /\ Entry(Ks(m, a), Ps(m, a), x, d)
  BY DEF Has
<1>2. Ps(m, a) \in Seq(AllData) /\ Len(Ps(m, a)) = Len(Ks(m, a))
  BY <1>1, LeafFacts
<1>3. PICK i \in 1..Len(Ps(m, a)) : Ps(m, a)[i] = d
  BY <1>1, <1>2 DEF Entry
<1> QED BY <1>2, <1>3, ElementOfSeq

\* Data are addresses.
LEMMA AllDataFacts == AllData \subseteq Nat /\ Null \notin AllData
BY BPTAssumption DEF AllData

\* search finds the one entry of its key, and nullptr if there is none.
Finds(t, x) ==
  /\ \A d : Has(t.mem, x, d) => Search(t, x) = d /\ d \in AllData
  /\ (\A d : ~ Has(t.mem, x, d)) => Search(t, x) = Null

\* search finds the data of its key, wherever in the tree that is.
LEMMA SearchFacts ==
  ASSUME NEW t, TreeInv(t), NEW x \in Keys
  PROVE  Finds(t, x)
<1> DEFINE m == t.mem
           a == FindLeaf(t, x)
           i == PositionOf(m[a].keys, x)
<1>1. CASE t.root = Null
  <2>1. \A d : ~ Has(t.mem, x, d)
    BY <1>1 DEF TreeInv, Has
  <2>2. Search(t, x) = Null
    BY <1>1 DEF Search
  <2> QED BY <2>1, <2>2 DEF Finds
<1>2. CASE t.root # Null
  <2>1. PICK g : Shape(t.mem, t.root, g)
    BY <1>2 DEF TreeInv
  <2>2. a \in DOMAIN m /\ Leaf(m, a) /\ Lo(g, a) <= x /\ x < Hi(g, a)
    BY <2>1, FindLeafFacts
  <2>3. Search(t, x) = IF i = 0 THEN Null ELSE Ps(m, a)[i]
    BY <1>2 DEF Search, Ps
  <2> HIDE DEF a
  <2>4. Ks(m, a) \in Seq(Keys) /\ Ks(m, a) = m[a].keys
    BY <2>1, <2>2, LeafFacts DEF Ks
  <2>5. /\ x \notin Elems(Ks(m, a)) => i = 0
        /\ x \in Elems(Ks(m, a)) => i \in 1..Len(Ks(m, a)) /\ Ks(m, a)[i] = x
    BY <2>4, PositionOfFacts
  <2> HIDE DEF i
  <2>6. CASE x \notin Elems(Ks(m, a))
    <3>1. \A d : ~ Has(m, x, d)
      BY <2>1, <2>2, <2>6, NoEntry
    <3> QED BY <2>3, <2>5, <2>6, <3>1 DEF Finds
  <2>7. CASE x \in Elems(Ks(m, a))
    <3>1. i \in 1..Len(Ks(m, a)) /\ Ks(m, a)[i] = x /\ i # 0
      BY <2>4, <2>5, <2>7
    <3>2. Entry(Ks(m, a), Ps(m, a), x, Ps(m, a)[i])
      BY <3>1 DEF Entry
    <3>3. Has(m, x, Ps(m, a)[i]) /\ Search(t, x) = Ps(m, a)[i]
      BY <2>2, <2>3, <3>1, <3>2 DEF Has
    <3>4. \A d : Has(m, x, d) => d = Ps(m, a)[i] /\ d \in AllData
      BY <2>1, <3>3, OneEntry, DataFacts
    <3> QED BY <3>3, <3>4 DEF Finds
  <2> QED BY <2>6, <2>7
<1> QED BY <1>1, <1>2

\* The keys in the leaves are those with an entry.
LEMMA StoredIs ==
  ASSUME NEW t, TreeInv(t)
  PROVE  Stored(t) = KeysIn(t.mem)
<1> DEFINE m == t.mem
<1>1. CASE t.root = Null
  <2>1. Stored(t) = {}
    BY <1>1 DEF TreeInv, Stored, LeafNodes
  <2>2. KeysIn(m) = {}
    BY <1>1 DEF TreeInv, KeysIn, Has
  <2> QED BY <2>1, <2>2
<1>2. CASE t.root # Null
  <2>1. PICK g : Shape(m, t.root, g)
    BY <1>2 DEF TreeInv
  <2>2. \A x : x \in Stored(t) <=> \E a \in DOMAIN m : Leaf(m, a) /\ x \in Elems(Ks(m, a))
    BY DEF Stored, LeafNodes, Leaf, Ks, Elems
  <2>3. ASSUME NEW x \in Stored(t) PROVE x \in KeysIn(m)
    <3>1. PICK a \in DOMAIN m : Leaf(m, a) /\ x \in Elems(Ks(m, a))
      BY <2>2
    <3>2. Ks(m, a) \in Seq(Keys)
      BY <2>1, <3>1, LeafFacts
    <3>3. PICK d : Entry(Ks(m, a), Ps(m, a), x, d)
      BY <3>1, <3>2, KeyHasEntry
    <3>4. Has(m, x, d)
      BY <3>1, <3>3 DEF Has
    <3> QED BY <2>1, <3>4, HasKey
  <2>4. ASSUME NEW x \in KeysIn(m) PROVE x \in Stored(t)
    <3>1. PICK d : Has(m, x, d)
      BY DEF KeysIn
    <3>2. PICK a \in DOMAIN m : Leaf(m, a) /\ Entry(Ks(m, a), Ps(m, a), x, d)
      BY <3>1 DEF Has
    <3>3. Ks(m, a) \in Seq(Keys)
      BY <2>1, <3>2, LeafFacts
    <3>4. x \in Elems(Ks(m, a))
      BY <3>2, <3>3, EntryHasKey
    <3> QED BY <2>2, <3>2, <3>4
  <2> QED BY <2>3, <2>4
<1> QED BY <1>1, <1>2

-----------------------------------------------------------------------------
(* The invariant of the specification                                      *)

IInv == TreeInv(tree) /\ tree.count <= MaxCount

\* The tree without nodes satisfies the invariant.
LEMMA EmptyTree ==
  ASSUME NEW t, IsTree(t), t.order >= 3, t.root = Null, t.count = 0, DOMAIN t.mem = {}
  PROVE  TreeInv(t) /\ \A x, d : ~ Has(t.mem, x, d)
<1>1. \A x, d : ~ Has(t.mem, x, d)
  BY DEF Has
<1>2. KeysIn(t.mem) = {}
  BY <1>1 DEF KeysIn
<1>3. Cardinality(KeysIn(t.mem)) = 0
  BY <1>2, FS_EmptySet
<1> QED BY <1>1, <1>3 DEF TreeInv

\* The constructor makes an empty tree.
LEMMA InitFacts ==
  ASSUME Init
  PROVE  IInv /\ \A x, d : ~ Has(tree.mem, x, d)
<1>1. PICK ord \in Orders : tree = NewTree(ord)
  BY DEF Init
<1> DEFINE n == IF ord < 3 THEN 3 ELSE ord
           h == <<>>
<1>2. n \in Nat /\ n >= 3
  BY BPTAssumption
<1>3. tree = [order |-> n, root |-> Null, count |-> 0, mem |-> h]
  BY <1>1 DEF NewTree
<1>4. DOMAIN h = {} /\ h \in [DOMAIN h -> NodeSet]
  OBVIOUS
<1> HIDE DEF n, h
<1>5. /\ tree \in [order : Nat, root : Nat, count : Int, mem : {h}]
      /\ tree.mem = h /\ tree.order = n /\ tree.root = Null /\ tree.count = 0
  BY <1>2, <1>3 DEF Null
<1>6. IsTree(tree) /\ DOMAIN tree.mem = {}
  BY <1>4, <1>5 DEF IsTree
<1>7. TreeInv(tree) /\ \A x, d : ~ Has(tree.mem, x, d)
  BY <1>2, <1>5, <1>6, EmptyTree
<1>8. tree.count <= MaxCount
  BY <1>5, BPTAssumption
<1> QED BY <1>7, <1>8 DEF IInv

\* insert of a key that is not there
LEMMA InsertFacts ==
  ASSUME IInv, NEW x \in Keys \ Stored(tree), NEW d \in Data[x], Insert(x, d)
  PROVE  IInv' /\ HasAlso(tree.mem, tree'.mem, x, d)
<1> DEFINE w == Inserted(tree, x, d)
<1>1. TreeInv(tree) /\ x \in Keys /\ tree.count < MaxCount /\ tree.count \in Int
  BY DEF IInv, TreeInv, IsTree, Insert
<1>2. d \in AllData
  BY DEF AllData
<1>3. \A e : ~ Has(tree.mem, x, e)
  <2>1. x \notin KeysIn(tree.mem)
    BY <1>1, StoredIs
  <2> QED BY <1>1, <2>1 DEF KeysIn
<1>4. TreeInv(w) /\ w.order = tree.order /\ w.count = tree.count + 1 /\ HasAlso(tree.mem, w.mem, x, d)
  BY <1>1, <1>2, <1>3, InsertedFacts
<1>5. tree' = w
  BY DEF Insert
<1> HIDE DEF w
<1>6. w.count <= MaxCount
  BY <1>1, <1>4, BPTAssumption
<1> QED BY <1>4, <1>5, <1>6 DEF IInv

\* remove
LEMMA RemoveFacts ==
  ASSUME IInv, NEW x \in Keys, Remove(x)
  PROVE  IInv' /\ HasLess(tree.mem, tree'.mem, x)
<1> DEFINE w == Removed(tree, x)
<1>1. TreeInv(tree) /\ tree.count <= MaxCount /\ tree.count \in Int
  BY DEF IInv, TreeInv, IsTree
<1>2. Lost(tree, w, x)
  BY <1>1, RemovedFacts
<1>3. tree' = w
  BY DEF Remove
<1> HIDE DEF w
<1>4. TreeInv(w) /\ w.count <= tree.count /\ HasLess(tree.mem, w.mem, x) /\ w.count \in Int
  BY <1>2 DEF Lost, TreeInv, IsTree
<1>5. w.count <= MaxCount
  BY <1>1, <1>4, BPTAssumption
<1> QED BY <1>3, <1>4, <1>5 DEF IInv

\* The shape of the tree, its bounds and its count are kept by every insert of a
\* new key and by every remove, whatever splits, exchanges and merges these cause.
THEOREM Invariant == NewKeysSpec => []IInv
<1>1. Init => IInv
  BY InitFacts
<1>2. IInv /\ [NewKeysNext]_tree => IInv'
  <2> SUFFICES ASSUME IInv, [NewKeysNext]_tree PROVE IInv'
    OBVIOUS
  <2>1. ASSUME NEW x \in Keys \ Stored(tree), NEW d \in Data[x], Insert(x, d) PROVE IInv'
    BY <2>1, InsertFacts
  <2>2. ASSUME NEW x \in Keys, Remove(x) PROVE IInv'
    BY <2>2, RemoveFacts
  <2>3. CASE UNCHANGED tree
    BY <2>3 DEF IInv, TreeInv, IsTree
  <2> QED BY <2>1, <2>2, <2>3 DEF NewKeysNext
<1> QED BY <1>1, <1>2, PTL DEF NewKeysSpec

-----------------------------------------------------------------------------
(* The properties                                                          *)

\* A node's lists have the right elements.
LEMMA ListsTyped ==
  ASSUME NEW m, NEW root, NEW g, Shape(m, root, g), NEW a \in DOMAIN m
  PROVE  /\ Ks(m, a) \in Seq(Keys)
         /\ Ps(m, a) \in Seq(IF Leaf(m, a) THEN AllData ELSE DOMAIN m)
<1>1. Ks(m, a) \in Seq(Keys) /\ Ps(m, a) \in Seq(Nat)
  BY NodeTypes DEF Shape
<1>2. CASE Leaf(m, a)
  BY <1>1, <1>2, LeafFacts
<1>3. CASE ~ Leaf(m, a)
  <2>1. \A i \in 1..Len(Ps(m, a)) : Ps(m, a)[i] \in DOMAIN m
    BY <1>3, ChildFacts
  <2>2. Ps(m, a) \in Seq(DOMAIN m)
    BY <1>1, <2>1, SeqOf
  <2> QED BY <1>1, <1>3, <2>2
<1> QED BY <1>2, <1>3

\* The invariant gives the type of the state.
LEMMA InvTyped ==
  ASSUME IInv
  PROVE  TypeOK
<1> DEFINE m == tree.mem
<1>1. tree.root \in Nat /\ tree.order \in Nat /\ tree.count \in 0..MaxCount
  <2>1. tree.count \in Nat
    BY KeysInFinite DEF IInv, TreeInv
  <2> QED BY <2>1, BPTAssumption DEF IInv, TreeInv, IsTree
<1>2. CASE tree.root = Null
  BY <1>1, <1>2 DEF IInv, TreeInv, TypeOK, Nodes
<1>3. CASE tree.root # Null
  <2>1. PICK g : Shape(m, tree.root, g)
    BY <1>3 DEF IInv, TreeInv
  <2>2. tree.root \in DOMAIN m
    BY <2>1, HeapIsNotNull
  <2>3. ASSUME NEW a \in DOMAIN m
        PROVE  /\ m[a].keys \in Seq(Keys)
               /\ m[a].ptrs \in Seq(IF m[a].leaf THEN AllData ELSE DOMAIN m)
               /\ {m[a].next, m[a].prev, m[a].parent} \subseteq DOMAIN m \cup {Null}
    <3>1. {Nx(m, a), Pv(m, a), Up(m, a)} \subseteq DOMAIN m \cup {Null}
      BY <2>1, LinksInTree
    <3>2. Ks(m, a) \in Seq(Keys) /\ Ps(m, a) \in Seq(IF Leaf(m, a) THEN AllData ELSE DOMAIN m)
      BY <2>1, ListsTyped
    <3> QED BY <3>1, <3>2 DEF Nx, Pv, Up, Ks, Ps, Leaf
  <2> QED BY <1>1, <2>2, <2>3 DEF TypeOK, Nodes, Node
<1> QED BY <1>2, <1>3

\* No pointer of the tree dangles.
THEOREM TypeCorrect == NewKeysSpec => []TypeOK
<1>1. IInv => TypeOK
  BY InvTyped
<1> QED BY <1>1, Invariant, PTL

\* The invariant gives every node its owner.
LEMMA InvOwned ==
  ASSUME IInv
  PROVE  NodesOwned
<1> DEFINE m == tree.mem
<1>1. CASE tree.root = Null
  BY <1>1 DEF IInv, TreeInv, NodesOwned, Nodes
<1>2. CASE tree.root # Null
  <2>1. PICK g : Shape(m, tree.root, g)
    BY <1>2 DEF IInv, TreeInv
  <2>2. IsTree(tree)
    BY DEF IInv, TreeInv
  <2>3. Subtree(tree, tree.root) = DOMAIN m
    BY <2>1, <2>2, SubtreeIs
  <2>4. Up(m, tree.root) = Null
    BY <2>1 DEF Shape, Rooted
  <2>5. ASSUME NEW a \in DOMAIN m, ~ m[a].leaf
        PROVE  /\ Len(m[a].ptrs) = Len(m[a].keys) + 1
               /\ \A i \in DOMAIN m[a].ptrs :
                    /\ m[m[a].ptrs[i]].parent = a
                    /\ \A j \in DOMAIN m[a].ptrs : m[a].ptrs[i] = m[a].ptrs[j] => i = j
    <3> DEFINE q == Ps(m, a)
    <3>1. ~ Leaf(m, a)
      BY <2>5 DEF Leaf
    <3>2. /\ q \in Seq(Nat) /\ Len(q) = Len(Ks(m, a)) + 1 /\ Distinct(q)
          /\ \A i \in 1..Len(q) : Up(m, q[i]) = a
      BY <2>1, <3>1, ChildFacts
    <3>3. DOMAIN q = 1..Len(q)
      BY <3>2
    <3> QED BY <3>2, <3>3 DEF Distinct, Up, Ps, Ks
  <2> QED BY <1>2, <2>3, <2>4, <2>5 DEF NodesOwned, Nodes, Node, Up
<1> QED BY <1>1, <1>2

\* Splits, merges and the collapse of the root neither leak a node nor leave a
\* stale parent pointer: each node is in the tree, once, under its parent.
THEOREM EveryNodeOwned == NewKeysSpec => []NodesOwned
<1>1. IInv => NodesOwned
  BY InvOwned
<1> QED BY <1>1, Invariant, PTL

\* The invariant bounds the nodes and puts all leaves on one level.
LEMMA InvBalanced ==
  ASSUME IInv
  PROVE  Balanced
<1> SUFFICES ASSUME tree.root # Null
             PROVE  /\ \E n \in 0..Cardinality(Nodes) : LeafNodes(tree) = Level(tree, tree.root, n)
                    /\ \A a \in Nodes :
                         /\ Len(Node(a).keys) < tree.order
                         /\ a # tree.root => Len(Node(a).keys) >= MinKeys(tree)
                         /\ a = tree.root => Len(Node(a).keys) >= 1
  BY DEF Balanced
<1> DEFINE m == tree.mem
           root == tree.root
<1>1. /\ IsTree(tree) /\ \E g : Shape(m, root, g)
      /\ \A c \in DOMAIN m : NotUnder(tree, c) /\ NotOver(tree, c)
  BY DEF IInv, TreeInv
<1>2. PICK g : Shape(m, root, g)
  BY <1>1
<1> DEFINE n == Ht(g, root)
<1>3. n \in Nat /\ Cardinality(DOMAIN m) \in Nat /\ n < Cardinality(DOMAIN m)
  BY <1>2, HeightBound
<1>4. Level(tree, root, n) = AtLevel(m, root, g, n)
  BY <1>1, <1>2, <1>3, LevelIs
<1>5. \A b \in DOMAIN m : Ht(g, b) \in Nat /\ (Leaf(m, b) <=> Ht(g, b) = 0)
  BY <1>2, FitsFacts, NodeTypes DEF Shape, LeavesLow
<1>6. AtLevel(m, root, g, n) = {b \in DOMAIN m : Leaf(m, b)}
  <2>1. \A b \in DOMAIN m : Ht(g, b) + n = n <=> Ht(g, b) = 0
    BY <1>3, <1>5
  <2> QED BY <1>5, <2>1 DEF AtLevel
<1>7. LeafNodes(tree) = Level(tree, root, n) /\ n \in 0..Cardinality(DOMAIN m)
  BY <1>3, <1>4, <1>6 DEF LeafNodes, Leaf
<1>8. ASSUME NEW a \in DOMAIN m
      PROVE  /\ Len(m[a].keys) < tree.order
             /\ a # root => Len(m[a].keys) >= MinKeys(tree)
             /\ a = root => Len(m[a].keys) >= 1
  BY <1>1 DEF NotUnder, NotOver, Ks
<1> HIDE DEF n
<1> QED BY <1>7, <1>8 DEF Nodes, Node

\* The leaves are at one depth, and no node but the root has too few keys or any
\* too many.
THEOREM AlwaysBalanced == NewKeysSpec => []Balanced
<1>1. IInv => Balanced
  BY InvBalanced
<1> QED BY <1>1, Invariant, PTL

\* What is stored under a key, by the entries of the heap
LEMMA StoredUnderIs ==
  ASSUME IInv, NEW x \in Keys
  PROVE  StoredUnder(x) = {d \in AllData : Has(tree.mem, x, d)}
<1> DEFINE m == tree.mem
           H == {d \in AllData : Has(m, x, d)}
           L == {a \in DOMAIN m : Leaf(m, a)}
           P(a) == {Ps(m, a)[i] : i \in {j \in DOMAIN Ks(m, a) : Ks(m, a)[j] = x}}
<1>1. StoredUnder(x) = UNION {P(a) : a \in L}
  BY DEF StoredUnder, LeafNodes, Node, Leaf, Ks, Ps
<1>2. CASE tree.root = Null
  BY <1>1, <1>2 DEF IInv, TreeInv, Has
<1>3. CASE tree.root # Null
  <2>1. PICK g : Shape(m, tree.root, g)
    BY <1>3 DEF IInv, TreeInv
  <2>2. \A a \in L : DOMAIN Ks(m, a) = 1..Len(Ks(m, a))
    <3> TAKE a \in L
    <3>1. Ks(m, a) \in Seq(Keys)
      BY <2>1, LeafFacts
    <3> QED BY <3>1
  <2>3. \A a \in L : \A d : d \in P(a) <=> Entry(Ks(m, a), Ps(m, a), x, d)
    BY <2>2 DEF Entry
  <2> HIDE DEF P
  <2>4. \A d : d \in StoredUnder(x) <=> Has(m, x, d)
    BY <1>1, <2>3 DEF Has
  <2>5. \A d : Has(m, x, d) => d \in AllData
    BY <2>1, DataFacts
  <2> QED BY <2>4, <2>5
<1> QED BY <1>2, <1>3

\* The invariant makes search find what is stored.
LEMMA InvFinds ==
  ASSUME IInv
  PROVE  SearchFindsStored
<1> SUFFICES ASSUME NEW x \in Keys
             PROVE  IF StoredUnder(x) = {} THEN Search(tree, x) = Null
                    ELSE Search(tree, x) \in StoredUnder(x)
  BY DEF SearchFindsStored
<1>1. StoredUnder(x) = {d \in AllData : Has(tree.mem, x, d)}
  BY StoredUnderIs
<1>2. Finds(tree, x)
  BY SearchFacts DEF IInv
<1>3. \A d : Has(tree.mem, x, d) => d \in StoredUnder(x) /\ Search(tree, x) = d
  BY <1>1, <1>2 DEF Finds
<1>4. (\A d : ~ Has(tree.mem, x, d)) => Search(tree, x) = Null
  BY <1>2 DEF Finds
<1>5. StoredUnder(x) = {} <=> \A d : ~ Has(tree.mem, x, d)
  BY <1>1, <1>3
<1> QED BY <1>3, <1>4, <1>5

\* The descent of search ends at the leaf that has the key, if one has.
THEOREM SearchFinds == NewKeysSpec => []SearchFindsStored
<1>1. IInv => SearchFindsStored
  BY InvFinds
<1> QED BY <1>1, Invariant, PTL

\* The tree is an ordered map: every insert is a Put, every remove a Delete, of its
\* key alone, whatever splits, borrowings and merges it takes.
THEOREM Refinement == NewKeysSpec => ImplementsOrderedMap
<1> DEFINE map == [k \in Keys |-> Search(tree, k)]
<1>1. Init => OM!Init
  <2> SUFFICES ASSUME Init PROVE map = [k \in Keys |-> Null]
    BY DEF OM!Init
  <2>1. IInv /\ \A x, d : ~ Has(tree.mem, x, d)
    BY InitFacts
  <2>2. \A k \in Keys : Search(tree, k) = Null
    BY <2>1, SearchFacts DEF IInv, Finds
  <2> QED BY <2>2
<1>2. IInv /\ [NewKeysNext]_tree => [OM!Next]_map
  <2> SUFFICES ASSUME IInv, [NewKeysNext]_tree PROVE [OM!Next]_map
    OBVIOUS
  <2>1. \A k \in Keys : Finds(tree, k)
    BY SearchFacts DEF IInv
  <2>2. ASSUME NEW x \in Keys \ Stored(tree), NEW d \in Data[x], Insert(x, d) PROVE OM!Put(x)
    <3>1. IInv' /\ HasAlso(tree.mem, tree'.mem, x, d)
      BY <2>2, InsertFacts
    <3>2. \A k \in Keys : Finds(tree', k)
      BY <3>1, SearchFacts DEF IInv
    <3>3. Search(tree', x) \in AllData
      BY <3>1, <3>2 DEF HasAlso, Finds
    <3>4. ASSUME NEW j \in Keys \ {x} PROVE Search(tree', j) = Search(tree, j)
      <4>1. \A e : Has(tree'.mem, j, e) <=> Has(tree.mem, j, e)
        BY <3>1 DEF HasAlso
      <4> QED BY <2>1, <3>2, <4>1 DEF Finds
    <3> QED BY <3>3, <3>4 DEF OM!Put, OM!Only
  <2>3. ASSUME NEW x \in Keys, Remove(x) PROVE OM!Delete(x)
    <3>1. IInv' /\ HasLess(tree.mem, tree'.mem, x)
      BY <2>3, RemoveFacts
    <3>2. \A k \in Keys : Finds(tree', k)
      BY <3>1, SearchFacts DEF IInv
    <3>3. Search(tree', x) = Null
      BY <3>1, <3>2 DEF HasLess, Finds
    <3>4. ASSUME NEW j \in Keys \ {x} PROVE Search(tree', j) = Search(tree, j)
      <4>1. \A e : Has(tree'.mem, j, e) <=> Has(tree.mem, j, e)
        BY <3>1 DEF HasLess
      <4> QED BY <2>1, <3>2, <4>1 DEF Finds
    <3> QED BY <3>3, <3>4 DEF OM!Delete, OM!Only
  <2>4. CASE UNCHANGED tree
    BY <2>4
  <2> QED BY <2>2, <2>3, <2>4 DEF NewKeysNext, OM!Next
<1> QED BY <1>1, <1>2, Invariant, PTL DEF NewKeysSpec, ImplementsOrderedMap, OM!Spec

-----------------------------------------------------------------------------
(* The list of leaves of the tree                                          *)

KeyLists(m, s) == [i \in 1..Len(s) |-> Ks(m, s[i])]
DataLists(m, s) == [i \in 1..Len(s) |-> Ps(m, s[i])]

\* The lists of a run of leaves
RunLists(m, s) ==
  /\ KeyLists(m, s) \in Seq(Seq(Keys)) /\ DataLists(m, s) \in Seq(Seq(Nat))
  /\ Len(KeyLists(m, s)) = Len(s) /\ Len(DataLists(m, s)) = Len(s)
  /\ \A i \in 1..Len(s) : Len(Ks(m, s[i])) = Len(Ps(m, s[i]))
  /\ \A i \in 1..Len(s) : KeyLists(m, s)[i] = Ks(m, s[i]) /\ DataLists(m, s)[i] = Ps(m, s[i])
  /\ AllAscend(KeyLists(m, s))

\* The keys and data of a run of leaves are lists, and the keys ascend.
LEMMA RunListsFacts ==
  ASSUME NEW m, NEW root, NEW g, Shape(m, root, g), NEW a, NEW s, LeafRun(m, a, s)
  PROVE  RunLists(m, s)
<1> DEFINE n == Len(s)
           ks == KeyLists(m, s)
           ds == DataLists(m, s)
<1>1. n \in Nat /\ LeafSteps(m, s, n)
  BY DEF LeafRun
<1>2. \A i \in 1..n : s[i] \in DOMAIN m /\ Leaf(m, s[i])
  BY <1>1 DEF LeafSteps
<1>3. ks = [i \in 1..n |-> Ks(m, s[i])] /\ ds = [i \in 1..n |-> Ps(m, s[i])]
  BY DEF KeyLists, DataLists
<1> HIDE DEF n, ks, ds
<1>4. \A i \in 1..n : /\ Ks(m, s[i]) \in Seq(Keys) /\ Ps(m, s[i]) \in Seq(Nat)
                      /\ Len(Ks(m, s[i])) = Len(Ps(m, s[i])) /\ Ascending(Ks(m, s[i]))
                      /\ \A x \in Elems(Ks(m, s[i])) : Lo(g, s[i]) <= x /\ x < Hi(g, s[i])
  BY <1>2, LeafFacts
<1>5. ks \in Seq(Seq(Keys)) /\ Len(ks) = n /\ ds \in Seq(Seq(Nat)) /\ Len(ds) = n
  <2> DEFINE K == Seq(Keys)
             P == Seq(Nat)
  <2>1. \A i \in 1..n : Ks(m, s[i]) \in K /\ Ps(m, s[i]) \in P
    BY <1>4
  <2> HIDE DEF K, P
  <2>2. ks \in Seq(K) /\ Len(ks) = n /\ ds \in Seq(P) /\ Len(ds) = n
    BY <1>1, <1>3, <2>1
  <2> QED BY <2>2 DEF K, P
<1>6. \A i \in 1..n : ks[i] = Ks(m, s[i]) /\ ds[i] = Ps(m, s[i])
  BY <1>3
<1>7. ASSUME NEW i \in 1..n, NEW j \in 1..n, i < j, NEW x \in Elems(ks[i]), NEW y \in Elems(ks[j])
      PROVE  x < y
  <2>1. Hi(g, s[i]) <= Lo(g, s[j])
    BY <1>1, <1>7, RangesAscend
  <2>2. x < Hi(g, s[i]) /\ Lo(g, s[j]) <= y
    BY <1>4, <1>6
  <2>3. Hi(g, s[i]) \in Int /\ Lo(g, s[j]) \in Int
    BY <1>2, NodeTypes DEF Shape
  <2>4. x \in Int /\ y \in Int
    <3>1. ks[i] \in Seq(Keys) /\ ks[j] \in Seq(Keys)
      BY <1>4, <1>6
    <3>2. x \in Keys /\ y \in Keys
      BY <3>1, ElemsFacts
    <3> QED BY <3>2, KeysAreInts
  <2> QED BY <2>1, <2>2, <2>3, <2>4
<1>8. AllAscend(ks)
  BY <1>4, <1>5, <1>6, <1>7 DEF AllAscend
<1> QED BY <1>4, <1>5, <1>6, <1>8 DEF RunLists, ks, ds, n

\* Leaves, in a tree that is not empty
LEMMA LeavesFacts ==
  ASSUME NEW t, t.root # Null, NEW g, Shape(t.mem, t.root, g)
  PROVE  /\ Leaves(t) = LeavesFrom(t, Leftmost(t))
         /\ LeafRun(t.mem, Leftmost(t), Leaves(t)) /\ Lo(g, Leftmost(t)) = IntMin
         /\ \A c \in DOMAIN t.mem : Leaf(t.mem, c) => \E i \in 1..Len(Leaves(t)) : Leaves(t)[i] = c
<1> DEFINE m == t.mem
           a == Leftmost(t)
           s == Leaves(t)
<1>1. s = LeavesFrom(t, a)
  BY DEF Leaves
<1>2. a \in DOMAIN m /\ Leaf(m, a) /\ Lo(g, a) = IntMin
  BY LeftmostFacts
<1> HIDE DEF a
<1>3. LeafRun(m, a, LeavesFrom(t, a))
  BY <1>2, LeavesFromFacts
<1> HIDE DEF s
<1>4. LeafRun(m, a, s)
  BY <1>1, <1>3
<1>5. ASSUME NEW c \in DOMAIN m, Leaf(m, c) PROVE \E i \in 1..Len(s) : s[i] = c
  <2>1. Lo(g, a) <= Lo(g, c)
    BY <1>2, FitsFacts DEF Shape, NonEmpty
  <2> QED BY <1>4, <1>5, <2>1, RunCovers
<1> QED BY <1>1, <1>2, <1>4, <1>5 DEF a, s

\* The keys along a list of leaves
LEMMA KeysAlong ==
  ASSUME NEW t, NEW s, s \in Seq(Nat)
  PROVE  /\ KeysOf(t, s) = SE!FlattenSeq(KeyLists(t.mem, s))
         /\ DataOf(t, s) = SE!FlattenSeq(DataLists(t.mem, s))
<1>1. DOMAIN s = 1..Len(s)
  OBVIOUS
<1> QED BY <1>1 DEF KeysOf, DataOf, KeyLists, DataLists, Ks, Ps

\* Of the run of all leaves, the keys are those stored, in order.
LEMMA AllKeys ==
  ASSUME NEW t, TreeInv(t), t.root # Null
  PROVE  LET keys == GetAllKeysInOrder(t)
         IN  keys \in Seq(Keys) /\ Ascending(keys) /\ Elems(keys) = KeysIn(t.mem) /\ Len(keys) = t.count
<1> DEFINE m == t.mem
           s == Leaves(t)
           ss == KeyLists(m, s)
           keys == GetAllKeysInOrder(t)
<1>1. PICK g : Shape(m, t.root, g)
  BY DEF TreeInv
<1>2. /\ LeafRun(m, Leftmost(t), s)
      /\ \A c \in DOMAIN m : Leaf(m, c) => \E i \in 1..Len(s) : s[i] = c
  BY <1>1, LeavesFacts
<1>3. RunLists(m, s)
  BY <1>1, <1>2, RunListsFacts
<1>4. s \in Seq(Nat) /\ Len(s) \in Nat
  <2>1. s \in Seq(DOMAIN m) /\ DOMAIN m \subseteq Nat
    BY <1>1, <1>2 DEF LeafRun, Shape, Typed
  <2> HIDE DEF s
  <2> QED BY <2>1
<1>5. keys = SE!FlattenSeq(ss)
  <2>1. keys = KeysOf(t, s)
    BY DEF GetAllKeysInOrder
  <2> HIDE DEF s, keys
  <2> QED BY <1>4, <2>1, KeysAlong
<1> HIDE DEF s, keys
<1>6. /\ ss \in Seq(Seq(Keys)) /\ Len(ss) = Len(s) /\ AllAscend(ss)
      /\ \A i \in 1..Len(s) : ss[i] = Ks(m, s[i])
  BY <1>3 DEF RunLists
<1> HIDE DEF ss
<1>7. PICK F : Flattens(F, Keys, ss)
  BY <1>6, FlattenFacts
<1>8. keys \in Seq(Keys) /\ Ascending(keys)
  BY <1>5, <1>6, <1>7, FlattenAscends
<1>9. keys = F[Len(ss)]
  BY <1>5, <1>7 DEF Flattens
<1>10. \A x : x \in Elems(keys) <=> \E l \in 1..Len(ss) : x \in Elems(ss[l])
  <2> TAKE x
  <2>1. Len(ss) \in 0..Len(ss)
    BY <1>4, <1>6
  <2>2. \A p \in 0..Len(ss) : x \in Elems(F[p]) <=> \E l \in 1..p : x \in Elems(ss[l])
    BY <1>6, <1>7, FlattenElems
  <2> QED BY <1>9, <2>1, <2>2
<1>11. \A x : x \in Elems(keys) <=> \E c \in DOMAIN m : Leaf(m, c) /\ x \in Elems(Ks(m, c))
  <2>1. \A i \in 1..Len(s) : s[i] \in DOMAIN m /\ Leaf(m, s[i])
    BY <1>2 DEF LeafRun, LeafSteps
  <2> QED BY <1>2, <1>6, <1>10, <2>1, SMTT(30)
<1>12. Elems(keys) = KeysIn(m)
  <2>1. Stored(t) = KeysIn(m)
    BY StoredIs
  <2>2. \A x : x \in Stored(t) <=> \E c \in DOMAIN m : Leaf(m, c) /\ x \in Elems(Ks(m, c))
    BY DEF Stored, LeafNodes, Leaf, Ks, Elems
  <2> QED BY <1>11, <2>1, <2>2
<1>13. Len(keys) = t.count
  <2>1. Cardinality(Elems(keys)) = Len(keys)
    BY <1>8, AscendingCount
  <2> QED BY <1>12, <2>1 DEF TreeInv
<1> QED BY <1>8, <1>12, <1>13 DEF keys

\* The invariant gives the list of leaves.
LEMMA InvLinked ==
  ASSUME IInv
  PROVE  LeavesLinked
<1> DEFINE m == tree.mem
           s == Leaves(tree)
           keys == GetAllKeysInOrder(tree)
<1>1. TreeInv(tree)
  BY DEF IInv
<1>2. CASE tree.root = Null
  <2> DEFINE e == <<>>
  <2>1. s = e /\ DOMAIN m = {} /\ KeysIn(m) = {}
    BY <1>1, <1>2 DEF Leaves, TreeInv, KeysIn, Has
  <2>2. e \in Seq(Nat) /\ Len(e) = 0 /\ DOMAIN e = {}
    OBVIOUS
  <2>3. Elems(e) = {}
    BY ElemsOfOne
  <2>4. keys = KeysOf(tree, s)
    BY DEF GetAllKeysInOrder
  <2> HIDE DEF s, keys, e
  <2>5. keys = SE!FlattenSeq(KeyLists(m, e))
    BY <2>1, <2>2, <2>4, KeysAlong
  <2>6. Len(keys) = 0 /\ DOMAIN keys = {}
    <3>1. KeyLists(m, e) = [i \in 1..0 |-> Ks(m, e[i])]
      BY <2>2 DEF KeyLists
    <3>2. KeyLists(m, e) = <<>>
      BY <3>1
    <3>3. Len(KeyLists(m, e)) = 0
      BY <3>2
    <3>4. keys = <<>>
      BY <2>5, <3>2, <3>3 DEF SE!FlattenSeq
    <3> QED BY <3>4
  <2>7. tree.count = 0
    BY <1>1, <2>1, FS_EmptySet DEF TreeInv
  <2>8. LeafNodes(tree) = {}
    BY <2>1 DEF LeafNodes
  <2> QED BY <2>1, <2>2, <2>3, <2>6, <2>7, <2>8 DEF LeavesLinked, s, keys, Elems
<1>3. CASE tree.root # Null
  <2>1. PICK g : Shape(m, tree.root, g)
    BY <1>1, <1>3 DEF TreeInv
  <2>2. /\ LeafRun(m, Leftmost(tree), s) /\ Lo(g, Leftmost(tree)) = IntMin
        /\ \A c \in DOMAIN m : Leaf(m, c) => \E i \in 1..Len(s) : s[i] = c
    BY <1>3, <2>1, LeavesFacts
  <2>3. keys \in Seq(Keys) /\ Ascending(keys) /\ Len(keys) = tree.count
    BY <1>1, <1>3, AllKeys
  <2>4. \A i \in 1..Len(s) : Pv(m, s[i]) = IF i = 1 THEN Null ELSE s[i - 1]
    BY <2>1, <2>2, RunBack
  <2> HIDE DEF s, keys
  <2>5. /\ s \in Seq(DOMAIN m) /\ DOMAIN s = 1..Len(s)
        /\ \A i \in 1..Len(s) : s[i] \in DOMAIN m /\ Leaf(m, s[i])
    BY <2>2 DEF LeafRun, LeafSteps
  <2>6. Elems(s) = LeafNodes(tree)
    <3>1. \A x : x \in Elems(s) <=> \E i \in 1..Len(s) : s[i] = x
      BY <2>5, ElemsFacts
    <3> QED BY <2>2, <2>5, <3>1 DEF LeafNodes, Leaf
  <2>7. DOMAIN keys = 1..Len(keys)
    BY <2>3
  <2>8. \A i, j \in DOMAIN keys : i < j => keys[i] < keys[j]
    BY <2>3, <2>7 DEF Ascending
  <2>9. \A i \in DOMAIN s : m[s[i]].prev = IF i = 1 THEN Null ELSE s[i - 1]
    BY <2>4, <2>5 DEF Pv
  <2> QED BY <2>3, <2>6, <2>8, <2>9 DEF LeavesLinked, Node, Elems, s, keys
<1> QED BY <1>2, <1>3

\* The list of leaves has every leaf, leads back the way it came, and along it the
\* keys are in order and as many as count says.
THEOREM LeavesStayLinked == NewKeysSpec => []LeavesLinked
<1>1. IInv => LeavesLinked
  BY InvLinked
<1> QED BY <1>1, Invariant, PTL

-----------------------------------------------------------------------------
(* Range searches                                                          *)

\* The list r is what the list s has after its first p elements.
Rest(s, r, p) == Len(s) = p + Len(r) /\ \A i \in 1..Len(r) : r[i] = s[p + i]

\* The keys ks and data ds of leaves fall into those up to the p-th leaf, u and c,
\* and those of the others, v and d.
Parts(ks, ds, p, u, c, v, d) ==
  /\ u \in Seq(Keys) /\ v \in Seq(Keys) /\ c \in Seq(Nat) /\ d \in Seq(Nat)
  /\ Len(c) = Len(u) /\ Len(d) = Len(v)
  /\ SE!FlattenSeq(ks) = u \o v /\ SE!FlattenSeq(ds) = c \o d
  /\ \A x \in Elems(u) : \E l \in 1..p : x \in Elems(ks[l])

\* Lists of keys and lists of data of the same lengths
Paired(ks, ds) ==
  /\ ks \in Seq(Seq(Keys)) /\ ds \in Seq(Seq(Nat)) /\ Len(ks) = Len(ds)
  /\ \A i \in 1..Len(ks) : Len(ks[i]) = Len(ds[i])

\* The keys and data along a run of leaves are paired, and fall into parts.
LEMMA PairsFallApart ==
  ASSUME NEW ks, NEW ds, Paired(ks, ds), NEW kr, NEW dr, Paired(kr, dr),
         NEW p \in Nat, Rest(ks, kr, p), Rest(ds, dr, p)
  PROVE  \E u, c : Parts(ks, ds, p, u, c, SE!FlattenSeq(kr), SE!FlattenSeq(dr))
<1> DEFINE v == SE!FlattenSeq(kr)
           d == SE!FlattenSeq(dr)
           n == Len(kr)
<1>1. ks \in Seq(Seq(Keys)) /\ ds \in Seq(Seq(Nat)) /\ kr \in Seq(Seq(Keys)) /\ dr \in Seq(Seq(Nat))
  BY DEF Paired
<1>2. /\ Len(ks) = Len(ds) /\ \A i \in 1..Len(ks) : Len(ks[i]) = Len(ds[i])
      /\ Len(kr) = Len(dr) /\ \A i \in 1..Len(kr) : Len(kr[i]) = Len(dr[i])
  BY DEF Paired
<1>3. /\ Len(ks) = p + Len(kr) /\ \A i \in 1..Len(kr) : kr[i] = ks[p + i]
      /\ Len(ds) = p + Len(dr) /\ \A i \in 1..Len(dr) : dr[i] = ds[p + i]
  BY DEF Rest
<1>4. PICK F : Flattens(F, Keys, ks)
  BY <1>1, FlattenFacts
<1>5. PICK G : Flattens(G, Nat, ds)
  BY <1>1, FlattenFacts
<1>6. PICK FR : Flattens(FR, Keys, kr)
  BY <1>1, FlattenFacts
<1>7. PICK GR : Flattens(GR, Nat, dr)
  BY <1>1, FlattenFacts
<1> DEFINE u == F[p]
           c == G[p]
<1>8. n \in Nat /\ n \in 0..Len(kr) /\ p \in 0..Len(ks)
  BY <1>1, <1>3
<1>9. SE!FlattenSeq(ks) = u \o v /\ u \in Seq(Keys)
  BY <1>1, <1>3, <1>4, <1>6, FlattenRest
<1>10. SE!FlattenSeq(ds) = c \o d /\ c \in Seq(Nat)
  BY <1>1, <1>3, <1>5, <1>7, FlattenRest
<1>11. Len(c) = Len(u)
  <2>1. Len(ks) = Len(ds) /\ \A i \in 1..Len(ks) : Len(ks[i]) = Len(ds[i])
    BY <1>2
  <2>2. ks \in Seq(Seq(Keys)) /\ ds \in Seq(Seq(Nat)) /\ p \in 0..Len(ks)
    BY <1>1, <1>8
  <2>3. Len(F[p]) = Len(G[p])
    BY ONLY <1>4, <1>5, <2>1, <2>2, FlattenLengths, SMTT(30)
  <2> QED BY <2>3
<1>12. v = FR[n] /\ d = GR[n] /\ v \in Seq(Keys) /\ d \in Seq(Nat)
  BY <1>2, <1>6, <1>7, <1>8 DEF Flattens
<1>13. Len(d) = Len(v)
  <2>1. Len(FR[n]) = Len(GR[n])
    BY <1>1, <1>2, <1>6, <1>7, <1>8, FlattenLengths, SMTT(30)
  <2> QED BY <1>12, <2>1
<1>14. ASSUME NEW x \in Elems(u) PROVE \E l \in 1..p : x \in Elems(ks[l])
  <2>1. \A q \in 0..Len(ks) : x \in Elems(F[q]) <=> \E l \in 1..q : x \in Elems(ks[l])
    BY <1>1, <1>4, FlattenElems, ZenonT(40)
  <2> QED BY <1>8, <2>1
<1> HIDE DEF u, c, v, d
<1>15. Parts(ks, ds, p, u, c, v, d)
  BY <1>9, <1>10, <1>11, <1>12, <1>13, <1>14 DEF Parts
<1> QED BY <1>15 DEF v, d

\* The lists of a run and of the rest of it
LEMMA RunParts ==
  ASSUME NEW m, NEW s, RunLists(m, s), NEW r, RunLists(m, r), NEW p \in Nat, Rest(s, r, p),
         Len(r) \in Nat
  PROVE  \E u, c : Parts(KeyLists(m, s), DataLists(m, s), p, u, c,
                         SE!FlattenSeq(KeyLists(m, r)), SE!FlattenSeq(DataLists(m, r)))
<1> DEFINE ks == KeyLists(m, s)
           ds == DataLists(m, s)
           kr == KeyLists(m, r)
           dr == DataLists(m, r)
<1>1. /\ ks \in Seq(Seq(Keys)) /\ ds \in Seq(Seq(Nat)) /\ Len(ks) = Len(s) /\ Len(ds) = Len(s)
      /\ \A i \in 1..Len(s) : Len(Ks(m, s[i])) = Len(Ps(m, s[i]))
      /\ \A i \in 1..Len(s) : ks[i] = Ks(m, s[i]) /\ ds[i] = Ps(m, s[i])
  BY DEF RunLists
<1>2. /\ kr \in Seq(Seq(Keys)) /\ dr \in Seq(Seq(Nat)) /\ Len(kr) = Len(r) /\ Len(dr) = Len(r)
      /\ \A i \in 1..Len(r) : Len(Ks(m, r[i])) = Len(Ps(m, r[i]))
      /\ \A i \in 1..Len(r) : kr[i] = Ks(m, r[i]) /\ dr[i] = Ps(m, r[i])
  BY DEF RunLists
<1> HIDE DEF ks, ds, kr, dr
<1>3. Paired(ks, ds)
  BY <1>1 DEF Paired
<1>4. Paired(kr, dr)
  BY <1>2 DEF Paired
<1>5. Len(s) = p + Len(r) /\ \A i \in 1..Len(r) : r[i] = s[p + i] /\ p + i \in 1..Len(s)
  BY DEF Rest
<1>6. Rest(ks, kr, p)
  BY <1>1, <1>2, <1>5 DEF Rest
<1>7. Rest(ds, dr, p)
  BY <1>1, <1>2, <1>5 DEF Rest
<1>8. \E u, c : Parts(ks, ds, p, u, c, SE!FlattenSeq(kr), SE!FlattenSeq(dr))
  BY <1>3, <1>4, <1>6, <1>7, PairsFallApart
<1> QED BY <1>8 DEF ks, ds, kr, dr

\* In a tree that is not empty the leaf list from the leaf of x gives a range
\* search from x what the whole list would.
LEMMA RangeFromLeaf ==
  ASSUME NEW t, TreeInv(t), t.root # Null, NEW x \in Keys, NEW z \in Keys
  PROVE  RangeSearch(t, x, z) = Between(GetAllKeysInOrder(t), GetAllDataInOrder(t), x, z)
<1> DEFINE m == t.mem
           s == Leaves(t)
           a == FindLeaf(t, x)
           r == LeavesFrom(t, a)
           keys == GetAllKeysInOrder(t)
           data == GetAllDataInOrder(t)
           ks == KeyLists(m, s)
           ds == DataLists(m, s)
           v == SE!FlattenSeq(KeyLists(m, r))
           d == SE!FlattenSeq(DataLists(m, r))
<1>1. PICK g : Shape(m, t.root, g)
  BY DEF TreeInv
<1>2. /\ LeafRun(m, Leftmost(t), s)
      /\ \A c \in DOMAIN m : Leaf(m, c) => \E i \in 1..Len(s) : s[i] = c
  BY <1>1, LeavesFacts
<1>3. a \in DOMAIN m /\ Leaf(m, a) /\ Lo(g, a) <= x
  BY <1>1, FindLeafFacts
<1>4. LeafRun(m, a, r)
  BY <1>1, <1>3, LeavesFromFacts
<1> HIDE DEF a
<1>5. keys \in Seq(Keys) /\ Ascending(keys)
  BY AllKeys
<1>6. s \in Seq(Nat) /\ r \in Seq(Nat) /\ DOMAIN m \subseteq Nat /\ Len(s) \in Nat /\ Len(r) \in Nat
  <2>1. s \in Seq(DOMAIN m) /\ r \in Seq(DOMAIN m) /\ DOMAIN m \subseteq Nat
    BY <1>1, <1>2, <1>4 DEF LeafRun, Shape, Typed
  <2> HIDE DEF s, r
  <2> QED BY <2>1
<1>7. keys = SE!FlattenSeq(ks) /\ data = SE!FlattenSeq(ds)
  <2>1. keys = KeysOf(t, s) /\ data = DataOf(t, s)
    BY DEF GetAllKeysInOrder, GetAllDataInOrder
  <2> HIDE DEF s, keys, data
  <2> QED BY <1>6, <2>1, KeysAlong
<1>8. RangeSearch(t, x, z) = Between(v, d, x, z)
  <2>1. KeysOf(t, r) = v /\ DataOf(t, r) = d
    <3> HIDE DEF r
    <3> QED BY <1>6, KeysAlong
  <2>2. RangeSearch(t, x, z) = SubSeq(DataOf(t, r), LowerBound(KeysOf(t, r), x) + 1, UpperBound(KeysOf(t, r), z))
    BY DEF RangeSearch, a
  <2> HIDE DEF v, d, r
  <2> QED BY <2>1, <2>2 DEF Between
<1> HIDE DEF s, r, keys, data
<1>9. RunLists(m, s) /\ RunLists(m, r)
  BY <1>1, <1>2, <1>4, RunListsFacts
<1>10. PICK i \in 1..Len(s) : s[i] = a
  BY <1>2, <1>3
<1> DEFINE p == i - 1
<1>11. p \in Nat /\ p < Len(s) /\ s[p + 1] = a /\ \A l \in 1..p : l < i /\ l \in 1..Len(s)
  BY <1>6, <1>10
<1> HIDE DEF p
<1>12. Rest(s, r, p)
  <2>1. Null \notin DOMAIN m
    BY <1>1 DEF Shape, Typed
  <2>2. Len(s) = p + Len(r) /\ \A j \in 1..Len(r) : r[j] = s[p + j]
    BY <1>2, <1>4, <1>11, <2>1, RunRest
  <2> QED BY <2>2 DEF Rest
<1>13. \E u, c : Parts(ks, ds, p, u, c, v, d)
  BY <1>6, <1>9, <1>11, <1>12, RunParts
<1>14. PICK u, c : Parts(ks, ds, p, u, c, v, d)
  BY <1>13
<1>15. ASSUME NEW l \in 1..p, NEW y \in Elems(ks[l]) PROVE y < x
  <2>1. l \in 1..Len(s) /\ l < i
    BY <1>11
  <2>2. ks[l] = Ks(m, s[l])
    BY <1>9, <2>1 DEF RunLists
  <2>3. LeafSteps(m, s, Len(s))
    BY <1>2 DEF LeafRun
  <2>4. s[l] \in DOMAIN m /\ Leaf(m, s[l])
    BY <2>1, <2>3 DEF LeafSteps
  <2>5. Hi(g, s[l]) <= Lo(g, a)
    <3>1. Hi(g, s[l]) <= Lo(g, s[i])
      BY <1>1, <1>6, <2>1, <2>3, RangesAscend
    <3> QED BY <1>10, <3>1
  <2>6. Ks(m, s[l]) \in Seq(Keys) /\ \A w \in Elems(Ks(m, s[l])) : w < Hi(g, s[l])
    BY <1>1, <2>4, LeafFacts
  <2>7. y \in Int /\ y < Hi(g, s[l])
    <3>1. y \in Elems(Ks(m, s[l]))
      BY <2>2
    <3>2. y \in Keys
      BY <2>6, <3>1, ElemsFacts
    <3> QED BY <2>6, <3>1, <3>2, KeysAreInts
  <2>8. Hi(g, s[l]) \in Int /\ Lo(g, a) \in Int
    BY <1>1, <1>3, <2>4, NodeTypes DEF Shape
  <2>9. x \in Int
    BY KeysAreInts
  <2> QED BY <1>3, <2>5, <2>7, <2>8, <2>9
<1>16. /\ u \in Seq(Keys) /\ v \in Seq(Keys) /\ c \in Seq(Nat) /\ d \in Seq(Nat)
       /\ Len(c) = Len(u) /\ Len(d) = Len(v) /\ keys = u \o v /\ data = c \o d
       /\ \A y \in Elems(u) : \E l \in 1..p : y \in Elems(ks[l])
  BY <1>7, <1>14 DEF Parts
<1> HIDE DEF ks, ds, v, d
<1>17. Follows(keys, u, v, x)
  BY <1>5, <1>15, <1>16 DEF Follows
<1>18. x \in Int /\ z \in Int
  BY KeysAreInts
<1>19. u \in Seq(Keys) /\ v \in Seq(Keys) /\ c \in Seq(Nat) /\ d \in Seq(Nat)
       /\ Len(c) = Len(u) /\ Len(d) = Len(v)
  BY <1>16
<1>20. Between(keys, c \o d, x, z) = Between(v, d, x, z)
  BY ONLY <1>17, <1>18, <1>19, SkipBelow
<1>21. data = c \o d
  BY <1>16
<1>22. RangeSearch(t, x, z) = Between(keys, data, x, z)
  BY ONLY <1>8, <1>20, <1>21
<1> QED BY <1>22 DEF keys, data

\* The invariant makes range searches exact, in the empty tree too.
LEMMA InvRange ==
  ASSUME IInv
  PROVE  RangeSearchExact
<1>1. TreeInv(tree)
  BY DEF IInv
<1>2. SUFFICES ASSUME NEW x \in Keys, NEW z \in Keys
               PROVE  RangeSearch(tree, x, z) =
                        Between(GetAllKeysInOrder(tree), GetAllDataInOrder(tree), x, z)
  BY DEF RangeSearchExact, Between
<1>3. CASE tree.root # Null
  BY <1>1, <1>3, RangeFromLeaf
<1>4. CASE tree.root = Null
  <2> DEFINE e == <<>>
             keys == GetAllKeysInOrder(tree)
             data == GetAllDataInOrder(tree)
  <2>1. RangeSearch(tree, x, z) = <<>>
    BY <1>4 DEF RangeSearch
  <2>2. Leaves(tree) = e
    BY <1>4 DEF Leaves
  <2>3. keys = KeysOf(tree, Leaves(tree)) /\ data = DataOf(tree, Leaves(tree))
    BY DEF GetAllKeysInOrder, GetAllDataInOrder
  <2>4. e \in Seq(Nat) /\ Len(e) = 0
    OBVIOUS
  <2> HIDE DEF keys, data, e
  <2>5. keys = SE!FlattenSeq(KeyLists(tree.mem, e))
    BY <2>2, <2>3, <2>4, KeysAlong
  <2>6. KeyLists(tree.mem, e) = <<>>
    <3>1. KeyLists(tree.mem, e) = [i \in 1..0 |-> Ks(tree.mem, e[i])]
      BY <2>4 DEF KeyLists
    <3> QED BY <3>1
  <2>7. keys = <<>>
    <3>1. Len(KeyLists(tree.mem, e)) = 0
      BY <2>6
    <3> QED BY <2>5, <2>6, <3>1 DEF SE!FlattenSeq
  <2> DEFINE l == LowerBound(keys, x)
             b == UpperBound(keys, z)
  <2>8. keys \in Seq(Keys) /\ Len(keys) = 0 /\ Ascending(keys)
    BY <2>7 DEF Ascending
  <2>9. x \in Int /\ z \in Int
    BY KeysAreInts
  <2>10. l \in 0..Len(keys)
    BY <2>8, <2>9, LowerBoundFacts
  <2>11. b \in 0..Len(keys)
    BY <2>8, <2>9, UpperBoundFacts
  <2> HIDE DEF l, b
  <2>12. b \in Int /\ l + 1 \in Int /\ b < l + 1
    BY <2>8, <2>10, <2>11
  <2>13. SubSeq(data, l + 1, b) = <<>>
    BY <2>12, SubSeqEmpty
  <2> QED BY <2>1, <2>13 DEF Between, l, b, keys, data
<1> QED BY <1>3, <1>4

\* A range search returns the data of the keys in its range, in their order: the
\* leaf that the descent to its start ends at has no key it should not skip, and no
\* leaf before that one has a key of the range.
THEOREM RangeSearchesExact == NewKeysSpec => []RangeSearchExact
<1>1. IInv => RangeSearchExact
  BY InvRange
<1> QED BY <1>1, Invariant, PTL

=============================================================================

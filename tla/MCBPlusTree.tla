----------------------------- MODULE MCBPlusTree -----------------------------
(* Model-checking BPlusTree, up to the choice of addresses.                 *)
EXTENDS BPlusTree

MCIntMin == -2
MCKeys == MCIntMin..IntMax
MCData == [k \in MCKeys |-> {1 + (k % 2)}]

(* No operation compares addresses but for equality, so states that differ  *)
(* in the addresses of their nodes only have the same behaviours: TLC tells *)
(* states apart by their nodes in tree order, pointers being positions in   *)
(* this order (and 0 for Null).                                             *)
RECURSIVE TreeOrder(_)
TreeOrder(a) ==
  IF Node(a).leaf THEN <<a>>
  ELSE <<a>> \o SE!FlattenSeq([i \in DOMAIN Node(a).ptrs |-> TreeOrder(Node(a).ptrs[i])])

NodesInOrder ==
  LET order == IF tree.root = Null THEN <<>> ELSE TreeOrder(tree.root)
      Pos(a) == SE!SelectInSeq(order, LAMBDA b : b = a)
      Shape(n) == IF n.leaf THEN <<n.keys, n.ptrs, Pos(n.next), Pos(n.prev), Pos(n.parent)>>
                  ELSE <<n.keys, [i \in DOMAIN n.ptrs |-> Pos(n.ptrs[i])], Pos(n.parent)>>
  IN  <<tree.order, tree.count, Cardinality(Nodes), [i \in DOMAIN order |-> Shape(Node(order[i]))]>>

=============================================================================

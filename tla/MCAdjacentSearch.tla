-------------------------- MODULE MCAdjacentSearch --------------------------
(* Model-checking AdjacentSearch on 8-bit keys with three levels, of which  *)
(* the tree covers the keys below 16.                                       *)
EXTENDS AdjacentSearch

MCKeys == {0, 1, 3, 4, 6, 7, 9, 12, 15, 16, 40}

=============================================================================

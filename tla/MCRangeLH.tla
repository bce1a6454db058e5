------------------------------ MODULE MCRangeLH ------------------------------
(* Model-checking RangeLH on 8-bit keys; the prefix tree covers 0..15.      *)
EXTENDS RangeLH

MCKeys == {0, 2, 8, 15, 20}

=============================================================================

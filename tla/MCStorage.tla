------------------------------ MODULE MCStorage ------------------------------
(* Model-checking Storage on 8-bit keys; the prefix tree covers 0..15, and *)
(* so neither 18 nor 21.  A double has 3 significant bits: 3 + 5 = 8 is the *)
(* greatest sum that is certain to be exact, while 15 and 18 are rounded to *)
(* 16, and 21 to 20.                                                        *)
EXTENDS Storage

MCKeys == {3, 5, 15, 18, 21}
MCValues == 1..MaxRecords

=============================================================================

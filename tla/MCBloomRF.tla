------------------------------ MODULE MCBloomRF ------------------------------
(* Model-checking BloomRF: key lengths that the level width divides and     *)
(* others, words of one to eight bits, and filters of one word and more.    *)
EXTENDS BloomRF

MCKeyLengths == {4, 5, 6}
MCDeltas == 1..4

=============================================================================

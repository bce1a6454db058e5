--------------------------- MODULE MCLinearHashing ---------------------------
(* Model values and symmetry for model-checking LinearHashing.             *)
EXTENDS LinearHashing, TLC

\* Workers are only ever compared for equality
WorkerSymmetry == Permutations(Workers)

MCIds == 0..5

=============================================================================

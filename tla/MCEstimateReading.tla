-------------------------- MODULE MCEstimateReading --------------------------
(* Two server processes and a reader, for TLC.                             *)
EXTENDS EstimateReading, TLC

CONSTANTS w1, w2

TwoWorkers == {w1, w2}
Symmetry   == Permutations(Workers)
=============================================================================

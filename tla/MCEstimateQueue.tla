--------------------------- MODULE MCEstimateQueue ---------------------------
(* One process for TLC.                                                    *)
EXTENDS EstimateQueue

CONSTANT w1

OneWorker == {w1}
=============================================================================

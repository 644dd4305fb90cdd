--------------------------- MODULE MCEstimateIntake --------------------------
(* Instances of EstimateIntake for TLC: three uploads of one owner, one of *)
(* another.                                                                *)
EXTENDS EstimateIntake

CONSTANTS r1, r2, r3, r4, ann, bob

AllRequests == {r1, r2, r3, r4}
AnnsAndBobs == [r \in AllRequests |-> IF r = r4 THEN bob ELSE ann]
=============================================================================

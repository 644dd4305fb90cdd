---------------------------- MODULE MCLlmBudget -----------------------------
(* Instances of LlmBudget for TLC.                                         *)
EXTENDS LlmBudget, TLC

Same == Permutations(Callers)
=============================================================================

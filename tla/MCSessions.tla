------------------------------ MODULE MCSessions -----------------------------
(* Instances of Sessions, with its observer, for TLC.                      *)
EXTENDS SessionAnswers, TLC

Same == Permutations(Tokens) \cup Permutations(Requests)
=============================================================================

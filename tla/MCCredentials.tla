---------------------------- MODULE MCCredentials ---------------------------
(* Instances of Credentials for TLC.                                       *)
EXTENDS Credentials, TLC

Same == Permutations(Requests) \cup Permutations(Passwords) \cup Permutations(Secrets)
=============================================================================

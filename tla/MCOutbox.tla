------------------------------- MODULE MCOutbox ------------------------------
(* Instances of Outbox for TLC.                                            *)
EXTENDS Outbox

CONSTANTS s1, s2

TwoSenders == {s1, s2}
=============================================================================

-------------------------- MODULE EstimateLifecycle --------------------------
(***************************************************************************)
(* What the service promises about one estimate, whatever the queue does:  *)
(* it is accepted, and once, and for good, it is either parsed, with the   *)
(* lines of exactly one attempt, or failed, with one reason.  Nothing      *)
(* unfinished is shown as a result and no result is taken back.            *)
(*                                                                         *)
(* The status the API shows is server/src/estimates/mod.rs (struct         *)
(* Estimate); this module knows nothing of attempts, workers and time.     *)
(***************************************************************************)
CONSTANTS
    Estimates,      \* the estimates that may be uploaded
    Results,        \* what an attempt can store: one batch of lines
    Reasons         \* why an estimate can fail

VARIABLES
    verdict,        \* what the user is shown
    result,         \* the lines of a parsed estimate
    reason          \* the error of a failed one

vars == <<verdict, result, reason>>

NoReason == "none"

Init ==
    /\ verdict = [e \in Estimates |-> "absent"]
    /\ result = [e \in Estimates |-> {}]
    /\ reason = [e \in Estimates |-> NoReason]

Accept(e) ==
    /\ verdict[e] = "absent"
    /\ verdict' = [verdict EXCEPT ![e] = "waiting"]
    /\ UNCHANGED <<result, reason>>

Succeed(e, r) ==
    /\ verdict[e] = "waiting"
    /\ verdict' = [verdict EXCEPT ![e] = "parsed"]
    /\ result' = [result EXCEPT ![e] = {r}]
    /\ UNCHANGED reason

(* One sweep may close many estimates with one reason.                     *)
Fail(S, why) ==
    /\ \A e \in S : verdict[e] = "waiting"
    /\ verdict' = [e \in Estimates |-> IF e \in S THEN "failed" ELSE verdict[e]]
    /\ reason' = [e \in Estimates |-> IF e \in S THEN why ELSE reason[e]]
    /\ UNCHANGED result

Next ==
    \/ \E e \in Estimates : Accept(e)
    \/ \E e \in Estimates, r \in Results : Succeed(e, r)
    \/ \E S \in SUBSET Estimates, why \in Reasons : Fail(S, why)

Spec == Init /\ [][Next]_vars

(* Every accepted estimate gets its verdict.                               *)
Decided(e) == verdict[e] \in {"parsed", "failed"}
FairSpec ==
    /\ Spec
    /\ \A e \in Estimates :
          WF_vars(/\ verdict[e] = "waiting"
                  /\ Next
                  /\ Decided(e)')
=============================================================================

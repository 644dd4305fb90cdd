---------------------------- MODULE SessionAnswers ---------------------------
(***************************************************************************)
(* An observer beside Sessions: which sessions the requests that end them  *)
(* are to end, counted from the moment their statement began.              *)
(***************************************************************************)
EXTENDS Sessions

VARIABLES
    promised,   \* sessions each request under way will claim to have ended
    steady      \* those of them that nobody was refreshing meanwhile

Claims(j) ==
    CASE j.kind = "all"    -> Begun
      [] j.kind = "one"    -> {j.arg}
      [] j.kind = "others" -> Begun \ {j.arg}
      [] j.kind = "logout" -> {session[j.arg]}
      [] OTHER             -> {}

(* Sessions a rotation is at work on; a logout with a token that was       *)
(* rotated before names none that is left.                                 *)
Refreshed == {session[job[p].arg] : p \in {q \in Requests : job[q].kind = "rotate"}}
Dead(j)   == IF j.kind = "logout" /\ ~Unrevoked(j.arg) THEN {session[j.arg]} ELSE {}

ObservedInit ==
    /\ Init
    /\ promised = [p \in Requests |-> {}]
    /\ steady = [p \in Requests |-> {}]

ObservedNext ==
    /\ Next
    /\ promised' = [p \in Requests |->
           IF job'[p] = job[p] THEN promised[p] ELSE Claims(job'[p])]
    /\ steady' = [p \in Requests |->
           (IF job'[p] = job[p] THEN steady[p] ELSE Claims(job'[p]) \ Dead(job'[p]))
           \ (Refreshed \cup Refreshed')]

Observed == ObservedInit /\ [][ObservedNext]_<<vars, promised, steady>>

Ended(s) == \A t \in Tokens : session'[t] = s => row'[t] \in {"revoked", "deleted"}

(* revoke_all, revoke, revoke_others and logout end every session that     *)
(* stood when they began, however they wait for each other and for the     *)
(* sweep, as long as nobody refreshes it at the same time.                 *)
EndsWhatStands ==
    [][\A p \in Requests : TakeAway(p) => \A s \in steady[p] : Ended(s)
      ]_<<vars, promised, steady>>

(* The comment at refresh: because revoking and issuing are one            *)
(* transaction, "log out everywhere" that comes between them does not miss *)
(* the new row.                                                            *)
RevokeAllEndsAll ==
    [][\A p \in Requests : TakeAway(p) /\ job[p].kind = "all" =>
           \A s \in promised[p] : Ended(s)]_<<vars, promised, steady>>

-----------------------------------------------------------------------------
(* What the proofs in SessionsProofs keep from step to step: of a steady   *)
(* session every row that is left is one the statement's WHERE picks, and  *)
(* the request still comes to it or has it locked.                         *)
SteadyInv == \A p \in Requests :
    /\ steady[p] # {} => job[p].kind \in {"all", "one", "others", "logout"}
    /\ steady[p] \subseteq Begun \ Refreshed
    /\ \A s \in steady[p] : \A t \in LiveOf(s) :
           Matches(job[p], t) /\ (t \in todo[p] \/ lock[t] = p)
=============================================================================

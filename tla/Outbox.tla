-------------------------------- MODULE Outbox -------------------------------
(***************************************************************************)
(* The queue of mails: deliver_outbox, retry_email and cleanup_sent_emails *)
(* of server/src/jobs.rs, mailer::send of server/src/core/mailer.rs.       *)
(*                                                                         *)
(* A sender takes a batch of rows with FOR UPDATE SKIP LOCKED, sends each  *)
(* mail over SMTP and notes the outcome in its open transaction; only the  *)
(* COMMIT at the end of the batch makes the outcomes known.  What breaks   *)
(* the batch before that (a statement refused, a kill of the process)      *)
(* forgets the outcomes, not the mails that have gone out.                 *)
(***************************************************************************)
EXTENDS Naturals, FiniteSets

CONSTANTS
    Mails,              \* ids of outbox_emails, numbered as they are inserted
    BadMails,           \* those whose recipient does not parse
    Senders,            \* processes that run spawn_mail
    BATCH,              \* LIMIT of the fetch
    MAX_SEND_ATTEMPTS,
    MaxBreaks,          \* bound: how often a batch is broken off
    MaxRetries          \* bound: how often the operator returns a mail

ASSUME OutboxAssumption ==
    /\ Mails \subseteq Nat /\ IsFiniteSet(Mails)
    /\ BadMails \subseteq Mails
    /\ BATCH \in Nat \ {0}
    /\ MAX_SEND_ATTEMPTS \in Nat \ {0}
    /\ MaxBreaks \in Nat /\ MaxRetries \in Nat

(* "sent" rows have sent_at, "old" ones since more than KEEP_SENT_DAYS.    *)
States == {"absent", "queued", "sent", "old", "deleted"}

(* What the open transaction of a sender knows of a mail; "free": not in   *)
(* its batch.                                                              *)
Outcomes == {"free", "todo", "accepted", "refused", "bad"}

VARIABLES
    state,      \* committed row of each mail: where it stands
    attempts,   \* committed row: attempts
    batch,      \* outcome of each mail in each sender's transaction
    breaks,     \* batches broken off so far
    retries,    \* mails returned by the operator so far
    copies,     \* history: how often the SMTP server has taken each mail
    unrecorded, \* history: those of them that were never noted
    refusals    \* history: failures of each mail since it was last queued

vars == <<state, attempts, batch, breaks, retries, copies, unrecorded, refusals>>
history == <<copies, unrecorded, refusals>>
bounds  == <<breaks, retries>>

Init ==
    /\ state = [m \in Mails |-> "absent"]
    /\ attempts = [m \in Mails |-> 0]
    /\ batch = [s \in Senders |-> [m \in Mails |-> "free"]]
    /\ breaks = 0 /\ retries = 0
    /\ copies = [m \in Mails |-> 0]
    /\ unrecorded = [m \in Mails |-> 0]
    /\ refusals = [m \in Mails |-> 0]

Locked(m) == \E s \in Senders : batch[s][m] # "free"
Held(s)   == {m \in Mails : batch[s][m] # "free"}
ToDo(s)   == {m \in Mails : batch[s][m] = "todo"}
IsNext(s, m) == m \in ToDo(s) /\ \A n \in ToDo(s) : m <= n

Note(s, m, o) == batch' = [batch EXCEPT ![s][m] = o]
Drop(s)       == batch' = [batch EXCEPT ![s] = [m \in Mails |-> "free"]]

-----------------------------------------------------------------------------
(* mailer::send.                                                           *)
Enqueue(m) ==
    /\ state[m] = "absent"
    /\ \A n \in Mails : n < m => state[n] # "absent"    \* ids grow
    /\ state' = [state EXCEPT ![m] = "queued"]
    /\ UNCHANGED <<attempts, batch, bounds, history>>

(* Mutants: rows locked by others are taken as well; sent ones are taken   *)
(* again; the attempt after the last is allowed.                           *)
Fetchable_Locked(m) == state[m] = "queued" /\ attempts[m] < MAX_SEND_ATTEMPTS
Fetchable_Sent(m)   == /\ state[m] \in {"queued", "sent"} /\ ~Locked(m)
                       /\ attempts[m] < MAX_SEND_ATTEMPTS
Fetchable_OneMore(m) == /\ state[m] = "queued" /\ ~Locked(m)
                        /\ attempts[m] <= MAX_SEND_ATTEMPTS

(* WHERE sent_at IS NULL AND attempts < $1 FOR UPDATE SKIP LOCKED: a row   *)
(* that was committed meanwhile is tested again once it is locked.         *)
Fetchable(m) ==
    /\ state[m] = "queued" /\ ~Locked(m)
    /\ attempts[m] < MAX_SEND_ATTEMPTS

(* ORDER BY id LIMIT 20.                                                   *)
FirstOf(S) == {m \in S : Cardinality({n \in S : n < m}) < BATCH}

Fetch(s) ==
    LET took == FirstOf({m \in Mails : Fetchable(m)}) IN
    /\ Held(s) = {} /\ took # {}
    /\ batch' = [batch EXCEPT ![s] =
           [m \in Mails |-> IF m \in took THEN "todo" ELSE "free"]]
    /\ UNCHANGED <<state, attempts, bounds, history>>

(* The SMTP server takes the mail.  Its answer may still be lost on the    *)
(* way: then the sender notes a failure of a mail that has gone out.       *)
SendAccepted(s, m) ==
    /\ IsNext(s, m) /\ m \notin BadMails
    /\ copies' = [copies EXCEPT ![m] = @ + 1]
    /\ \/ Note(s, m, "accepted") /\ UNCHANGED <<unrecorded, refusals>>
       \/ /\ Note(s, m, "refused")
          /\ unrecorded' = [unrecorded EXCEPT ![m] = @ + 1]
          /\ refusals' = [refusals EXCEPT ![m] = @ + 1]
    /\ UNCHANGED <<state, attempts, bounds>>

SendRefused(s, m) ==
    /\ IsNext(s, m) /\ m \notin BadMails
    /\ Note(s, m, "refused")
    /\ refusals' = [refusals EXCEPT ![m] = @ + 1]
    /\ UNCHANGED <<state, attempts, bounds, copies, unrecorded>>

(* Mutant: a bad address is passed over.                                   *)
BadRecipient_PassedOver(s, m) ==
    /\ IsNext(s, m) /\ m \in BadMails
    /\ Note(s, m, "free")
    /\ UNCHANGED <<state, attempts, bounds, history>>

BadRecipient(s, m) ==
    /\ IsNext(s, m) /\ m \in BadMails
    /\ Note(s, m, "bad")
    /\ UNCHANGED <<state, attempts, bounds, history>>

(* Mutant: any failure in the batch burns the attempts.                    *)
Attempted_Burnt(s, m) ==
    IF batch[s][m] \in {"bad", "refused"} THEN MAX_SEND_ATTEMPTS ELSE attempts[m]

(* attempts of a row once the batch is committed: a bad address burns all. *)
Attempted(s, m) ==
    CASE batch[s][m] = "bad"     -> MAX_SEND_ATTEMPTS
      [] batch[s][m] = "refused" -> attempts[m] + 1
      [] OTHER                   -> attempts[m]

Commit(s) ==
    /\ Held(s) # {} /\ ToDo(s) = {}
    /\ state' = [m \in Mails |->
           IF batch[s][m] = "accepted" THEN "sent" ELSE state[m]]
    /\ attempts' = [m \in Mails |-> Attempted(s, m)]
    /\ Drop(s)
    /\ UNCHANGED <<bounds, history>>

(* An error returned by `?`, a COMMIT that fails or a kill: rolled back.   *)
Break(s) ==
    /\ Held(s) # {} /\ breaks < MaxBreaks
    /\ breaks' = breaks + 1
    /\ unrecorded' = [m \in Mails |->
           IF batch[s][m] = "accepted" THEN unrecorded[m] + 1 ELSE unrecorded[m]]
    /\ Drop(s)
    /\ UNCHANGED <<state, attempts, retries, copies, refusals>>

-----------------------------------------------------------------------------
(* ops outbox retry: the UPDATE waits for the row, then looks at it again. *)
RetryEmail(m) ==
    /\ state[m] = "queued" /\ ~Locked(m) /\ retries < MaxRetries
    /\ retries' = retries + 1
    /\ attempts' = [attempts EXCEPT ![m] = 0]
    /\ refusals' = [refusals EXCEPT ![m] = 0]
    /\ UNCHANGED <<state, batch, breaks, copies, unrecorded>>

GrowOld(m) ==
    /\ state[m] = "sent"
    /\ state' = [state EXCEPT ![m] = "old"]
    /\ UNCHANGED <<attempts, batch, bounds, history>>

(* Mutant: rows that were given up are swept out as well.                  *)
Sweepable_GivenUp(m) == state[m] = "old" \/ /\ state[m] = "queued"
                                            /\ attempts[m] = MAX_SEND_ATTEMPTS

(* DELETE WHERE sent_at < now() - KEEP_SENT_DAYS.                          *)
Sweepable(m) == state[m] = "old"

CleanupSentEmails ==
    /\ \E m \in Mails : Sweepable(m)
    /\ state' = [m \in Mails |-> IF Sweepable(m) THEN "deleted" ELSE state[m]]
    /\ UNCHANGED <<attempts, batch, bounds, history>>

-----------------------------------------------------------------------------
(* A call of deliver_outbox; an empty batch changes nothing.               *)
Deliver(s) ==
    \/ Fetch(s) \/ Commit(s)
    \/ \E m \in Mails : SendAccepted(s, m) \/ SendRefused(s, m) \/ BadRecipient(s, m)

Next ==
    \/ \E m \in Mails : Enqueue(m) \/ RetryEmail(m) \/ GrowOld(m)
    \/ \E s \in Senders : Deliver(s) \/ Break(s)
    \/ CleanupSentEmails

Spec == Init /\ [][Next]_vars

(* The loop of spawn_mail ticks.                                           *)
FairSpec == Spec /\ \A s \in Senders : WF_vars(Deliver(s))

-----------------------------------------------------------------------------
(* Properties.                                                             *)

TypeOK ==
    /\ state \in [Mails -> States]
    /\ attempts \in [Mails -> 0..MAX_SEND_ATTEMPTS]
    /\ batch \in [Senders -> [Mails -> Outcomes]]
    /\ breaks \in 0..MaxBreaks /\ retries \in 0..MaxRetries
    /\ copies \in [Mails -> Nat]
    /\ unrecorded \in [Mails -> Nat]
    /\ refusals \in [Mails -> Nat]

Recorded(m) ==
    \/ state[m] \in {"sent", "old", "deleted"}
    \/ \E s \in Senders : batch[s][m] = "accepted"

(* Instances "do not get in each other's way thanks to FOR UPDATE SKIP     *)
(* LOCKED": a mail goes out once, and once more only for each time that    *)
(* its going out could not be noted.                                       *)
CopiesAccounted ==
    \A m \in Mails :
        copies[m] = unrecorded[m] + (IF Recorded(m) THEN 1 ELSE 0)

(* deliver_outbox: a good mail is given up only after MAX_SEND_ATTEMPTS    *)
(* failures of its own since it was queued or returned by the operator.    *)
GivenUpAfterAllAttempts ==
    \A m \in Mails \ BadMails :
        attempts[m] = MAX_SEND_ATTEMPTS => refusals[m] >= MAX_SEND_ATTEMPTS

(* A mail that is sent or given up does not go out until it is returned.   *)
SettledStaysHome ==
    [][\A m \in Mails : copies'[m] # copies[m] =>
           state[m] = "queued" /\ attempts[m] < MAX_SEND_ATTEMPTS]_vars

(* "What is stuck stays for a look by hand": only a mail that went out may *)
(* leave the table.                                                        *)
OnlyDeliveredIsSwept == \A m \in Mails : state[m] = "deleted" => copies[m] > 0

(* Every queued mail is sent or given up, behind whatever other mails.     *)
EveryMailEnds ==
    \A m \in Mails : state[m] = "queued" ~>
        (state[m] # "queued" \/ attempts[m] = MAX_SEND_ATTEMPTS)

-----------------------------------------------------------------------------
(* What the proofs in OutboxProofs keep from step to step.                 *)

HeldIsOpen ==
    \A s \in Senders, m \in Mails : batch[s][m] # "free" =>
        state[m] = "queued" /\ attempts[m] < MAX_SEND_ATTEMPTS

OneHolder ==
    \A s, t \in Senders, m \in Mails :
        batch[s][m] # "free" /\ batch[t][m] # "free" => s = t

OnlyBadIsBad ==
    \A s \in Senders, m \in Mails : batch[s][m] = "bad" => m \in BadMails

(* A refusal is counted in the row or will be at the commit.               *)
RefusalsCounted ==
    \A m \in Mails \ BadMails :
        /\ refusals[m] >= attempts[m]
        /\ \A s \in Senders : batch[s][m] = "refused" => refusals[m] > attempts[m]

OutboxInv ==
    /\ HeldIsOpen /\ OneHolder /\ OnlyBadIsBad /\ RefusalsCounted
    /\ CopiesAccounted
=============================================================================

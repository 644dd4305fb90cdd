----------------------------- MODULE OutboxProofs ----------------------------
(***************************************************************************)
(* Proofs about Outbox, for any number of mails and senders, any size of a *)
(* batch and any number of breaks and returns.                             *)
(***************************************************************************)
EXTENDS Outbox, TLAPS

IInv == TypeOK /\ OutboxInv

USE OutboxAssumption

LEMMA OutboxInit == Init => IInv
<1> SUFFICES ASSUME Init PROVE IInv
  OBVIOUS
<1>1. TypeOK
  BY DEF Init, TypeOK, States, Outcomes
<1>2. OutboxInv
  BY DEF Init, OutboxInv, HeldIsOpen, OneHolder, OnlyBadIsBad, RefusalsCounted,
         CopiesAccounted, Recorded
<1> QED
  BY <1>1, <1>2 DEF IInv

(* A step that leaves the batches and the histories alone: what it does to *)
(* rows must not touch those in hand, nor whether a mail was sent.         *)
LEMMA RowsOnly ==
  ASSUME IInv, TypeOK', UNCHANGED <<batch, copies, unrecorded>>,
         \A m \in Mails : Locked(m) =>
             state'[m] = state[m] /\ attempts'[m] = attempts[m],
         \A m \in Mails :
             (state'[m] \in {"sent", "old", "deleted"}) =
             (state[m] \in {"sent", "old", "deleted"}),
         \A m \in Mails :
             \/ attempts'[m] = attempts[m] /\ refusals'[m] = refusals[m]
             \/ attempts'[m] = 0 /\ ~Locked(m)
  PROVE  OutboxInv'
<1> USE DEF IInv, OutboxInv, Locked
<1>1. HeldIsOpen' /\ OneHolder' /\ OnlyBadIsBad'
  BY DEF HeldIsOpen, OneHolder, OnlyBadIsBad
<1>2. RefusalsCounted'
  BY DEF RefusalsCounted, TypeOK
<1>3. CopiesAccounted'
  BY DEF CopiesAccounted, Recorded
<1> QED
  BY <1>1, <1>2, <1>3

LEMMA TypeStep == IInv /\ [Next]_vars => TypeOK'
<1> SUFFICES ASSUME IInv, [Next]_vars PROVE TypeOK'
  OBVIOUS
<1> USE DEF IInv, TypeOK, history, bounds, Note, Drop, States, Outcomes
<1>1. ASSUME NEW m \in Mails, Enqueue(m) \/ RetryEmail(m) \/ GrowOld(m)
      PROVE  TypeOK'
  BY <1>1 DEF Enqueue, RetryEmail, GrowOld
<1>2. ASSUME NEW s \in Senders, Fetch(s)
      PROVE  TypeOK'
  BY <1>2 DEF Fetch
<1>3. ASSUME NEW s \in Senders, NEW m \in Mails,
             SendAccepted(s, m) \/ SendRefused(s, m) \/ BadRecipient(s, m)
      PROVE  TypeOK'
  BY <1>3 DEF SendAccepted, SendRefused, BadRecipient
<1>4. ASSUME NEW s \in Senders, Commit(s)
      PROVE  TypeOK'
  <2>1. \A m \in Mails : Attempted(s, m) \in 0..MAX_SEND_ATTEMPTS
    BY DEF Attempted, OutboxInv, HeldIsOpen
  <2> QED
    BY <1>4, <2>1 DEF Commit
<1>5. ASSUME NEW s \in Senders, Break(s)
      PROVE  TypeOK'
  BY <1>5 DEF Break
<1>6. CASE CleanupSentEmails
  BY <1>6 DEF CleanupSentEmails
<1>7. CASE UNCHANGED vars
  BY <1>7 DEF vars
<1> QED
  BY <1>1, <1>2, <1>3, <1>4, <1>5, <1>6, <1>7 DEF Next, Deliver

-----------------------------------------------------------------------------
(* The sender's steps.                                                     *)

LEMMA FetchKeeps ==
  ASSUME IInv, TypeOK', NEW s \in Senders, Fetch(s)
  PROVE  OutboxInv'
<1> USE DEF IInv, OutboxInv
<1>1. /\ UNCHANGED <<state, attempts, copies, unrecorded, refusals>>
      /\ \A t \in Senders \ {s} : batch'[t] = batch[t]
      /\ \A m \in Mails : batch[s][m] = "free"
      /\ \A m \in Mails : batch'[s][m] \in {"free", "todo"}
      /\ \A m \in Mails : batch'[s][m] = "todo" => Fetchable(m)
  BY DEF Fetch, TypeOK, Held, FirstOf, history
<1>2. HeldIsOpen' /\ OneHolder' /\ OnlyBadIsBad'
  BY <1>1 DEF HeldIsOpen, OneHolder, OnlyBadIsBad, Fetchable, Locked
<1>3. RefusalsCounted'
  BY <1>1 DEF RefusalsCounted
<1>4. CopiesAccounted'
  BY <1>1 DEF CopiesAccounted, Recorded
<1> QED
  BY <1>2, <1>3, <1>4

(* One mail of a sender's batch gets its outcome.                          *)
LEMMA OutcomeKeeps ==
  ASSUME IInv, TypeOK', NEW s \in Senders, NEW m \in Mails,
         SendAccepted(s, m) \/ SendRefused(s, m) \/ BadRecipient(s, m)
  PROVE  OutboxInv'
<1> USE DEF IInv, OutboxInv
<1>1. /\ UNCHANGED <<state, attempts>>
      /\ batch[s][m] = "todo"
      /\ \A t \in Senders, n \in Mails :
             <<t, n>> # <<s, m>> => batch'[t][n] = batch[t][n]
      /\ \A n \in Mails \ {m} : /\ copies'[n] = copies[n]
                                /\ unrecorded'[n] = unrecorded[n]
                                /\ refusals'[n] = refusals[n]
  BY DEF SendAccepted, SendRefused, BadRecipient, IsNext, ToDo, Note, TypeOK,
         history
<1>2. state[m] = "queued"
  BY <1>1 DEF HeldIsOpen
<1>3. \A t \in Senders \ {s} : batch[t][m] = "free"
  BY <1>1 DEF OneHolder, TypeOK, Outcomes
<1>4. \/ /\ batch'[s][m] = "accepted" /\ copies'[m] = copies[m] + 1
         /\ unrecorded'[m] = unrecorded[m] /\ refusals'[m] = refusals[m]
      \/ /\ batch'[s][m] = "refused" /\ refusals'[m] = refusals[m] + 1
         /\ copies'[m] - copies[m] = unrecorded'[m] - unrecorded[m]
      \/ /\ batch'[s][m] = "bad" /\ m \in BadMails
         /\ UNCHANGED <<copies, unrecorded, refusals>>
  BY DEF SendAccepted, SendRefused, BadRecipient, Note, TypeOK, history
<1>5. HeldIsOpen' /\ OneHolder'
  BY <1>1, <1>2, <1>3 DEF HeldIsOpen, OneHolder
<1>6. OnlyBadIsBad'
  BY <1>1, <1>4 DEF OnlyBadIsBad
<1>7. RefusalsCounted'
  <2>1. ASSUME NEW n \in Mails \ BadMails, n # m
        PROVE  /\ refusals'[n] >= attempts'[n]
               /\ \A t \in Senders :
                      batch'[t][n] = "refused" => refusals'[n] > attempts'[n]
    BY <1>1, <2>1 DEF RefusalsCounted
  <2>2. m \notin BadMails =>
               /\ refusals'[m] >= attempts'[m]
               /\ \A t \in Senders :
                      batch'[t][m] = "refused" => refusals'[m] > attempts'[m]
    BY <1>1, <1>3, <1>4 DEF RefusalsCounted, TypeOK
  <2> QED
    BY <2>1, <2>2 DEF RefusalsCounted
<1>8. CopiesAccounted'
  <2>1. ~Recorded(m)
    BY <1>1, <1>2, <1>3 DEF Recorded
  <2>2. batch'[s][m] = "accepted" <=> Recorded(m)'
    BY <1>1, <1>2, <1>3 DEF Recorded
  <2>3. copies'[m] = unrecorded'[m] + (IF Recorded(m)' THEN 1 ELSE 0)
    <3>1. /\ copies[m] = unrecorded[m] /\ copies[m] \in Nat
          /\ copies'[m] \in Nat /\ unrecorded'[m] \in Nat
      BY <2>1 DEF CopiesAccounted, TypeOK
    <3>2. CASE batch'[s][m] = "accepted"
      BY <1>4, <2>2, <3>1, <3>2
    <3>3. CASE batch'[s][m] # "accepted"
      <4>1. copies'[m] - copies[m] = unrecorded'[m] - unrecorded[m]
        BY <1>4, <3>1, <3>3
      <4> QED
        BY <2>2, <3>1, <3>3, <4>1
    <3> QED
      BY <3>2, <3>3
  <2>4. \A n \in Mails \ {m} : Recorded(n)' = Recorded(n)
    BY <1>1 DEF Recorded
  <2> QED
    BY <1>1, <2>3, <2>4 DEF CopiesAccounted
<1> QED
  BY <1>5, <1>6, <1>7, <1>8

(* The batch of s is over, committed or not: the others' are as they were. *)
LEMMA CommitKeeps ==
  ASSUME IInv, TypeOK', NEW s \in Senders, Commit(s)
  PROVE  OutboxInv'
<1> USE DEF IInv, OutboxInv
<1>1. /\ UNCHANGED <<copies, unrecorded, refusals>>
      /\ \A t \in Senders \ {s} : batch'[t] = batch[t]
      /\ \A m \in Mails : batch'[s][m] = "free"
      /\ \A m \in Mails : state'[m] =
             IF batch[s][m] = "accepted" THEN "sent" ELSE state[m]
      /\ \A m \in Mails : attempts'[m] = Attempted(s, m)
  BY DEF Commit, Drop, TypeOK, history
<1>2. \A m \in Mails, t \in Senders \ {s} :
          batch[t][m] # "free" => batch[s][m] = "free"
  BY DEF OneHolder, TypeOK
<1>3. HeldIsOpen' /\ OneHolder' /\ OnlyBadIsBad'
  <2>1. HeldIsOpen'
    BY <1>1, <1>2 DEF HeldIsOpen, Attempted
  <2>2. OneHolder'
    BY <1>1 DEF OneHolder
  <2>3. OnlyBadIsBad'
    BY <1>1 DEF OnlyBadIsBad
  <2> QED
    BY <2>1, <2>2, <2>3
<1>4. RefusalsCounted'
  <2> SUFFICES ASSUME NEW m \in Mails \ BadMails
               PROVE  /\ refusals'[m] >= attempts'[m]
                      /\ \A t \in Senders : batch'[t][m] = "refused" =>
                             refusals'[m] > attempts'[m]
    BY DEF RefusalsCounted
  <2>1. attempts'[m] = attempts[m] \/
        (batch[s][m] = "refused" /\ attempts'[m] = attempts[m] + 1)
    BY <1>1 DEF Attempted, OnlyBadIsBad
  <2>2. refusals'[m] >= attempts'[m]
    BY <1>1, <2>1 DEF RefusalsCounted, TypeOK
  <2>3. ASSUME NEW t \in Senders, batch'[t][m] = "refused"
        PROVE  refusals'[m] > attempts'[m]
    BY <1>1, <1>2, <2>1, <2>3 DEF RefusalsCounted
  <2> QED
    BY <2>2, <2>3
<1>5. CopiesAccounted'
  <2>1. \A m \in Mails : Recorded(m)' = Recorded(m)
    BY <1>1, <1>2 DEF Recorded
  <2> QED
    BY <1>1, <2>1 DEF CopiesAccounted
<1> QED
  BY <1>3, <1>4, <1>5

LEMMA BreakKeeps ==
  ASSUME IInv, TypeOK', NEW s \in Senders, Break(s)
  PROVE  OutboxInv'
<1> USE DEF IInv, OutboxInv
<1>1. /\ UNCHANGED <<state, attempts, copies, refusals>>
      /\ \A t \in Senders \ {s} : batch'[t] = batch[t]
      /\ \A m \in Mails : batch'[s][m] = "free"
      /\ \A m \in Mails : unrecorded'[m] =
             IF batch[s][m] = "accepted" THEN unrecorded[m] + 1 ELSE unrecorded[m]
  BY DEF Break, Drop, TypeOK
<1>2. HeldIsOpen' /\ OneHolder' /\ OnlyBadIsBad'
  <2>1. \A t \in Senders, m \in Mails :
            batch'[t][m] # "free" => batch'[t][m] = batch[t][m]
    BY <1>1
  <2>2. HeldIsOpen'
    BY <1>1, <2>1 DEF HeldIsOpen
  <2>3. OneHolder'
    BY <2>1 DEF OneHolder
  <2>4. OnlyBadIsBad'
    BY <2>1 DEF OnlyBadIsBad
  <2> QED
    BY <2>2, <2>3, <2>4
<1>3. RefusalsCounted'
  BY <1>1 DEF RefusalsCounted
<1>4. CopiesAccounted'
  <2> SUFFICES ASSUME NEW m \in Mails
               PROVE  copies'[m] = unrecorded'[m] + (IF Recorded(m)' THEN 1 ELSE 0)
    BY DEF CopiesAccounted
  <2>1. CASE batch[s][m] = "accepted"
    <3>1. state[m] = "queued" /\ \A t \in Senders \ {s} : batch[t][m] = "free"
      BY <2>1 DEF HeldIsOpen, OneHolder
    <3>2. Recorded(m) /\ ~Recorded(m)'
      BY <1>1, <2>1, <3>1 DEF Recorded
    <3> QED
      BY <1>1, <2>1, <3>2 DEF CopiesAccounted, TypeOK
  <2>2. CASE batch[s][m] # "accepted"
    <3>1. Recorded(m)' = Recorded(m)
      BY <1>1, <2>2 DEF Recorded
    <3> QED
      BY <1>1, <2>2, <3>1 DEF CopiesAccounted
  <2> QED
    BY <2>1, <2>2
<1> QED
  BY <1>2, <1>3, <1>4

-----------------------------------------------------------------------------
LEMMA OutboxStep == IInv /\ [Next]_vars => IInv'
<1> SUFFICES ASSUME IInv, [Next]_vars PROVE OutboxInv'
  BY TypeStep DEF IInv
<1>0. TypeOK'
  BY TypeStep
<1>1. ASSUME NEW m \in Mails, Enqueue(m) \/ RetryEmail(m) \/ GrowOld(m)
      PROVE  OutboxInv'
  <2>1. ~Locked(m) \/ UNCHANGED <<state, attempts>>
    BY <1>1 DEF Enqueue, RetryEmail, GrowOld, Locked, IInv, OutboxInv, HeldIsOpen
  <2> QED
    BY <1>0, <1>1, <2>1, RowsOnly
       DEF Enqueue, RetryEmail, GrowOld, IInv, TypeOK, history
<1>2. ASSUME NEW s \in Senders, Deliver(s) \/ Break(s)
      PROVE  OutboxInv'
  BY <1>0, <1>2, FetchKeeps, OutcomeKeeps, CommitKeeps, BreakKeeps DEF Deliver
<1>3. CASE CleanupSentEmails
  <2>1. \A m \in Mails : Locked(m) => state[m] = "queued"
    BY DEF Locked, IInv, OutboxInv, HeldIsOpen
  <2> QED
    BY <1>0, <1>3, <2>1, RowsOnly
       DEF CleanupSentEmails, Sweepable, IInv, TypeOK, history
<1>4. CASE UNCHANGED vars
  BY <1>4 DEF vars, IInv, OutboxInv, HeldIsOpen, OneHolder, OnlyBadIsBad,
              RefusalsCounted, CopiesAccounted, Recorded
<1> QED
  BY <1>1, <1>2, <1>3, <1>4 DEF Next

(* The inductive invariant of the queue of mails.                          *)
THEOREM OutboxInvariant == Spec => []IInv
  BY OutboxInit, OutboxStep, PTL DEF Spec

(* The types of the rows, the batches and the counters.                    *)
THEOREM MailTypes == Spec => []TypeOK
<1>1. IInv => TypeOK
  BY DEF IInv
<1> QED
  BY <1>1, OutboxInvariant, PTL

(* A mail goes out once, and once more only for each time its going out    *)
(* could not be noted, whatever the senders do.                            *)
THEOREM CopiesCounted == Spec => []CopiesAccounted
<1>1. IInv => CopiesAccounted
  BY DEF IInv, OutboxInv
<1> QED
  BY <1>1, OutboxInvariant, PTL

(* A good mail is given up only after all its attempts.                    *)
THEOREM GivenUpRightly == Spec => []GivenUpAfterAllAttempts
<1>1. IInv => GivenUpAfterAllAttempts
  BY DEF IInv, OutboxInv, RefusalsCounted, GivenUpAfterAllAttempts
<1> QED
  BY <1>1, OutboxInvariant, PTL

(* Only a mail that went out leaves the table.                             *)
THEOREM SweptRightly == Spec => []OnlyDeliveredIsSwept
<1>1. IInv => OnlyDeliveredIsSwept
  BY DEF IInv, OutboxInv, CopiesAccounted, Recorded, TypeOK, OnlyDeliveredIsSwept
<1> QED
  BY <1>1, OutboxInvariant, PTL

(* A mail that is sent or given up does not go out again by itself.        *)
THEOREM SettledStays == Spec => SettledStaysHome
<1> DEFINE Held1 == \A m \in Mails : copies'[m] # copies[m] =>
                        state[m] = "queued" /\ attempts[m] < MAX_SEND_ATTEMPTS
<1>1. IInv /\ [Next]_vars => [Held1]_vars
  <2> SUFFICES ASSUME IInv, Next, NEW m \in Mails, copies'[m] # copies[m]
               PROVE  state[m] = "queued" /\ attempts[m] < MAX_SEND_ATTEMPTS
    BY DEF vars
  <2>1. PICK s \in Senders : SendAccepted(s, m)
    BY DEF Next, Deliver, Enqueue, RetryEmail, GrowOld, Fetch, SendAccepted,
           SendRefused, BadRecipient, Commit, Break, CleanupSentEmails, history,
           IInv, TypeOK
  <2>2. batch[s][m] = "todo"
    BY <2>1 DEF SendAccepted, IsNext, ToDo
  <2> QED
    BY <2>2 DEF IInv, OutboxInv, HeldIsOpen
<1>2. SettledStaysHome <=> [][Held1]_vars
  BY PTL DEF SettledStaysHome
<1> QED
  BY <1>1, <1>2, OutboxInvariant, PTL DEF Spec
=============================================================================

------------------------- MODULE EstimateQueueProofs -------------------------
(***************************************************************************)
(* Proofs about EstimateQueue, for any number of workers, estimates and    *)
(* attempts, and about EstimateReading beside it.                          *)
(***************************************************************************)
EXTENDS EstimateReading, FiniteSetTheorems, TLAPS

-----------------------------------------------------------------------------
(* Type correctness.                                                       *)

LEMMA TypeInit == Init => TypeOK
  BY QueueAssumption DEF Init, TypeOK, Estimates, Kinds, Statuses, Errors, Positions, NoJob

LEMMA TypeStep == TypeOK /\ [Next]_vars => TypeOK'
<1> SUFFICES ASSUME TypeOK, [Next]_vars
             PROVE  TypeOK'
  OBVIOUS
<1> USE QueueAssumption
<1>1. CASE Environment
  <2>1. ASSUME NEW e \in Estimates, NEW k \in Kinds, Upload(e, k)
        PROVE  TypeOK'
    BY <2>1 DEF TypeOK, Upload, workerVars, Statuses
  <2>2. ASSUME NEW e \in Estimates, GoStale(e)
        PROVE  TypeOK'
    BY <2>2 DEF TypeOK, GoStale, workerVars
  <2>3. ASSUME NEW e \in Estimates, Expire(e)
        PROVE  TypeOK'
    BY <2>3 DEF TypeOK, Expire, workerVars
  <2> QED
    BY <1>1, <2>1, <2>2, <2>3 DEF Environment
<1>2. ASSUME NEW w \in Workers, GiveUpOnStuck(w)
      PROVE  TypeOK'
  BY <1>2 DEF TypeOK, GiveUpOnStuck, Statuses, Errors, Positions
<1>3. ASSUME NEW w \in Workers, NEW e \in Estimates, Claim(w, e)
      PROVE  TypeOK'
  <2>1. attempts[e] + 1 \in 1..MAX_ATTEMPTS
    BY <1>3 DEF TypeOK, Claim, TakeRow, Claimable
  <2>2. e # NoJob
    BY DEF Estimates, NoJob
  <2> QED
    BY <1>3, <2>1, <2>2
    DEF TypeOK, Claim, TakeRow, EndTick, Statuses, Positions
<1>4. ASSUME NEW w \in Workers, NothingClaimed(w)
      PROVE  TypeOK'
  BY <1>4 DEF TypeOK, NothingClaimed, EndTick, rowVars, Positions
<1>5. ASSUME NEW w \in Workers,
             ReadOrParseBreaks(w) \/ ParseWorkbook(w) \/ PhotoAnswered(w)
               \/ ProviderFails(w) \/ DeleteLines(w) \/ InsertRefused(w)
      PROVE  TypeOK'
  <2>1. job[w] \in Estimates /\ job[w] # NoJob
    BY <1>5 DEF TypeOK, ReadOrParseBreaks, ParseWorkbook, PhotoAnswered,
                ProviderFails, DeleteLines, InsertRefused
  <2>2. PICK p \in {"internal", "delete", "reject", "badAnswer", "giveBack",
                   "insert"} : GoTo(w, p)
    <3>1. CASE PhotoAnswered(w)
      BY <3>1 DEF PhotoAnswered
    <3>2. CASE DeleteLines(w)
      BY <3>2 DEF DeleteLines
    <3>3. CASE ~PhotoAnswered(w) /\ ~DeleteLines(w)
      BY <3>3, <1>5 DEF ReadOrParseBreaks, ParseWorkbook, ProviderFails, InsertRefused
    <3> QED
      BY <3>1, <3>2, <3>3
  <2>3. /\ UNCHANGED <<rowVars, job, tries, done, spent>>
        /\ pc' = [pc EXCEPT ![w] = p]
    BY <1>5, <2>2 DEF ReadOrParseBreaks, ParseWorkbook, PhotoAnswered,
                      ProviderFails, DeleteLines, InsertRefused, GoTo
  <2>4. seen' \in [Workers -> SUBSET Batches]
    <3>1. seen' \in {seen, [seen EXCEPT ![w] = lines[job[w]]],
                     [seen EXCEPT ![w] = {}]}
      BY <1>5 DEF ReadOrParseBreaks, ParseWorkbook, PhotoAnswered,
                  ProviderFails, DeleteLines, InsertRefused
    <3>2. lines[job[w]] \in SUBSET Batches /\ seen \in [Workers -> SUBSET Batches]
      BY <2>1 DEF TypeOK
    <3> QED
      BY <3>1, <3>2
  <2>5. judged' \in [Estimates -> Nat]
    BY <1>5, <2>1 DEF TypeOK, ReadOrParseBreaks, ParseWorkbook, PhotoAnswered,
                      ProviderFails, DeleteLines, InsertRefused
  <2> QED
    BY <2>1, <2>3, <2>4, <2>5 DEF TypeOK, rowVars, Positions
<1>6. ASSUME NEW w \in Workers, InsertLines(w)
      PROVE  TypeOK'
  <2>1. job[w] \in Estimates /\ job[w] # NoJob
    BY <1>6 DEF TypeOK, InsertLines
  <2>2. PICK p \in {"mark", "internal"} : GoTo(w, p)
    BY <1>6 DEF InsertLines
  <2> QED
    <3>1. lines' \in [Estimates -> SUBSET Batches]
      BY <1>6, <2>1 DEF TypeOK, InsertLines, Batches
    <3> QED
      BY <1>6, <2>1, <2>2, <3>1 DEF TypeOK, InsertLines, GoTo, Positions
<1>7. ASSUME NEW w \in Workers,
             MarkParsed(w) \/ MarkFailed(w) \/ RetryOrGiveUp(w)
               \/ GiveBackAttempt(w) \/ StatusNotUpdated(w)
      PROVE  TypeOK'
  <2>1. job[w] \in Estimates
    BY <1>7 DEF TypeOK, MarkParsed, MarkFailed, RetryOrGiveUp,
                GiveBackAttempt, StatusNotUpdated
  <2>2. EndJob(w)
    BY <1>7 DEF MarkParsed, MarkFailed, RetryOrGiveUp, GiveBackAttempt,
                StatusNotUpdated
  <2>3. /\ pc' \in [Workers -> Positions]
        /\ job' \in [Workers -> Estimates \cup {NoJob}]
        /\ tries' \in [Workers -> 0..MAX_ATTEMPTS]
        /\ done' \in [Workers -> 0..(BATCH - 1)]
        /\ seen' \in [Workers -> SUBSET Batches]
        /\ \A v \in Workers : job'[v] = NoJob <=> pc'[v] \in {"tick", "claim"}
    BY <2>1, <2>2 DEF TypeOK, EndJob, EndTick, Positions
  <2>4. /\ kind' \in [Estimates -> Kinds]
        /\ status' \in [Estimates -> Statuses]
        /\ attempts' \in [Estimates -> 0..MAX_ATTEMPTS]
        /\ error' \in [Estimates -> Errors]
        /\ stale' \in [Estimates -> BOOLEAN]
        /\ expired' \in [Estimates -> BOOLEAN]
        /\ lines' \in [Estimates -> SUBSET Batches]
        /\ spent' \in [Estimates -> Nat]
        /\ judged' \in [Estimates -> Nat]
    BY <1>7, <2>1
    DEF TypeOK, MarkParsed, MarkFailed, RetryOrGiveUp, GiveBackAttempt,
        StatusNotUpdated, SetStatus, Spend, rowVars, Statuses, Errors
  <2> QED
    BY <2>3, <2>4 DEF TypeOK
<1>8. ASSUME NEW w \in Workers, Crash(w)
      PROVE  TypeOK'
  BY <1>8 DEF TypeOK, Crash, EndTick, Spend, rowVars, Positions
<1>9. CASE UNCHANGED vars
  BY <1>9 DEF TypeOK, vars, rowVars, workerVars
<1> QED
  BY <1>1, <1>2, <1>3, <1>4, <1>5, <1>6, <1>7, <1>8, <1>9
  DEF Next, RunPending, RunJob

(* The types hold in every reachable state: in particular attempts never   *)
(* exceeds MAX_ATTEMPTS (the guard of claim) and a worker's job and its    *)
(* place in run_pending agree.                                             *)
THEOREM TypeCorrect == Spec => []TypeOK
<1>1. Init => TypeOK
  BY TypeInit
<1>2. TypeOK /\ [Next]_vars => TypeOK'
  BY TypeStep
<1> QED
  BY <1>1, <1>2, PTL DEF Spec

-----------------------------------------------------------------------------
(* Counting the attempts.                                                  *)

LEMMA HoldersFinite ==
  ASSUME NEW e
  PROVE  IsFiniteSet(Holders(e)) /\ Cardinality(Holders(e)) \in Nat
<1>1. Holders(e) \subseteq Workers
  BY DEF Holders
<1> QED
  BY <1>1, QueueAssumption, FS_Subset, FS_CardinalityType

(* A job that ends leaves one holder fewer.                                *)
LEMMA Release ==
  ASSUME TypeOK, NEW w \in Workers, job[w] \in Estimates,
         job' = [job EXCEPT ![w] = NoJob], NEW e \in Estimates
  PROVE  Cardinality(Holders(e)') =
           IF e = job[w] THEN Cardinality(Holders(e)) - 1
                         ELSE Cardinality(Holders(e))
<1>0. e # NoJob
  BY DEF Estimates, NoJob
<1>1. CASE e = job[w]
  <2>1. w \in Holders(e) /\ Holders(e)' = Holders(e) \ {w}
    BY <1>0, <1>1 DEF Holders, TypeOK
  <2> QED
    BY <1>1, <2>1, HoldersFinite, FS_RemoveElement
<1>2. CASE e # job[w]
  <2>1. Holders(e)' = Holders(e)
    BY <1>0, <1>2 DEF Holders, TypeOK
  <2> QED
    BY <1>2, <2>1
<1> QED
  BY <1>1, <1>2

(* A claim adds one.                                                       *)
LEMMA Acquire ==
  ASSUME TypeOK, NEW w \in Workers, NEW d \in Estimates, job[w] = NoJob,
         job' = [job EXCEPT ![w] = d], NEW e \in Estimates
  PROVE  Cardinality(Holders(e)') =
           IF e = d THEN Cardinality(Holders(e)) + 1
                    ELSE Cardinality(Holders(e))
<1>0. e # NoJob
  BY DEF Estimates, NoJob
<1>1. CASE e = d
  <2>1. w \notin Holders(e) /\ Holders(e)' = Holders(e) \cup {w}
    BY <1>0, <1>1 DEF Holders, TypeOK
  <2> QED
    BY <1>1, <2>1, HoldersFinite, FS_AddElement
<1>2. CASE e # d
  <2>1. Holders(e)' = Holders(e)
    BY <1>0, <1>2 DEF Holders, TypeOK
  <2> QED
    BY <1>2, <2>1
<1> QED
  BY <1>1, <1>2

LEMMA AccountingInit == Init => AttemptAccounting
<1> SUFFICES ASSUME Init, NEW e \in Estimates
             PROVE  attempts[e] = spent[e] + Cardinality(Holders(e))
  BY DEF AttemptAccounting
<1>1. Holders(e) = {}
  BY DEF Init, Holders, Estimates, NoJob
<1> QED
  BY <1>1, FS_EmptySet DEF Init

(* Who holds what changes only at a claim and at the end of a job.         *)
LEMMA AccountingStep ==
  TypeOK /\ AttemptAccounting /\ [Next]_vars => AttemptAccounting'
<1> SUFFICES ASSUME TypeOK, AttemptAccounting, [Next]_vars, NEW e \in Estimates
             PROVE  attempts'[e] = spent'[e] + Cardinality(Holders(e)')
  BY DEF AttemptAccounting
<1>0. /\ Cardinality(Holders(e)) \in Nat
      /\ attempts[e] = spent[e] + Cardinality(Holders(e))
      /\ attempts[e] \in Nat /\ spent[e] \in Nat
  BY HoldersFinite DEF AttemptAccounting, TypeOK
<1>1. CASE UNCHANGED <<attempts, spent, job>>
  BY <1>0, <1>1 DEF Holders
<1>2. CASE Environment
  BY <1>1, <1>2 DEF Environment, Upload, GoStale, Expire, workerVars
<1>3. ASSUME NEW w \in Workers, GiveUpOnStuck(w) \/ NothingClaimed(w)
      PROVE  attempts'[e] = spent'[e] + Cardinality(Holders(e)')
  BY <1>1, <1>3 DEF GiveUpOnStuck, NothingClaimed, rowVars
<1>4. ASSUME NEW w \in Workers, NEW d \in Estimates, Claim(w, d)
      PROVE  attempts'[e] = spent'[e] + Cardinality(Holders(e)')
  <2>1. job[w] = NoJob /\ attempts' = [attempts EXCEPT ![d] = @ + 1]
    BY <1>4 DEF TypeOK, Claim, TakeRow
  <2>2. CASE job' = [job EXCEPT ![w] = d] /\ UNCHANGED spent
    <3>1. Cardinality(Holders(e)') =
            IF e = d THEN Cardinality(Holders(e)) + 1
                     ELSE Cardinality(Holders(e))
      BY <1>4, <2>1, <2>2, Acquire
    <3> QED
      BY <1>0, <2>1, <2>2, <3>1 DEF TypeOK
  <2>3. CASE UNCHANGED job /\ spent' = [spent EXCEPT ![d] = @ + 1]
    <3>1. Holders(e)' = Holders(e)
      BY <2>3 DEF Holders
    <3> QED
      BY <2>1, <2>3, <3>1, <1>0 DEF TypeOK
  <2> QED
    BY <1>4, <2>2, <2>3 DEF Claim
<1>5. ASSUME NEW w \in Workers,
             ReadOrParseBreaks(w) \/ ParseWorkbook(w) \/ PhotoAnswered(w)
               \/ ProviderFails(w) \/ DeleteLines(w) \/ InsertLines(w)
               \/ InsertRefused(w)
      PROVE  attempts'[e] = spent'[e] + Cardinality(Holders(e)')
  BY <1>1, <1>5 DEF ReadOrParseBreaks, ParseWorkbook, PhotoAnswered,
                    ProviderFails, DeleteLines, InsertLines, InsertRefused,
                    GoTo, rowVars
<1>6. ASSUME NEW w \in Workers, job[w] \in Estimates, UNCHANGED attempts,
             job' = [job EXCEPT ![w] = NoJob], Spend(w)
      PROVE  attempts'[e] = spent'[e] + Cardinality(Holders(e)')
  <2>1. Cardinality(Holders(e)') =
          IF e = job[w] THEN Cardinality(Holders(e)) - 1
                        ELSE Cardinality(Holders(e))
    BY <1>6, Release
  <2> QED
    BY <1>0, <1>6, <2>1 DEF TypeOK, Spend
<1>7. ASSUME NEW w \in Workers,
             MarkParsed(w) \/ MarkFailed(w) \/ RetryOrGiveUp(w)
               \/ StatusNotUpdated(w)
      PROVE  attempts'[e] = spent'[e] + Cardinality(Holders(e)')
  <2>1. job[w] \in Estimates
    BY <1>7 DEF TypeOK, MarkParsed, MarkFailed, RetryOrGiveUp, StatusNotUpdated
  <2>2. UNCHANGED attempts /\ Spend(w) /\ EndJob(w)
    BY <1>7 DEF MarkParsed, MarkFailed, RetryOrGiveUp, StatusNotUpdated,
                SetStatus, rowVars
  <2> QED
    BY <1>6, <2>1, <2>2 DEF EndJob
<1>8. ASSUME NEW w \in Workers, GiveBackAttempt(w)
      PROVE  attempts'[e] = spent'[e] + Cardinality(Holders(e)')
  <2>1. job[w] \in Estimates /\ job' = [job EXCEPT ![w] = NoJob]
    BY <1>8 DEF TypeOK, GiveBackAttempt, EndJob
  <2>2. /\ attempts' = [attempts EXCEPT ![job[w]] = IF @ > 0 THEN @ - 1 ELSE 0]
        /\ UNCHANGED spent
    BY <1>8 DEF GiveBackAttempt
  <2>3. CASE e = job[w]
    <3>1. Cardinality(Holders(e)') = Cardinality(Holders(e)) - 1
      BY <2>1, <2>3, Release
    <3>2. Cardinality(Holders(e)') \in Nat
      <4>1. Holders(e)' \subseteq Workers
        BY DEF Holders
      <4> QED
        BY <4>1, QueueAssumption, FS_Subset, FS_CardinalityType
    <3> QED
      BY <1>0, <2>2, <2>3, <3>1, <3>2 DEF TypeOK
  <2>4. CASE e # job[w]
    BY <1>0, <2>1, <2>2, <2>4, Release DEF TypeOK
  <2> QED
    BY <2>3, <2>4
<1>9. ASSUME NEW w \in Workers, Crash(w)
      PROVE  attempts'[e] = spent'[e] + Cardinality(Holders(e)')
  <2>1. UNCHANGED attempts /\ job' = [job EXCEPT ![w] = NoJob]
    BY <1>9 DEF Crash, rowVars
  <2>2. CASE job[w] = NoJob
    BY <1>1, <1>9, <2>1, <2>2 DEF Crash, TypeOK
  <2>3. CASE job[w] # NoJob
    BY <1>6, <1>9, <2>1, <2>3 DEF Crash, TypeOK
  <2> QED
    BY <2>2, <2>3
<1>10. CASE UNCHANGED vars
  BY <1>1, <1>10 DEF vars, workerVars, rowVars
<1> QED
  BY <1>2, <1>3, <1>4, <1>5, <1>7, <1>8, <1>9, <1>10
  DEF Next, RunPending, RunJob

(* In every reachable state the attempts column counts exactly the used-up *)
(* attempts and those in hand (claim, give_back_attempt, any crash).       *)
THEOREM AttemptsAccounted == Spec => []AttemptAccounting
<1>1. Init => AttemptAccounting
  BY AccountingInit
<1>2. TypeOK /\ AttemptAccounting /\ [Next]_vars => AttemptAccounting'
  BY AccountingStep
<1> QED
  BY <1>1, <1>2, TypeCorrect, PTL DEF Spec

-----------------------------------------------------------------------------
(* Counting the answers that were judged.                                  *)

LEMMA ChargedFinite ==
  ASSUME NEW e
  PROVE  /\ IsFiniteSet(Charged(e)) /\ Cardinality(Charged(e)) \in Nat
         /\ Cardinality(Charged(e)) <= Cardinality(Holders(e))
<1>1. Charged(e) \subseteq Holders(e)
  BY DEF Charged, Holders
<1> QED
  BY <1>1, HoldersFinite, FS_Subset, FS_CardinalityType

(* The job of one worker moves Charged by at most that worker.             *)
LEMMA ChargedPlus ==
  ASSUME NEW e, NEW w, Charged(e)' = Charged(e) \cup {w}
  PROVE  /\ w \notin Charged(e) =>
                Cardinality(Charged(e)') = Cardinality(Charged(e)) + 1
         /\ Cardinality(Charged(e)') >= Cardinality(Charged(e))
         /\ Cardinality(Charged(e)') \in Nat
<1>1. /\ IsFiniteSet(Charged(e)) /\ Cardinality(Charged(e)) \in Nat
  BY ChargedFinite
<1>2. CASE w \in Charged(e)
  <2>1. Charged(e)' = Charged(e)
    BY <1>2
  <2>2. Cardinality(Charged(e)') = Cardinality(Charged(e))
    BY <2>1
  <2> QED
    BY <1>1, <1>2, <2>2
<1>3. CASE w \notin Charged(e)
  BY <1>1, <1>3, FS_AddElement
<1> QED
  BY <1>2, <1>3

LEMMA ChargedMinus ==
  ASSUME NEW e, NEW w, Charged(e)' = Charged(e) \ {w}
  PROVE  /\ Cardinality(Charged(e)') \in Nat
         /\ Cardinality(Charged(e)') + 1 >= Cardinality(Charged(e))
         /\ w \notin Charged(e) => Cardinality(Charged(e)') = Cardinality(Charged(e))
<1>1. /\ IsFiniteSet(Charged(e)) /\ Cardinality(Charged(e)) \in Nat
  BY ChargedFinite
<1>2. CASE w \in Charged(e)
  <2>1. /\ IsFiniteSet(Charged(e)')
        /\ Cardinality(Charged(e)') = Cardinality(Charged(e)) - 1
    BY <1>1, <1>2, FS_RemoveElement
  <2>2. Cardinality(Charged(e)') \in Nat
    BY <2>1, FS_CardinalityType
  <2> QED
    BY <1>1, <1>2, <2>1, <2>2
<1>3. CASE w \notin Charged(e)
  <2>1. Charged(e)' = Charged(e)
    BY <1>3
  <2>2. Cardinality(Charged(e)') = Cardinality(Charged(e))
    BY <2>1
  <2> QED
    BY <1>1, <1>3, <2>2
<1> QED
  BY <1>2, <1>3

LEMMA JudgedStep == TypeOK /\ JudgedInv /\ [Next]_vars => JudgedInv'
<1> SUFFICES ASSUME TypeOK, JudgedInv, [Next]_vars, NEW e \in Estimates
             PROVE  judged'[e] <= spent'[e] + Cardinality(Charged(e)')
  BY DEF JudgedInv
<1>0. /\ Cardinality(Charged(e)) \in Nat
      /\ judged[e] <= spent[e] + Cardinality(Charged(e))
      /\ judged[e] \in Nat /\ spent[e] \in Nat /\ e # NoJob
  BY ChargedFinite DEF JudgedInv, TypeOK, Estimates, NoJob
<1>1. CASE UNCHANGED <<judged, spent, pc, job>>
  BY <1>0, <1>1 DEF Charged
<1>2. CASE Environment
  BY <1>1, <1>2 DEF Environment, Upload, GoStale, Expire, workerVars
(* A worker without a job has nothing charged, wherever it goes.           *)
<1>3. ASSUME NEW w \in Workers, GiveUpOnStuck(w) \/ NothingClaimed(w)
      PROVE  judged'[e] <= spent'[e] + Cardinality(Charged(e)')
  <2>1. Charged(e)' = Charged(e)
    BY <1>0, <1>3 DEF TypeOK, GiveUpOnStuck, NothingClaimed, EndTick, Charged
  <2> QED
    BY <1>0, <1>3, <2>1 DEF GiveUpOnStuck, NothingClaimed
<1>4. ASSUME NEW w \in Workers, NEW d \in Estimates, Claim(w, d)
      PROVE  judged'[e] <= spent'[e] + Cardinality(Charged(e)')
  <2>1. Charged(e)' = Charged(e)
    BY <1>0, <1>4 DEF TypeOK, Claim, EndTick, Charged
  <2>2. UNCHANGED judged /\ spent'[e] \in {spent[e], spent[e] + 1}
    BY <1>0, <1>4 DEF TypeOK, Claim, TakeRow
  <2> QED
    BY <1>0, <2>1, <2>2
<1>5. ASSUME NEW w \in Workers, PhotoAnswered(w)
      PROVE  judged'[e] <= spent'[e] + Cardinality(Charged(e)')
  <2>1. PICK p \in {"delete", "badAnswer"} : GoTo(w, p)
    BY <1>5 DEF PhotoAnswered
  <2>2. UNCHANGED spent
    BY <1>5 DEF PhotoAnswered
  <2>3. CASE e = job[w]
    <3>1. w \notin Charged(e) /\ Charged(e)' = Charged(e) \cup {w}
      BY <1>5, <2>1, <2>3 DEF TypeOK, PhotoAnswered, GoTo, Charged
    <3>2. judged'[e] = judged[e] + 1
      BY <1>5, <2>3 DEF TypeOK, PhotoAnswered
    <3> QED
      <4>1. Cardinality(Charged(e)') = Cardinality(Charged(e)) + 1
        BY <3>1, ChargedPlus
      <4> QED
        BY <1>0, <2>2, <3>2, <4>1
  <2>4. CASE e # job[w]
    <3>1. Charged(e)' = Charged(e)
      BY <2>1, <2>4 DEF TypeOK, GoTo, Charged
    <3>2. judged'[e] = judged[e]
      BY <1>5, <2>4 DEF TypeOK, PhotoAnswered
    <3> QED
      BY <1>0, <2>2, <3>1, <3>2
  <2> QED
    BY <2>3, <2>4
<1>6. ASSUME NEW w \in Workers,
             ReadOrParseBreaks(w) \/ ParseWorkbook(w) \/ ProviderFails(w)
               \/ DeleteLines(w) \/ InsertLines(w) \/ InsertRefused(w)
      PROVE  judged'[e] <= spent'[e] + Cardinality(Charged(e)')
  <2>1. UNCHANGED <<judged, spent>>
    BY <1>6 DEF ReadOrParseBreaks, ParseWorkbook, ProviderFails, DeleteLines,
                InsertLines, InsertRefused
  <2>2. Charged(e)' = Charged(e) \/ Charged(e)' = Charged(e) \cup {w}
    <3>1. CASE ReadOrParseBreaks(w)
      BY <3>1 DEF TypeOK, ReadOrParseBreaks, GoTo, Charged
    <3>2. CASE ParseWorkbook(w)
      BY <3>2 DEF TypeOK, ParseWorkbook, GoTo, Charged
    <3>3. CASE ProviderFails(w)
      BY <3>3 DEF TypeOK, ProviderFails, GoTo, Charged
    <3>4. CASE DeleteLines(w)
      BY <3>4 DEF TypeOK, DeleteLines, GoTo, Charged
    <3>5. CASE InsertLines(w)
      BY <3>5 DEF TypeOK, InsertLines, GoTo, Charged
    <3>6. CASE InsertRefused(w)
      BY <3>6 DEF TypeOK, InsertRefused, GoTo, Charged
    <3> QED
      BY <1>6, <3>1, <3>2, <3>3, <3>4, <3>5, <3>6
  <2>3. /\ Cardinality(Charged(e)') >= Cardinality(Charged(e))
        /\ Cardinality(Charged(e)') \in Nat
    <3>1. CASE Charged(e)' = Charged(e)
      BY <1>0, <3>1
    <3>2. CASE Charged(e)' = Charged(e) \cup {w}
      BY <1>0, <3>2, ChargedPlus
    <3> QED
      BY <2>2, <3>1, <3>2
  <2> QED
    BY <1>0, <2>1, <2>3
(* The end of a job takes the worker out and books the attempt as spent.   *)
<1>7. ASSUME NEW w \in Workers, job[w] \in Estimates, UNCHANGED judged,
             job' = [job EXCEPT ![w] = NoJob], Spend(w),
             \A v \in Workers \ {w} : pc'[v] = pc[v]
      PROVE  judged'[e] <= spent'[e] + Cardinality(Charged(e)')
  <2>1. Charged(e)' = Charged(e) \ {w}
    BY <1>0, <1>7 DEF TypeOK, Charged
  <2>4. /\ Cardinality(Charged(e)') \in Nat
        /\ Cardinality(Charged(e)') + 1 >= Cardinality(Charged(e))
        /\ w \notin Charged(e) => Cardinality(Charged(e)') = Cardinality(Charged(e))
    BY <2>1, ChargedMinus
  <2>2. CASE e = job[w]
    <3>1. spent'[e] = spent[e] + 1
      BY <1>7, <2>2 DEF TypeOK, Spend
    <3> QED
      BY <1>0, <1>7, <2>4, <3>1
  <2>3. CASE e # job[w]
    <3>1. w \notin Charged(e) /\ spent'[e] = spent[e]
      BY <1>7, <2>3 DEF TypeOK, Charged, Spend
    <3> QED
      BY <1>0, <1>7, <2>4, <3>1
  <2> QED
    BY <2>2, <2>3
<1>8. ASSUME NEW w \in Workers,
             MarkParsed(w) \/ MarkFailed(w) \/ RetryOrGiveUp(w)
               \/ StatusNotUpdated(w)
      PROVE  judged'[e] <= spent'[e] + Cardinality(Charged(e)')
  <2>1. job[w] \in Estimates
    BY <1>8 DEF TypeOK, MarkParsed, MarkFailed, RetryOrGiveUp, StatusNotUpdated
  <2>2. UNCHANGED judged /\ Spend(w) /\ EndJob(w)
    BY <1>8 DEF MarkParsed, MarkFailed, RetryOrGiveUp, StatusNotUpdated
  <2>3. \A v \in Workers \ {w} : pc'[v] = pc[v]
    BY <2>2 DEF TypeOK, EndJob, EndTick
  <2> QED
    BY <1>7, <2>1, <2>2, <2>3 DEF EndJob
<1>9. ASSUME NEW w \in Workers, GiveBackAttempt(w)
      PROVE  judged'[e] <= spent'[e] + Cardinality(Charged(e)')
  <2>1. Charged(e)' = Charged(e)
    BY <1>0, <1>9 DEF TypeOK, GiveBackAttempt, EndJob, EndTick, Charged
  <2> QED
    BY <1>0, <1>9, <2>1 DEF GiveBackAttempt
<1>10. ASSUME NEW w \in Workers, Crash(w)
       PROVE  judged'[e] <= spent'[e] + Cardinality(Charged(e)')
  <2>1. /\ UNCHANGED judged /\ job' = [job EXCEPT ![w] = NoJob]
        /\ \A v \in Workers \ {w} : pc'[v] = pc[v]
    BY <1>10 DEF TypeOK, Crash, EndTick
  <2>2. CASE job[w] = NoJob
    <3>1. Charged(e)' = Charged(e) /\ UNCHANGED spent
      BY <1>0, <1>10, <2>1, <2>2 DEF TypeOK, Crash, Charged
    <3> QED
      BY <1>0, <2>1, <3>1
  <2>3. CASE job[w] # NoJob
    BY <1>7, <1>10, <2>1, <2>3 DEF TypeOK, Crash
  <2> QED
    BY <2>2, <2>3
<1>11. CASE UNCHANGED vars
  BY <1>1, <1>11 DEF vars, workerVars
<1> QED
  BY <1>2, <1>3, <1>4, <1>5, <1>6, <1>8, <1>9, <1>10, <1>11
  DEF Next, RunPending, RunJob

(* photo::parse judges at most MAX_ATTEMPTS answers about one photo: a bad *)
(* answer uses its attempt up, whatever happens to the worker afterwards.  *)
THEOREM AnswersCostAttempts == Spec => []JudgedBounded
<1>1. Init => JudgedInv
  <2> SUFFICES ASSUME Init, NEW e \in Estimates
               PROVE  judged[e] <= spent[e] + Cardinality(Charged(e))
    BY DEF JudgedInv
  <2> QED
    BY ChargedFinite DEF Init
<1>2. TypeOK /\ JudgedInv /\ [Next]_vars => JudgedInv'
  BY JudgedStep
<1>3. TypeOK /\ AttemptAccounting /\ JudgedInv => JudgedBounded
  <2> SUFFICES ASSUME TypeOK, AttemptAccounting, JudgedInv, NEW e \in Estimates
               PROVE  judged[e] <= MAX_ATTEMPTS
    BY DEF JudgedBounded
  <2>1. /\ judged[e] <= spent[e] + Cardinality(Charged(e))
        /\ attempts[e] = spent[e] + Cardinality(Holders(e))
        /\ attempts[e] \in 0..MAX_ATTEMPTS
        /\ judged[e] \in Nat /\ spent[e] \in Nat
    BY DEF TypeOK, AttemptAccounting, JudgedInv
  <2> QED
    BY <2>1, ChargedFinite, HoldersFinite, QueueAssumption
<1> QED
  BY <1>1, <1>2, <1>3, TypeCorrect, AttemptsAccounted, PTL DEF Spec

-----------------------------------------------------------------------------
(* One worker: the queue implements EstimateLifecycle, step by step,       *)
(* however long its jobs take.                                             *)

LEMMA SoloInit == Init => SoloInv
  BY DEF Init, SoloInv, HeldLines, OneBatch

(* What moves no row and leaves no job in a new place.                     *)
LEMMA SoloEnvironment ==
  ASSUME TypeOK, SoloInv, Environment
  PROVE  SoloInv'
<1>1. /\ UNCHANGED <<error, lines, pc, job, seen>>
      /\ \A d \in Estimates : status'[d] = status[d] \/ status[d] = "absent"
      /\ \A d \in Estimates : status'[d] = "failed" <=> status[d] = "failed"
  BY DEF TypeOK, Environment, Upload, GoStale, Expire, workerVars
<1>2. ASSUME NEW w \in Workers, job[w] # NoJob
      PROVE  status'[job[w]] = "parsing"
  BY <1>1, <1>2 DEF TypeOK, SoloInv
<1> QED
  BY <1>1, <1>2 DEF SoloInv, HeldLines, OneBatch

LEMMA SoloTick ==
  ASSUME TypeOK, SoloInv, NEW w, Workers = {w},
         \/ GiveUpOnStuck(w) \/ NothingClaimed(w) \/ \E e \in Estimates : Claim(w, e)
  PROVE  SoloInv'
<1>1. CASE GiveUpOnStuck(w)
  <2>1. job[w] = NoJob /\ job' = job /\ lines' = lines /\ pc'[w] \in {"tick", "claim"}
    BY <1>1 DEF TypeOK, GiveUpOnStuck
  <2>2. \A e \in Estimates : status'[e] # "failed" =>
                                status[e] # "failed" /\ error'[e] = error[e]
    BY <1>1 DEF TypeOK, GiveUpOnStuck
  <2> QED
    BY <2>1, <2>2 DEF SoloInv, HeldLines, OneBatch
<1>2. CASE NothingClaimed(w)
  BY <1>2 DEF TypeOK, NothingClaimed, EndTick, rowVars, SoloInv, HeldLines, OneBatch
<1>3. ASSUME NEW e \in Estimates, Claim(w, e)
      PROVE  SoloInv'
  <2>1. /\ UNCHANGED <<error, lines, seen>>
        /\ pc'[w] \in {"parse", "tick"} /\ job'[w] \in {NoJob, e}
        /\ status' = [status EXCEPT ![e] = "parsing"] /\ status[e] # "failed"
        /\ job[w] = NoJob
    BY <1>3 DEF TypeOK, Claim, TakeRow, Claimable, EndTick
  <2> QED
    BY <2>1 DEF TypeOK, SoloInv, HeldLines, OneBatch
<1> QED
  BY <1>1, <1>2, <1>3

LEMMA SoloJob ==
  ASSUME TypeOK, SoloInv, NEW w, Workers = {w}, RunJob(w) \/ Crash(w)
  PROVE  SoloInv'
<1>1. CASE \/ ReadOrParseBreaks(w) \/ ParseWorkbook(w) \/ PhotoAnswered(w)
           \/ ProviderFails(w) \/ InsertRefused(w)
  <2>1. UNCHANGED <<rowVars, job>> /\ pc'[w] \notin {"insert", "mark"}
    BY <1>1 DEF TypeOK, ReadOrParseBreaks, ParseWorkbook, PhotoAnswered, ProviderFails,
                InsertRefused, GoTo
  <2> QED
    BY <2>1 DEF rowVars, SoloInv, HeldLines, OneBatch
<1>2. CASE DeleteLines(w)
  <2>1. /\ UNCHANGED <<rowVars, job>> /\ pc'[w] # "mark"
        /\ pc'[w] = "insert" => seen'[w] = lines[job[w]]
    BY <1>2 DEF TypeOK, DeleteLines, GoTo
  <2> QED
    BY <2>1 DEF rowVars, SoloInv, HeldLines, OneBatch
<1>3. CASE InsertLines(w)
  <2>1. job[w] \in Estimates /\ seen[w] = lines[job[w]]
    BY <1>3 DEF TypeOK, SoloInv, HeldLines, InsertLines
  <2>2. /\ UNCHANGED <<status, error, job>> /\ pc'[w] # "insert"
        /\ lines'[job[w]] = {<<w, tries[w]>>}
        /\ \A e \in Estimates : e # job[w] => lines'[e] = lines[e]
    BY <1>3, <2>1 DEF TypeOK, InsertLines, GoTo
  <2>3. OneBatch'
    BY <2>2 DEF SoloInv, OneBatch
  <2>4. HeldLines'
    BY <2>2 DEF HeldLines
  <2> QED
    BY <2>2, <2>3, <2>4 DEF SoloInv
<1>4. CASE \/ MarkParsed(w) \/ MarkFailed(w) \/ RetryOrGiveUp(w)
           \/ GiveBackAttempt(w) \/ StatusNotUpdated(w)
  <2>1. job[w] \in Estimates /\ job[w] # NoJob
    BY <1>4 DEF TypeOK, MarkParsed, MarkFailed, RetryOrGiveUp, GiveBackAttempt,
                StatusNotUpdated, Estimates, NoJob
  <2>2. status[job[w]] = "parsing" /\ error[job[w]] = "none"
    BY <2>1 DEF SoloInv
  <2>3. EndJob(w) /\ lines' = lines
    BY <1>4 DEF MarkParsed, MarkFailed, RetryOrGiveUp, GiveBackAttempt,
                StatusNotUpdated, SetStatus, rowVars
  <2>4. job'[w] = NoJob /\ pc'[w] \in {"tick", "claim"}
    BY <2>3 DEF TypeOK, EndJob, EndTick
  <2>5. \A e \in Estimates : status'[e] # "failed" => error'[e] = "none"
    BY <1>4, <2>1, <2>2 DEF TypeOK, SoloInv, MarkParsed, MarkFailed, RetryOrGiveUp,
                GiveBackAttempt, StatusNotUpdated, SetStatus, rowVars
  <2> QED
    BY <2>3, <2>4, <2>5 DEF SoloInv, HeldLines, OneBatch
<1>5. CASE Crash(w)
  <2>1. UNCHANGED rowVars /\ job'[w] = NoJob /\ pc'[w] = "tick"
    BY <1>5 DEF TypeOK, Crash, EndTick
  <2> QED
    BY <2>1 DEF rowVars, SoloInv, HeldLines, OneBatch
<1> QED
  BY <1>1, <1>2, <1>3, <1>4, <1>5 DEF RunJob

LEMMA SoloStep ==
  ASSUME NEW w, Workers = {w}
  PROVE  TypeOK /\ SoloInv /\ [Next]_vars => SoloInv'
<1>1. ASSUME SoloInv, UNCHANGED vars
      PROVE  SoloInv'
  BY <1>1 DEF vars, rowVars, workerVars, SoloInv, HeldLines, OneBatch
<1> QED
  BY <1>1, SoloEnvironment, SoloTick, SoloJob DEF Next, RunPending

(* The view of the table that the mapping takes.                           *)
Verdict(e) == IF InProgress(e) THEN "waiting" ELSE status[e]
Result(e)  == IF status[e] = "parsed" THEN lines[e] ELSE {}

(* A step that changes no verdict, no lines of a parsed estimate and no    *)
(* error is not seen.                                                      *)
LEMMA Unseen ==
  ASSUME \A e \in Estimates : Verdict(e)' = Verdict(e) /\ Result(e)' = Result(e),
         error' = error
  PROVE  UNCHANGED Lifecycle!vars
  BY DEF Verdict, Result, Lifecycle!vars

LEMMA UploadIsAccept ==
  ASSUME TypeOK, NEW e \in Estimates, NEW k \in Kinds, Upload(e, k)
  PROVE  Lifecycle!Accept(e)
<1>1. /\ status[e] = "absent" /\ status' = [status EXCEPT ![e] = "uploaded"]
      /\ UNCHANGED <<lines, error>>
  BY DEF Upload
<1> QED
  BY <1>1 DEF TypeOK, InProgress, Lifecycle!Accept

(* give_up_on_stuck fails every estimate that is stuck, in one statement.  *)
LEMMA GiveUpIsFail ==
  ASSUME TypeOK, NEW w \in Workers, GiveUpOnStuck(w)
  PROVE  Lifecycle!Next
<1> DEFINE S == {e \in Estimates : Stuck(e)}
<1>1. /\ status' = [e \in Estimates |-> IF Stuck(e) THEN "failed" ELSE status[e]]
      /\ error' = [e \in Estimates |-> IF Stuck(e) THEN "later" ELSE error[e]]
      /\ UNCHANGED lines
  BY DEF GiveUpOnStuck
<1>2. Lifecycle!Fail(S, "later")
  BY <1>1 DEF TypeOK, Stuck, InProgress, Lifecycle!Fail
<1>3. S \in SUBSET Estimates /\ "later" \in Errors \ {"none"}
  BY DEF Errors
<1> QED
  BY <1>2, <1>3 DEF Lifecycle!Next

(* MarkParsed shows the lines of the one attempt that are stored.          *)
LEMMA MarkParsedIsSucceed ==
  ASSUME TypeOK, SoloInv, NEW w \in Workers, MarkParsed(w)
  PROVE  Lifecycle!Next
<1>1. /\ job[w] \in Estimates /\ job[w] # NoJob /\ pc[w] = "mark"
      /\ status' = [status EXCEPT ![job[w]] = "parsed"]
      /\ error' = [error EXCEPT ![job[w]] = "none"]
      /\ UNCHANGED lines
  BY DEF TypeOK, MarkParsed, SetStatus, Estimates, NoJob
<1>2. status[job[w]] = "parsing" /\ error[job[w]] = "none" /\ lines[job[w]] # {}
  BY <1>1 DEF SoloInv, HeldLines
<1>3. PICK b \in lines[job[w]] : lines[job[w]] = {b}
  BY <1>1, <1>2 DEF SoloInv, OneBatch
<1>4. b \in Batches
  BY <1>1, <1>3 DEF TypeOK
<1>5. Lifecycle!Succeed(job[w], b)
  BY <1>1, <1>2, <1>3 DEF TypeOK, InProgress, Lifecycle!Succeed
<1> QED
  BY <1>1, <1>4, <1>5 DEF Lifecycle!Next

(* A closing statement that fails the estimate in hand is Fail of it.      *)
LEMMA SetFailedIsFail ==
  ASSUME TypeOK, SoloInv, NEW w \in Workers, job[w] # NoJob,
         NEW why \in Errors \ {"none"}, SetStatus(w, "failed", why)
  PROVE  Lifecycle!Next
<1>1. /\ job[w] \in Estimates
      /\ status' = [status EXCEPT ![job[w]] = "failed"]
      /\ error' = [error EXCEPT ![job[w]] = why]
      /\ UNCHANGED lines
  BY DEF TypeOK, SetStatus
<1>2. status[job[w]] = "parsing"
  BY DEF SoloInv
<1>3. Lifecycle!Fail({job[w]}, why)
  BY <1>1, <1>2 DEF TypeOK, InProgress, Lifecycle!Fail
<1>4. {job[w]} \in SUBSET Estimates
  BY <1>1
<1> QED
  BY <1>3, <1>4 DEF Lifecycle!Next

LEMMA LifecycleStep ==
  ASSUME NEW w, Workers = {w}, TypeOK, SoloInv, [Next]_vars
  PROVE  [Lifecycle!Next]_(Lifecycle!vars)
<1>1. CASE UNCHANGED vars
  BY <1>1, Unseen DEF vars, rowVars, Verdict, Result, InProgress
<1>2. ASSUME NEW e \in Estimates, NEW k \in Kinds, Upload(e, k)
      PROVE  Lifecycle!Next
  BY <1>2, UploadIsAccept DEF Lifecycle!Next
<1>3. ASSUME NEW e \in Estimates, GoStale(e) \/ Expire(e)
      PROVE  UNCHANGED Lifecycle!vars
  BY <1>3, Unseen DEF GoStale, Expire, Verdict, Result, InProgress
<1>4. CASE GiveUpOnStuck(w)
  BY <1>4, GiveUpIsFail
<1>5. ASSUME NEW e \in Estimates, Claim(w, e)
      PROVE  UNCHANGED Lifecycle!vars
  <2>1. /\ status[e] \in {"uploaded", "parsing"} /\ UNCHANGED <<lines, error>>
        /\ status' = [status EXCEPT ![e] = "parsing"]
    BY <1>5 DEF Claim, TakeRow, Claimable
  <2> QED
    BY <2>1, Unseen DEF TypeOK, Verdict, Result, InProgress
<1>6. CASE \/ NothingClaimed(w) \/ Crash(w)
           \/ ReadOrParseBreaks(w) \/ ParseWorkbook(w) \/ PhotoAnswered(w)
           \/ ProviderFails(w) \/ DeleteLines(w) \/ InsertRefused(w)
           \/ StatusNotUpdated(w)
  <2>1. UNCHANGED rowVars
    BY <1>6 DEF NothingClaimed, Crash, ReadOrParseBreaks, ParseWorkbook, PhotoAnswered,
                ProviderFails, DeleteLines, InsertRefused, StatusNotUpdated
  <2> QED
    BY <2>1, Unseen DEF rowVars, Verdict, Result, InProgress
<1>7. CASE InsertLines(w)
  <2>1. /\ job[w] \in Estimates /\ status[job[w]] = "parsing" /\ UNCHANGED <<status, error>>
        /\ \A e \in Estimates : e # job[w] => lines'[e] = lines[e]
    BY <1>7 DEF TypeOK, SoloInv, InsertLines
  <2> QED
    BY <2>1, Unseen DEF Verdict, Result, InProgress
<1>8. CASE MarkParsed(w)
  BY <1>8, MarkParsedIsSucceed
<1>9. CASE MarkFailed(w)
  <2>1. job[w] # NoJob /\ SetStatus(w, "failed", "file") /\ "file" \in Errors \ {"none"}
    BY <1>9 DEF TypeOK, MarkFailed, Errors
  <2> QED
    BY <2>1, SetFailedIsFail
<1>10. CASE RetryOrGiveUp(w)
  <2>1. job[w] \in Estimates /\ job[w] # NoJob
    BY <1>10 DEF TypeOK, RetryOrGiveUp, Estimates, NoJob
  <2>2. CASE tries[w] >= MAX_ATTEMPTS
    <3>1. \E why \in {"photo", "internal"} : SetStatus(w, "failed", why)
      BY <1>10, <2>2 DEF RetryOrGiveUp
    <3> QED
      BY <2>1, <3>1, SetFailedIsFail DEF Errors
  <2>3. CASE ~ (tries[w] >= MAX_ATTEMPTS)
    <3>1. /\ status' = [status EXCEPT ![job[w]] = "uploaded"] /\ error' = error
          /\ status[job[w]] = "parsing" /\ lines' = lines
      BY <1>10, <2>1, <2>3 DEF TypeOK, SoloInv, RetryOrGiveUp, SetStatus
    <3> QED
      BY <2>1, <3>1, Unseen DEF TypeOK, Verdict, Result, InProgress
  <2> QED
    BY <2>2, <2>3
<1>11. CASE GiveBackAttempt(w)
  BY <1>11, Unseen DEF GiveBackAttempt, Verdict, Result, InProgress
<1> QED
  BY <1>1, <1>2, <1>3, <1>4, <1>5, <1>6, <1>7, <1>8, <1>9, <1>10, <1>11
     DEF Next, Environment, RunPending, RunJob

(* One process that may crash anywhere, with jobs that take as long as     *)
(* they like: an estimate is parsed once, with the lines of one attempt,   *)
(* or failed once, with one reason, and no verdict is taken back.          *)
THEOREM OneWorkerImplements ==
  ASSUME NEW w, Workers = {w}
  PROVE  Spec => Lifecycle!Spec
<1>1. Init => Lifecycle!Init
  BY DEF Init, InProgress, Lifecycle!Init, Lifecycle!NoReason
<1>2. TypeOK /\ SoloInv /\ [Next]_vars => SoloInv'
  BY SoloStep
<1>3. TypeOK /\ SoloInv /\ [Next]_vars => [Lifecycle!Next]_(Lifecycle!vars)
  BY LifecycleStep
<1> QED
  BY <1>1, <1>2, <1>3, SoloInit, TypeCorrect, PTL DEF Spec, Lifecycle!Spec

-----------------------------------------------------------------------------
(* What the queue guarantees as long as a live worker finishes its job     *)
(* before the row is stale (~JobsMayStall): the closing statements go by   *)
(* id and would not notice a new holder.                                   *)

(* A row somebody holds cannot be claimed.                                 *)
LEMMA HeldIsNotClaimable ==
  ASSUME TypeOK, QueueInv, NEW v \in Workers, NEW d \in Estimates, Claimable(d)
  PROVE  job[v] # d
<1> SUFFICES ASSUME job[v] = d PROVE FALSE
  OBVIOUS
<1>1. job[v] # NoJob
  BY DEF Estimates, NoJob
<1>2. status[d] = "failed" \/ (status[d] = "parsing" /\ ~stale[d])
  BY <1>1 DEF QueueInv, HeldRow
<1> QED
  BY <1>2 DEF Claimable

(* The only holder of a row has all the attempts that are not spent: one.  *)
LEMMA OnlyHolder ==
  ASSUME TypeOK, AttemptAccounting, OneHolder, NEW w \in Workers,
         job[w] \in Estimates
  PROVE  attempts[job[w]] = spent[job[w]] + 1
<1>1. job[w] # NoJob
  BY DEF Estimates, NoJob
<1>2. Holders(job[w]) = {w}
  BY <1>1 DEF Holders, OneHolder
<1>3. Cardinality(Holders(job[w])) = 1
  BY <1>2, FS_Singleton
<1> QED
  BY <1>3 DEF AttemptAccounting

LEMMA QueueInit == Init => QueueInv
  BY DEF Init, QueueInv, OneHolder, HeldRow, HeldLines, OneBatch,
         ParsedHasLines, CondemnedAfterAllAttempts

(* Steps of the environment, of give_up_on_stuck and of claim.             *)
LEMMA QueueStepIdle ==
  ASSUME ~JobsMayStall, TypeOK, QueueInv,
         \/ Environment
         \/ \E w \in Workers : \/ GiveUpOnStuck(w)
                               \/ NothingClaimed(w)
                               \/ \E e \in Estimates : Claim(w, e)
  PROVE  QueueInv'
<1>1. ASSUME NEW e \in Estimates, NEW k \in Kinds, Upload(e, k)
      PROVE  QueueInv'
  <2>1. \A w \in Workers : job[w] # e
    BY <1>1 DEF Upload, QueueInv, HeldRow, Estimates, NoJob
  <2> QED
    BY <1>1, <2>1
    DEF TypeOK, Upload, workerVars, QueueInv, OneHolder, HeldRow, HeldLines,
        OneBatch, ParsedHasLines, CondemnedAfterAllAttempts
<1>2. ASSUME NEW e \in Estimates, GoStale(e)
      PROVE  QueueInv'
  <2>1. \A w \in Workers : job[w] # e
    BY <1>2 DEF GoStale, Holders
  <2> QED
    BY <1>2, <2>1
    DEF TypeOK, GoStale, workerVars, QueueInv, OneHolder, HeldRow, HeldLines,
        OneBatch, ParsedHasLines, CondemnedAfterAllAttempts
<1>3. ASSUME NEW e \in Estimates, Expire(e)
      PROVE  QueueInv'
  BY <1>3 DEF Expire, workerVars, QueueInv, OneHolder, HeldRow, HeldLines,
              OneBatch, ParsedHasLines, CondemnedAfterAllAttempts
<1>4. ASSUME NEW w \in Workers, GiveUpOnStuck(w)
      PROVE  QueueInv'
  <2>1. \A e \in Estimates : status'[e] = status[e] \/ status'[e] = "failed"
    BY <1>4 DEF GiveUpOnStuck
  <2>2. \A e \in Estimates : error'[e] = error[e] \/ error'[e] = "later"
    BY <1>4 DEF GiveUpOnStuck
  <2>3. /\ UNCHANGED <<attempts, stale, lines, job, tries, seen, spent>>
        /\ \A v \in Workers : pc'[v] \in {pc[v], "claim"}
    BY <1>4 DEF TypeOK, GiveUpOnStuck
  <2>4. OneHolder' /\ HeldRow'
    BY <2>1, <2>3 DEF TypeOK, QueueInv, OneHolder, HeldRow
  <2>5. HeldLines' /\ OneBatch'
    BY <2>3 DEF QueueInv, HeldLines, OneBatch
  <2>6. ParsedHasLines' /\ CondemnedAfterAllAttempts'
    BY <2>1, <2>2, <2>3 DEF QueueInv, ParsedHasLines, CondemnedAfterAllAttempts
  <2> QED
    BY <2>4, <2>5, <2>6 DEF QueueInv
<1>5. ASSUME NEW w \in Workers, NothingClaimed(w)
      PROVE  QueueInv'
  <2>1. /\ UNCHANGED <<rowVars, job, tries, seen, spent>>
        /\ \A v \in Workers : pc'[v] \in {pc[v], "tick"}
    BY <1>5 DEF TypeOK, NothingClaimed, EndTick
  <2> QED
    BY <2>1 DEF rowVars, QueueInv, OneHolder, HeldRow, HeldLines, OneBatch,
                ParsedHasLines, CondemnedAfterAllAttempts
<1>6. ASSUME NEW w \in Workers, NEW d \in Estimates, Claim(w, d)
      PROVE  QueueInv'
  <2>1. \A v \in Workers : job[v] # d
    BY <1>6, HeldIsNotClaimable DEF Claim, TakeRow
  <2>2. /\ status' = [status EXCEPT ![d] = "parsing"]
        /\ attempts' = [attempts EXCEPT ![d] = @ + 1]
        /\ stale' = [stale EXCEPT ![d] = FALSE]
        /\ UNCHANGED <<error, lines, seen>>
        /\ \A v \in Workers : pc'[v] \in {pc[v], "parse", "tick"}
        /\ \A e \in Estimates : spent'[e] >= spent[e]
    BY <1>6 DEF TypeOK, Claim, TakeRow, EndTick
  <2>3. \A v \in Workers \ {w} : job'[v] = job[v] /\ tries'[v] = tries[v]
    BY <1>6 DEF TypeOK, Claim
  <2>4. \/ job'[w] = d /\ tries'[w] = attempts'[d]
        \/ job'[w] = NoJob
    BY <1>6, <2>2 DEF TypeOK, Claim
  <2>5. OneHolder'
    BY <2>1, <2>3, <2>4 DEF QueueInv, OneHolder
  <2>6. HeldRow'
    <3> SUFFICES ASSUME NEW v \in Workers, job'[v] # NoJob
                 PROVE  /\ tries'[v] = attempts'[job'[v]]
                        /\ \/ status'[job'[v]] = "parsing" /\ ~stale'[job'[v]]
                           \/ status'[job'[v]] = "failed"
      BY DEF HeldRow
    <3>1. CASE v = w
      BY <2>2, <2>4, <3>1 DEF TypeOK
    <3>2. CASE v # w
      BY <2>1, <2>2, <2>3, <3>2 DEF TypeOK, QueueInv, HeldRow
    <3> QED
      BY <3>1, <3>2
  <2>7. HeldLines'
    <3> SUFFICES ASSUME NEW v \in Workers, pc'[v] \in {"insert", "mark"}
                 PROVE  pc'[v] = pc[v] /\ job'[v] = job[v]
      BY <2>2 DEF QueueInv, HeldLines
    <3>1. pc'[w] \in {"parse", "tick"}
      BY <1>6 DEF TypeOK, Claim, EndTick
    <3> QED
      BY <2>2, <2>3, <3>1
  <2>8. OneBatch' /\ ParsedHasLines'
    BY <2>2 DEF TypeOK, QueueInv, OneBatch, ParsedHasLines
  <2>9. CondemnedAfterAllAttempts'
    <3> SUFFICES ASSUME NEW e \in Estimates, error[e] \in {"internal", "photo"}
                 PROVE  spent'[e] >= MAX_ATTEMPTS
      BY <2>2 DEF CondemnedAfterAllAttempts
    <3>1. spent[e] >= MAX_ATTEMPTS /\ spent'[e] >= spent[e] /\ spent[e] \in Nat
      BY <2>2 DEF TypeOK, QueueInv, CondemnedAfterAllAttempts
    <3>2. spent'[e] \in Nat
      BY <1>6 DEF TypeOK, Claim
    <3> QED
      BY <3>1, <3>2, QueueAssumption
  <2> QED
    BY <2>5, <2>6, <2>7, <2>8, <2>9 DEF QueueInv
<1> QED
  BY <1>1, <1>2, <1>3, <1>4, <1>5, <1>6 DEF Environment

-----------------------------------------------------------------------------
(* Steps inside a job that touch neither status nor lines.                 *)
LEMMA QueueStepQuiet ==
  ASSUME TypeOK, QueueInv, NEW w \in Workers,
         \/ ReadOrParseBreaks(w) \/ ParseWorkbook(w) \/ PhotoAnswered(w)
         \/ ProviderFails(w) \/ DeleteLines(w) \/ InsertRefused(w)
  PROVE  QueueInv'
<1>1. UNCHANGED <<rowVars, job, tries, spent>>
  BY DEF ReadOrParseBreaks, ParseWorkbook, PhotoAnswered, ProviderFails,
         DeleteLines, InsertRefused, GoTo
<1>2. /\ OneHolder' /\ HeldRow' /\ OneBatch'
      /\ ParsedHasLines' /\ CondemnedAfterAllAttempts'
  BY <1>1 DEF rowVars, QueueInv, OneHolder, HeldRow, OneBatch, ParsedHasLines,
              CondemnedAfterAllAttempts
<1>3. \A v \in Workers \ {w} : pc'[v] = pc[v] /\ seen'[v] = seen[v]
  BY DEF TypeOK, ReadOrParseBreaks, ParseWorkbook, PhotoAnswered,
         ProviderFails, DeleteLines, InsertRefused, GoTo
<1>4. /\ pc'[w] # "mark"
      /\ pc'[w] = "insert" => seen'[w] = lines[job[w]]
  <2>1. CASE DeleteLines(w)
    BY <2>1 DEF TypeOK, DeleteLines, GoTo
  <2>2. CASE PhotoAnswered(w)
    BY <2>2 DEF TypeOK, PhotoAnswered, GoTo
  <2>3. CASE ReadOrParseBreaks(w) \/ ParseWorkbook(w) \/ ProviderFails(w)
               \/ InsertRefused(w)
    BY <2>3 DEF TypeOK, ReadOrParseBreaks, ParseWorkbook, ProviderFails,
                InsertRefused, GoTo
  <2> QED
    BY <2>1, <2>2, <2>3
<1>5. HeldLines'
  BY <1>1, <1>3, <1>4 DEF rowVars, QueueInv, HeldLines
<1> QED
  BY <1>2, <1>5 DEF QueueInv

(* The lines are replaced: the snapshot of the DELETE is still current.    *)
LEMMA QueueStepInsert ==
  ASSUME TypeOK, QueueInv, NEW w \in Workers, InsertLines(w)
  PROVE  QueueInv'
<1>0. job[w] \in Estimates /\ job[w] # NoJob
  BY DEF TypeOK, InsertLines
<1>1. /\ UNCHANGED <<status, attempts, error, stale, job, tries, spent>>
      /\ \A v \in Workers \ {w} : pc'[v] = pc[v] /\ seen'[v] = seen[v]
      /\ pc'[w] # "insert"
  BY DEF TypeOK, InsertLines, GoTo
<1>2. lines' = [lines EXCEPT ![job[w]] = {<<w, tries[w]>>}]
  <2>1. lines' = [lines EXCEPT ![job[w]] =
                     (lines[job[w]] \ seen[w]) \cup {<<w, tries[w]>>}]
    BY DEF InsertLines
  <2>2. seen[w] = lines[job[w]]
    BY DEF InsertLines, QueueInv, HeldLines
  <2> QED
    BY <2>1, <2>2
<1>3. /\ lines'[job[w]] = {<<w, tries[w]>>}
      /\ \A e \in Estimates \ {job[w]} : lines'[e] = lines[e]
  BY <1>0, <1>2 DEF TypeOK
<1>4. OneHolder' /\ HeldRow' /\ CondemnedAfterAllAttempts'
  BY <1>1 DEF QueueInv, OneHolder, HeldRow, CondemnedAfterAllAttempts
<1>5. OneBatch' /\ ParsedHasLines'
  <2>1. ASSUME NEW e \in Estimates
        PROVE  /\ \A a, b \in lines'[e] : a = b
               /\ status'[e] = "parsed" => lines'[e] # {}
    <3>1. CASE e = job[w]
      BY <1>3, <3>1
    <3>2. CASE e # job[w]
      BY <1>1, <1>3, <3>2 DEF QueueInv, OneBatch, ParsedHasLines
    <3> QED
      BY <3>1, <3>2
  <2> QED
    BY <2>1 DEF OneBatch, ParsedHasLines
<1>6. HeldLines'
  <2> SUFFICES ASSUME NEW v \in Workers
               PROVE  /\ pc'[v] = "insert" => seen'[v] = lines'[job[v]]
                      /\ pc'[v] = "mark" => lines'[job[v]] # {}
    BY <1>1 DEF HeldLines
  <2>1. CASE v = w
    BY <1>1, <1>3, <2>1
  <2>2. CASE v # w
    <3>1. CASE pc[v] \in {"insert", "mark"}
      <4>1. job[v] \in Estimates \ {job[w]}
        BY <1>0, <2>2, <3>1 DEF TypeOK, QueueInv, OneHolder
      <4> QED
        BY <1>1, <1>3, <2>2, <4>1 DEF QueueInv, HeldLines
    <3>2. CASE pc[v] \notin {"insert", "mark"}
      BY <1>1, <2>2, <3>2
    <3> QED
      BY <3>1, <3>2
  <2> QED
    BY <2>1, <2>2
<1> QED
  BY <1>4, <1>5, <1>6 DEF QueueInv

-----------------------------------------------------------------------------
(* The end of a job, whatever it wrote: only its own row changed, a row    *)
(* marked parsed has lines, and a row is condemned only with all its       *)
(* attempts spent.                                                         *)
LEMMA QueueStepEnd ==
  ASSUME TypeOK, QueueInv, NEW w \in Workers,
         job' = [job EXCEPT ![w] = NoJob],
         UNCHANGED <<stale, lines>>,
         \A v \in Workers \ {w} : /\ pc'[v] = pc[v] /\ tries'[v] = tries[v]
                                 /\ seen'[v] = seen[v],
         pc'[w] \notin {"insert", "mark"},
         \A e \in Estimates : e # job[w] =>
            status'[e] = status[e] /\ attempts'[e] = attempts[e],
         \A e \in Estimates :
            status'[e] = "parsed" => status[e] = "parsed" \/ lines[e] # {},
         \A e \in Estimates : error'[e] \in {"internal", "photo"} =>
            spent'[e] >= MAX_ATTEMPTS
  PROVE  QueueInv'
<1>1. /\ job'[w] = NoJob
      /\ \A v \in Workers \ {w} : job'[v] = job[v]
  BY DEF TypeOK
<1>2. OneHolder'
  BY <1>1 DEF QueueInv, OneHolder
<1>3. HeldRow'
  <2> SUFFICES ASSUME NEW v \in Workers \ {w}, job[v] # NoJob
               PROVE  /\ tries'[v] = attempts'[job[v]]
                      /\ \/ status'[job[v]] = "parsing" /\ ~stale'[job[v]]
                         \/ status'[job[v]] = "failed"
    BY <1>1 DEF HeldRow
  <2>1. job[v] \in Estimates /\ job[v] # job[w]
    BY DEF TypeOK, QueueInv, OneHolder
  <2> QED
    BY <2>1 DEF QueueInv, HeldRow
<1>4. HeldLines'
  BY <1>1 DEF QueueInv, HeldLines
<1>5. OneBatch' /\ ParsedHasLines' /\ CondemnedAfterAllAttempts'
  BY DEF QueueInv, OneBatch, ParsedHasLines, CondemnedAfterAllAttempts
<1> QED
  BY <1>2, <1>3, <1>4, <1>5 DEF QueueInv

LEMMA QueueStepClosing ==
  ASSUME TypeOK, AttemptAccounting, QueueInv, NEW w \in Workers,
         \/ MarkParsed(w) \/ MarkFailed(w) \/ RetryOrGiveUp(w)
         \/ GiveBackAttempt(w) \/ StatusNotUpdated(w)
  PROVE  QueueInv'
<1>0. job[w] \in Estimates
  BY DEF TypeOK, MarkParsed, MarkFailed, RetryOrGiveUp, GiveBackAttempt,
         StatusNotUpdated
<1>1. EndJob(w)
  BY DEF MarkParsed, MarkFailed, RetryOrGiveUp, GiveBackAttempt,
         StatusNotUpdated
<1>2. /\ job' = [job EXCEPT ![w] = NoJob]
      /\ \A v \in Workers \ {w} : /\ pc'[v] = pc[v] /\ tries'[v] = tries[v]
                                  /\ seen'[v] = seen[v]
      /\ pc'[w] \notin {"insert", "mark"}
  BY <1>1 DEF TypeOK, EndJob, EndTick
<1>3. UNCHANGED <<stale, lines>>
  BY DEF MarkParsed, MarkFailed, RetryOrGiveUp, GiveBackAttempt,
         StatusNotUpdated, SetStatus, rowVars
<1>4. \A e \in Estimates : e # job[w] =>
         status'[e] = status[e] /\ attempts'[e] = attempts[e]
  BY <1>0 DEF TypeOK, MarkParsed, MarkFailed, RetryOrGiveUp, GiveBackAttempt,
              StatusNotUpdated, SetStatus, rowVars
<1>5. \A e \in Estimates :
         status'[e] = "parsed" => status[e] = "parsed" \/ lines[e] # {}
  <2>1. CASE MarkParsed(w)
    <3>1. lines[job[w]] # {}
      BY <2>1 DEF MarkParsed, QueueInv, HeldLines
    <3> QED
      BY <1>0, <2>1, <3>1 DEF TypeOK, MarkParsed, SetStatus
  <2>2. CASE ~MarkParsed(w)
    BY <1>0, <2>2 DEF TypeOK, MarkFailed, RetryOrGiveUp, GiveBackAttempt,
                      StatusNotUpdated, SetStatus, rowVars
  <2> QED
    BY <2>1, <2>2
<1>6. \A e \in Estimates : error'[e] \in {"internal", "photo"} =>
         spent'[e] >= MAX_ATTEMPTS
  <2> SUFFICES ASSUME NEW e \in Estimates, error'[e] \in {"internal", "photo"}
               PROVE  spent'[e] >= MAX_ATTEMPTS
    OBVIOUS
  <2>1. spent[e] \in Nat /\ spent'[e] \in {spent[e], spent[e] + 1}
    BY <1>0 DEF TypeOK, MarkParsed, MarkFailed, RetryOrGiveUp,
                GiveBackAttempt, StatusNotUpdated, Spend
  <2>2. CASE error[e] \in {"internal", "photo"}
    BY <2>1, <2>2, QueueAssumption DEF QueueInv, CondemnedAfterAllAttempts
  <2>3. CASE error[e] \notin {"internal", "photo"}
    <3>1. RetryOrGiveUp(w) /\ e = job[w] /\ tries[w] >= MAX_ATTEMPTS
      BY <1>0, <2>3
      DEF TypeOK, MarkParsed, MarkFailed, RetryOrGiveUp, GiveBackAttempt,
          StatusNotUpdated, SetStatus, rowVars
    <3>2. tries[w] = attempts[e] /\ attempts[e] = spent[e] + 1
      BY <1>0, <3>1, OnlyHolder DEF QueueInv, HeldRow, Estimates, NoJob
    <3>3. spent'[e] = spent[e] + 1
      BY <1>0, <3>1 DEF TypeOK, RetryOrGiveUp, Spend
    <3> QED
      BY <2>1, <3>1, <3>2, <3>3
  <2> QED
    BY <2>2, <2>3
<1> QED
  BY <1>2, <1>3, <1>4, <1>5, <1>6, QueueStepEnd

LEMMA QueueStepCrash ==
  ASSUME TypeOK, QueueInv, NEW w \in Workers, Crash(w)
  PROVE  QueueInv'
<1>1. /\ job' = [job EXCEPT ![w] = NoJob]
      /\ UNCHANGED <<status, attempts, error, stale, lines>>
      /\ \A v \in Workers \ {w} : /\ pc'[v] = pc[v] /\ tries'[v] = tries[v]
                                  /\ seen'[v] = seen[v]
      /\ pc'[w] \notin {"insert", "mark"}
  BY DEF TypeOK, Crash, EndTick, rowVars
<1>2. \A e \in Estimates : spent[e] \in Nat /\ spent'[e] \in {spent[e], spent[e] + 1}
  BY DEF TypeOK, Crash, Spend
<1>3. \A e \in Estimates : error'[e] \in {"internal", "photo"} =>
         spent'[e] >= MAX_ATTEMPTS
  BY <1>1, <1>2, QueueAssumption DEF QueueInv, CondemnedAfterAllAttempts
<1> QED
  BY <1>1, <1>3, QueueStepEnd

LEMMA QueueStep ==
  ASSUME ~JobsMayStall
  PROVE  TypeOK /\ AttemptAccounting /\ QueueInv /\ [Next]_vars => QueueInv'
<1> SUFFICES ASSUME TypeOK, AttemptAccounting, QueueInv, [Next]_vars
             PROVE  QueueInv'
  OBVIOUS
<1>1. CASE UNCHANGED vars
  BY <1>1 DEF vars, rowVars, workerVars, QueueInv, OneHolder, HeldRow,
              HeldLines, OneBatch, ParsedHasLines, CondemnedAfterAllAttempts
<1>2. CASE Environment
  BY <1>2, QueueStepIdle
<1>3. ASSUME NEW w \in Workers, RunPending(w)
      PROVE  QueueInv'
  BY <1>3, QueueStepIdle, QueueStepQuiet, QueueStepInsert, QueueStepClosing
  DEF RunPending, RunJob
<1>4. ASSUME NEW w \in Workers, Crash(w)
      PROVE  QueueInv'
  BY <1>4, QueueStepCrash
<1> QED
  BY <1>1, <1>2, <1>3, <1>4 DEF Next

(* The inductive invariant: one holder per row, whose row no claim can     *)
(* reach (claim), whose snapshot of the lines is current (replace_lines).  *)
THEOREM QueueInvariant ==
  ASSUME ~JobsMayStall
  PROVE  Spec => []QueueInv
<1>1. Init => QueueInv
  BY QueueInit
<1>2. TypeOK /\ AttemptAccounting /\ QueueInv /\ [Next]_vars => QueueInv'
  BY QueueStep
<1> QED
  BY <1>1, <1>2, TypeCorrect, AttemptsAccounted, PTL DEF Spec

-----------------------------------------------------------------------------
(* What follows from the invariant.                                        *)

(* Two workers never have the same estimate in hand (claim).               *)
THEOREM JobIsExclusive ==
  ASSUME ~JobsMayStall
  PROVE  Spec => []ExclusiveJob
<1>1. QueueInv => ExclusiveJob
  <2> SUFFICES ASSUME QueueInv, NEW e \in Estimates
               PROVE  Cardinality(Holders(e)) <= 1
    BY DEF ExclusiveJob
  <2>1. \A w, v \in Holders(e) : w = v
    BY DEF QueueInv, OneHolder, Holders, Estimates, NoJob
  <2>2. CASE Holders(e) = {}
    BY <2>2, FS_EmptySet
  <2>3. CASE Holders(e) # {}
    <3>1. PICK w \in Holders(e) : TRUE
      BY <2>3
    <3>2. Holders(e) = {w}
      BY <2>1
    <3> QED
      BY <3>2, FS_Singleton
  <2> QED
    BY <2>2, <2>3
<1> QED
  BY <1>1, QueueInvariant, PTL

(* replace_lines never leaves the lines of two attempts behind.            *)
THEOREM LinesNeverDoubled ==
  ASSUME ~JobsMayStall
  PROVE  Spec => []NoDoubledLines
<1>1. QueueInv => NoDoubledLines
  <2> SUFFICES ASSUME QueueInv, NEW e \in Estimates
               PROVE  Cardinality(lines[e]) <= 1
    BY DEF NoDoubledLines
  <2>0. \A a, b \in lines[e] : a = b
    BY DEF QueueInv, OneBatch
  <2>1. CASE lines[e] = {}
    BY <2>1, FS_EmptySet
  <2>2. CASE lines[e] # {}
    <3>1. PICK a \in lines[e] : TRUE
      BY <2>2
    <3>2. lines[e] = {a}
      BY <2>0
    <3>3. Cardinality({a}) = 1
      BY FS_Singleton
    <3> QED
      BY <3>2, <3>3
  <2> QED
    BY <2>1, <2>2
<1> QED
  BY <1>1, QueueInvariant, PTL

(* An estimate that says parsed has lines: a worker marks it only after    *)
(* its transaction with them was committed (save_lines).                   *)
THEOREM ParsedNeverEmpty ==
  ASSUME ~JobsMayStall
  PROVE  Spec => []ParsedHasLines
<1>1. QueueInv => ParsedHasLines
  BY DEF QueueInv
<1> QED
  BY <1>1, QueueInvariant, PTL

(* An estimate is called unreadable only after all its attempts were used  *)
(* up (retry_or_give_up).                                                  *)
THEOREM VerdictsAreEarned ==
  ASSUME ~JobsMayStall
  PROVE  Spec => []CondemnedAfterAllAttempts
<1>1. QueueInv => CondemnedAfterAllAttempts
  BY DEF QueueInv
<1> QED
  BY <1>1, QueueInvariant, PTL

LEMMA ParsedStays ==
  ASSUME TypeOK, QueueInv, [Next]_vars, NEW e \in Estimates,
         status[e] = "parsed"
  PROVE  status'[e] = "parsed" /\ lines'[e] = lines[e]
<1>1. \A w \in Workers : job[w] # e
  BY DEF QueueInv, HeldRow, Estimates, NoJob
<1>2. CASE UNCHANGED <<status, lines>>
  BY <1>2
<1>3. CASE Environment
  BY <1>3 DEF TypeOK, Environment, Upload, GoStale, Expire
<1>4. ASSUME NEW w \in Workers, GiveUpOnStuck(w)
      PROVE  status'[e] = "parsed" /\ lines'[e] = lines[e]
  BY <1>4 DEF GiveUpOnStuck, Stuck, InProgress
<1>5. ASSUME NEW w \in Workers, NEW d \in Estimates, Claim(w, d)
      PROVE  status'[e] = "parsed" /\ lines'[e] = lines[e]
  BY <1>5 DEF TypeOK, Claim, TakeRow, Claimable
<1>6. ASSUME NEW w \in Workers, NothingClaimed(w) \/ Crash(w)
      PROVE  status'[e] = "parsed" /\ lines'[e] = lines[e]
  BY <1>2, <1>6 DEF NothingClaimed, Crash, rowVars
<1>7. ASSUME NEW w \in Workers, RunJob(w)
      PROVE  status'[e] = "parsed" /\ lines'[e] = lines[e]
  <2>1. job[w] # e
    BY <1>1
  <2>2. CASE MarkParsed(w) \/ MarkFailed(w) \/ RetryOrGiveUp(w)
    BY <2>1, <2>2 DEF TypeOK, MarkParsed, MarkFailed, RetryOrGiveUp, SetStatus
  <2>3. CASE InsertLines(w)
    BY <2>1, <2>3 DEF TypeOK, InsertLines
  <2>4. CASE ~(MarkParsed(w) \/ MarkFailed(w) \/ RetryOrGiveUp(w) \/ InsertLines(w))
    BY <1>2, <1>7, <2>4
    DEF RunJob, ReadOrParseBreaks, ParseWorkbook, PhotoAnswered, ProviderFails,
        DeleteLines, InsertRefused, GiveBackAttempt, StatusNotUpdated, rowVars
  <2> QED
    BY <2>2, <2>3, <2>4
<1>8. CASE UNCHANGED vars
  BY <1>2, <1>8 DEF vars, rowVars
<1> QED
  BY <1>3, <1>4, <1>5, <1>6, <1>7, <1>8 DEF Next, RunPending

(* A parsed estimate stays parsed, with the lines it was marked with.      *)
THEOREM ParsedForGood ==
  ASSUME ~JobsMayStall
  PROVE  Spec => ParsedIsFinal
<1>1. TypeOK /\ QueueInv /\ [Next]_vars =>
        [\A e \in Estimates : status[e] = "parsed" =>
            status'[e] = "parsed" /\ lines'[e] = lines[e]]_vars
  BY ParsedStays
<1> QED
  BY <1>1, TypeCorrect, QueueInvariant, PTL DEF Spec, ParsedIsFinal

-----------------------------------------------------------------------------
(* A reader of the queue sees a parsed estimate whole: the argument is the *)
(* one above, and that what was read of a card is still true when its      *)
(* lines are read.                                                         *)

all == <<vars, read>>

(* Lines are never read before the card, and "parsed", once read, holds.   *)
ReadingInv ==
    read # Nothing =>
        /\ read.id \in Estimates
        /\ read.lines = Unread
        /\ read.card = "parsed" => status[read.id] = "parsed"

IReading == TypeOK /\ AttemptAccounting /\ QueueInv /\ ReadingInv

LEMMA ReadingIsAside == [ReadingNext]_all => [Next]_vars
  BY DEF ReadingNext, all

LEMMA ReadingStep ==
  ASSUME ~JobsMayStall, TypeOK, QueueInv, ReadingInv, [ReadingNext]_all
  PROVE  ReadingInv'
<1>1. CASE read' = read
  <2>1. [Next]_vars
    BY ReadingIsAside
  <2> SUFFICES ASSUME read # Nothing, read.card = "parsed"
               PROVE  status'[read.id] = "parsed"
    BY <1>1 DEF ReadingInv, Nothing
  <2>2. read.id \in Estimates /\ status[read.id] = "parsed"
    BY DEF ReadingInv
  <2> QED
    BY <2>1, <2>2, ParsedStays
<1>2. ASSUME NEW e \in Estimates, Get(e), UNCHANGED vars
      PROVE  ReadingInv'
  <2>1. /\ read'.id = e /\ read'.lines = Unread /\ read'.card = status[e]
        /\ status' = status
    BY <1>2 DEF Get, Nothing, vars, rowVars
  <2> QED
    BY <2>1 DEF ReadingInv, Nothing
<1>3. ASSUME NEW e \in Estimates, LinesOf(e)
      PROVE  ReadingInv'
  BY <1>3 DEF LinesOf, ReadingInv, Nothing
<1> QED
  BY <1>1, <1>2, <1>3 DEF ReadingNext, GetEstimate, all

(* The lines of an estimate that says "parsed" are those of one attempt.   *)
LEMMA ParsedIsWhole ==
  ASSUME QueueInv, NEW e \in Estimates, status[e] = "parsed"
  PROVE  Cardinality(lines[e]) = 1
<1>1. PICK batch \in lines[e] : TRUE
  BY DEF QueueInv, ParsedHasLines
<1>2. lines[e] = {batch}
  BY DEF QueueInv, OneBatch
<1>3. Cardinality({batch}) = 1
  BY FS_Singleton
<1> QED
  BY <1>2, <1>3

(* An answer of get_estimate that says "parsed" carries the lines of one   *)
(* attempt, whatever workers do between its two statements.                *)
THEOREM ShownWhole ==
  ASSUME ~JobsMayStall
  PROVE  ReadingSpec => ParsedIsShownWhole
<1>1. ReadingInit => IReading
  <2> SUFFICES ASSUME ReadingInit PROVE IReading
    OBVIOUS
  <2>1. TypeOK /\ AttemptAccounting /\ QueueInv
    BY TypeInit, AccountingInit, QueueInit DEF ReadingInit
  <2> QED
    BY <2>1 DEF IReading, ReadingInit, ReadingInv
<1>2. IReading /\ [ReadingNext]_all => IReading'
  <2> SUFFICES ASSUME IReading, [ReadingNext]_all PROVE IReading'
    OBVIOUS
  <2>1. [Next]_vars
    BY ReadingIsAside
  <2>2. TypeOK' /\ AttemptAccounting' /\ QueueInv'
    BY <2>1, TypeStep, AccountingStep, QueueStep DEF IReading
  <2> QED
    BY <2>2, ReadingStep DEF IReading
<1>3. IReading /\ [ReadingNext]_all =>
        [read # Nothing /\ read' = Nothing =>
            (AnsweredCard = "parsed" => Cardinality(AnsweredLines) = 1)]_all
  <2> SUFFICES ASSUME IReading, read # Nothing, AnsweredCard = "parsed"
               PROVE  Cardinality(AnsweredLines) = 1
    OBVIOUS
  <2>1. read.id \in Estimates /\ AnsweredLines = lines[read.id]
    BY DEF IReading, ReadingInv, AnsweredLines
  <2>2. status[read.id] = "parsed"
    BY DEF IReading, ReadingInv, AnsweredCard
  <2> QED
    BY <2>1, <2>2, ParsedIsWhole DEF IReading
<1> QED
  BY <1>1, <1>2, <1>3, PTL DEF ReadingSpec, ParsedIsShownWhole, all
=============================================================================

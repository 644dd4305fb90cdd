---------------------------- MODULE EstimateQueue ----------------------------
(***************************************************************************)
(* The queue of estimates: server/src/estimates/worker.rs, the loop of     *)
(* server/src/jobs.rs that wakes it, and replace_lines of                  *)
(* server/src/estimates/mod.rs.                                            *)
(*                                                                         *)
(* The queue is the table "estimates" itself.  A worker claims a row with  *)
(* one short UPDATE and then works outside any transaction, so everything  *)
(* between two statements can be interleaved with other workers, with a    *)
(* crash of the process and with the clock.  Every statement may be        *)
(* refused by the database, and one that was applied may lose its answer.  *)
(*                                                                         *)
(* Time is abstracted to the two ages the code asks about: a row taken     *)
(* more than STALE_AFTER_MINUTES ago is stale, a row created more than     *)
(* GIVE_UP_AFTER_HOURS ago is expired.                                     *)
(***************************************************************************)
EXTENDS Naturals, FiniteSets

CONSTANTS
    Workers,        \* one estimate loop per running server process
    MaxUploads,     \* bound: how many estimates are ever uploaded
    MAX_ATTEMPTS,   \* attempts before an estimate is given up as unreadable
    BATCH,          \* estimates taken in one tick
    JobsMayStall    \* may a live worker keep a job longer than the stale age?

ASSUME QueueAssumption ==
    /\ IsFiniteSet(Workers)
    /\ MaxUploads \in Nat
    /\ MAX_ATTEMPTS \in Nat \ {0}
    /\ BATCH \in Nat \ {0}
    /\ JobsMayStall \in BOOLEAN

Estimates == 1..MaxUploads      \* numbered in the order of created_at
NoJob == 0

(* What the stored file is: a readable workbook, a broken one, a photo.    *)
Kinds    == {"excel", "broken", "photo"}
Statuses == {"absent", "uploaded", "parsing", "parsed", "failed"}

(* error_key: nothing, "error-estimate-unreadable" after internal errors,  *)
(* a reason of the parser, "...-photo-unreadable", "error-estimate-later". *)
Errors   == {"none", "internal", "file", "photo", "later"}

(* Where a worker is.  "tick" is the sleep before run_pending.             *)
Positions == {"tick", "claim", "parse", "delete", "insert", "mark",
              "reject", "internal", "badAnswer", "giveBack"}

VARIABLES
    kind, status, attempts, error,  \* columns of estimates
    stale, expired,                 \* the two ages of a row
    lines,                          \* estimate_lines: the batches stored
    pc, job, tries, done, seen,     \* a worker's place and locals
    spent,                          \* history: attempts never given back
    judged                          \* history: answers read for each photo

rowVars    == <<kind, status, attempts, error, stale, expired, lines>>
workerVars == <<pc, job, tries, done, seen>>
vars       == <<rowVars, workerVars, spent, judged>>

-----------------------------------------------------------------------------
Batches == Workers \X (0..MAX_ATTEMPTS)   \* rows of one INSERT of replace_lines

TypeOK ==
    /\ kind \in [Estimates -> Kinds]
    /\ status \in [Estimates -> Statuses]
    /\ attempts \in [Estimates -> 0..MAX_ATTEMPTS]
    /\ error \in [Estimates -> Errors]
    /\ stale \in [Estimates -> BOOLEAN]
    /\ expired \in [Estimates -> BOOLEAN]
    /\ lines \in [Estimates -> SUBSET Batches]
    /\ pc \in [Workers -> Positions]
    /\ job \in [Workers -> Estimates \cup {NoJob}]
    /\ tries \in [Workers -> 0..MAX_ATTEMPTS]
    /\ done \in [Workers -> 0..(BATCH - 1)]
    /\ seen \in [Workers -> SUBSET Batches]
    /\ spent \in [Estimates -> Nat]
    /\ judged \in [Estimates -> Nat]
    /\ \A w \in Workers : job[w] = NoJob <=> pc[w] \in {"tick", "claim"}

Init ==
    /\ kind = [e \in Estimates |-> "excel"]
    /\ status = [e \in Estimates |-> "absent"]
    /\ attempts = [e \in Estimates |-> 0]
    /\ error = [e \in Estimates |-> "none"]
    /\ stale = [e \in Estimates |-> FALSE]
    /\ expired = [e \in Estimates |-> FALSE]
    /\ lines = [e \in Estimates |-> {}]
    /\ pc = [w \in Workers |-> "tick"]
    /\ job = [w \in Workers |-> NoJob]
    /\ tries = [w \in Workers |-> 0]
    /\ done = [w \in Workers |-> 0]
    /\ seen = [w \in Workers |-> {}]
    /\ spent = [e \in Estimates |-> 0]
    /\ judged = [e \in Estimates |-> 0]

InProgress(e) == status[e] \in {"uploaded", "parsing"}
Settled(e)    == status[e] \in {"parsed", "failed"}
Holders(e)    == {w \in Workers : job[w] = e}

-----------------------------------------------------------------------------
(* Uploads and the clock.                                                  *)

(* estimates::create inserts a row in status 'uploaded'.                   *)
Upload(e, k) ==
    /\ status[e] = "absent"
    /\ \A d \in Estimates : d < e => status[d] # "absent"
    /\ kind' = [kind EXCEPT ![e] = k]
    /\ status' = [status EXCEPT ![e] = "uploaded"]
    /\ UNCHANGED <<attempts, error, stale, expired, lines, workerVars, spent,
                   judged>>

(* parsing_started_at falls behind by STALE_AFTER_MINUTES.                 *)
GoStale(e) ==
    /\ status[e] = "parsing" /\ ~stale[e]
    /\ JobsMayStall \/ Holders(e) = {}
    /\ stale' = [stale EXCEPT ![e] = TRUE]
    /\ UNCHANGED <<kind, status, attempts, error, expired, lines, workerVars,
                   spent, judged>>

(* created_at falls behind by GIVE_UP_AFTER_HOURS, older rows first.       *)
Expire(e) ==
    /\ InProgress(e) /\ ~expired[e]
    /\ \A d \in Estimates : d < e => Settled(d) \/ expired[d]
    /\ expired' = [expired EXCEPT ![e] = TRUE]
    /\ UNCHANGED <<kind, status, attempts, error, stale, lines, workerVars,
                   spent, judged>>

-----------------------------------------------------------------------------
(* A tick: give_up_on_stuck, then claims until the batch is full.          *)

(* Mutants: any old row is closed; only rows still 'uploaded' are.         *)
Stuck_AnyStatus(e)    == status[e] # "absent" /\ expired[e]
Stuck_UploadedOnly(e) == status[e] = "uploaded" /\ expired[e]

Stuck(e) == InProgress(e) /\ expired[e]

GiveUpOnStuck(w) ==
    /\ pc[w] = "tick"
    /\ status' = [e \in Estimates |-> IF Stuck(e) THEN "failed" ELSE status[e]]
    /\ error' = [e \in Estimates |-> IF Stuck(e) THEN "later" ELSE error[e]]
    /\ \/ pc' = [pc EXCEPT ![w] = "claim"]
       \/ pc' = pc                       \* applied, but its answer is lost
    /\ UNCHANGED <<kind, attempts, stale, expired, lines, job, tries, done,
                   seen, spent, judged>>

(* Mutant: the cap on attempts is off by one.                              *)
Claimable_OneMore(e) ==
    /\ attempts[e] <= MAX_ATTEMPTS
    /\ status[e] = "uploaded" \/ (status[e] = "parsing" /\ stale[e])

Claimable(e) ==
    /\ attempts[e] < MAX_ATTEMPTS
    /\ status[e] = "uploaded" \/ (status[e] = "parsing" /\ stale[e])

(* SKIP LOCKED: a row another worker is changing at this moment.           *)
MayBeLocked(w, e) ==
    \E v \in Workers \ {w} :
        job[v] = e \/ pc[v] = "claim" \/ (pc[v] = "tick" /\ Stuck(e))

(* Mutant: parsing_started_at is not renewed.                              *)
TakeRow_SameStart(e) ==
    /\ Claimable(e)
    /\ status' = [status EXCEPT ![e] = "parsing"]
    /\ attempts' = [attempts EXCEPT ![e] = @ + 1]
    /\ UNCHANGED <<kind, error, stale, expired, lines, judged>>

(* Mutant: an attempt that takes a stale row over is not counted.          *)
TakeRow_FreeRetry(e) ==
    /\ Claimable(e)
    /\ status' = [status EXCEPT ![e] = "parsing"]
    /\ attempts' = [attempts EXCEPT ![e] = IF stale[e] THEN @ ELSE @ + 1]
    /\ stale' = [stale EXCEPT ![e] = FALSE]
    /\ UNCHANGED <<kind, error, expired, lines, judged>>

TakeRow(e) ==
    /\ Claimable(e)
    /\ status' = [status EXCEPT ![e] = "parsing"]
    /\ attempts' = [attempts EXCEPT ![e] = @ + 1]
    /\ stale' = [stale EXCEPT ![e] = FALSE]
    /\ UNCHANGED <<kind, error, expired, lines, judged>>

EndTick(w) ==
    /\ pc' = [pc EXCEPT ![w] = "tick"]
    /\ done' = [done EXCEPT ![w] = 0]

(* The oldest claimable row that is not locked is taken.                   *)
Claim(w, e) ==
    /\ pc[w] = "claim"
    /\ \A d \in Estimates : d < e /\ Claimable(d) => MayBeLocked(w, d)
    /\ TakeRow(e)
    /\ \/ /\ pc' = [pc EXCEPT ![w] = "parse"]
          /\ job' = [job EXCEPT ![w] = e]
          /\ tries' = [tries EXCEPT ![w] = attempts[e] + 1]
          /\ UNCHANGED <<done, seen, spent>>
       \/ /\ EndTick(w)                  \* applied, but its answer is lost
          /\ spent' = [spent EXCEPT ![e] = @ + 1]
          /\ UNCHANGED <<job, tries, seen>>

(* claim returned None, or its error ended run_pending.                    *)
NothingClaimed(w) ==
    /\ pc[w] = "claim"
    /\ EndTick(w)
    /\ UNCHANGED <<rowVars, job, tries, seen, spent, judged>>

-----------------------------------------------------------------------------
(* The job: run_one, run_photo, save_lines.                                *)

GoTo(w, p) ==
    /\ pc' = [pc EXCEPT ![w] = p]
    /\ UNCHANGED <<job, tries, done>>

(* Back in run_pending: a photo is the last job of its tick.               *)
EndJob(w) ==
    /\ job' = [job EXCEPT ![w] = NoJob]
    /\ tries' = [tries EXCEPT ![w] = 0]
    /\ seen' = [seen EXCEPT ![w] = {}]
    /\ IF kind[job[w]] = "photo" \/ done[w] + 1 = BATCH
       THEN EndTick(w)
       ELSE /\ pc' = [pc EXCEPT ![w] = "claim"]
            /\ done' = [done EXCEPT ![w] = @ + 1]

(* The attempt the worker holds is used up for good.                       *)
Spend(w) == spent' = [spent EXCEPT ![job[w]] = @ + 1]

(* The file cannot be read, or the blocking parse broke off.               *)
ReadOrParseBreaks(w) ==
    /\ pc[w] = "parse"
    /\ GoTo(w, "internal")
    /\ UNCHANGED <<rowVars, seen, spent, judged>>

(* Mutant: the estimate is marked before its lines are stored.             *)
ParseWorkbook_MarkFirst(w) ==
    /\ pc[w] = "parse"
    /\ \/ kind[job[w]] = "excel"  /\ GoTo(w, "mark")
       \/ kind[job[w]] = "broken" /\ GoTo(w, "reject")
    /\ UNCHANGED <<rowVars, seen, spent, judged>>

(* parse::parse is a function of the file: it succeeds or it gives a       *)
(* reason, the same on every attempt.                                      *)
ParseWorkbook(w) ==
    /\ pc[w] = "parse"
    /\ \/ kind[job[w]] = "excel"  /\ GoTo(w, "delete")
       \/ kind[job[w]] = "broken" /\ GoTo(w, "reject")
    /\ UNCHANGED <<rowVars, seen, spent, judged>>

(* Mutant: a bad answer is treated like a provider failure.                *)
PhotoAnswered_GiveBack(w) ==
    /\ pc[w] = "parse" /\ kind[job[w]] = "photo"
    /\ judged' = [judged EXCEPT ![job[w]] = @ + 1]
    /\ \E p \in {"delete", "giveBack"} : GoTo(w, p)
    /\ UNCHANGED <<rowVars, seen, spent>>

(* photo::parse when complete() hands it an answer: lines, or BadAnswer.   *)
PhotoAnswered(w) ==
    /\ pc[w] = "parse" /\ kind[job[w]] = "photo"
    /\ judged' = [judged EXCEPT ![job[w]] = @ + 1]
    /\ \E p \in {"delete", "badAnswer"} : GoTo(w, p)
    /\ UNCHANGED <<rowVars, seen, spent>>

(* photo::parse when it ends in PhotoError::Provider: the call was not     *)
(* let out, or failed.  That includes calls the provider may well bill, one*)
(* cut off by its timeout, one whose answer is no JSON or has no content.  *)
ProviderFails(w) ==
    /\ pc[w] = "parse" /\ kind[job[w]] = "photo"
    /\ GoTo(w, "giveBack")
    /\ UNCHANGED <<rowVars, seen, spent, judged>>

(* Mutant: the old lines are not deleted.                                  *)
DeleteLines_Skipped(w) ==
    /\ pc[w] = "delete"
    /\ GoTo(w, "insert")
    /\ UNCHANGED <<rowVars, seen, spent, judged>>

(* replace_lines: the DELETE takes the rows its snapshot shows ...         *)
DeleteLines(w) ==
    /\ pc[w] = "delete"
    /\ \/ GoTo(w, "insert") /\ seen' = [seen EXCEPT ![w] = lines[job[w]]]
       \/ GoTo(w, "internal") /\ UNCHANGED seen
    /\ UNCHANGED <<rowVars, spent, judged>>

(* ... and the COMMIT makes the DELETE and the INSERT visible at once.     *)
InsertLines(w) ==
    /\ pc[w] = "insert"
    /\ lines' = [lines EXCEPT ![job[w]] =
                     (@ \ seen[w]) \cup {<<w, tries[w]>>}]
    /\ \E p \in {"mark", "internal"} : GoTo(w, p)    \* the answer may be lost
    /\ seen' = [seen EXCEPT ![w] = {}]
    /\ UNCHANGED <<kind, status, attempts, error, stale, expired, spent,
                   judged>>

(* Mutant: the error of replace_lines is ignored.                          *)
InsertRefused_Ignored(w) ==
    /\ pc[w] = "insert"
    /\ GoTo(w, "mark")
    /\ seen' = [seen EXCEPT ![w] = {}]
    /\ UNCHANGED <<rowVars, spent, judged>>

(* The INSERT or the COMMIT is refused: the transaction is rolled back.    *)
InsertRefused(w) ==
    /\ pc[w] = "insert"
    /\ GoTo(w, "internal")
    /\ seen' = [seen EXCEPT ![w] = {}]
    /\ UNCHANGED <<rowVars, spent, judged>>

(* An UPDATE of status and error_key by id, whatever the row says by now.  *)
SetStatus(w, s, err) ==
    /\ status' = [status EXCEPT ![job[w]] = s]
    /\ error' = [error EXCEPT ![job[w]] = err]
    /\ UNCHANGED <<kind, attempts, stale, expired, lines>>

MarkParsed(w) ==
    /\ pc[w] = "mark"
    /\ SetStatus(w, "parsed", "none")
    /\ Spend(w) /\ EndJob(w)
    /\ UNCHANGED judged

MarkFailed(w) ==
    /\ pc[w] = "reject"
    /\ SetStatus(w, "failed", "file")
    /\ Spend(w) /\ EndJob(w)
    /\ UNCHANGED judged

(* Mutant: the last attempt is never made.                                 *)
RetryOrGiveUp_Early(w) ==
    /\ pc[w] \in {"internal", "badAnswer"}
    /\ IF tries[w] + 1 >= MAX_ATTEMPTS
       THEN SetStatus(w, "failed",
                      IF pc[w] = "badAnswer" THEN "photo" ELSE "internal")
       ELSE SetStatus(w, "uploaded", error[job[w]])
    /\ Spend(w) /\ EndJob(w)
    /\ UNCHANGED judged

(* retry_or_give_up decides by the attempts it read when it claimed, and   *)
(* leaves error_key alone when it puts the row back in the queue.          *)
RetryOrGiveUp(w) ==
    /\ pc[w] \in {"internal", "badAnswer"}
    /\ IF tries[w] >= MAX_ATTEMPTS
       THEN SetStatus(w, "failed",
                      IF pc[w] = "badAnswer" THEN "photo" ELSE "internal")
       ELSE SetStatus(w, "uploaded", error[job[w]])
    /\ Spend(w) /\ EndJob(w)
    /\ UNCHANGED judged

(* give_back_attempt: the row stays 'parsing' until it is stale.           *)
GiveBackAttempt(w) ==
    /\ pc[w] = "giveBack"
    /\ attempts' = [attempts EXCEPT ![job[w]] = IF @ > 0 THEN @ - 1 ELSE 0]
    /\ EndJob(w)
    /\ UNCHANGED <<kind, status, error, stale, expired, lines, spent, judged>>

(* The closing statement is refused: it is only logged, the row stays.     *)
StatusNotUpdated(w) ==
    /\ pc[w] \in {"mark", "reject", "internal", "badAnswer", "giveBack"}
    /\ Spend(w) /\ EndJob(w)
    /\ UNCHANGED <<rowVars, judged>>

(* The process is killed and started again: locals and the open            *)
(* transaction are gone, the claimed row stays 'parsing'.                  *)
Crash(w) ==
    /\ pc[w] # "tick"
    /\ EndTick(w)
    /\ job' = [job EXCEPT ![w] = NoJob]
    /\ tries' = [tries EXCEPT ![w] = 0]
    /\ seen' = [seen EXCEPT ![w] = {}]
    /\ IF job[w] = NoJob THEN UNCHANGED spent ELSE Spend(w)
    /\ UNCHANGED <<rowVars, judged>>

-----------------------------------------------------------------------------
RunJob(w) ==
    \/ ReadOrParseBreaks(w) \/ ParseWorkbook(w)
    \/ PhotoAnswered(w) \/ ProviderFails(w)
    \/ DeleteLines(w) \/ InsertLines(w) \/ InsertRefused(w)
    \/ MarkParsed(w) \/ MarkFailed(w) \/ RetryOrGiveUp(w)
    \/ GiveBackAttempt(w) \/ StatusNotUpdated(w)

RunPending(w) ==
    \/ GiveUpOnStuck(w)
    \/ \E e \in Estimates : Claim(w, e)
    \/ NothingClaimed(w)
    \/ RunJob(w)

Environment ==
    \E e \in Estimates :
        \/ \E k \in Kinds : Upload(e, k)
        \/ GoStale(e)
        \/ Expire(e)

Next ==
    \/ Environment
    \/ \E w \in Workers : RunPending(w) \/ Crash(w)

Spec == Init /\ [][Next]_vars

(* The loop keeps ticking, every call in it returns, and the database does *)
(* not refuse give_up_on_stuck for ever (a refusal leaves the worker at    *)
(* "tick"); a day passes.  Nothing makes a parse or a claim succeed.       *)
Fairness ==
    /\ \A w \in Workers : WF_vars(RunPending(w))
    /\ \A e \in Estimates : WF_vars(Expire(e))

FairSpec == Spec /\ Fairness

-----------------------------------------------------------------------------
(* Properties.                                                             *)

(* The column attempts is exactly the attempts that were used up plus the  *)
(* ones in hand: whatever crashes, refused statements, lost answers and    *)
(* overtaken workers do, claim and give_back_attempt stay in balance, so   *)
(* a provider outage costs an estimate nothing and a crash costs one.      *)
AttemptAccounting ==
    \A e \in Estimates : attempts[e] = spent[e] + Cardinality(Holders(e))

(* An answer that was read is paid for with an attempt: no photo has more  *)
(* than MAX_ATTEMPTS answers judged, although every attempt may be crashed,*)
(* retried, overtaken, or given back by a later call that fails.  Calls    *)
(* that end in PhotoError::Provider are not among them, though some are    *)
(* billed: only the daily ceiling (LlmBudget) bounds those.                *)
JudgedBounded == \A e \in Estimates : judged[e] <= MAX_ATTEMPTS

(* FOR UPDATE SKIP LOCKED and the stale age keep a job with one worker.    *)
ExclusiveJob == \A e \in Estimates : Cardinality(Holders(e)) <= 1

(* "Parsed" is the end: no overtaken worker, late retry or give-up changes *)
(* the verdict the user was shown, or the lines under it.                  *)
ParsedIsFinal ==
    [][\A e \in Estimates : status[e] = "parsed" =>
            status'[e] = "parsed" /\ lines'[e] = lines[e]]_vars

(* replace_lines: a repeated parse never leaves the lines of two attempts. *)
NoDoubledLines == \A e \in Estimates : Cardinality(lines[e]) <= 1

(* A parsed estimate shows the lines of one attempt, never none.           *)
ParsedHasLines == \A e \in Estimates : status[e] = "parsed" => lines[e] # {}

(* An estimate is called unreadable over internal errors or bad answers    *)
(* only after MAX_ATTEMPTS attempts were really used up: attempts given    *)
(* back after a provider failure are not counted against it.               *)
CondemnedAfterAllAttempts ==
    \A e \in Estimates :
        error[e] \in {"internal", "photo"} => spent[e] >= MAX_ATTEMPTS

(* Every estimate is parsed or failed in the end and stays so: the user    *)
(* never watches "parsing" for ever, whatever keeps crashing or refusing.  *)
SettlesForGood ==
    \A e \in Estimates : status[e] # "absent" ~> []Settled(e)

-----------------------------------------------------------------------------
(* What the user is shown of the table: unfinished work is not shown.      *)

Lifecycle == INSTANCE EstimateLifecycle WITH
    Results <- Batches,
    Reasons <- Errors \ {"none"},
    verdict <- [e \in Estimates |->
                    IF InProgress(e) THEN "waiting" ELSE status[e]],
    result  <- [e \in Estimates |->
                    IF status[e] = "parsed" THEN lines[e] ELSE {}],
    reason  <- error

(* With one worker the queue implements what the service promises: every   *)
(* estimate gets one verdict, with one attempt's lines or one reason, and  *)
(* keeps it (EstimateRow::into_estimate shows these columns).              *)
ImplementsLifecycle == Lifecycle!FairSpec

-----------------------------------------------------------------------------
(* What the proofs in EstimateQueueProofs keep from step to step.          *)

(* Holders whose attempt will not be given back any more.                  *)
Charged(e) == {w \in Workers : job[w] = e /\ pc[w] \notin {"parse", "giveBack"}}

JudgedInv ==
    \A e \in Estimates : judged[e] <= spent[e] + Cardinality(Charged(e))

(* From here on for jobs that do not stall.                                *)
OneHolder ==
    \A w, v \in Workers : job[w] # NoJob /\ job[w] = job[v] => w = v

(* A held row is out of reach of every claim, and nobody else counts on it.*)
HeldRow ==
    \A w \in Workers : job[w] # NoJob =>
        /\ tries[w] = attempts[job[w]]
        /\ \/ status[job[w]] = "parsing" /\ ~stale[job[w]]
           \/ status[job[w]] = "failed"

HeldLines ==
    \A w \in Workers :
        /\ pc[w] = "insert" => seen[w] = lines[job[w]]
        /\ pc[w] = "mark" => lines[job[w]] # {}

OneBatch == \A e \in Estimates : \A a, b \in lines[e] : a = b

QueueInv ==
    /\ OneHolder
    /\ HeldRow
    /\ HeldLines
    /\ OneBatch
    /\ ParsedHasLines
    /\ CondemnedAfterAllAttempts

(* With a single worker, whether its jobs stall or not, the row in hand is *)
(* nobody else's, and nothing failed or parsed is ever in hand.            *)
SoloInv ==
    /\ \A w \in Workers : job[w] # NoJob => status[job[w]] = "parsing"
    /\ \A e \in Estimates : status[e] # "failed" => error[e] = "none"
    /\ HeldLines
    /\ OneBatch
=============================================================================

------------------------------ MODULE LlmBudget -----------------------------
(***************************************************************************)
(* The calls of the language model and their daily ceiling:                *)
(* server/src/core/llm.rs.  complete() reads what today's rows of          *)
(* llm_calls add up to, calls the provider for up to a minute, and records *)
(* what the answer says it cost, in a statement of its own.  Calls of      *)
(* several processes overlap, midnight may fall into one, and what the     *)
(* provider bills is not always what gets recorded.                        *)
(***************************************************************************)
EXTENDS Integers, FiniteSets

CONSTANTS
    Callers,    \* processes; each parses one photo at a time
    Cap,        \* DAILY_TOKENS_CAP
    MaxCost,    \* bound on what one call costs
    MaxUnknown, \* bound on the tokens of a day that get lost
    KeepDays    \* KEEP_CALLS_DAYS

ASSUME BudgetAssumption ==
    /\ IsFiniteSet(Callers) /\ Callers # {}
    /\ Cap \in Nat \ {0} /\ MaxCost \in Nat /\ MaxUnknown \in Nat /\ KeepDays \in Nat \ {0}

Ages == 0..(KeepDays + 1)

VARIABLES
    spent,      \* sums of llm_calls by the age of the rows in days; of rows
                \* older than KeepDays only the largest sum of a day
    call,       \* "idle", "allowed" (the sum was below the ceiling), "answered";
                \* "late": the answer came before midnight
    usage,      \* tokens an answer says it cost
    billed,     \* history: tokens the provider billed today
    unknown     \* history: those of them that no row will tell of

vars == <<spent, call, usage, billed, unknown>>

TypeOK ==
    /\ spent \in [Ages -> Nat]
    /\ call \in [Callers -> {"idle", "allowed", "answered", "late"}]
    /\ usage \in [Callers -> -1..MaxCost]
    /\ billed \in Nat /\ unknown \in Nat

Init ==
    /\ spent = [d \in Ages |-> 0]
    /\ call = [w \in Callers |-> "idle"]
    /\ usage = [w \in Callers |-> 0]
    /\ billed = 0 /\ unknown = 0

(* Mutant: a sum that has reached the ceiling still lets calls out.        *)
WithinCap_AtCap == spent[0] <= Cap
WithinCap == spent[0] < Cap

(* The sum is read, or the statement fails; a caller that is refused has   *)
(* spent nothing, and its photo goes back to the queue.                    *)
SpentToday(w) ==
    /\ call[w] = "idle" /\ WithinCap
    /\ call' = [call EXCEPT ![w] = "allowed"]
    /\ UNCHANGED <<spent, usage, billed, unknown>>

(* The provider answers; it may leave the usage out, or send nonsense.     *)
Answered(w) == \E cost \in 0..MaxCost, said \in -1..MaxCost :
    /\ call[w] = "allowed" /\ said \in {cost, 0, -1}
    /\ call' = [call EXCEPT ![w] = "answered"]
    /\ usage' = [usage EXCEPT ![w] = said]
    /\ billed' = billed + cost
    /\ unknown' = IF said = cost THEN unknown ELSE unknown + cost
    /\ unknown' <= MaxUnknown
    /\ UNCHANGED spent

(* No answer within the time, not a 2xx, or nothing that can be read: what *)
(* it cost is recorded nowhere.                                            *)
Unanswered(w) == \E cost \in 0..MaxCost :
    /\ call[w] = "allowed"
    /\ call' = [call EXCEPT ![w] = "idle"]
    /\ billed' = billed + cost
    /\ unknown' = unknown + cost
    /\ unknown' <= MaxUnknown
    /\ UNCHANGED <<spent, usage>>

Recorded(w) == IF usage[w] < 0 THEN 0 ELSE usage[w]

Record(w) ==
    /\ call[w] \in {"answered", "late"}
    /\ call' = [call EXCEPT ![w] = "idle"]
    /\ usage' = [usage EXCEPT ![w] = 0]
    /\ spent' = [spent EXCEPT ![0] = @ + Recorded(w)]
    /\ UNCHANGED <<billed, unknown>>

(* The INSERT fails, and the answer is used all the same; or the process   *)
(* ends first.                                                             *)
RecordFails(w) ==
    /\ call[w] \in {"answered", "late"}
    /\ call' = [call EXCEPT ![w] = "idle"]
    /\ usage' = [usage EXCEPT ![w] = 0]
    /\ unknown' = unknown + (IF call[w] = "late" THEN 0 ELSE Recorded(w))
    /\ unknown' <= MaxUnknown
    /\ UNCHANGED <<spent, billed>>

Midnight ==
    /\ spent' = [d \in Ages |-> IF d = 0 THEN 0
                                ELSE IF d <= KeepDays THEN spent[d - 1]
                                ELSE IF spent[d] > spent[d - 1] THEN spent[d]
                                ELSE spent[d - 1]]
    /\ call' = [w \in Callers |-> IF call[w] = "answered" THEN "late" ELSE call[w]]
    /\ billed' = 0 /\ unknown' = 0
    /\ UNCHANGED usage

(* Mutant: the sweep keeps no days.                                        *)
Swept_Today(d) == TRUE
Swept(d) == d > KeepDays

CleanupOldCalls ==
    /\ spent' = [d \in Ages |-> IF Swept(d) THEN 0 ELSE spent[d]]
    /\ UNCHANGED <<call, usage, billed, unknown>>

Next ==
    \/ \E w \in Callers :
          SpentToday(w) \/ Answered(w) \/ Unanswered(w) \/ Record(w) \/ RecordFails(w)
    \/ Midnight \/ CleanupOldCalls

Spec == Init /\ [][Next]_vars

-----------------------------------------------------------------------------
(* Properties.  The ceiling is looked at before a call and filled after    *)
(* it, so it can be passed by what the calls under way cost.               *)

Slack == Cardinality(Callers) * MaxCost

(* No day's rows go past the ceiling by more than one call of each caller, *)
(* though calls begun before midnight are recorded after it.               *)
RecordedBounded == spent[0] <= Cap - 1 + Slack

(* The header of llm.rs: no more than the ceiling is spent in a day.  What *)
(* the provider bills stays within it but for the calls under way and the  *)
(* tokens that went unrecorded.                                            *)
BilledBounded == billed <= Cap - 1 + Slack + unknown
=============================================================================

---------------------------- MODULE EstimateIntake ---------------------------
(***************************************************************************)
(* The intake of estimates: upload_estimate of server/src/estimates/       *)
(* http.rs, create of estimates/mod.rs and core/storage.rs.                *)
(*                                                                         *)
(* An upload touches two stores that share no transaction: the file goes   *)
(* to the disk, the card to Postgres.  Uploads run concurrently; the card  *)
(* is inserted under an advisory lock of its owner, on one connection of a *)
(* small pool.  An upload may be cut at any point, by UPLOAD_TIMEOUT, by a *)
(* client that goes away or by a kill of the process; its transaction is   *)
(* then rolled back and nothing removes its file.  A COMMIT may be applied *)
(* and its answer lost, by a connection that breaks under it.              *)
(***************************************************************************)
EXTENDS Naturals, FiniteSets

CONSTANTS
    Requests,           \* uploads; each makes its own id (Uuid::new_v4)
    Owners,
    OwnerOf,            \* whose upload a request is
    MAX_PER_USER,       \* cards one owner may have
    PoolSize            \* connections of the pool

ASSUME IntakeAssumption ==
    /\ IsFiniteSet(Requests)
    /\ OwnerOf \in [Requests -> Owners]
    /\ MAX_PER_USER \in Nat \ {0}
    /\ PoolSize \in Nat \ {0}

(* Places in the handler; from "lock" to "commit" inside create's          *)
(* transaction, from "count" on with the owner's lock.                     *)
Places  == {"new", "body", "open", "write", "begin", "lock", "count",
            "insert", "commit", "remove", "done"}
Files   == {"none", "partial", "whole"}
Answers == {"none", "created", "limit", "invalid", "error", "cut"}

VARIABLES
    cards,      \* committed rows of estimates
    file,       \* what the disk has under the request's name
    pc,         \* place of each request in upload_estimate
    answer      \* what the client is told

vars == <<cards, file, pc, answer>>

TypeOK ==
    /\ cards \subseteq Requests
    /\ file \in [Requests -> Files]
    /\ pc \in [Requests -> Places]
    /\ answer \in [Requests -> Answers]

Init ==
    /\ cards = {}
    /\ file = [r \in Requests |-> "none"]
    /\ pc = [r \in Requests |-> "new"]
    /\ answer = [r \in Requests |-> "none"]

CardsOf(o)  == {r \in cards : OwnerOf[r] = o}
HasLock(r)  == pc[r] \in {"count", "insert", "commit"}
InTx(r)     == pc[r] = "lock" \/ HasLock(r)
LockFree(o) == \A r \in Requests : OwnerOf[r] = o => ~HasLock(r)
ConnectionFree == Cardinality({r \in Requests : InTx(r)}) < PoolSize

GoTo(r, p) == pc' = [pc EXCEPT ![r] = p]
Tell(r, a) == answer' = [answer EXCEPT ![r] = a]
Finish(r, a) == GoTo(r, "done") /\ Tell(r, a)

-----------------------------------------------------------------------------
(* The limit is reached already: nothing is read or written.  The count    *)
(* itself may be refused.                                                  *)
EarlyCheck(r) ==
    /\ pc[r] = "new"
    /\ \/ IF Cardinality(CardsOf(OwnerOf[r])) >= MAX_PER_USER
          THEN Finish(r, "limit")
          ELSE GoTo(r, "body") /\ UNCHANGED answer
       \/ Finish(r, "error")
    /\ UNCHANGED <<cards, file>>

(* No file, a wrong format, a photo that is not allowed, empty, too large; *)
(* or the user's row, read for a photo, could not be had.                  *)
Refuse(r) ==
    /\ pc[r] = "body"
    /\ Finish(r, "invalid") \/ Finish(r, "error")
    /\ UNCHANGED <<cards, file>>

TakeBody(r) ==
    /\ pc[r] = "body"
    /\ GoTo(r, "open")
    /\ UNCHANGED <<cards, file, answer>>

(* storage::save: create, write, flush.                                    *)
OpenFile(r) ==
    /\ pc[r] = "open"
    /\ \/ /\ GoTo(r, "write") /\ UNCHANGED answer
          /\ file' = [file EXCEPT ![r] = "partial"]
       \/ Finish(r, "error") /\ UNCHANGED file
    /\ UNCHANGED cards

(* Mutant: the error of the write is ignored.                              *)
WriteFile_Ignored(r) ==
    /\ pc[r] = "write"
    /\ GoTo(r, "begin")
    /\ file' \in {file, [file EXCEPT ![r] = "whole"]}
    /\ UNCHANGED <<cards, answer>>

WriteFile(r) ==
    /\ pc[r] = "write"
    /\ \/ /\ GoTo(r, "begin") /\ UNCHANGED answer
          /\ file' = [file EXCEPT ![r] = "whole"]
       \/ Finish(r, "error") /\ UNCHANGED file    \* the early return of `?`
    /\ UNCHANGED cards

(* An error or the limit inside create: the transaction is dropped, the    *)
(* handler goes on to remove the file it saved.                            *)
Undo(r, a) == GoTo(r, "remove") /\ Tell(r, a)

Begin(r) ==
    /\ pc[r] = "begin" /\ ConnectionFree
    /\ GoTo(r, "lock")
    /\ UNCHANGED <<cards, file, answer>>

(* Mutant: nobody waits for the lock.                                      *)
Lock_Skipped(r) ==
    /\ pc[r] = "lock"
    /\ GoTo(r, "count")
    /\ UNCHANGED <<cards, file, answer>>

(* pg_advisory_xact_lock.                                                  *)
Lock(r) ==
    /\ pc[r] = "lock" /\ LockFree(OwnerOf[r])
    /\ GoTo(r, "count")
    /\ UNCHANGED <<cards, file, answer>>

(* Mutant: the connection is asked for a second time.                      *)
Count_OwnConnection(r) ==
    /\ pc[r] = "count" /\ ConnectionFree
    /\ IF Cardinality(CardsOf(OwnerOf[r])) >= MAX_PER_USER
       THEN Undo(r, "limit")
       ELSE GoTo(r, "insert") /\ UNCHANGED answer
    /\ UNCHANGED <<cards, file>>

(* Mutant: uploads that have not come to their end are counted too.        *)
Count_Unfinished(r) ==
    /\ pc[r] = "count"
    /\ IF Cardinality({q \in Requests : OwnerOf[q] = OwnerOf[r] /\ q # r
                          /\ (q \in cards \/ InTx(q))}) >= MAX_PER_USER
       THEN Undo(r, "limit")
       ELSE GoTo(r, "insert") /\ UNCHANGED answer
    /\ UNCHANGED <<cards, file>>

(* The count is a statement of its own after the lock: it sees every card  *)
(* committed by then, and no uncommitted one.                              *)
Count(r) ==
    /\ pc[r] = "count"
    /\ IF Cardinality(CardsOf(OwnerOf[r])) >= MAX_PER_USER
       THEN Undo(r, "limit")
       ELSE GoTo(r, "insert") /\ UNCHANGED answer
    /\ UNCHANGED <<cards, file>>

Insert(r) ==
    /\ pc[r] = "insert"
    /\ GoTo(r, "commit")
    /\ UNCHANGED <<cards, file, answer>>

(* The lock goes with the transaction.  If the answer is lost, `?` makes   *)
(* an error of a card that is there.                                       *)
Commit(r) ==
    /\ pc[r] = "commit"
    /\ cards' = cards \cup {r}
    /\ \/ Finish(r, "created")
       \/ Undo(r, "error")
    /\ UNCHANGED file

(* A statement of create fails, or no connection is had in time.           *)
CreateFails(r) ==
    /\ pc[r] = "begin" \/ InTx(r)
    /\ Undo(r, "error")
    /\ UNCHANGED <<cards, file>>

(* storage::remove does its best: an error is only logged.                 *)
Remove(r) ==
    /\ pc[r] = "remove"
    /\ GoTo(r, "done")
    /\ \E f \in {"none", file[r]} : file' = [file EXCEPT ![r] = f]
    /\ UNCHANGED <<cards, answer>>

(* The future of the handler is dropped.  A COMMIT under way is either     *)
(* applied, which is Commit with its answer unread, or not.                *)
Cut(r) ==
    /\ pc[r] \notin {"new", "done"}
    /\ Finish(r, "cut")
    /\ UNCHANGED <<cards, file>>

-----------------------------------------------------------------------------
(* What the handler does by itself once nothing is in its way.             *)
Proceed(r) ==
    \/ EarlyCheck(r) \/ Refuse(r) \/ TakeBody(r) \/ OpenFile(r) \/ WriteFile(r)
    \/ Begin(r) \/ Lock(r) \/ Count(r) \/ Insert(r) \/ Commit(r) \/ Remove(r)

Next == \E r \in Requests : Proceed(r) \/ CreateFails(r) \/ Cut(r)

Spec == Init /\ [][Next]_vars

(* Each handler is polled; neither UPLOAD_TIMEOUT nor an error is counted  *)
(* on to end it.                                                           *)
FairSpec == Spec /\ \A r \in Requests : WF_vars(Proceed(r))

-----------------------------------------------------------------------------
(* Properties.                                                             *)

(* create: "two requests at once do not slip an extra estimate through".   *)
LimitHolds == \A o \in Owners : Cardinality(CardsOf(o)) <= MAX_PER_USER

(* upload_estimate: "first the file, then the record: a card without a     *)
(* file is an estimate nobody can parse".  This does not hold of the code: *)
(* an error of create is taken to mean that there is no card.              *)
CardHasFile == \A r \in cards : file[r] = "whole"

(* What does hold: no card ever stands on a half-written file, and one     *)
(* stands on none only where its upload was answered with an error, that   *)
(* is, never where the client was told of the card or was cut off.         *)
FileBehindCard ==
    \A r \in cards : \/ file[r] = "whole"
                     \/ file[r] = "none" /\ answer[r] = "error"

(* Nobody is told of a limit he has not reached, nor of a card that is not *)
(* there; a refused upload leaves no card.                                 *)
AnswersAreTrue ==
    \A r \in Requests :
        /\ answer[r] = "created" => r \in cards
        /\ answer[r] \in {"limit", "invalid"} => r \notin cards
        /\ answer[r] = "limit" =>
               Cardinality(CardsOf(OwnerOf[r])) >= MAX_PER_USER

(* Every upload that began gets its answer: the lock of an owner and the   *)
(* pool never leave everyone waiting for everyone.                         *)
EveryUploadEnds == \A r \in Requests : pc[r] # "new" ~> pc[r] = "done"

-----------------------------------------------------------------------------
(* What the proofs in EstimateIntakeProofs keep from step to step.         *)

OneLockHolder ==
    \A r, q \in Requests :
        HasLock(r) /\ HasLock(q) /\ OwnerOf[r] = OwnerOf[q] => r = q

RoomForOne ==
    \A r \in Requests : pc[r] \in {"insert", "commit"} =>
        Cardinality(CardsOf(OwnerOf[r])) + 1 <= MAX_PER_USER

LimitInv == OneLockHolder /\ RoomForOne /\ LimitHolds

FileInv ==
    /\ \A r \in Requests : pc[r] = "begin" \/ InTx(r) => file[r] = "whole"
    /\ \A r \in cards : \/ pc[r] = "done"
                        \/ pc[r] = "remove" /\ answer[r] = "error"
    /\ \A r \in cards : pc[r] = "remove" => file[r] = "whole"
    /\ FileBehindCard

(* A verdict was given on the way to the end, and holds as cards only grow.*)
AnswersInv ==
    /\ \A r \in cards : pc[r] \in {"remove", "done"}
    /\ \A r \in Requests : answer[r] \in {"created", "limit", "invalid"} =>
           pc[r] \in {"remove", "done"}
    /\ AnswersAreTrue
=============================================================================

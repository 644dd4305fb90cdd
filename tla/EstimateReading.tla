--------------------------- MODULE EstimateReading ---------------------------
(***************************************************************************)
(* A user who looks at an estimate while it is being parsed: get_estimate  *)
(* of server/src/estimates/http.rs reads the card and the lines in two     *)
(* statements, outside any transaction.                                    *)
(***************************************************************************)
EXTENDS EstimateQueue

CONSTANT Unread

VARIABLE read       \* the estimate asked for, what was read of it so far

Nothing == [id |-> 0, card |-> Unread, lines |-> Unread]

Get(e) ==
    /\ read = Nothing /\ status[e] # "absent"
    /\ read' = [Nothing EXCEPT !.id = e, !.card = status[e]]

(* The statement of lines_of is the last step before the answer.           *)
LinesOf(e) == read.id = e /\ read' = Nothing

(* Mutant: the lines are read before the card.                             *)
GetEstimate_LinesFirst(e) ==
    \/ /\ read = Nothing /\ status[e] # "absent"
       /\ read' = [Nothing EXCEPT !.id = e, !.lines = lines[e]]
    \/ LinesOf(e)

GetEstimate(e) == Get(e) \/ LinesOf(e)

ReadingInit == Init /\ read = Nothing

ReadingNext ==
    \/ Next /\ UNCHANGED read
    \/ (\E e \in Estimates : GetEstimate(e)) /\ UNCHANGED vars

ReadingSpec == ReadingInit /\ [][ReadingNext]_<<vars, read>>

(* The answer: what was not read before is read in the last step.          *)
AnsweredCard  == IF read.card = Unread THEN status[read.id] ELSE read.card
AnsweredLines == IF read.lines = Unread THEN lines[read.id] ELSE read.lines

(* An answer that says "parsed" carries the lines of one attempt, although *)
(* jobs replace lines and verdicts between its two statements.             *)
ParsedIsShownWhole ==
    [][read # Nothing /\ read' = Nothing =>
           (AnsweredCard = "parsed" => Cardinality(AnsweredLines) = 1)]_<<vars, read>>
=============================================================================

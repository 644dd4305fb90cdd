---------------------------- MODULE EstimateParse ---------------------------
(***************************************************************************)
(* From a file to the lines of an estimate.  A workbook: book.rs (sheets   *)
(* and limits), header.rs (which column is what), line.rs (one row) and    *)
(* mod.rs (the walk over the rows) of server/src/estimates/parse/.  A      *)
(* photo: what photo.rs makes of the model's answer.                       *)
(*                                                                         *)
(* A cell is told by what the code asks of its text: which words of a      *)
(* header it contains, its shape, and whether it holds a number.  The      *)
(* fields of a line of a workbook are the columns they were taken from.    *)
(***************************************************************************)
EXTENDS Integers, Sequences, FiniteSets

CONSTANTS
    Books, Answers,     \* the workbooks and the answers of the model tried
    SearchRows,         \* SEARCH_ROWS
    MaxSheets, MaxColumns, MaxLines,
    None

Words  == {"title", "unit", "quantity", "price", "total", "cost"}
Shapes == {"blank", "unit",     \* nothing but space; one of UNITS
           "short", "text",     \* below MIN_TITLE_LEN; up to MAX_UNIT_LEN
           "essay"}             \* longer
Cells  == [words : SUBSET Words, shape : Shapes, number : BOOLEAN]
Blank  == [words |-> {}, shape |-> "blank", number |-> FALSE]

(* far: where a sheet goes beyond the limits of check_bounds.              *)
Sheets == [readable : BOOLEAN, far : {"no", "rows", "columns", "cells"},
           rows : Seq(Seq(Cells))]

(* A line of an answer: whether it has a name; its numbers in hundredths.  *)
AnswerLines == [name : BOOLEAN, quantity : Int \cup {None},
                price : Int \cup {None}, total : Int \cup {None}]

ASSUME ParseAssumption ==
    /\ SearchRows \in Nat /\ MaxSheets \in Nat /\ MaxColumns \in Nat /\ MaxLines \in Nat
    /\ None \notin Int
    /\ \A b \in Books : b.kind \in {"xlsx", "xls", "other", "garbage"} /\ b.sheets \in Seq(Sheets)
    /\ \A a \in Answers :
          /\ a.kind = "answer" /\ a.json \in BOOLEAN /\ a.unreadable \in Nat
          /\ a.lines \in Seq(AnswerLines)

Least(S) == IF S = {} THEN 0 ELSE CHOOSE i \in S : \A j \in S : i <= j

-----------------------------------------------------------------------------
(* header.rs.  Column 0 stands for none.                                   *)

NoColumns == [title |-> 0, unit |-> 0, quantity |-> 0, price |-> 0, total |-> 0, cost |-> 0]

Take(columns, slot, cell, i) ==
    IF columns[slot] = 0 /\ slot \in cell.words THEN [columns EXCEPT ![slot] = i]
    ELSE columns

(* Mutant: the price column can become the column of sums as well.         *)
SeeCell_NoPriceFirst(columns, cell, i) ==
    LET c == Take(Take(Take(Take(columns, "title", cell, i), "unit", cell, i),
                       "quantity", cell, i), "price", cell, i)
        t == Take(c, "total", cell, i)
    IN IF t.total # i THEN Take(t, "cost", cell, i) ELSE t
SeeCell(columns, cell, i) ==
    LET c == Take(Take(Take(Take(columns, "title", cell, i), "unit", cell, i),
                       "quantity", cell, i), "price", cell, i)
        t == IF c.price # i THEN Take(c, "total", cell, i) ELSE c
    IN IF i \notin {t.price, t.total} THEN Take(t, "cost", cell, i) ELSE t

(* The columns seen in the first cells of a row.                           *)
Seen(row) ==
    LET seen[i \in 0..Len(row)] ==
            IF i = 0 THEN NoColumns
            ELSE IF row[i].shape = "blank" THEN seen[i - 1]
            ELSE SeeCell(seen[i - 1], row[i], i)
    IN seen

(* A lone "cost" is the sum of the line, one beside a total is the price.  *)
ColumnsOf(row) ==
    LET c == Seen(row)[Len(row)]
    IN IF c.total = 0 THEN [c EXCEPT !.total = c.cost]
       ELSE IF c.price = 0 THEN [c EXCEPT !.price = c.cost]
       ELSE c

Matched(c) == Cardinality({c.title, c.unit, c.quantity, c.price, c.total} \ {0})

(* Mutant: two words in one cell are a header.                             *)
IsHeader_Words(row) ==
    Cardinality({s \in Words \ {"cost"} : ColumnsOf(row)[s] # 0}) >= 2
IsHeader(row) == Matched(ColumnsOf(row)) >= 2

(* The row of the header, 0 if there is none.                              *)
Find(rows) == Least({i \in 1..Len(rows) : i <= SearchRows /\ IsHeader(rows[i])})

-----------------------------------------------------------------------------
(* line.rs.                                                                *)

BlankRow(row) == \A i \in DOMAIN row : row[i].shape = "blank"
RawLine(at)   == [at |-> at, title |-> 0, unit |-> 0, quantity |-> 0, price |-> 0, total |-> 0]

CanBeTitle(cell) == ~cell.number /\ cell.shape \in {"text", "essay"}
TitleAt(row, i)  == IF i \in DOMAIN row /\ CanBeTitle(row[i]) THEN i ELSE 0
FirstTitle(row)  == Least({i \in DOMAIN row : CanBeTitle(row[i])})
NumberAt(row, i) == IF i \in DOMAIN row /\ row[i].number THEN i ELSE 0
UnitOf(row)      == Least({i \in DOMAIN row : row[i].shape = "unit"})

FillByColumns(line, row, c) ==
    [line EXCEPT
        !.title    = IF TitleAt(row, c.title) # 0 THEN c.title ELSE FirstTitle(row),
        !.unit     = IF c.unit \in DOMAIN row /\ row[c.unit].shape \notin {"blank", "essay"}
                     THEN c.unit ELSE 0,
        !.quantity = NumberAt(row, c.quantity),
        !.price    = NumberAt(row, c.price),
        !.total    = NumberAt(row, c.total)]

LastNumber(row) ==
    LET S == {i \in DOMAIN row : row[i].number}
    IN IF S = {} THEN 0 ELSE CHOOSE i \in S : \A j \in S : j <= i

(* Mutant: the number before the last is taken for the price.              *)
FillByLastNumber_Price(line, row) ==
    [line EXCEPT !.title = FirstTitle(row), !.total = LastNumber(row),
                 !.price = NumberAt(row, LastNumber(row) - 1)]
FillByLastNumber(line, row) ==
    [line EXCEPT !.title = FirstTitle(row), !.total = LastNumber(row)]

IsRecognized(l) == l.title # 0 /\ (l.quantity # 0 \/ l.price # 0 \/ l.total # 0)

(* A row that is not blank, with the columns of the header above it.       *)
ParseRow(at, row, header, columns) ==
    LET filled == IF header = 0 THEN FillByLastNumber(RawLine(at), row)
                  ELSE FillByColumns(RawLine(at), row, columns)
        l == IF filled.unit = 0 THEN [filled EXCEPT !.unit = UnitOf(row)] ELSE filled
    IN IF IsRecognized(l) THEN l ELSE [l EXCEPT !.title = 0, !.unit = 0]

-----------------------------------------------------------------------------
(* photo.rs.  A line of the answer may lack each of its numbers.           *)

Usable(v) == IF v \in Int /\ v > 0 THEN v ELSE None

(* Within a hundredth of the sum, or a hundredth of one if that is more:   *)
(* the product of hundredths is in ten-thousandths.                        *)
NumbersAgree(q, p, t) ==
    None \in {q, p, t}
    \/ LET off == IF q * p > 100 * t THEN q * p - 100 * t ELSE 100 * t - q * p
       IN off <= (IF t > 100 THEN t ELSE 100)

PhotoRaw(at) == [at |-> at, title |-> FALSE, quantity |-> None, price |-> None, total |-> None]
PhotoLine(at, l) ==
    LET q == Usable(l.quantity)  p == Usable(l.price)  t == Usable(l.total)
    IN IF NumbersAgree(q, p, t)
       THEN [at |-> at, title |-> TRUE, quantity |-> q, price |-> p, total |-> t]
       ELSE PhotoRaw(at)

-----------------------------------------------------------------------------
(* The walk.                                                               *)

VARIABLES
    input,      \* the workbook or the answer, as it came
    place,      \* <<sheet, row>> read next; of an answer <<part, line>>
    header,     \* header_row of the sheet, 0 if it has none
    lines,      \* what has been made of it
    result      \* "new", "walk", "photo", "ok", or why there are no lines

vars == <<input, place, header, lines, result>>

Init ==
    /\ input \in Books \cup Answers
    /\ place = <<1, 1>> /\ header = 0 /\ lines = <<>> /\ result = "new"

IsBook     == input.kind # "answer"
Sheet      == input.sheets[place[1]]
CutRow(row) == SubSeq(row, 1, IF Len(row) < MaxColumns THEN Len(row) ELSE MaxColumns)
RowsOf(sh) == [i \in DOMAIN sh.rows |-> CutRow(sh.rows[i])]

(* calamine opens it by its content; check_bounds looks at xlsx only.      *)
OutOfBounds(book) ==
    \/ Len(book.sheets) > MaxSheets
    \/ \E i \in DOMAIN book.sheets :
          /\ book.sheets[i].readable
          /\ book.sheets[i].far \in IF book.kind = "xlsx" THEN {"rows", "columns", "cells"}
                                    ELSE {"rows"}

Open ==
    /\ result = "new"
    /\ result' = IF ~IsBook THEN (IF input.json THEN "photo" ELSE "bad_answer")
                 ELSE IF input.kind \notin {"xlsx", "xls"} THEN "unreadable"
                 ELSE IF OutOfBounds(input) THEN "too_big" ELSE "walk"
    /\ header' = IF result' = "walk" /\ input.sheets # <<>>
                 THEN Find(RowsOf(input.sheets[1])) ELSE 0
    /\ UNCHANGED <<input, place, lines>>

Finished(bad) == IF lines = <<>> THEN bad ELSE "ok"
HeaderOf(i) == Find(RowsOf(input.sheets[i]))

(* The end of a sheet, or one that cannot be read.                         *)
NextSheet ==
    /\ result = "walk" /\ place[1] <= Len(input.sheets)
    /\ Sheet.readable => place[2] > Len(Sheet.rows)
    /\ place' = <<place[1] + 1, 1>>
    /\ header' = IF place[1] < Len(input.sheets) THEN HeaderOf(place[1] + 1) ELSE 0
    /\ UNCHANGED <<input, lines, result>>

LineOf(row) ==
    IF BlankRow(row) \/ place[2] = header THEN <<>>
    ELSE IF place[2] < header THEN <<RawLine(place)>>
    ELSE <<ParseRow(place, row, header,
                    IF header = 0 THEN NoColumns ELSE ColumnsOf(RowsOf(Sheet)[header]))>>

(* Mutant: one line more than the limit.                                   *)
TakeRow_OneMore ==
    /\ result = "walk" /\ place[1] <= Len(input.sheets)
    /\ Sheet.readable /\ place[2] <= Len(Sheet.rows)
    /\ IF Len(lines) > MaxLines
       THEN result' = Finished("no_data") /\ UNCHANGED <<place, lines>>
       ELSE /\ lines' = lines \o LineOf(RowsOf(Sheet)[place[2]])
            /\ place' = <<place[1], place[2] + 1>>
            /\ UNCHANGED result
    /\ UNCHANGED <<input, header>>
TakeRow ==
    /\ result = "walk" /\ place[1] <= Len(input.sheets)
    /\ Sheet.readable /\ place[2] <= Len(Sheet.rows)
    /\ IF Len(lines) >= MaxLines
       THEN result' = Finished("no_data") /\ UNCHANGED <<place, lines>>
       ELSE /\ lines' = lines \o LineOf(RowsOf(Sheet)[place[2]])
            /\ place' = <<place[1], place[2] + 1>>
            /\ UNCHANGED result
    /\ UNCHANGED <<input, header>>

FinishBook ==
    /\ result = "walk" /\ place[1] > Len(input.sheets)
    /\ result' = Finished("no_data")
    /\ UNCHANGED <<input, place, header, lines>>

(* The lines of the answer, and then what it could not read.               *)
TakeAnswerLine ==
    /\ result = "photo" /\ place[2] <= Len(input.lines)
    /\ lines' = lines \o IF input.lines[place[2]].name
                         THEN <<PhotoLine(place, input.lines[place[2]])>> ELSE <<>>
    /\ place' = <<1, place[2] + 1>>
    /\ UNCHANGED <<input, header, result>>

FinishPhoto ==
    /\ result = "photo" /\ place[2] > Len(input.lines)
    /\ lines' = lines \o [i \in 1..input.unreadable |-> PhotoRaw(<<2, i>>)]
    /\ result' = IF lines' = <<>> THEN "bad_answer" ELSE "ok"
    /\ UNCHANGED <<input, place, header>>

Next == Open \/ NextSheet \/ TakeRow \/ FinishBook \/ TakeAnswerLine \/ FinishPhoto

Spec == Init /\ [][Next]_vars

-----------------------------------------------------------------------------
(* Properties.                                                             *)

(* The first column with a word, of those that are not taken.              *)
First(row, word, not) ==
    Least({i \in DOMAIN row \ not : word \in row[i].words /\ row[i].shape # "blank"})

(* What a header says, without a walk over its cells: the first column     *)
(* with a word of its own; "cost" is a sum, or a price beside a sum; the   *)
(* cost of a unit, which says "price", is never a sum.                     *)
ColumnsMeant(row) ==
    LET price == First(row, "price", {})
        total == First(row, "total", {price})
        cost  == First(row, "cost",
                       {price, total} \cup {i \in DOMAIN row : "price" \in row[i].words})
    IN [title |-> First(row, "title", {}), unit |-> First(row, "unit", {}),
        quantity |-> First(row, "quantity", {}),
        price |-> IF price = 0 /\ total # 0 THEN cost ELSE price,
        total |-> IF total = 0 THEN cost ELSE total]

(* A header with a price, no total, and then the cost of a unit before any *)
(* other cost.                                                             *)
UnitCostForSum(row) ==
    LET price == First(row, "price", {})
        total == First(row, "total", {price})
        cost  == First(row, "cost", {price, total})
    IN total = 0 /\ cost # 0 /\ "price" \in row[cost].words

(* Taken word by word from left to right, a header is read as it is meant: *)
(* a cell that says both price and sum is the price where none came before *)
(* it, and a bare "cost" is the sum or the price according to the whole    *)
(* row.  One column of one kind of header is not claimed, for there the    *)
(* code does otherwise: header.rs:42 calls the cost of a unit a price, and *)
(* it is taken for the sum when it comes after a price and no total is     *)
(* named.                                                                  *)
ColumnsAsMeant ==
    IsBook => \A i \in DOMAIN input.sheets :
                 \A j \in DOMAIN input.sheets[i].rows :
                    LET row == input.sheets[i].rows[j]
                    IN \A s \in DOMAIN ColumnsMeant(row) :
                          \/ ColumnsOf(row)[s] = ColumnsMeant(row)[s]
                          \/ s = "total" /\ UnitCostForSum(row)

(* Is this row, with known words in two columns of their own, a header?    *)
SaysTwoColumns(row) ==
    \E i, j \in DOMAIN row : i # j /\ row[i].words # {} /\ row[j].words # {}

Made(at) == \E i \in DOMAIN lines : lines[i].at = at

(* <<sheet, row>> a stands before b.                                       *)
Before(a, b) == a[1] < b[1] \/ (a[1] = b[1] /\ a[2] < b[2])
InOrder      == \A i, j \in DOMAIN lines : i < j => Before(lines[i].at, lines[j].at)

(* "A line we could not understand is not thrown away": a row that was     *)
(* read is blank, or a header of two columns or more and the only one of   *)
(* its sheet, or one line of the estimate; the lines stand in the order of *)
(* the rows.  Of a photo, what the model read under a name is a line, and  *)
(* so is all that it could not read; nothing is claimed of a line without  *)
(* a name, which the code drops with its numbers.                          *)
NothingIsLost ==
    /\ InOrder
    /\ IsBook /\ result = "ok" =>
          \A i \in DOMAIN input.sheets :
             LET rows == RowsOf(input.sheets[i])
                 left == {r \in DOMAIN rows : ~BlankRow(rows[r]) /\ ~Made(<<i, r>>)}
             IN \/ ~input.sheets[i].readable
                \/ Len(lines) = MaxLines
                \/ Cardinality(left) <= 1 /\ \A r \in left : SaysTwoColumns(rows[r])
    /\ ~IsBook /\ result = "ok" =>
          /\ \A i \in DOMAIN input.lines : input.lines[i].name => Made(<<1, i>>)
          /\ \A i \in 1..input.unreadable : Made(<<2, i>>)

(* The rows above a line that say two columns.                             *)
Above(l) ==
    LET rows == RowsOf(input.sheets[l.at[1]])
    IN {rows[r] : r \in {k \in 1..(l.at[2] - 1) : SaysTwoColumns(rows[k])}}

(* A sum is a total, or a cost that is not a price as well.                *)
SaysSum(row, column) ==
    \/ "total" \in row[column].words
    \/ "cost" \in row[column].words /\ ("price" \in row[column].words => UnitCostForSum(row))

BookNumbers(l) ==
    /\ l.quantity # 0 => \E row \in Above(l) : "quantity" \in row[l.quantity].words
    /\ l.price # 0 => /\ \E row \in Above(l) : row[l.price].words \cap {"price", "cost"} # {}
                      /\ l.price # l.total
    /\ l.total # 0 => \/ \E row \in Above(l) : SaysSum(row, l.total)
                      \/ /\ HeaderOf(l.at[1]) = 0
                         /\ l.total = LastNumber(RowsOf(input.sheets[l.at[1]])[l.at[2]])

PhotoNumbers(l) ==
    /\ \A f \in {"quantity", "price", "total"} :
          l[f] # None => l[f] > 0 /\ l[f] = input.lines[l.at[2]][f]
    /\ None \notin {l.quantity, l.price, l.total} =>
          \/ l.quantity * l.price \in (99 * l.total)..(101 * l.total)
          \/ l.quantity * l.price \in (100 * l.total - 100)..(100 * l.total + 100)

(* "A wrong number is worse than none": a price, a quantity or a sum of a  *)
(* workbook's line stands under the words that say so in a row above it of *)
(* the same sheet, or is the last number of a row of a sheet without a     *)
(* header; no number of a photo's line is the product of the other two     *)
(* gone wrong by more than a hundredth.  (The one sum that is the cost of  *)
(* a unit is that of ColumnsAsMeant.)                                      *)
NumbersAreTheSheets ==
    \A k \in DOMAIN lines : IF IsBook THEN BookNumbers(lines[k]) ELSE PhotoNumbers(lines[k])

Fields       == {"title", "unit", "quantity", "price", "total"}
InColumns(l) == \A f \in Fields : l[f] \in 0..MaxColumns

(* The limits of book.rs and mod.rs: no line is made of a workbook with    *)
(* too many sheets, or with a cell beyond the rows of a sheet, or, in an   *)
(* xlsx, beyond its columns and cells; a line has no field from a column   *)
(* that was cut off; there are never more lines than the limit, and what   *)
(* is stored is not empty.                                                 *)
LimitsHold ==
    IsBook =>
        /\ Len(lines) <= MaxLines
        /\ result = "ok" => lines # <<>>
        /\ lines # <<>> =>
              /\ Len(input.sheets) <= MaxSheets
              /\ \A i \in DOMAIN input.sheets :
                    \/ ~input.sheets[i].readable \/ input.sheets[i].far = "no"
                    \/ input.kind = "xls" /\ input.sheets[i].far # "rows"
        /\ \A k \in DOMAIN lines : InColumns(lines[k])

-----------------------------------------------------------------------------
(* What the walk relies on; the proofs keep it from step to step.          *)

(* The header is the one of the sheet that is read.                        *)
HeaderIsHere == header = IF place[1] <= Len(input.sheets) THEN HeaderOf(place[1]) ELSE 0

(* The row is blank, the header, or a line already.                        *)
Kept(i, r) ==
    LET rows == RowsOf(input.sheets[i])
    IN BlankRow(rows[r]) \/ Made(<<i, r>>) \/ r = HeaderOf(i)
RowsKept ==
    \A i \in DOMAIN input.sheets : input.sheets[i].readable =>
        \A r \in DOMAIN RowsOf(input.sheets[i]) : Before(<<i, r>>, place) => Kept(i, r)
NamesKept ==
    \A i \in DOMAIN input.lines : i < place[2] => (input.lines[i].name => Made(<<1, i>>))

Places   == (Nat \ {0}) \X (Nat \ {0})
MadeHere == \A i \in DOMAIN lines : lines[i].at \in Places /\ Before(lines[i].at, place)

WalkInv ==
    /\ place \in Places
    /\ result = "new" => lines = <<>> /\ place = <<1, 1>>
    /\ result = "walk" => IsBook /\ Len(lines) <= MaxLines /\ HeaderIsHere /\ RowsKept
    /\ result = "photo" => ~IsBook /\ place[1] = 1 /\ NamesKept
    /\ result \in {"walk", "photo"} => MadeHere
    /\ NothingIsLost
    /\ NumbersAreTheSheets

(* A book that is walked is within the limits, and nothing is made of any  *)
(* other.                                                                  *)
BoundsInv ==
    /\ IsBook /\ result = "walk" => ~OutOfBounds(input) /\ input.kind \in {"xlsx", "xls"}
    /\ LimitsHold
=============================================================================

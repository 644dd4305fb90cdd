--------------------------- MODULE MCEstimateParse --------------------------
(***************************************************************************)
(* Every sheet of a header of three cells over a row of work, and books    *)
(* and answers made by hand for the limits.                                *)
(***************************************************************************)
EXTENDS EstimateParse

Say(words)  == [words |-> words, shape |-> "text", number |-> FALSE]
Number      == [words |-> {}, shape |-> "short", number |-> TRUE]
Short       == [words |-> {}, shape |-> "short", number |-> FALSE]
Text        == Say({})                                  \* also "from 600"
Essay       == [Text EXCEPT !.shape = "essay"]
Unit        == [Text EXCEPT !.shape = "unit"]
Sentence    == [Essay EXCEPT !.words = {"title", "quantity"}]

(* Name; unit; quantity; price; price of a unit; cost of a unit; cost;     *)
(* total; total cost; total price.                                         *)
HeaderCells ==
    {Blank, Short, Sentence}
    \cup {Say(w) : w \in {{"title"}, {"unit"}, {"quantity"}, {"price"}, {"price", "unit"},
                          {"price", "unit", "cost"}, {"cost"}, {"total"},
                          {"total", "cost"}, {"price", "total"}}}
Works == {<<Text, Unit, Number>>, <<Say({"title"}), [Unit EXCEPT !.words = {"unit"}], Number>>,
          <<Number, Number, Number>>, <<Essay, Number, Text>>,
          <<Unit, Number, Number>>, <<Text, Blank, Blank>>, <<Blank, Blank, Blank>>}

SheetOf(rows) == [readable |-> TRUE, far |-> "no", rows |-> rows]
Xlsx(sheets)  == [kind |-> "xlsx", sheets |-> sheets]

Header == <<Say({"title"}), Say({"quantity"}), Say({"cost"}), Say({"price", "total"})>>
Work   == <<Text, Number, Number, Number>>
Title  == <<Sentence, Blank, Blank, Blank>>
Full   == SheetOf(<<Title, Header, Work>>)
Bare   == SheetOf(<<Title, Work>>)
Deep   == SheetOf(<<Title, Title, Title, Header, Work>>)  \* below SearchRows
Long   == SheetOf(<<Work, Work, Work, Work, Work, Work>>) \* past MaxLines
Bad    == [Full EXCEPT !.readable = FALSE]

MCBooks ==
    {Xlsx(<<SheetOf(<<<<a, b, c>>, w>>)>>) : a, b, c \in HeaderCells, w \in Works}
    \cup {Xlsx(s) : s \in {<<x, y>> : x, y \in {Full, Bare, Deep, Long, Bad}}
                          \cup {<<>>, <<Full, Bare, Full>>}}
    \cup {[kind |-> k, sheets |-> <<[Full EXCEPT !.far = f]>>] :
            k \in {"xlsx", "xls", "other", "garbage"}, f \in {"no", "rows", "columns", "cells"}}

(* At the edges of both tolerances: 1.00 x 0.02 is 0.01 off a sum of 0.01, *)
(* 1.00 x 101.00 a hundredth off a sum of 100.00.                          *)
Numbers == {None, -1, 0, 1, 2, 3, 100, 9900, 10000, 10100, 10101}
Of(name, q, p, t) == [name |-> name, quantity |-> q, price |-> p, total |-> t]
MCAnswers ==
    {[kind |-> "answer", json |-> TRUE, unreadable |-> 1, lines |-> <<Of(TRUE, q, p, t)>>] :
        q, p, t \in Numbers}
    \cup {[kind |-> "answer", json |-> j, unreadable |-> u, lines |-> ls] :
        j \in BOOLEAN, u \in {0, 2},
        ls \in {<<>>, <<Of(FALSE, 1, 1, 1)>>, <<Of(TRUE, 2, 2, 5), Of(FALSE, 1, 1, 1),
                                                Of(TRUE, None, None, None)>>}}
=============================================================================

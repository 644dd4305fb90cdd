------------------------- MODULE EstimateParseProofs -------------------------
(***************************************************************************)
(* Proofs about EstimateParse, for every workbook and every answer of the  *)
(* model: rows and sheets of any length, any limits.                       *)
(***************************************************************************)
EXTENDS EstimateParse, FiniteSetTheorems, WellFoundedInduction, TLAPS

-----------------------------------------------------------------------------
(* The least of a set, and induction by the least counterexample.          *)

LEMMA LeastNat ==
  ASSUME NEW S, S \subseteq Nat, S # {}
  PROVE  \E x \in S : \A y \in S : x <= y
<1> DEFINE R == OpToRel(<, Nat)
<1>1. IsWellFoundedOn(R, Nat)
  BY NatLessThanWellFounded
<1>2. \A x, y \in Nat : x < y => <<x, y>> \in R
  BY DEF OpToRel
<1>3. PICK x \in S : \A y \in S : ~ (<<y, x>> \in R)
  <2> HIDE DEF R
  <2> QED
    BY <1>1, WFMin
<1>4. ASSUME NEW y \in S PROVE x <= y
  <2>1. x \in Nat /\ y \in Nat
    OBVIOUS
  <2>2. <<y, x>> \notin R
    BY <1>3
  <2>3. y < x => <<y, x>> \in R
    BY <1>2, <2>1
  <2>4. ~ (y < x)
    <3> HIDE DEF R
    <3> QED
      BY <2>2, <2>3
  <2> QED
    BY <2>1, <2>4
<1> QED
  BY <1>4

LEMMA LeastIs ==
  ASSUME NEW S, S \subseteq Nat \ {0}
  PROVE  /\ S = {} => Least(S) = 0
         /\ S # {} => Least(S) \in S /\ \A j \in S : Least(S) <= j
<1>1. CASE S = {}
  BY <1>1 DEF Least
<1>2. CASE S # {}
  <2>1. \E x \in S : \A y \in S : x <= y
    BY <1>2, LeastNat
  <2>2. Least(S) = CHOOSE i \in S : \A j \in S : i <= j
    BY <1>2 DEF Least
  <2> QED
    BY <1>2, <2>1, <2>2
<1> QED
  BY <1>1, <1>2

-----------------------------------------------------------------------------
(* The columns of a header.                                                *)

(* A column that is found once the walk over the cells has come to it.     *)
UpTo(k, i) == IF k <= i THEN k ELSE 0

Price(row) == First(row, "price", {})
Total(row) == First(row, "total", {Price(row)})
Cost(row)  == First(row, "cost", {Price(row), Total(row)})

LEMMA FirstIs ==
  ASSUME NEW row \in Seq(Cells), NEW word, NEW not
  PROVE  /\ First(row, word, not) \in 0..Len(row)
         /\ First(row, word, not) # 0 =>
               LET i == First(row, word, not)
               IN  /\ i \in DOMAIN row \ not /\ word \in row[i].words
                   /\ row[i].shape # "blank"
         /\ \A i \in DOMAIN row \ not : word \in row[i].words /\ row[i].shape # "blank" =>
               First(row, word, not) # 0 /\ First(row, word, not) <= i
<1> DEFINE S == {i \in DOMAIN row \ not : word \in row[i].words /\ row[i].shape # "blank"}
<1>1. DOMAIN row = 1..Len(row) /\ Len(row) \in Nat
  OBVIOUS
<1>2. S \subseteq 1..Len(row)
  BY <1>1
<1>3. S \subseteq Nat \ {0}
  BY <1>1, <1>2
<1>4. First(row, word, not) = Least(S)
  BY DEF First
<1>5. CASE S = {}
  <2>1. Least(S) = 0
    BY <1>5, <1>3, LeastIs
  <2> QED
    BY <1>1, <1>4, <1>5, <2>1
<1>6. CASE S # {}
  <2>1. Least(S) \in S /\ \A j \in S : Least(S) <= j
    BY <1>6, <1>3, LeastIs
  <2>2. Least(S) \in 1..Len(row)
    BY <1>2, <2>1
  <2>3. PICK k : k = First(row, word, not)
    OBVIOUS
  <2>4. k \in S /\ k \in 1..Len(row) /\ \A j \in S : k <= j
    BY <1>4, <2>1, <2>2, <2>3
  <2>5. /\ k \in DOMAIN row \ not /\ word \in row[k].words /\ row[k].shape # "blank"
        /\ k \in 0..Len(row) /\ k # 0
    BY <1>1, <2>4
  <2>6. \A i \in DOMAIN row \ not : word \in row[i].words /\ row[i].shape # "blank" => k <= i
    BY <2>4
  <2> QED
    BY <2>3, <2>5, <2>6
<1> QED
  BY <1>5, <1>6

(* A first column that need not be left out is the first without the rest. *)
LEMMA FirstApart ==
  ASSUME NEW row \in Seq(Cells), NEW word, NEW not, NEW more,
         NEW k, k = First(row, word, not), k = 0 \/ k \notin more
  PROVE  First(row, word, not \cup more) = k
<1>1. PICK m : m = First(row, word, not \cup more)
  OBVIOUS
<1>2. k \in 0..Len(row) /\ m \in 0..Len(row) /\ Len(row) \in Nat
  BY <1>1, FirstIs
<1>3. m # 0 => /\ m \in DOMAIN row \ (not \cup more) /\ word \in row[m].words
               /\ row[m].shape # "blank"
  BY <1>1, FirstIs
<1>4. k # 0 => k \in DOMAIN row \ not /\ word \in row[k].words /\ row[k].shape # "blank"
  BY FirstIs
<1>5. m # 0 => k # 0 /\ k <= m
  <2>1. m # 0 => m \in DOMAIN row \ not
    BY <1>3
  <2> QED
    BY <1>3, <2>1, FirstIs
<1>6. k # 0 => m # 0 /\ m <= k
  <2>1. k # 0 => k \in DOMAIN row \ (not \cup more)
    BY <1>4
  <2> QED
    BY <1>1, <1>4, <2>1, FirstIs
<1>7. m = k
  BY <1>2, <1>5, <1>6
<1> QED
  BY <1>1, <1>7

(* A slot after a cell that may fill it.                                   *)
Now(x, word, cell, i) == IF x = 0 /\ word \in cell.words THEN i ELSE x

(* Cell by cell a column is the first that qualifies.                      *)
LEMMA FirstStep ==
  ASSUME NEW row \in Seq(Cells), NEW word, NEW not, NEW i \in 1..Len(row)
  PROVE  /\ row[i].shape = "blank" \/ i \in not =>
                UpTo(First(row, word, not), i) = UpTo(First(row, word, not), i - 1)
         /\ row[i].shape # "blank" /\ i \notin not =>
                UpTo(First(row, word, not), i) =
                   Now(UpTo(First(row, word, not), i - 1), word, row[i], i)
         /\ UpTo(First(row, word, not), i) = i <=> First(row, word, not) = i
<1> DEFINE k == First(row, word, not)
<1>0. DOMAIN row = 1..Len(row) /\ Len(row) \in Nat /\ i \in Nat /\ i \in DOMAIN row
  OBVIOUS
<1>1. k \in 0..Len(row)
  BY FirstIs
<1>2. k # 0 => k \notin not /\ word \in row[k].words /\ row[k].shape # "blank"
  BY FirstIs
<1>3. i \notin not /\ word \in row[i].words /\ row[i].shape # "blank" => k # 0 /\ k <= i
  BY <1>0, FirstIs
<1> HIDE DEF k
<1>5. row[i].shape = "blank" \/ i \in not => UpTo(k, i) = UpTo(k, i - 1)
  <2>1. row[i].shape = "blank" \/ i \in not => k # i
    BY <1>0, <1>2
  <2> QED
    BY <1>0, <1>1, <2>1 DEF UpTo
<1>6. row[i].shape # "blank" /\ i \notin not =>
          UpTo(k, i) = Now(UpTo(k, i - 1), word, row[i], i)
  <2> SUFFICES ASSUME row[i].shape # "blank", i \notin not
               PROVE  UpTo(k, i) = Now(UpTo(k, i - 1), word, row[i], i)
    OBVIOUS
  <2>1. CASE word \in row[i].words
    BY <1>0, <1>1, <1>3, <2>1 DEF UpTo, Now
  <2>2. CASE word \notin row[i].words
    <3>1. k # i
      BY <1>0, <1>2, <2>2
    <3> QED
      BY <1>0, <1>1, <2>2, <3>1 DEF UpTo, Now
  <2> QED
    BY <2>1, <2>2
<1>7. UpTo(k, i) = i <=> k = i
  BY <1>0, <1>1 DEF UpTo
<1> QED
  BY <1>5, <1>6, <1>7 DEF k

Columns(t, u, q, p, s, c) ==
    [title |-> t, unit |-> u, quantity |-> q, price |-> p, total |-> s, cost |-> c]

LEMMA TakeIs ==
  ASSUME NEW cell, NEW i, NEW t, NEW u, NEW q, NEW p, NEW s, NEW c
  PROVE  /\ Take(Columns(t, u, q, p, s, c), "title", cell, i) =
               Columns(Now(t, "title", cell, i), u, q, p, s, c)
         /\ Take(Columns(t, u, q, p, s, c), "unit", cell, i) =
               Columns(t, Now(u, "unit", cell, i), q, p, s, c)
         /\ Take(Columns(t, u, q, p, s, c), "quantity", cell, i) =
               Columns(t, u, Now(q, "quantity", cell, i), p, s, c)
         /\ Take(Columns(t, u, q, p, s, c), "price", cell, i) =
               Columns(t, u, q, Now(p, "price", cell, i), s, c)
         /\ Take(Columns(t, u, q, p, s, c), "total", cell, i) =
               Columns(t, u, q, p, Now(s, "total", cell, i), c)
         /\ Take(Columns(t, u, q, p, s, c), "cost", cell, i) =
               Columns(t, u, q, p, s, Now(c, "cost", cell, i))
<1> USE DEF Take, Columns, Now
<1>1. Take(Columns(t, u, q, p, s, c), "title", cell, i) =
         Columns(Now(t, "title", cell, i), u, q, p, s, c)
  OBVIOUS
<1>2. Take(Columns(t, u, q, p, s, c), "unit", cell, i) =
         Columns(t, Now(u, "unit", cell, i), q, p, s, c)
  OBVIOUS
<1>3. Take(Columns(t, u, q, p, s, c), "quantity", cell, i) =
         Columns(t, u, Now(q, "quantity", cell, i), p, s, c)
  OBVIOUS
<1>4. Take(Columns(t, u, q, p, s, c), "price", cell, i) =
         Columns(t, u, q, Now(p, "price", cell, i), s, c)
  OBVIOUS
<1>5. Take(Columns(t, u, q, p, s, c), "total", cell, i) =
         Columns(t, u, q, p, Now(s, "total", cell, i), c)
  OBVIOUS
<1>6. Take(Columns(t, u, q, p, s, c), "cost", cell, i) =
         Columns(t, u, q, p, s, Now(c, "cost", cell, i))
  OBVIOUS
<1> QED
  BY <1>1, <1>2, <1>3, <1>4, <1>5, <1>6

LEMMA SlotsAfter ==
  ASSUME NEW cell, NEW i, NEW t, NEW u, NEW q, NEW p, NEW s, NEW c,
         NEW s1, s1 = IF Now(p, "price", cell, i) # i THEN Now(s, "total", cell, i) ELSE s,
         NEW c1, c1 = IF i \notin {Now(p, "price", cell, i), s1} THEN Now(c, "cost", cell, i)
                      ELSE c
  PROVE  SeeCell(Columns(t, u, q, p, s, c), cell, i) =
            Columns(Now(t, "title", cell, i), Now(u, "unit", cell, i),
                    Now(q, "quantity", cell, i), Now(p, "price", cell, i), s1, c1)
<1>1. PICK t1, u1, q1, p1 :
          /\ t1 = Now(t, "title", cell, i) /\ u1 = Now(u, "unit", cell, i)
          /\ q1 = Now(q, "quantity", cell, i) /\ p1 = Now(p, "price", cell, i)
  OBVIOUS
<1>2. Take(Columns(t, u, q, p, s, c), "title", cell, i) = Columns(t1, u, q, p, s, c)
  BY <1>1, TakeIs
<1>3. Take(Columns(t1, u, q, p, s, c), "unit", cell, i) = Columns(t1, u1, q, p, s, c)
  BY <1>1, TakeIs
<1>4. Take(Columns(t1, u1, q, p, s, c), "quantity", cell, i) = Columns(t1, u1, q1, p, s, c)
  BY <1>1, TakeIs
<1>5. Take(Columns(t1, u1, q1, p, s, c), "price", cell, i) = Columns(t1, u1, q1, p1, s, c)
  BY <1>1, TakeIs
<1>6. (IF p1 # i THEN Take(Columns(t1, u1, q1, p1, s, c), "total", cell, i)
                 ELSE Columns(t1, u1, q1, p1, s, c)) = Columns(t1, u1, q1, p1, s1, c)
  BY <1>1, TakeIs
<1>7. (IF i \notin {p1, s1} THEN Take(Columns(t1, u1, q1, p1, s1, c), "cost", cell, i)
                            ELSE Columns(t1, u1, q1, p1, s1, c))
      = Columns(t1, u1, q1, p1, s1, c1)
  BY <1>1, TakeIs
<1>8. /\ Columns(t1, u1, q1, p1, s, c).price = p1
      /\ Columns(t1, u1, q1, p1, s1, c).price = p1
      /\ Columns(t1, u1, q1, p1, s1, c).total = s1
  BY DEF Columns
<1>9. SeeCell(Columns(t, u, q, p, s, c), cell, i) = Columns(t1, u1, q1, p1, s1, c1)
  BY <1>2, <1>3, <1>4, <1>5, <1>6, <1>7, <1>8 DEF SeeCell
<1> QED
  BY <1>1, <1>9

(* What the walk has seen after i cells.                                   *)
SeenIn(row, i) ==
    Columns(UpTo(First(row, "title", {}), i), UpTo(First(row, "unit", {}), i),
            UpTo(First(row, "quantity", {}), i), UpTo(Price(row), i),
            UpTo(Total(row), i), UpTo(Cost(row), i))

LEMMA SeenStep ==
  ASSUME NEW row \in Seq(Cells), NEW i \in 1..Len(row)
  PROVE  SeenIn(row, i) = IF row[i].shape = "blank" THEN SeenIn(row, i - 1)
                          ELSE SeeCell(SeenIn(row, i - 1), row[i], i)
<1> DEFINE Stays(k) == UpTo(k, i) = UpTo(k, i - 1)
           Moves(k, word) == UpTo(k, i) = Now(UpTo(k, i - 1), word, row[i], i)
           p == Price(row)
           s == Total(row)
           c == Cost(row)
<1>1. ASSUME NEW word, NEW not
      PROVE  LET k == First(row, word, not)
             IN  /\ row[i].shape = "blank" \/ i \in not => Stays(k)
                 /\ row[i].shape # "blank" /\ i \notin not => Moves(k, word)
                 /\ UpTo(k, i) = i <=> k = i
  BY FirstStep
<1>2. /\ p = First(row, "price", {}) /\ s = First(row, "total", {p})
      /\ c = First(row, "cost", {p, s})
  BY DEF Price, Total, Cost
<1> HIDE DEF Stays, Moves, p, s, c
<1>3. CASE row[i].shape = "blank"
  <2>1. \A word, not : Stays(First(row, word, not))
    BY <1>1, <1>3
  <2>2. Stays(p) /\ Stays(s) /\ Stays(c)
    BY <1>2, <2>1
  <2>3. PICK t, u, q : /\ t = First(row, "title", {}) /\ u = First(row, "unit", {})
                       /\ q = First(row, "quantity", {})
    OBVIOUS
  <2>4. Stays(t) /\ Stays(u) /\ Stays(q)
    BY <2>1, <2>3
  <2>5. Columns(UpTo(t, i), UpTo(u, i), UpTo(q, i), UpTo(p, i), UpTo(s, i), UpTo(c, i))
        = Columns(UpTo(t, i - 1), UpTo(u, i - 1), UpTo(q, i - 1), UpTo(p, i - 1),
                  UpTo(s, i - 1), UpTo(c, i - 1))
    BY <2>2, <2>4 DEF Stays
  <2> QED
    BY <1>3, <2>3, <2>5 DEF SeenIn, p, s, c
<1>4. CASE row[i].shape # "blank"
  <2>1. ASSUME NEW word PROVE Moves(First(row, word, {}), word)
    <3>1. i \notin {}
      OBVIOUS
    <3> QED
      BY <1>1, <1>4, <3>1
  <2>2. UpTo(p, i) = i <=> p = i
    BY <1>1, <1>2
  <2>3. UpTo(s, i) = i <=> s = i
    BY <1>1, <1>2
  <2>4. UpTo(s, i) = IF UpTo(p, i) # i THEN Now(UpTo(s, i - 1), "total", row[i], i)
                     ELSE UpTo(s, i - 1)
    <3>1. i \in {p} => Stays(s)
      BY <1>1, <1>2
    <3>2. i \notin {p} => Moves(s, "total")
      BY <1>1, <1>2, <1>4
    <3> QED
      BY <2>2, <3>1, <3>2 DEF Stays, Moves
  <2>5. UpTo(c, i) = IF i \notin {UpTo(p, i), UpTo(s, i)}
                     THEN Now(UpTo(c, i - 1), "cost", row[i], i) ELSE UpTo(c, i - 1)
    <3>1. i \in {p, s} => Stays(c)
      BY <1>1, <1>2
    <3>2. i \notin {p, s} => Moves(c, "cost")
      BY <1>1, <1>2, <1>4
    <3>3. i \in {p, s} <=> i \in {UpTo(p, i), UpTo(s, i)}
      BY <2>2, <2>3
    <3> QED
      BY <3>1, <3>2, <3>3 DEF Stays, Moves
  <2>6. UpTo(p, i) = Now(UpTo(p, i - 1), "price", row[i], i)
    BY <1>2, <2>1 DEF Moves
  <2>7. PICK t, u, q : /\ t = First(row, "title", {}) /\ u = First(row, "unit", {})
                       /\ q = First(row, "quantity", {})
    OBVIOUS
  <2>8. Moves(t, "title") /\ Moves(u, "unit") /\ Moves(q, "quantity")
    BY <2>1, <2>7
  <2>9. SeeCell(Columns(UpTo(t, i - 1), UpTo(u, i - 1), UpTo(q, i - 1), UpTo(p, i - 1),
                        UpTo(s, i - 1), UpTo(c, i - 1)), row[i], i)
        = Columns(UpTo(t, i), UpTo(u, i), UpTo(q, i), UpTo(p, i), UpTo(s, i), UpTo(c, i))
    BY <2>4, <2>5, <2>6, <2>8, SlotsAfter DEF Moves
  <2> QED
    BY <1>4, <2>7, <2>9 DEF SeenIn, p, s, c
<1> QED
  BY <1>3, <1>4

(* The walk over the cells, which is a recursive function: it has seen the *)
(* firsts, or there were a first cell after which it had not.              *)
LEMMA SeenIs ==
  ASSUME NEW row \in Seq(Cells)
  PROVE  \A i \in 0..Len(row) : Seen(row)[i] = SeenIn(row, i)
<1> DEFINE n == Len(row)
           g == [i \in 0..n |-> SeenIn(row, i)]
           f == Seen(row)
<1>0. n \in Nat
  OBVIOUS
<1>1. SeenIn(row, 0) = NoColumns
  <2>1. \A word, not : UpTo(First(row, word, not), 0) = 0
    <3> SUFFICES ASSUME NEW word, NEW not PROVE UpTo(First(row, word, not), 0) = 0
      OBVIOUS
    <3>1. First(row, word, not) \in 0..n
      BY FirstIs
    <3> QED
      BY <1>0, <3>1 DEF UpTo
  <2> QED
    BY <2>1 DEF SeenIn, Columns, NoColumns, Price, Total, Cost
<1>2. g = [i \in 0..n |-> IF i = 0 THEN NoColumns
                         ELSE IF row[i].shape = "blank" THEN g[i - 1]
                         ELSE SeeCell(g[i - 1], row[i], i)]
  <2>1. ASSUME NEW i \in 0..n
        PROVE  SeenIn(row, i) = IF i = 0 THEN NoColumns
                                ELSE IF row[i].shape = "blank" THEN g[i - 1]
                                ELSE SeeCell(g[i - 1], row[i], i)
    <3>1. CASE i = 0
      BY <1>1, <3>1
    <3>2. CASE i # 0
      <4>1. i \in 1..Len(row) /\ i - 1 \in 0..n
        BY <1>0, <3>2
      <4>2. g[i - 1] = SeenIn(row, i - 1)
        BY <4>1
      <4> QED
        BY <3>2, <4>1, <4>2, SeenStep
    <3> QED
      BY <3>1, <3>2
  <2> QED
    BY <2>1
<1>3. f = [i \in 0..n |-> IF i = 0 THEN NoColumns
                         ELSE IF row[i].shape = "blank" THEN f[i - 1]
                         ELSE SeeCell(f[i - 1], row[i], i)]
  <2> HIDE DEF g
  <2> QED
    BY <1>2 DEF Seen
<1> DEFINE bad == {i \in 0..n : f[i] # g[i]}
<1>4. bad = {}
  <2> SUFFICES ASSUME bad # {} PROVE FALSE
    OBVIOUS
  <2>1. bad \subseteq Nat
    BY <1>0
  <2>2. PICK i \in bad : \A j \in bad : i <= j
    <3> HIDE DEF bad
    <3> QED
      BY <2>1, LeastNat
  <2>3. i \in 0..n /\ f[i] # g[i]
    OBVIOUS
  <2> HIDE DEF f, g, n
  <2>4. CASE i = 0
    BY <1>2, <1>3, <2>3, <2>4
  <2>5. CASE i # 0
    <3>1. i - 1 \in 0..n /\ i - 1 < i
      BY <1>0, <2>3, <2>5
    <3>2. f[i - 1] = g[i - 1]
      BY <1>0, <2>2, <2>3, <3>1
    <3> QED
      BY <1>2, <1>3, <2>3, <2>5, <3>2
  <2> QED
    BY <2>4, <2>5
<1> QED
  <2> SUFFICES ASSUME NEW i \in 0..n PROVE f[i] = SeenIn(row, i)
    OBVIOUS
  <2>1. f[i] = g[i]
    <3> HIDE DEF f, g, n
    <3> QED
      BY <1>4
  <2> QED
    BY <2>1

(* header.rs finds the columns a header means, however long the row.       *)
LEMMA ColumnsFound ==
  ASSUME NEW row \in Seq(Cells)
  PROVE  LET price == Price(row)  total == Total(row)  cost == Cost(row)
         IN  ColumnsOf(row) = Columns(First(row, "title", {}), First(row, "unit", {}),
                First(row, "quantity", {}), IF price = 0 /\ total # 0 THEN cost ELSE price,
                IF total = 0 THEN cost ELSE total, cost)
<1>0. PICK t, u, q, p, s, c :
          /\ t = First(row, "title", {}) /\ u = First(row, "unit", {})
          /\ q = First(row, "quantity", {}) /\ p = Price(row) /\ s = Total(row)
          /\ c = Cost(row)
  OBVIOUS
<1>1. /\ t \in 0..Len(row) /\ u \in 0..Len(row) /\ q \in 0..Len(row)
      /\ p \in 0..Len(row) /\ s \in 0..Len(row) /\ c \in 0..Len(row)
  <2>1. \A word, not : First(row, word, not) \in 0..Len(row)
    BY FirstIs
  <2> QED
    BY <1>0, <2>1 DEF Price, Total, Cost
<1>2. Len(row) \in 0..Len(row)
  OBVIOUS
<1>3. Seen(row)[Len(row)] = Columns(t, u, q, p, s, c)
  <2>1. Seen(row)[Len(row)] = SeenIn(row, Len(row))
    BY <1>2, SeenIs
  <2> QED
    BY <1>0, <1>1, <2>1 DEF SeenIn, UpTo
<1>4. ColumnsOf(row) = Columns(t, u, q, IF p = 0 /\ s # 0 THEN c ELSE p,
                               IF s = 0 THEN c ELSE s, c)
  BY <1>3 DEF ColumnsOf, Columns
<1> QED
  BY <1>0, <1>4

(* Each column of a header stands under a word of its own.                 *)
LEMMA ColumnsSay ==
  ASSUME NEW row \in Seq(Cells), NEW c, c = ColumnsOf(row)
  PROVE  /\ c.title # 0 => c.title \in DOMAIN row /\ "title" \in row[c.title].words
         /\ c.unit # 0 => c.unit \in DOMAIN row /\ "unit" \in row[c.unit].words
         /\ c.quantity # 0 => c.quantity \in DOMAIN row /\ "quantity" \in row[c.quantity].words
         /\ c.price # 0 => /\ c.price \in DOMAIN row /\ c.price # c.total
                           /\ row[c.price].words \cap {"price", "cost"} # {}
         /\ c.total # 0 => /\ c.total \in DOMAIN row
                           /\ row[c.total].words \cap {"total", "cost"} # {}
                           /\ SaysSum(row, c.total)
<1>1. \A word, not : First(row, word, not) # 0 =>
         /\ First(row, word, not) \in DOMAIN row /\ First(row, word, not) \notin not
         /\ word \in row[First(row, word, not)].words
  <2> SUFFICES ASSUME NEW word, NEW not, First(row, word, not) # 0
               PROVE  /\ First(row, word, not) \in DOMAIN row
                      /\ First(row, word, not) \notin not
                      /\ word \in row[First(row, word, not)].words
    OBVIOUS
  <2>1. LET i == First(row, word, not)
        IN  i \in DOMAIN row \ not /\ word \in row[i].words
    BY FirstIs
  <2> QED
    BY <2>1
<1>2. PICK t, u, q, p, s, k :
          /\ t = First(row, "title", {}) /\ u = First(row, "unit", {})
          /\ q = First(row, "quantity", {}) /\ p = First(row, "price", {})
          /\ s = First(row, "total", {p}) /\ k = First(row, "cost", {p, s})
  OBVIOUS
<1>3. c = Columns(t, u, q, IF p = 0 /\ s # 0 THEN k ELSE p, IF s = 0 THEN k ELSE s, k)
  BY <1>2, ColumnsFound DEF Price, Total, Cost
<1>4. /\ t # 0 => t \in DOMAIN row /\ "title" \in row[t].words
      /\ u # 0 => u \in DOMAIN row /\ "unit" \in row[u].words
      /\ q # 0 => q \in DOMAIN row /\ "quantity" \in row[q].words
      /\ p # 0 => p \in DOMAIN row /\ "price" \in row[p].words
  BY <1>1, <1>2
<1>5. s # 0 => s \in DOMAIN row /\ "total" \in row[s].words /\ s # p
  <2>1. s # 0 => s \in DOMAIN row /\ "total" \in row[s].words /\ s \notin {p}
    BY <1>1, <1>2
  <2> QED
    BY <2>1
<1>6. k # 0 => k \in DOMAIN row /\ "cost" \in row[k].words /\ k # p /\ k # s
  <2>1. k # 0 => k \in DOMAIN row /\ "cost" \in row[k].words /\ k \notin {p, s}
    BY <1>1, <1>2
  <2> QED
    BY <2>1
<1>7. /\ c.title = t /\ c.unit = u /\ c.quantity = q
      /\ c.price = IF p = 0 /\ s # 0 THEN k ELSE p
      /\ c.total = IF s = 0 THEN k ELSE s
  BY <1>3 DEF Columns
<1>8. /\ c.price # 0 => /\ c.price \in DOMAIN row /\ c.price # c.total
                        /\ row[c.price].words \cap {"price", "cost"} # {}
  BY <1>4, <1>5, <1>6, <1>7
<1>9. /\ c.total # 0 => /\ c.total \in DOMAIN row
                        /\ row[c.total].words \cap {"total", "cost"} # {}
  BY <1>5, <1>6, <1>7
<1>10. c.total # 0 => SaysSum(row, c.total)
  <2>1. CASE s # 0
    BY <1>5, <1>7, <2>1 DEF SaysSum
  <2>2. CASE s = 0 /\ k # 0
    <3>1. "price" \in row[k].words => UnitCostForSum(row)
      BY <1>2, <2>2 DEF UnitCostForSum
    <3> QED
      BY <1>6, <1>7, <2>2, <3>1 DEF SaysSum
  <2> QED
    BY <1>7, <2>1, <2>2
<1> QED
  BY <1>4, <1>7, <1>8, <1>9, <1>10

(* A row that is taken for a header says two columns.                      *)
LEMMA HeaderSays ==
  ASSUME NEW row \in Seq(Cells), IsHeader(row)
  PROVE  SaysTwoColumns(row)
<1>1. PICK c : c = ColumnsOf(row)
  OBVIOUS
<1> DEFINE S == {c.title, c.unit, c.quantity, c.price, c.total} \ {0}
<1>2. Cardinality(S) >= 2
  BY <1>1 DEF IsHeader, Matched
<1>3. \A i \in S : i \in DOMAIN row /\ row[i].words # {}
  BY <1>1, ColumnsSay
<1>4. \E i, j \in S : i # j
  <2> SUFFICES ASSUME \A i, j \in S : i = j PROVE FALSE
    OBVIOUS
  <2>1. CASE S = {}
    <3>1. Cardinality({}) = 0
      BY FS_EmptySet
    <3> HIDE DEF S
    <3> QED
      BY <1>2, <2>1, <3>1
  <2>2. CASE S # {}
    <3>1. PICK i : S = {i}
      BY <2>2
    <3>2. Cardinality(S) = 1
      BY <3>1, FS_Singleton
    <3> QED
      BY <1>2, <3>2
  <2> QED
    BY <2>1, <2>2
<1> HIDE DEF S
<1> QED
  BY <1>3, <1>4 DEF SaysTwoColumns

-----------------------------------------------------------------------------
(* Rows, sheets and inputs.                                                *)

LEMMA RowsAre ==
  ASSUME NEW sheet \in Sheets
  PROVE  /\ RowsOf(sheet) \in Seq(Seq(Cells))
         /\ Len(RowsOf(sheet)) = Len(sheet.rows)
         /\ DOMAIN RowsOf(sheet) = 1..Len(sheet.rows) /\ Len(sheet.rows) \in Nat
<1>1. sheet.rows \in Seq(Seq(Cells)) /\ MaxColumns \in Nat
  BY ParseAssumption DEF Sheets
<1>2. ASSUME NEW row \in Seq(Cells) PROVE CutRow(row) \in Seq(Cells)
  BY <1>1 DEF CutRow
<1>3. /\ DOMAIN sheet.rows = 1..Len(sheet.rows) /\ Len(sheet.rows) \in Nat
      /\ \A i \in 1..Len(sheet.rows) : sheet.rows[i] \in Seq(Cells)
  BY <1>1
<1>4. RowsOf(sheet) = [i \in 1..Len(sheet.rows) |-> CutRow(sheet.rows[i])]
  BY <1>3 DEF RowsOf
<1>5. \A i \in 1..Len(sheet.rows) : CutRow(sheet.rows[i]) \in Seq(Cells)
  BY <1>2, <1>3
<1> QED
  BY <1>3, <1>4, <1>5

LEMMA FindIs ==
  ASSUME NEW rows \in Seq(Seq(Cells))
  PROVE  /\ Find(rows) \in 0..Len(rows)
         /\ Find(rows) # 0 => IsHeader(rows[Find(rows)])
<1> DEFINE S == {i \in 1..Len(rows) : i <= SearchRows /\ IsHeader(rows[i])}
<1>1. S \subseteq Nat \ {0} /\ Len(rows) \in Nat
  OBVIOUS
<1>2. Find(rows) = Least(S)
  BY DEF Find
<1>3. CASE S = {}
  <2>1. Least(S) = 0
    BY <1>1, <1>3, LeastIs
  <2> QED
    BY <1>1, <1>2, <2>1
<1>4. CASE S # {}
  <2>1. Least(S) \in S
    BY <1>1, <1>4, LeastIs
  <2> QED
    BY <1>1, <1>2, <2>1
<1> QED
  BY <1>3, <1>4

Inputs == input \in Books \cup Answers

LEMMA BookIs ==
  ASSUME Inputs, IsBook
  PROVE  /\ input \in Books /\ input.sheets \in Seq(Sheets) /\ Len(input.sheets) \in Nat
         /\ DOMAIN input.sheets = 1..Len(input.sheets)
         /\ \A i \in 1..Len(input.sheets) : input.sheets[i] \in Sheets
<1>1. input \in Books
  BY ParseAssumption DEF Inputs, IsBook
<1>2. input.sheets \in Seq(Sheets)
  BY <1>1, ParseAssumption
<1> QED
  BY <1>1, <1>2

LEMMA AnswerIs ==
  ASSUME Inputs, ~IsBook
  PROVE  /\ input \in Answers /\ input.unreadable \in Nat /\ Len(input.lines) \in Nat
         /\ DOMAIN input.lines = 1..Len(input.lines)
         /\ \A k \in 1..Len(input.lines) : input.lines[k] \in AnswerLines
<1>1. input \in Answers
  BY ParseAssumption DEF Inputs, IsBook
<1>2. input.unreadable \in Nat /\ input.lines \in Seq(AnswerLines)
  BY <1>1, ParseAssumption
<1> QED
  BY <1>1, <1>2

LEMMA InputsStay == Inputs /\ [Next]_vars => Inputs'
  BY DEF Inputs, Next, Open, NextSheet, TakeRow, FinishBook, TakeAnswerLine, FinishPhoto, vars

LEMMA InputsInvariant == Spec => []Inputs
<1>1. Init => Inputs
  BY DEF Init, Inputs
<1> QED
  BY <1>1, InputsStay, PTL DEF Spec

(* header.rs: whatever words stand in whichever cells of a row of any      *)
(* length, read word by word from left to right it yields the columns it   *)
(* means; but for the column of sums of a header that names a price, no    *)
(* total and then the cost of a unit.                                      *)
THEOREM ColumnsRead == Spec => []ColumnsAsMeant
<1>1. Inputs => ColumnsAsMeant
  <2> SUFFICES ASSUME Inputs, IsBook, NEW i \in DOMAIN input.sheets,
                      NEW j \in DOMAIN input.sheets[i].rows
               PROVE  LET row == input.sheets[i].rows[j]
                      IN \A s \in DOMAIN ColumnsMeant(row) :
                            \/ ColumnsOf(row)[s] = ColumnsMeant(row)[s]
                            \/ s = "total" /\ UnitCostForSum(row)
    BY DEF ColumnsAsMeant
  <2>1. input.sheets[i] \in Sheets
    BY BookIs
  <2>2. PICK row \in Seq(Cells) : row = input.sheets[i].rows[j]
    <3>1. input.sheets[i].rows \in Seq(Seq(Cells))
      BY <2>1 DEF Sheets
    <3> QED
      BY <3>1
  <2>3. PICK t, u, q, p, s, k, m, prices :
          /\ t = First(row, "title", {}) /\ u = First(row, "unit", {})
          /\ q = First(row, "quantity", {}) /\ p = First(row, "price", {})
          /\ s = First(row, "total", {p}) /\ k = First(row, "cost", {p, s})
          /\ m = First(row, "cost", {p, s} \cup prices)
          /\ prices = {n \in DOMAIN row : "price" \in row[n].words}
    OBVIOUS
  <2>4. ColumnsOf(row) =
            Columns(t, u, q, IF p = 0 /\ s # 0 THEN k ELSE p, IF s = 0 THEN k ELSE s, k)
    BY <2>3, ColumnsFound DEF Price, Total, Cost
  <2>5. ColumnsMeant(row) =
            [title |-> t, unit |-> u, quantity |-> q,
             price |-> IF p = 0 /\ s # 0 THEN m ELSE p, total |-> IF s = 0 THEN m ELSE s]
    BY <2>3 DEF ColumnsMeant
  <2>6. CASE k = 0 \/ k \notin prices
    <3>1. \A not, x : x = First(row, "cost", not) /\ (x = 0 \/ x \notin prices) =>
                        First(row, "cost", not \cup prices) = x
      BY FirstApart
    <3>1a. m = k
      BY <2>3, <2>6, <3>1
    <3>2. ASSUME NEW f \in {"title", "unit", "quantity", "price", "total"}
          PROVE  ColumnsOf(row)[f] = ColumnsMeant(row)[f]
      BY <2>4, <2>5, <3>1a DEF Columns
    <3>3. DOMAIN ColumnsMeant(row) = {"title", "unit", "quantity", "price", "total"}
      BY <2>5
    <3> QED
      BY <2>2, <3>2, <3>3
  <2>7. CASE k # 0 /\ k \in prices
    <3>1. "price" \in row[k].words /\ k \in DOMAIN row /\ row[k].shape # "blank"
      <4>1. \A not : First(row, "cost", not) # 0 =>
                        row[First(row, "cost", not)].shape # "blank"
        BY FirstIs
      <4> QED
        BY <2>3, <2>7, <4>1
    <3>2. p # 0
      <4>1. \A n \in DOMAIN row \ {} : "price" \in row[n].words /\ row[n].shape # "blank" =>
                                       First(row, "price", {}) # 0
        BY FirstIs
      <4>2. k \in DOMAIN row \ {}
        BY <3>1
      <4> QED
        BY <2>3, <3>1, <4>1, <4>2
    <3>3. s = 0 => UnitCostForSum(row)
      BY <2>3, <2>7, <3>1 DEF UnitCostForSum
    <3>4. ASSUME NEW f \in {"title", "unit", "quantity", "price", "total"}
          PROVE  \/ ColumnsOf(row)[f] = ColumnsMeant(row)[f]
                 \/ f = "total" /\ UnitCostForSum(row)
      BY <2>4, <2>5, <3>2, <3>3 DEF Columns
    <3>5. DOMAIN ColumnsMeant(row) = {"title", "unit", "quantity", "price", "total"}
      BY <2>5
    <3> QED
      BY <2>2, <3>4, <3>5
  <2> QED
    BY <2>6, <2>7
<1> QED
  BY <1>1, InputsInvariant, PTL

-----------------------------------------------------------------------------
(* Lines are only added at the end.                                        *)

LEMMA Appended ==
  ASSUME NEW S, NEW s \in Seq(S), NEW T, NEW t \in Seq(T)
  PROVE  /\ s \o t \in Seq(S \cup T) /\ Len(s \o t) = Len(s) + Len(t)
         /\ Len(s) \in Nat /\ Len(t) \in Nat
         /\ DOMAIN s = 1..Len(s) /\ DOMAIN t = 1..Len(t)
         /\ DOMAIN (s \o t) = 1..(Len(s) + Len(t))
         /\ \A i \in 1..Len(s) : (s \o t)[i] = s[i]
         /\ \A j \in 1..Len(t) : (s \o t)[Len(s) + j] = t[j]
<1>1. /\ Len(s) \in Nat /\ Len(t) \in Nat
      /\ DOMAIN s = 1..Len(s) /\ DOMAIN t = 1..Len(t)
  OBVIOUS
<1>2. s \in Seq(S \cup T) /\ t \in Seq(S \cup T)
  OBVIOUS
<1>3. s \o t \in Seq(S \cup T) /\ Len(s \o t) = Len(s) + Len(t)
  BY <1>2
<1>4. DOMAIN (s \o t) = 1..(Len(s) + Len(t))
  BY <1>3
<1>5. \A i \in 1..Len(s) : (s \o t)[i] = s[i]
  BY <1>1, <1>2
<1>6. \A j \in 1..Len(t) : (s \o t)[Len(s) + j] = t[j]
  BY <1>1, <1>2
<1> QED
  BY <1>1, <1>3, <1>4, <1>5, <1>6

IsSeq == \E S : lines \in Seq(S)

LEMMA LinesAre ==
  ASSUME IsSeq
  PROVE  Len(lines) \in Nat /\ DOMAIN lines = 1..Len(lines)
  BY DEF IsSeq

(* What becomes of the lines when t is added.                              *)
LEMMA Added ==
  ASSUME IsSeq, NEW T, NEW t \in Seq(T), lines' = lines \o t
  PROVE  /\ IsSeq' /\ Len(t) \in Nat /\ Len(lines') = Len(lines) + Len(t)
         /\ \A at : Made(at)' <=> Made(at) \/ \E j \in 1..Len(t) : t[j].at = at
         /\ \A k \in DOMAIN lines' :
               \/ k \in DOMAIN lines /\ lines'[k] = lines[k]
               \/ \E j \in 1..Len(t) : k = Len(lines) + j /\ lines'[k] = t[j]
<1>1. PICK S : lines \in Seq(S)
  BY DEF IsSeq
<1>2. PICK s \in Seq(S) : s = lines
  BY <1>1
<1>3. PICK u : u = s \o t
  OBVIOUS
<1>4. /\ u \in Seq(S \cup T) /\ Len(u) = Len(s) + Len(t)
      /\ Len(s) \in Nat /\ Len(t) \in Nat /\ DOMAIN s = 1..Len(s)
      /\ DOMAIN u = 1..(Len(s) + Len(t))
      /\ \A i \in 1..Len(s) : u[i] = s[i]
      /\ \A j \in 1..Len(t) : u[Len(s) + j] = t[j]
      /\ \A k \in 1..(Len(s) + Len(t)) :
            k \in 1..Len(s) \/ \E j \in 1..Len(t) : k = Len(s) + j
  <2>1. /\ s \o t \in Seq(S \cup T) /\ Len(s \o t) = Len(s) + Len(t)
        /\ Len(s) \in Nat /\ Len(t) \in Nat /\ DOMAIN s = 1..Len(s)
        /\ DOMAIN (s \o t) = 1..(Len(s) + Len(t))
    BY Appended
  <2>2. /\ \A i \in 1..Len(s) : (s \o t)[i] = s[i]
        /\ \A j \in 1..Len(t) : (s \o t)[Len(s) + j] = t[j]
    BY Appended
  <2>3. \A k \in 1..(Len(s) + Len(t)) :
           k \in 1..Len(s) \/ \E j \in 1..Len(t) : k = Len(s) + j
    <3> SUFFICES ASSUME NEW k \in 1..(Len(s) + Len(t)), k \notin 1..Len(s)
                 PROVE  \E j \in 1..Len(t) : k = Len(s) + j
      OBVIOUS
    <3>1. k - Len(s) \in 1..Len(t) /\ k = Len(s) + (k - Len(s))
      BY <2>1
    <3> QED
      BY <3>1
  <2> QED
    BY <1>3, <2>1, <2>2, <2>3
<1>5. lines' = u
  BY <1>2, <1>3
<1>6. \A k \in DOMAIN u :
         \/ k \in DOMAIN s /\ u[k] = s[k]
         \/ \E j \in 1..Len(t) : k = Len(s) + j /\ u[k] = t[j]
  <2> SUFFICES ASSUME NEW k \in 1..(Len(s) + Len(t))
               PROVE  \/ k \in DOMAIN s /\ u[k] = s[k]
                      \/ \E j \in 1..Len(t) : k = Len(s) + j /\ u[k] = t[j]
    BY <1>4
  <2>1. CASE k \in 1..Len(s)
    BY <1>4, <2>1
  <2>2. CASE \E j \in 1..Len(t) : k = Len(s) + j
    BY <1>4, <2>2
  <2> QED
    BY <1>4, <2>1, <2>2
<1>7. \A i \in DOMAIN s : i \in DOMAIN u /\ u[i] = s[i]
  BY <1>4
<1>8. \A j \in 1..Len(t) : Len(s) + j \in DOMAIN u /\ u[Len(s) + j] = t[j]
  BY <1>4
<1>9. ASSUME NEW at
      PROVE  Made(at)' <=> Made(at) \/ \E j \in 1..Len(t) : t[j].at = at
  <2>1. Made(at)' <=> \E k \in DOMAIN u : u[k].at = at
    BY <1>5 DEF Made
  <2>2. Made(at) <=> \E k \in DOMAIN s : s[k].at = at
    BY <1>2 DEF Made
  <2>3. (\E k \in DOMAIN u : u[k].at = at) =>
           (\E k \in DOMAIN s : s[k].at = at) \/ \E j \in 1..Len(t) : t[j].at = at
    BY <1>6
  <2>4. (\E k \in DOMAIN s : s[k].at = at) => \E k \in DOMAIN u : u[k].at = at
    BY <1>7
  <2>5. (\E j \in 1..Len(t) : t[j].at = at) => \E k \in DOMAIN u : u[k].at = at
    BY <1>8
  <2> QED
    BY <2>1, <2>2, <2>3, <2>4, <2>5
<1>10. IsSeq'
  BY <1>4, <1>5 DEF IsSeq
<1> QED
  BY <1>2, <1>4, <1>5, <1>6, <1>9, <1>10

(* They stay in order if what is added is, and follows them.               *)
LEMMA StayInOrder ==
  ASSUME IsSeq, NEW T, NEW t \in Seq(T), lines' = lines \o t, InOrder,
         \A i, j \in 1..Len(t) : i < j => Before(t[i].at, t[j].at),
         \A i \in DOMAIN lines : \A j \in 1..Len(t) : Before(lines[i].at, t[j].at)
  PROVE  InOrder'
<1> SUFFICES ASSUME NEW i \in DOMAIN lines', NEW j \in DOMAIN lines', i < j
             PROVE  Before(lines'[i].at, lines'[j].at)
  BY DEF InOrder, Before
<1>1. /\ Len(lines) \in Nat /\ DOMAIN lines = 1..Len(lines) /\ Len(t) \in Nat
  BY LinesAre, Added
<1>2. \A k \in DOMAIN lines' :
         \/ k \in DOMAIN lines /\ lines'[k] = lines[k]
         \/ \E n \in 1..Len(t) : k = Len(lines) + n /\ lines'[k] = t[n]
  BY Added
<1>3. CASE i \in DOMAIN lines /\ lines'[i] = lines[i]
  <2>1. CASE j \in DOMAIN lines /\ lines'[j] = lines[j]
    BY <1>3, <2>1 DEF InOrder
  <2>2. CASE \E n \in 1..Len(t) : j = Len(lines) + n /\ lines'[j] = t[n]
    BY <1>3, <2>2
  <2> QED
    BY <1>2, <2>1, <2>2
<1>4. CASE \E n \in 1..Len(t) : i = Len(lines) + n /\ lines'[i] = t[n]
  <2>1. PICK n \in 1..Len(t) : i = Len(lines) + n /\ lines'[i] = t[n]
    BY <1>4
  <2>2. j \notin DOMAIN lines
    BY <1>1, <2>1
  <2>3. PICK m \in 1..Len(t) : j = Len(lines) + m /\ lines'[j] = t[m]
    BY <1>2, <2>2
  <2>4. n < m
    BY <1>1, <2>1, <2>3
  <2> QED
    BY <2>1, <2>3, <2>4
<1> QED
  BY <1>2, <1>3, <1>4

-----------------------------------------------------------------------------
(* The numbers of a line.                                                  *)

(* line.rs: a number is taken from its column, or is the last of its row.  *)
LEMMA RowLine ==
  ASSUME NEW at, NEW row, NEW h, NEW c,
         NEW l, l = ParseRow(at, row, h, c)
  PROVE  /\ l.at = at
         /\ h = 0 => l.quantity = 0 /\ l.price = 0 /\ l.total = LastNumber(row)
         /\ h # 0 => /\ l.quantity \in {0, c.quantity} /\ l.price \in {0, c.price}
                     /\ l.total \in {0, c.total}
<1> DEFINE filled == IF h = 0 THEN FillByLastNumber(RawLine(at), row)
                     ELSE FillByColumns(RawLine(at), row, c)
           named == IF filled.unit = 0 THEN [filled EXCEPT !.unit = UnitOf(row)] ELSE filled
<1>1. h = 0 => /\ filled = [at |-> at, title |-> FirstTitle(row), unit |-> 0, quantity |-> 0,
                            price |-> 0, total |-> LastNumber(row)]
  BY DEF FillByLastNumber, RawLine
<1>2. h # 0 => \E t, u : filled = [at |-> at, title |-> t, unit |-> u,
                   quantity |-> NumberAt(row, c.quantity), price |-> NumberAt(row, c.price),
                   total |-> NumberAt(row, c.total)]
  BY DEF FillByColumns, RawLine
<1>3. PICK t, u, q, p, s :
         /\ filled = [at |-> at, title |-> t, unit |-> u, quantity |-> q, price |-> p,
                      total |-> s]
         /\ h = 0 => q = 0 /\ p = 0 /\ s = LastNumber(row)
         /\ h # 0 => /\ q = NumberAt(row, c.quantity) /\ p = NumberAt(row, c.price)
                     /\ s = NumberAt(row, c.total)
  <2> HIDE DEF filled
  <2>1. CASE h = 0
    BY <1>1, <2>1
  <2>2. CASE h # 0
    BY <1>2, <2>2
  <2> QED
    BY <2>1, <2>2
<1>4. \E v : named = [at |-> at, title |-> t, unit |-> v, quantity |-> q, price |-> p,
                      total |-> s]
  <2> HIDE DEF filled
  <2> QED
    BY <1>3
<1>5. l = IF IsRecognized(named) THEN named ELSE [named EXCEPT !.title = 0, !.unit = 0]
  BY DEF ParseRow
<1>6. l.at = at /\ l.quantity = q /\ l.price = p /\ l.total = s
  <2> HIDE DEF named
  <2> QED
    BY <1>4, <1>5
<1>7. \A i : NumberAt(row, i) \in {0, i}
  BY DEF NumberAt
<1> QED
  BY <1>3, <1>6, <1>7

(* photo.rs: numbers are kept if they are positive and agree, or not at    *)
(* all.                                                                    *)
LEMMA AnsweredLine ==
  ASSUME NEW at, NEW a \in AnswerLines, NEW l, l = PhotoLine(at, a)
  PROVE  /\ l.at = at
         /\ \A f \in {"quantity", "price", "total"} :
               l[f] # None => l[f] > 0 /\ l[f] = a[f]
         /\ None \notin {l.quantity, l.price, l.total} =>
               \/ l.quantity * l.price \in (99 * l.total)..(101 * l.total)
               \/ l.quantity * l.price \in (100 * l.total - 100)..(100 * l.total + 100)
<1>1. PICK q, p, t : q = Usable(a.quantity) /\ p = Usable(a.price) /\ t = Usable(a.total)
  OBVIOUS
<1>2. \A v : Usable(v) = None \/ (Usable(v) \in Int /\ Usable(v) > 0 /\ Usable(v) = v)
  BY DEF Usable
<1>3. /\ q = None \/ (q \in Int /\ q > 0 /\ q = a.quantity)
      /\ p = None \/ (p \in Int /\ p > 0 /\ p = a.price)
      /\ t = None \/ (t \in Int /\ t > 0 /\ t = a.total)
  BY <1>1, <1>2
<1>4. CASE NumbersAgree(q, p, t)
  <2>1. l = [at |-> at, title |-> TRUE, quantity |-> q, price |-> p, total |-> t]
    BY <1>1, <1>4 DEF PhotoLine
  <2>2. ASSUME None \notin {q, p, t}
        PROVE  q * p \in (99 * t)..(101 * t) \/ q * p \in (100 * t - 100)..(100 * t + 100)
    <3>1. q \in Int /\ p \in Int /\ t \in Int /\ t > 0
      BY <1>3, <2>2
    <3>2. PICK m \in Int : m = q * p
      BY <3>1
    <3>3. (IF m > 100 * t THEN m - 100 * t ELSE 100 * t - m) <= (IF t > 100 THEN t ELSE 100)
      BY <1>4, <2>2, <3>2 DEF NumbersAgree
    <3>4. m \in (99 * t)..(101 * t) \/ m \in (100 * t - 100)..(100 * t + 100)
      BY <3>1, <3>3
    <3> QED
      BY <3>2, <3>4
  <2>3. l.at = at /\ l.quantity = q /\ l.price = p /\ l.total = t
    BY <2>1
  <2> QED
    BY <1>3, <2>2, <2>3
<1>5. CASE ~NumbersAgree(q, p, t)
  <2>1. l = PhotoRaw(at)
    BY <1>1, <1>5 DEF PhotoLine
  <2>2. l.at = at /\ l.quantity = None /\ l.price = None /\ l.total = None
    BY <2>1 DEF PhotoRaw
  <2> QED
    BY <2>2
<1> QED
  BY <1>4, <1>5

(* A row of a workbook becomes no line if it is blank or the header, and   *)
(* one line in its place otherwise, with the numbers of its columns.       *)
LEMMA RowBecomes ==
  ASSUME Inputs, IsBook, HeaderIsHere, place \in Places, place[1] <= Len(input.sheets),
         place[2] <= Len(Sheet.rows), NEW row, row = RowsOf(Sheet)[place[2]]
  PROVE  \/ LineOf(row) = <<>> /\ (BlankRow(row) \/ place[2] = HeaderOf(place[1]))
         \/ \E l : LineOf(row) = <<l>> /\ l.at = place /\ BookNumbers(l)
<1>1. PICK s, r : s = place[1] /\ r = place[2]
  OBVIOUS
<1>2. s \in 1..Len(input.sheets) /\ r \in Nat \ {0} /\ Sheet \in Sheets
  BY <1>1, BookIs DEF Sheet, Places
<1>3. PICK rows \in Seq(Seq(Cells)) : rows = RowsOf(Sheet)
  BY <1>2, RowsAre
<1>4. /\ r \in 1..Len(rows) /\ Len(rows) \in Nat /\ row = rows[r]
      /\ rows = RowsOf(input.sheets[s])
  BY <1>1, <1>2, <1>3, RowsAre DEF Sheet
<1>5. header = HeaderOf(s) /\ header = Find(rows)
  BY <1>1, <1>2, <1>4 DEF HeaderIsHere, HeaderOf
<1>6. header \in 0..Len(rows) /\ (header # 0 => IsHeader(rows[header]))
  BY <1>5, FindIs
<1>7. CASE BlankRow(row) \/ r = header
  BY <1>1, <1>5, <1>7 DEF LineOf
<1>8. CASE ~BlankRow(row) /\ r < header
  <2>1. LineOf(row) = <<RawLine(place)>>
    BY <1>1, <1>2, <1>6, <1>8 DEF LineOf
  <2>2. RawLine(place).at = place /\ BookNumbers(RawLine(place))
    BY DEF RawLine, BookNumbers
  <2> QED
    BY <2>1, <2>2
<1>9. CASE ~BlankRow(row) /\ header < r
  <2>1. PICK c : c = IF header = 0 THEN NoColumns ELSE ColumnsOf(rows[header])
    OBVIOUS
  <2>2. PICK l : l = ParseRow(place, row, header, c)
    OBVIOUS
  <2>3. LineOf(row) = <<l>>
    <3>1. place[2] # header /\ ~(place[2] < header)
      BY <1>1, <1>2, <1>6, <1>9
    <3> QED
      BY <1>3, <1>9, <2>1, <2>2, <3>1 DEF LineOf
  <2>4. /\ l.at = place
        /\ header = 0 => l.quantity = 0 /\ l.price = 0 /\ l.total = LastNumber(row)
        /\ header # 0 => /\ l.quantity \in {0, c.quantity} /\ l.price \in {0, c.price}
                         /\ l.total \in {0, c.total}
    BY <2>2, RowLine
  <2>5. CASE header = 0
    <3>1. HeaderOf(l.at[1]) = 0 /\ l.total = LastNumber(RowsOf(input.sheets[l.at[1]])[l.at[2]])
      BY <1>1, <1>4, <1>5, <2>4, <2>5
    <3> QED
      BY <2>3, <2>4, <2>5, <3>1 DEF BookNumbers
  <2>6. CASE header # 0
    <3>1. header \in 1..(r - 1) /\ header \in 1..Len(rows)
      BY <1>2, <1>6, <1>9, <2>6
    <3>2. PICK top \in Seq(Cells) : top = rows[header]
      BY <1>3, <3>1
    <3>3. c = ColumnsOf(top) /\ SaysTwoColumns(top)
      BY <1>6, <2>1, <2>6, <3>2, HeaderSays
    <3>4. top \in Above(l)
      <4>1. l.at[1] = s /\ l.at[2] = r
        BY <1>1, <2>4
      <4>2. header \in {k \in 1..(r - 1) : SaysTwoColumns(rows[k])}
        BY <3>1, <3>2, <3>3
      <4> QED
        BY <1>4, <3>2, <4>1, <4>2 DEF Above
    <3>5. /\ c.quantity # 0 => "quantity" \in top[c.quantity].words
          /\ c.price # 0 => /\ c.price # c.total
                            /\ top[c.price].words \cap {"price", "cost"} # {}
          /\ c.total # 0 => SaysSum(top, c.total)
      BY <3>3, ColumnsSay
    <3>7. BookNumbers(l)
      BY <2>4, <2>6, <3>4, <3>5 DEF BookNumbers
    <3> QED
      BY <2>3, <2>4, <3>7
  <2> QED
    BY <2>5, <2>6
<1> QED
  <2>1. r = header \/ r < header \/ header < r
    BY <1>2, <1>6
  <2> QED
    BY <1>7, <1>8, <1>9, <2>1

-----------------------------------------------------------------------------
(* The walk, step by step.                                                 *)

ParseInv == Inputs /\ IsSeq /\ WalkInv

(* What is said of a place or a line stays said while the input stays.     *)
LEMMA SameInput ==
  ASSUME input' = input
  PROVE  /\ IsBook' <=> IsBook
         /\ \A i : HeaderOf(i)' = HeaderOf(i)
         /\ \A l : BookNumbers(l)' <=> BookNumbers(l)
         /\ \A l : PhotoNumbers(l)' <=> PhotoNumbers(l)
<1>1. IsBook' <=> IsBook
  BY DEF IsBook
<1>2. \A i : HeaderOf(i)' = HeaderOf(i)
  BY DEF HeaderOf
<1>3. \A l : Above(l)' = Above(l)
  BY DEF Above
<1>4. \A l : BookNumbers(l)' <=> BookNumbers(l)
  BY <1>2, <1>3 DEF BookNumbers
<1>5. \A l : PhotoNumbers(l)' <=> PhotoNumbers(l)
  BY DEF PhotoNumbers
<1> QED
  BY <1>1, <1>2, <1>4, <1>5

LEMMA SameLines ==
  ASSUME input' = input, lines' = lines
  PROVE  /\ IsSeq' <=> IsSeq
         /\ InOrder' <=> InOrder
         /\ \A at : Made(at)' <=> Made(at)
         /\ \A i, r : Kept(i, r)' <=> Kept(i, r)
         /\ NumbersAreTheSheets' <=> NumbersAreTheSheets
<1>1. \A at : Made(at)' <=> Made(at)
  BY DEF Made
<1>2. \A i, r : Kept(i, r)' <=> Kept(i, r)
  BY <1>1, SameInput DEF Kept
<1>3. NumbersAreTheSheets' <=> NumbersAreTheSheets
  BY SameInput DEF NumbersAreTheSheets
<1> QED
  BY <1>1, <1>2, <1>3 DEF IsSeq, InOrder, Before

LEMMA OpenKeeps == ParseInv /\ Open => ParseInv'
<1> SUFFICES ASSUME ParseInv, Open PROVE ParseInv'
  OBVIOUS
<1>1. /\ input' = input /\ lines' = lines /\ place' = place
      /\ lines = <<>> /\ place = <<1, 1>> /\ place[1] = 1 /\ place[2] = 1
  BY DEF Open, ParseInv, WalkInv
<1>2. Inputs' /\ IsSeq' /\ NumbersAreTheSheets' /\ InOrder'
  BY <1>1, SameLines DEF ParseInv, WalkInv, NothingIsLost, Inputs
<1>3. result' \notin {"new", "ok"}
  BY DEF Open
<1>4. result' = "walk" => IsBook' /\ HeaderIsHere' /\ RowsKept' /\ Len(lines') <= MaxLines
  <2> SUFFICES ASSUME result' = "walk"
               PROVE  IsBook' /\ HeaderIsHere' /\ RowsKept' /\ Len(lines') <= MaxLines
    OBVIOUS
  <2>1. IsBook /\ IsBook'
    BY <1>1, SameInput DEF Open
  <2>2. Len(input.sheets) \in Nat /\ (input.sheets # <<>> <=> 1 <= Len(input.sheets))
    <3>1. input.sheets \in Seq(Sheets)
      BY <2>1, BookIs DEF ParseInv
    <3> QED
      BY <3>1
  <2>3. HeaderIsHere'
    BY <1>1, <2>2 DEF Open, HeaderIsHere, HeaderOf
  <2>4. RowsKept'
    <3>1. ASSUME NEW i \in DOMAIN input.sheets, input.sheets[i].readable,
                 NEW r \in DOMAIN RowsOf(input.sheets[i])
          PROVE  ~Before(<<i, r>>, place)
      <4>1. i \in Nat /\ i >= 1 /\ input.sheets[i] \in Sheets
        BY <2>1, BookIs DEF ParseInv
      <4>2. r \in Nat /\ r >= 1
        BY <3>1, <4>1, RowsAre
      <4> QED
        BY <1>1, <4>1, <4>2 DEF Before
    <3> QED
      BY <1>1, <3>1 DEF RowsKept, Before
  <2>5. Len(lines') <= MaxLines
    <3>1. Len(<<>>) = 0 /\ MaxLines \in Nat
      BY ParseAssumption
    <3> QED
      BY <1>1, <3>1
  <2> QED
    BY <2>1, <2>3, <2>4, <2>5
<1>5. result' = "photo" => ~IsBook' /\ NamesKept'
  <2> SUFFICES ASSUME result' = "photo" PROVE ~IsBook' /\ NamesKept'
    OBVIOUS
  <2>1. ~IsBook /\ ~IsBook'
    BY <1>1, SameInput DEF Open
  <2>2. \A i \in DOMAIN input.lines : ~(i < place[2])
    BY <1>1, <2>1, AnswerIs DEF ParseInv
  <2> QED
    BY <1>1, <2>1, <2>2 DEF NamesKept
<1>6. MadeHere'
  BY <1>1 DEF MadeHere
<1>7. NothingIsLost'
  BY <1>2, <1>3 DEF NothingIsLost
<1>8. place' \in Places
  BY <1>1 DEF ParseInv, WalkInv
<1>9. WalkInv'
  BY <1>1, <1>2, <1>3, <1>4, <1>5, <1>6, <1>7, <1>8 DEF WalkInv, Before
<1> QED
  BY <1>2, <1>9 DEF ParseInv

LEMMA NextSheetKeeps == ParseInv /\ NextSheet => ParseInv'
<1> SUFFICES ASSUME ParseInv, NextSheet PROVE ParseInv'
  OBVIOUS
<1>1. /\ input' = input /\ lines' = lines /\ result = "walk" /\ result' = "walk"
  BY DEF NextSheet
<1>2. /\ Inputs' /\ IsSeq' /\ NumbersAreTheSheets' /\ InOrder'
  BY <1>1, SameLines DEF ParseInv, WalkInv, NothingIsLost, Inputs
<1>3. PICK s \in Nat \ {0}, r \in Nat \ {0} : s = place[1] /\ r = place[2]
  BY DEF ParseInv, WalkInv, Places
<1>4. place' = <<s + 1, 1>> /\ s <= Len(input.sheets)
  BY <1>3 DEF NextSheet
<1>5. IsBook /\ IsBook' /\ Len(lines') <= MaxLines
  BY <1>1, SameInput DEF ParseInv, WalkInv
<1>6. HeaderIsHere'
  <2>1. Len(input.sheets) \in Nat
    BY <1>5, BookIs DEF ParseInv
  <2>2. header' = IF s < Len(input.sheets) THEN HeaderOf(s + 1) ELSE 0
    BY <1>3 DEF NextSheet
  <2>3. s < Len(input.sheets) <=> s + 1 <= Len(input.sheets)
    BY <2>1
  <2>4. HeaderOf(s + 1)' = HeaderOf(s + 1)
    BY <1>1, SameInput
  <2> QED
    BY <1>1, <1>4, <2>2, <2>3, <2>4 DEF HeaderIsHere, HeaderOf
<1>7. RowsKept'
  <2>1. ASSUME NEW i \in DOMAIN input.sheets, input.sheets[i].readable,
               NEW k \in DOMAIN RowsOf(input.sheets[i]), Before(<<i, k>>, <<s + 1, 1>>)
        PROVE  Kept(i, k)
    <3>1. i \in Nat /\ input.sheets[i] \in Sheets
      BY <1>5, BookIs DEF ParseInv
    <3>2. k \in 1..Len(input.sheets[i].rows) /\ Len(input.sheets[i].rows) \in Nat
      BY <3>1, RowsAre
    <3>3. i <= s
      BY <2>1, <3>1, <3>2 DEF Before
    <3>4. i = s => r > Len(input.sheets[i].rows)
      BY <1>3, <2>1 DEF NextSheet, Sheet
    <3>5. Before(<<i, k>>, place)
      BY <1>3, <3>1, <3>2, <3>3, <3>4 DEF Before
    <3> QED
      BY <1>1, <2>1, <3>5 DEF ParseInv, WalkInv, RowsKept
  <2> QED
    BY <1>1, <1>4, <2>1, SameLines DEF RowsKept, Before
<1>8. MadeHere'
  <2>1. ASSUME NEW i \in DOMAIN lines PROVE Before(lines[i].at, <<s + 1, 1>>)
    <3>1. Before(lines[i].at, place)
      BY <1>1 DEF ParseInv, WalkInv, MadeHere
    <3>2. PICK a \in Places : a = lines[i].at
      BY <1>1 DEF ParseInv, WalkInv, MadeHere
    <3>3. a[1] < s \/ a[1] = s
      BY <1>3, <3>1, <3>2 DEF Before
    <3>4. a[1] < s + 1
      BY <3>3, <1>3 DEF Places
    <3> QED
      BY <3>2, <3>4 DEF Before
  <2>2. \A i \in DOMAIN lines : lines[i].at \in Places
    BY <1>1 DEF ParseInv, WalkInv, MadeHere
  <2> QED
    BY <1>1, <1>4, <2>1, <2>2 DEF MadeHere, Before
<1>9. NothingIsLost'
  BY <1>1, <1>2 DEF NothingIsLost
<1>10. WalkInv'
  <2>1. place' \in Places
    BY <1>4 DEF Places
  <2> QED
    BY <1>1, <1>2, <1>5, <1>6, <1>7, <1>8, <1>9, <2>1 DEF WalkInv, Before
<1> QED
  BY <1>2, <1>10 DEF ParseInv

(* A full estimate ends the walk.                                          *)
LEMMA FullKeeps ==
  ASSUME ParseInv, TakeRow, Len(lines) >= MaxLines
  PROVE  ParseInv'
<1>1. /\ input' = input /\ lines' = lines /\ place' = place
      /\ result = "walk" /\ result' \in {"ok", "no_data"}
  BY DEF TakeRow, Finished
<1>2. Inputs' /\ IsSeq' /\ NumbersAreTheSheets' /\ InOrder'
  BY <1>1, SameLines DEF ParseInv, WalkInv, NothingIsLost, Inputs
<1>3. IsBook /\ IsBook' /\ Len(lines) = MaxLines
  <2>1. IsBook /\ Len(lines) <= MaxLines
    BY <1>1 DEF ParseInv, WalkInv
  <2>2. Len(lines) \in Nat /\ MaxLines \in Nat
    BY LinesAre, ParseAssumption DEF ParseInv
  <2>3. Len(lines) = MaxLines
    BY <2>1, <2>2
  <2> QED
    BY <1>1, <2>1, <2>3, SameInput
<1>4. NothingIsLost'
  BY <1>1, <1>2, <1>3 DEF NothingIsLost
<1>5. place' \in Places
  BY <1>1 DEF ParseInv, WalkInv
<1> QED
  BY <1>1, <1>2, <1>4, <1>5 DEF ParseInv, WalkInv

LEMMA RowKeeps ==
  ASSUME ParseInv, TakeRow, ~(Len(lines) >= MaxLines)
  PROVE  ParseInv'
<1>1. /\ input' = input /\ header' = header /\ result = "walk" /\ result' = "walk"
      /\ place' = <<place[1], place[2] + 1>>
      /\ lines' = lines \o LineOf(RowsOf(Sheet)[place[2]])
      /\ place[1] <= Len(input.sheets) /\ place[2] <= Len(Sheet.rows) /\ Sheet.readable
  BY DEF TakeRow
<1>2. /\ Inputs /\ IsSeq /\ IsBook /\ HeaderIsHere /\ RowsKept /\ MadeHere /\ InOrder
      /\ NumbersAreTheSheets
  BY <1>1 DEF ParseInv, WalkInv, NothingIsLost
<1>3. PICK s \in Nat \ {0}, r \in Nat \ {0} : s = place[1] /\ r = place[2] /\ place = <<s, r>>
  BY DEF ParseInv, WalkInv, Places
<1>4. PICK row : row = RowsOf(Sheet)[place[2]]
  OBVIOUS
<1>5. \/ LineOf(row) = <<>> /\ (BlankRow(row) \/ r = HeaderOf(s))
      \/ \E l : LineOf(row) = <<l>> /\ l.at = place /\ BookNumbers(l)
  BY <1>1, <1>2, <1>3, <1>4, RowBecomes DEF ParseInv, WalkInv
<1>6. PICK t : t = LineOf(row)
  OBVIOUS
<1>6a. /\ \E T : t \in Seq(T)
       /\ Len(t) \in 0..1
       /\ Len(t) = 0 => BlankRow(row) \/ r = HeaderOf(s)
       /\ \A j \in 1..Len(t) : t[j].at = place /\ BookNumbers(t[j])
  <2>1. CASE t = <<>> /\ (BlankRow(row) \/ r = HeaderOf(s))
    <3>1. t \in Seq({0}) /\ Len(t) = 0
      BY <2>1
    <3> QED
      BY <2>1, <3>1
  <2>2. CASE \E l : t = <<l>> /\ l.at = place /\ BookNumbers(l)
    <3>1. PICK l : t = <<l>> /\ l.at = place /\ BookNumbers(l)
      BY <2>2
    <3>2. t \in Seq({l}) /\ Len(t) = 1 /\ t[1] = l
      BY <3>1
    <3>3. \A j \in 1..Len(t) : t[j] = l
      BY <3>2
    <3>4. Len(t) \in 0..1 /\ ~(Len(t) = 0)
      BY <3>2
    <3>5. \E T : t \in Seq(T)
      BY <3>2
    <3>6. \A j \in 1..Len(t) : t[j].at = place /\ BookNumbers(t[j])
      <4>1. ASSUME NEW j \in 1..Len(t) PROVE t[j].at = place /\ BookNumbers(t[j])
        <5>1. t[j] = l
          BY <3>3
        <5> QED
          BY <3>1, <5>1
      <4> QED
        BY <4>1
    <3> QED
      BY <3>4, <3>5, <3>6
  <2> QED
    BY <1>5, <1>6, <2>1, <2>2
<1>6b. PICK T : t \in Seq(T)
  BY <1>6a
<1>7. lines' = lines \o t
  BY <1>1, <1>4, <1>6
<1>8. /\ IsSeq' /\ Len(t) \in Nat /\ Len(lines') = Len(lines) + Len(t)
      /\ \A at : Made(at)' <=> Made(at) \/ \E j \in 1..Len(t) : t[j].at = at
      /\ \A k \in DOMAIN lines' :
            \/ k \in DOMAIN lines /\ lines'[k] = lines[k]
            \/ \E j \in 1..Len(t) : k = Len(lines) + j /\ lines'[k] = t[j]
  BY <1>2, <1>6b, <1>7, Added
<1>9. IsBook' /\ Len(lines') <= MaxLines
  <2>1. Len(lines) \in Nat /\ MaxLines \in Nat
    BY <1>2, LinesAre, ParseAssumption
  <2>2. Len(lines) + 1 <= MaxLines
    BY <2>1
  <2>3. Len(lines') <= MaxLines
    BY <1>6a, <1>8, <2>1, <2>2
  <2> QED
    BY <1>1, <1>2, <2>3, SameInput
<1>10. HeaderIsHere'
  <2>1. place'[1] = s
    BY <1>1, <1>3
  <2>2. HeaderOf(s)' = HeaderOf(s)
    BY <1>1, SameInput
  <2> QED
    BY <1>1, <1>2, <1>3, <2>1, <2>2 DEF HeaderIsHere, HeaderOf
<1>11. RowsKept'
  <2>1. ASSUME NEW i \in DOMAIN input.sheets, input.sheets[i].readable,
               NEW k \in DOMAIN RowsOf(input.sheets[i]), Before(<<i, k>>, <<s, r + 1>>)
        PROVE  Kept(i, k)'
    <3>1. i \in Nat /\ input.sheets[i] \in Sheets
      BY <1>2, BookIs
    <3>2. k \in Nat
      BY <3>1, RowsAre
    <3>3. CASE Before(<<i, k>>, place)
      <4>1. Kept(i, k)
        BY <1>2, <2>1, <3>3 DEF RowsKept
      <4>2. Made(<<i, k>>) => Made(<<i, k>>)'
        BY <1>8
      <4>3. HeaderOf(i)' = HeaderOf(i)
        BY <1>1, SameInput
      <4> QED
        BY <1>1, <4>1, <4>2, <4>3 DEF Kept
    <3>4. CASE ~Before(<<i, k>>, place)
      <4>1. i = s /\ k = r
        BY <1>3, <2>1, <3>1, <3>2, <3>4 DEF Before
      <4>2. row = RowsOf(input.sheets[i])[k]
        BY <1>3, <1>4, <4>1 DEF Sheet
      <4>3. BlankRow(row) \/ r = HeaderOf(s) \/ Made(<<i, k>>)'
        <5>1. CASE Len(t) = 0
          BY <1>6a, <5>1
        <5>2. CASE Len(t) = 1
          <6>1. 1 \in 1..Len(t) /\ t[1].at = <<i, k>>
            BY <1>3, <1>6a, <4>1, <5>2
          <6> QED
            BY <1>8, <6>1
        <5> QED
          BY <1>6a, <5>1, <5>2
      <4>4. HeaderOf(i)' = HeaderOf(i)
        BY <1>1, SameInput
      <4> QED
        BY <1>1, <4>1, <4>2, <4>3, <4>4 DEF Kept
    <3> QED
      BY <3>3, <3>4
  <2>2. place' = <<s, r + 1>>
    BY <1>1, <1>3
  <2>3. ASSUME NEW i \in DOMAIN input'.sheets, input'.sheets[i].readable,
               NEW k \in DOMAIN RowsOf(input'.sheets[i]), Before(<<i, k>>, place')
        PROVE  Kept(i, k)'
    BY <1>1, <2>1, <2>2, <2>3
  <2> QED
    BY <2>3 DEF RowsKept, Before
<1>12. MadeHere'
  <2>1. place' = <<s, r + 1>> /\ place \in Places /\ place' \in Places
    BY <1>1, <1>3 DEF Places
  <2>2. \A a \in Places : Before(a, place) \/ a = place => Before(a, place')
    BY <1>3, <2>1 DEF Before, Places
  <2>3. \A k \in DOMAIN lines : lines[k].at \in Places /\ Before(lines[k].at, place)
    BY <1>2 DEF MadeHere
  <2>4. ASSUME NEW k \in DOMAIN lines'
        PROVE  lines'[k].at \in Places /\ Before(lines'[k].at, place')
    <3>1. CASE k \in DOMAIN lines /\ lines'[k] = lines[k]
      BY <2>2, <2>3, <3>1
    <3>2. CASE \E j \in 1..Len(t) : k = Len(lines) + j /\ lines'[k] = t[j]
      BY <1>6a, <2>1, <2>2, <3>2
    <3> QED
      BY <1>8, <3>1, <3>2
  <2> QED
    BY <2>4 DEF MadeHere, Before
<1>13. InOrder'
  <2>1. \A i, j \in 1..Len(t) : i < j => Before(t[i].at, t[j].at)
    BY <1>6a
  <2>2. \A i \in DOMAIN lines : \A j \in 1..Len(t) : Before(lines[i].at, t[j].at)
    BY <1>2, <1>6a DEF MadeHere
  <2> QED
    BY <1>2, <1>6b, <1>7, <2>1, <2>2, StayInOrder
<1>14. NumbersAreTheSheets'
  <2>1. \A l : BookNumbers(l)' <=> BookNumbers(l)
    BY <1>1, SameInput
  <2>2. ASSUME NEW k \in DOMAIN lines' PROVE BookNumbers(lines'[k])
    <3>1. CASE k \in DOMAIN lines /\ lines'[k] = lines[k]
      BY <1>2, <3>1 DEF NumbersAreTheSheets
    <3>2. CASE \E j \in 1..Len(t) : k = Len(lines) + j /\ lines'[k] = t[j]
      BY <1>6a, <3>2
    <3> QED
      BY <1>8, <3>1, <3>2
  <2> QED
    BY <1>9, <2>1, <2>2 DEF NumbersAreTheSheets
<1>15. NothingIsLost'
  BY <1>1, <1>13 DEF NothingIsLost
<1>16. place' \in Places /\ Inputs'
  BY <1>1, <1>2, <1>3 DEF Places, Inputs
<1>17. WalkInv'
  BY <1>1, <1>9, <1>10, <1>11, <1>12, <1>14, <1>15, <1>16 DEF WalkInv
<1> QED
  BY <1>8, <1>16, <1>17 DEF ParseInv

LEMMA TakeRowKeeps == ParseInv /\ TakeRow => ParseInv'
  BY FullKeeps, RowKeeps

(* What the walk leaves of a sheet it has read is at most its header.      *)
LEMMA LeftIsHeader ==
  ASSUME Inputs, IsBook, NEW i \in DOMAIN input.sheets,
         NEW rows, rows = RowsOf(input.sheets[i]),
         \A r \in DOMAIN rows : BlankRow(rows[r]) \/ Made(<<i, r>>) \/ r = HeaderOf(i),
         NEW left, left = {r \in DOMAIN rows : ~BlankRow(rows[r]) /\ ~Made(<<i, r>>)}
  PROVE  Cardinality(left) <= 1 /\ \A r \in left : SaysTwoColumns(rows[r])
<1>1. input.sheets[i] \in Sheets
  BY BookIs
<1>2. rows \in Seq(Seq(Cells)) /\ DOMAIN rows = 1..Len(rows) /\ Len(rows) \in Nat
  BY <1>1, RowsAre
<1>3. PICK h : h = HeaderOf(i) /\ (h # 0 => IsHeader(rows[h]))
  <2>1. HeaderOf(i) = Find(rows)
    BY DEF HeaderOf
  <2>2. Find(rows) # 0 => IsHeader(rows[Find(rows)])
    BY <1>2, FindIs
  <2> QED
    BY <2>1, <2>2
<1>4. \A r \in left : r = h
  BY <1>3
<1>5. ASSUME NEW r \in left PROVE SaysTwoColumns(rows[r])
  <2>1. r \in 1..Len(rows) /\ r = h
    BY <1>2, <1>4
  <2>2. IsHeader(rows[r])
    BY <1>2, <1>3, <2>1
  <2>3. rows[r] \in Seq(Cells)
    BY <1>2, <2>1
  <2> QED
    BY <2>2, <2>3, HeaderSays
<1>6. Cardinality(left) <= 1
  <2>1. CASE left = {}
    <3>1. Cardinality({}) = 0
      BY FS_EmptySet
    <3>2. Cardinality(left) = 0
      BY <2>1, <3>1
    <3> QED
      BY <3>2
  <2>2. CASE left # {}
    <3>1. left = {h}
      BY <1>4, <2>2
    <3>2. Cardinality({h}) = 1
      BY FS_Singleton
    <3>3. Cardinality(left) = 1
      BY <3>1, <3>2
    <3> QED
      BY <3>3
  <2> QED
    BY <2>1, <2>2
<1> QED
  BY <1>5, <1>6

LEMMA FinishBookKeeps == ParseInv /\ FinishBook => ParseInv'
<1> SUFFICES ASSUME ParseInv, FinishBook PROVE ParseInv'
  OBVIOUS
<1>1. /\ input' = input /\ lines' = lines /\ place' = place
      /\ result = "walk" /\ result' \in {"no_data", "ok"} /\ place[1] > Len(input.sheets)
  BY DEF FinishBook, Finished
<1>2. Inputs' /\ IsSeq' /\ NumbersAreTheSheets' /\ InOrder'
  BY <1>1, SameLines DEF ParseInv, WalkInv, NothingIsLost, Inputs
<1>3. IsBook /\ IsBook' /\ RowsKept
  BY <1>1, SameInput DEF ParseInv, WalkInv
<1>4. ASSUME NEW i \in DOMAIN input.sheets
      PROVE  LET rows == RowsOf(input.sheets[i])
                 left == {r \in DOMAIN rows : ~BlankRow(rows[r]) /\ ~Made(<<i, r>>)}
             IN \/ ~input.sheets[i].readable
                \/ Cardinality(left) <= 1 /\ \A r \in left : SaysTwoColumns(rows[r])
  <2> SUFFICES ASSUME input.sheets[i].readable
               PROVE  LET rows == RowsOf(input.sheets[i])
                          left == {r \in DOMAIN rows : ~BlankRow(rows[r]) /\ ~Made(<<i, r>>)}
                      IN Cardinality(left) <= 1 /\ \A r \in left : SaysTwoColumns(rows[r])
    OBVIOUS
  <2>1. PICK rows : rows = RowsOf(input.sheets[i])
    OBVIOUS
  <2>2. i \in 1..Len(input.sheets) /\ Len(input.sheets) \in Nat
    BY <1>3, BookIs DEF ParseInv
  <2>3. \A r : Before(<<i, r>>, place)
    <3>1. i < place[1]
      BY <1>1, <2>2 DEF ParseInv, WalkInv, Places
    <3> QED
      BY <3>1 DEF Before
  <2>4. \A r \in DOMAIN rows : BlankRow(rows[r]) \/ Made(<<i, r>>) \/ r = HeaderOf(i)
    BY <1>3, <2>1, <2>3 DEF RowsKept, Kept
  <2> QED
    BY <1>3, <2>1, <2>4, LeftIsHeader DEF ParseInv
<1>5. NothingIsLost'
  <2>1. \A at : Made(at)' <=> Made(at)
    BY <1>1, SameLines
  <2> QED
    BY <1>1, <1>2, <1>3, <1>4, <2>1 DEF NothingIsLost
<1>6. place' \in Places
  BY <1>1 DEF ParseInv, WalkInv
<1> QED
  BY <1>1, <1>2, <1>5, <1>6 DEF ParseInv, WalkInv

LEMMA AnswerLineKeeps == ParseInv /\ TakeAnswerLine => ParseInv'
<1> SUFFICES ASSUME ParseInv, TakeAnswerLine PROVE ParseInv'
  OBVIOUS
<1>1. PICK n \in Nat \ {0} : n = place[2] /\ place = <<1, n>>
  BY DEF ParseInv, WalkInv, Places, TakeAnswerLine
<1>2. PICK a : a = input.lines[n]
  OBVIOUS
<1>3. PICK t : t = IF a.name THEN <<PhotoLine(place, a)>> ELSE <<>>
  OBVIOUS
<1>4. /\ input' = input /\ result = "photo" /\ result' = "photo"
      /\ place' = <<1, n + 1>> /\ lines' = lines \o t /\ n <= Len(input.lines)
  BY <1>1, <1>2, <1>3 DEF TakeAnswerLine
<1>5. /\ Inputs /\ IsSeq /\ ~IsBook /\ NamesKept /\ MadeHere /\ InOrder
      /\ NumbersAreTheSheets
  BY <1>4 DEF ParseInv, WalkInv, NothingIsLost
<1>6. n \in DOMAIN input.lines /\ a \in AnswerLines
  BY <1>2, <1>4, <1>5, AnswerIs
<1>7. PICK l : l = PhotoLine(place, a)
  OBVIOUS
<1>8. l.at = place /\ PhotoNumbers(l)
  <2>1. /\ l.at = place
        /\ \A f \in {"quantity", "price", "total"} : l[f] # None => l[f] > 0 /\ l[f] = a[f]
        /\ None \notin {l.quantity, l.price, l.total} =>
              \/ l.quantity * l.price \in (99 * l.total)..(101 * l.total)
              \/ l.quantity * l.price \in (100 * l.total - 100)..(100 * l.total + 100)
    BY <1>6, <1>7, AnsweredLine
  <2>2. a = input.lines[l.at[2]]
    BY <1>1, <1>2, <2>1
  <2> QED
    BY <2>1, <2>2 DEF PhotoNumbers
<1>9. t \in Seq({l}) /\ Len(t) \in Nat /\ \A j \in 1..Len(t) : j = 1 /\ t[j] = l
  <2>1. CASE a.name
    <3>1. t = <<l>>
      BY <1>3, <1>7, <2>1
    <3>2. t \in Seq({l}) /\ Len(t) = 1 /\ t[1] = l
      BY <3>1
    <3> QED
      BY <3>2
  <2>2. CASE ~a.name
    <3>1. t = <<>>
      BY <1>3, <2>2
    <3>2. t \in Seq({l}) /\ Len(t) = 0
      BY <3>1
    <3> QED
      BY <3>2
  <2> QED
    BY <2>1, <2>2
<1>10. (\E j \in 1..Len(t) : TRUE) <=> a.name
  <2>1. a.name => Len(t) = 1
    <3>1. Len(<<l>>) = 1
      OBVIOUS
    <3> QED
      BY <1>3, <1>7, <3>1
  <2>2. ~a.name => Len(t) = 0
    BY <1>3
  <2> QED
    BY <2>1, <2>2
<1>11. /\ IsSeq'
       /\ \A at : Made(at)' <=> Made(at) \/ \E j \in 1..Len(t) : t[j].at = at
       /\ \A k \in DOMAIN lines' :
             \/ k \in DOMAIN lines /\ lines'[k] = lines[k]
             \/ \E j \in 1..Len(t) : k = Len(lines) + j /\ lines'[k] = t[j]
  BY <1>4, <1>5, <1>9, Added
<1>12. NamesKept'
  <2>1. ASSUME NEW i \in DOMAIN input.lines, i < n + 1
        PROVE  input.lines[i].name => Made(<<1, i>>)'
    <3>1. i \in Nat
      BY <1>5, AnswerIs
    <3>2. CASE i < n
      <4>1. input.lines[i].name => Made(<<1, i>>)
        BY <1>1, <1>5, <3>2 DEF NamesKept
      <4> QED
        BY <1>11, <4>1
    <3>3. CASE i = n
      <4>1. a.name => Made(<<1, n>>)'
        BY <1>1, <1>8, <1>9, <1>10, <1>11
      <4> QED
        BY <1>2, <3>3, <4>1
    <3> QED
      BY <2>1, <3>1, <3>2, <3>3
  <2>2. place'[2] = n + 1
    BY <1>4
  <2> QED
    BY <1>4, <2>1, <2>2 DEF NamesKept
<1>13. MadeHere'
  <2>1. place' = <<1, n + 1>> /\ place \in Places /\ place' \in Places
    BY <1>1, <1>4 DEF Places
  <2>2. \A b \in Places : Before(b, place) \/ b = place => Before(b, place')
    BY <1>1, <2>1 DEF Before, Places
  <2>3. \A k \in DOMAIN lines : lines[k].at \in Places /\ Before(lines[k].at, place)
    BY <1>5 DEF MadeHere
  <2>4. ASSUME NEW k \in DOMAIN lines'
        PROVE  lines'[k].at \in Places /\ Before(lines'[k].at, place')
    <3>1. CASE k \in DOMAIN lines /\ lines'[k] = lines[k]
      BY <2>2, <2>3, <3>1
    <3>2. CASE \E j \in 1..Len(t) : k = Len(lines) + j /\ lines'[k] = t[j]
      BY <1>8, <1>9, <2>1, <2>2, <3>2
    <3> QED
      BY <1>11, <3>1, <3>2
  <2> QED
    BY <2>4 DEF MadeHere, Before
<1>14. InOrder'
  <2>1. \A i, j \in 1..Len(t) : i < j => Before(t[i].at, t[j].at)
    <3>1. \A i, j \in 1..Len(t) : i = 1 /\ j = 1
      BY <1>9
    <3> QED
      BY <3>1
  <2>2. \A i \in DOMAIN lines : \A j \in 1..Len(t) : Before(lines[i].at, t[j].at)
    BY <1>5, <1>8, <1>9 DEF MadeHere
  <2> QED
    BY <1>4, <1>5, <1>9, <2>1, <2>2, StayInOrder
<1>15. ~IsBook'
  BY <1>4, <1>5, SameInput
<1>16. NumbersAreTheSheets'
  <2>1. \A x : PhotoNumbers(x)' <=> PhotoNumbers(x)
    BY <1>4, SameInput
  <2>2. ASSUME NEW k \in DOMAIN lines' PROVE PhotoNumbers(lines'[k])
    <3>1. CASE k \in DOMAIN lines /\ lines'[k] = lines[k]
      BY <1>5, <3>1 DEF NumbersAreTheSheets
    <3>2. CASE \E j \in 1..Len(t) : k = Len(lines) + j /\ lines'[k] = t[j]
      BY <1>8, <1>9, <3>2
    <3> QED
      BY <1>11, <3>1, <3>2
  <2> QED
    BY <1>15, <2>1, <2>2 DEF NumbersAreTheSheets
<1>17. NothingIsLost'
  BY <1>4, <1>14 DEF NothingIsLost
<1>18. place' \in Places /\ place'[1] = 1 /\ Inputs'
  BY <1>4, <1>5 DEF Places, Inputs
<1>19. WalkInv'
  BY <1>4, <1>12, <1>13, <1>15, <1>16, <1>17, <1>18 DEF WalkInv
<1> QED
  BY <1>11, <1>18, <1>19 DEF ParseInv

LEMMA FinishPhotoKeeps == ParseInv /\ FinishPhoto => ParseInv'
<1> SUFFICES ASSUME ParseInv, FinishPhoto PROVE ParseInv'
  OBVIOUS
<1>1. PICK n \in Nat \ {0} : n = place[2] /\ place = <<1, n>>
  BY DEF ParseInv, WalkInv, Places, FinishPhoto
<1>2. PICK u : u = input.unreadable
  OBVIOUS
<1>3. PICK t : t = [i \in 1..u |-> PhotoRaw(<<2, i>>)]
  OBVIOUS
<1>4. /\ input' = input /\ place' = place /\ result = "photo"
      /\ result' \in {"bad_answer", "ok"} /\ lines' = lines \o t /\ n > Len(input.lines)
  BY <1>1, <1>2, <1>3 DEF FinishPhoto
<1>5. /\ Inputs /\ IsSeq /\ ~IsBook /\ NamesKept /\ MadeHere /\ InOrder
      /\ NumbersAreTheSheets
  BY <1>4 DEF ParseInv, WalkInv, NothingIsLost
<1>6. u \in Nat /\ Len(input.lines) \in Nat /\ DOMAIN input.lines = 1..Len(input.lines)
  BY <1>2, <1>5, AnswerIs
<1>7. PICK T : T = {PhotoRaw(<<2, i>>) : i \in 1..u}
  OBVIOUS
<1>8. t \in Seq(T) /\ Len(t) = u
  BY <1>3, <1>6, <1>7
<1>9. \A j \in 1..u : t[j] = PhotoRaw(<<2, j>>) /\ t[j].at = <<2, j>> /\ PhotoNumbers(t[j])
  <2>1. ASSUME NEW j \in 1..u
        PROVE  t[j] = PhotoRaw(<<2, j>>) /\ t[j].at = <<2, j>> /\ PhotoNumbers(t[j])
    <3>1. t[j] = PhotoRaw(<<2, j>>)
      BY <1>3
    <3>2. PICK l : l = t[j]
      OBVIOUS
    <3>3. l.at = <<2, j>> /\ l.quantity = None /\ l.price = None /\ l.total = None
      BY <3>1, <3>2 DEF PhotoRaw
    <3>4. PhotoNumbers(l)
      BY <3>3 DEF PhotoNumbers
    <3> QED
      BY <3>1, <3>2, <3>3, <3>4
  <2> QED
    BY <2>1
<1>10. /\ IsSeq'
       /\ \A at : Made(at)' <=> Made(at) \/ \E j \in 1..Len(t) : t[j].at = at
       /\ \A k \in DOMAIN lines' :
             \/ k \in DOMAIN lines /\ lines'[k] = lines[k]
             \/ \E j \in 1..Len(t) : k = Len(lines) + j /\ lines'[k] = t[j]
  BY <1>4, <1>5, <1>8, Added
<1>11. InOrder'
  <2>1. \A i, j \in 1..Len(t) : i < j => Before(t[i].at, t[j].at)
    <3>1. \A i, j : i < j => Before(<<2, i>>, <<2, j>>)
      BY DEF Before
    <3> QED
      BY <1>8, <1>9, <3>1
  <2>2. ASSUME NEW i \in DOMAIN lines, NEW j \in 1..Len(t)
        PROVE  Before(lines[i].at, t[j].at)
    <3>1. PICK a \in Places : a = lines[i].at /\ Before(a, place)
      BY <1>5 DEF MadeHere
    <3>2. a[1] < 2
      BY <1>1, <3>1 DEF Before, Places
    <3>3. t[j].at = <<2, j>>
      BY <1>8, <1>9
    <3>4. Before(a, <<2, j>>)
      BY <3>2 DEF Before
    <3> QED
      BY <3>1, <3>3, <3>4
  <2> QED
    BY <1>4, <1>5, <1>8, <2>1, <2>2, StayInOrder
<1>12. ~IsBook'
  BY <1>4, <1>5, SameInput
<1>13. NumbersAreTheSheets'
  <2>1. \A x : PhotoNumbers(x)' <=> PhotoNumbers(x)
    BY <1>4, SameInput
  <2>2. ASSUME NEW k \in DOMAIN lines' PROVE PhotoNumbers(lines'[k])
    <3>1. CASE k \in DOMAIN lines /\ lines'[k] = lines[k]
      BY <1>5, <3>1 DEF NumbersAreTheSheets
    <3>2. CASE \E j \in 1..Len(t) : k = Len(lines) + j /\ lines'[k] = t[j]
      BY <1>8, <1>9, <3>2
    <3> QED
      BY <1>10, <3>1, <3>2
  <2> QED
    BY <1>12, <2>1, <2>2 DEF NumbersAreTheSheets
<1>14. ASSUME NEW i \in DOMAIN input.lines
       PROVE  input.lines[i].name => Made(<<1, i>>)'
  <2>1. i < place[2]
    BY <1>1, <1>4, <1>6
  <2>2. input.lines[i].name => Made(<<1, i>>)
    BY <1>5, <2>1 DEF NamesKept
  <2> QED
    BY <1>10, <2>2
<1>15. ASSUME NEW i \in 1..input.unreadable PROVE Made(<<2, i>>)'
  BY <1>2, <1>8, <1>9, <1>10
<1>16. NothingIsLost'
  BY <1>4, <1>11, <1>12, <1>14, <1>15 DEF NothingIsLost
<1>17. place' \in Places /\ Inputs'
  BY <1>4, <1>5 DEF ParseInv, WalkInv, Inputs
<1>18. WalkInv'
  BY <1>4, <1>13, <1>16, <1>17 DEF WalkInv
<1> QED
  BY <1>10, <1>17, <1>18 DEF ParseInv

LEMMA ParseStart == Init => ParseInv
<1> SUFFICES ASSUME Init PROVE ParseInv
  OBVIOUS
<1>1. /\ Inputs /\ place = <<1, 1>> /\ lines = <<>> /\ result = "new"
      /\ DOMAIN lines = {}
  BY DEF Init, Inputs
<1>2. IsSeq
  <2>1. lines \in Seq({0})
    BY <1>1
  <2> QED
    BY <2>1 DEF IsSeq
<1>3. NothingIsLost /\ NumbersAreTheSheets
  BY <1>1 DEF NothingIsLost, NumbersAreTheSheets, InOrder
<1>4. place \in Places
  BY <1>1 DEF Places
<1> QED
  BY <1>1, <1>2, <1>3, <1>4 DEF ParseInv, WalkInv

LEMMA ParseStep == ParseInv /\ [Next]_vars => ParseInv'
<1> SUFFICES ASSUME ParseInv, [Next]_vars PROVE ParseInv'
  OBVIOUS
<1>1. CASE Open
  BY <1>1, OpenKeeps
<1>2. CASE NextSheet
  BY <1>2, NextSheetKeeps
<1>3. CASE TakeRow
  BY <1>3, TakeRowKeeps
<1>4. CASE FinishBook
  BY <1>4, FinishBookKeeps
<1>5. CASE TakeAnswerLine
  BY <1>5, AnswerLineKeeps
<1>6. CASE FinishPhoto
  BY <1>6, FinishPhotoKeeps
<1>7. CASE UNCHANGED vars
  <2>1. /\ input' = input /\ place' = place /\ header' = header /\ lines' = lines
        /\ result' = result
    BY <1>7 DEF vars
  <2>2. /\ IsSeq' <=> IsSeq
        /\ InOrder' <=> InOrder
        /\ \A at : Made(at)' <=> Made(at)
        /\ \A i, r : Kept(i, r)' <=> Kept(i, r)
        /\ NumbersAreTheSheets' <=> NumbersAreTheSheets
        /\ IsBook' <=> IsBook
    BY <2>1, SameLines, SameInput
  <2>3. HeaderIsHere' <=> HeaderIsHere
    BY <2>1 DEF HeaderIsHere, HeaderOf
  <2>4. RowsKept' <=> RowsKept
    BY <2>1, <2>2 DEF RowsKept, Before
  <2>5. NamesKept' <=> NamesKept
    BY <2>1, <2>2 DEF NamesKept
  <2>6. MadeHere' <=> MadeHere
    BY <2>1 DEF MadeHere, Before
  <2>7. NothingIsLost' <=> NothingIsLost
    BY <2>1, <2>2 DEF NothingIsLost
  <2>8. WalkInv' <=> WalkInv
    BY <2>1, <2>2, <2>3, <2>4, <2>5, <2>6, <2>7 DEF WalkInv
  <2> QED
    BY <2>1, <2>2, <2>8 DEF ParseInv, Inputs
<1> QED
  BY <1>1, <1>2, <1>3, <1>4, <1>5, <1>6, <1>7 DEF Next

LEMMA ParseInvariant == Spec => []ParseInv
  BY ParseStart, ParseStep, PTL DEF Spec

(* parse/mod.rs and photo.rs: whatever the file, a line that was not       *)
(* understood is not thrown away: of a sheet no row but the one taken for  *)
(* its header is left out, and of an answer no line that has a name.       *)
THEOREM LinesAreKept == Spec => []NothingIsLost
<1>1. ParseInv => NothingIsLost
  BY DEF ParseInv, WalkInv
<1> QED
  BY <1>1, ParseInvariant, PTL

(* line.rs and photo.rs: whatever the file, a number of a line stands      *)
(* under the words that say so, or is the last of its row where there is   *)
(* no header; the numbers of a photo's line agree.                         *)
THEOREM NumbersAreTaken == Spec => []NumbersAreTheSheets
<1>1. ParseInv => NumbersAreTheSheets
  BY DEF ParseInv, WalkInv
<1> QED
  BY <1>1, ParseInvariant, PTL

(* A cut row has no more cells than columns are kept.                      *)
LEMMA RowsFit ==
  ASSUME NEW sheet \in Sheets, NEW k \in 1..Len(sheet.rows)
  PROVE  RowsOf(sheet)[k] \in Seq(Cells) /\ Len(RowsOf(sheet)[k]) <= MaxColumns
<1>1. PICK row \in Seq(Cells) : row = sheet.rows[k]
  <2>1. sheet.rows \in Seq(Seq(Cells))
    BY DEF Sheets
  <2> QED
    BY <2>1
<1>2. Len(row) \in Nat /\ MaxColumns \in Nat
  BY ParseAssumption
<1>3. PICK n : n = IF Len(row) < MaxColumns THEN Len(row) ELSE MaxColumns
  OBVIOUS
<1>4. n \in Nat /\ n <= Len(row) /\ n <= MaxColumns
  BY <1>2, <1>3
<1>5. SubSeq(row, 1, n) \in Seq(Cells) /\ Len(SubSeq(row, 1, n)) = n
  BY <1>4
<1>6. RowsOf(sheet)[k] = SubSeq(row, 1, n)
  <2>1. k \in DOMAIN sheet.rows
    BY RowsAre DEF Sheets
  <2> QED
    BY <1>1, <1>3, <2>1 DEF RowsOf, CutRow
<1> QED
  BY <1>4, <1>5, <1>6

(* The last number of a row is in it.                                      *)
LEMMA LastNumberIs ==
  ASSUME NEW row \in Seq(Cells)
  PROVE  LastNumber(row) \in {0} \cup DOMAIN row
<1> DEFINE S == {i \in DOMAIN row : row[i].number}
           T == {Len(row) - i : i \in S}
<1>1. DOMAIN row = 1..Len(row) /\ Len(row) \in Nat
  OBVIOUS
<1>2. CASE S = {}
  BY <1>2 DEF LastNumber
<1>3. CASE S # {}
  <2>1. T \subseteq Nat /\ T # {}
    BY <1>1, <1>3
  <2>2. PICK x \in T : \A y \in T : x <= y
    <3> HIDE DEF T
    <3> QED
      BY <2>1, LeastNat
  <2>3. PICK i \in S : x = Len(row) - i
    BY <2>2
  <2>4. \A j \in S : j <= i
    <3>1. ASSUME NEW j \in S PROVE j <= i
      <4>1. x <= Len(row) - j
        BY <2>2
      <4> QED
        BY <1>1, <2>3, <4>1
    <3> QED
      BY <3>1
  <2>5. LastNumber(row) = CHOOSE k \in S : \A j \in S : j <= k
    BY <1>3 DEF LastNumber
  <2>6. LastNumber(row) \in S
    <3> HIDE DEF S
    <3> QED
      BY <2>4, <2>5
  <2> QED
    BY <2>6
<1> QED
  BY <1>2, <1>3

(* line.rs takes a field from one of the columns, or from a cell.          *)
LEMMA RowInColumns ==
  ASSUME NEW at, NEW row \in Seq(Cells), DOMAIN row \subseteq 1..MaxColumns, NEW h, NEW c,
         \A f \in Fields : c[f] \in 0..MaxColumns
  PROVE  InColumns(RawLine(at)) /\ InColumns(ParseRow(at, row, h, c))
<1> DEFINE filled == IF h = 0 THEN FillByLastNumber(RawLine(at), row)
                     ELSE FillByColumns(RawLine(at), row, c)
           named == IF filled.unit = 0 THEN [filled EXCEPT !.unit = UnitOf(row)] ELSE filled
           Line(t, u, q, p, s) == [at |-> at, title |-> t, unit |-> u, quantity |-> q,
                                   price |-> p, total |-> s]
           N == 0..MaxColumns
<1>0. /\ 0 \in N /\ DOMAIN row \subseteq N
      /\ c.title \in N /\ c.unit \in N /\ c.quantity \in N /\ c.price \in N /\ c.total \in N
  BY ParseAssumption DEF Fields
<1>1. \A S : S \subseteq DOMAIN row => Least(S) \in N
  <2> SUFFICES ASSUME NEW S, S \subseteq DOMAIN row PROVE Least(S) \in N
    OBVIOUS
  <2>1. S \subseteq Nat \ {0}
    BY ParseAssumption
  <2>2. Least(S) = 0 \/ Least(S) \in S
    BY <2>1, LeastIs
  <2> QED
    BY <1>0, <2>2
<1>2. FirstTitle(row) \in N /\ UnitOf(row) \in N
  BY <1>1 DEF FirstTitle, UnitOf
<1>3. LastNumber(row) \in N /\ \A i \in N : NumberAt(row, i) \in N
  BY <1>0, LastNumberIs DEF NumberAt
<1> HIDE DEF N
<1>4. \E t, u, q, p, s \in N : filled = Line(t, u, q, p, s)
  <2>1. CASE h = 0
    <3>1. filled = Line(FirstTitle(row), 0, 0, 0, LastNumber(row))
      BY <2>1 DEF FillByLastNumber, RawLine
    <3> HIDE DEF filled, Line
    <3> QED
      BY <1>0, <1>2, <1>3, <3>1
  <2>2. CASE h # 0
    <3>1. PICK t, u : /\ t = IF TitleAt(row, c.title) # 0 THEN c.title ELSE FirstTitle(row)
                      /\ u = IF c.unit \in DOMAIN row /\ row[c.unit].shape \notin {"blank", "essay"}
                            THEN c.unit ELSE 0
      OBVIOUS
    <3>2. filled = Line(t, u, NumberAt(row, c.quantity), NumberAt(row, c.price),
                        NumberAt(row, c.total))
      BY <2>2, <3>1 DEF FillByColumns, RawLine
    <3>3. t \in N /\ u \in N
      BY <1>0, <1>2, <3>1
    <3> HIDE DEF filled, Line
    <3> QED
      BY <1>0, <1>3, <3>2, <3>3
  <2> QED
    BY <2>1, <2>2
<1>5. PICK t \in N, u \in N, q \in N, p \in N, s \in N : filled = Line(t, u, q, p, s)
  BY <1>4
<1>6. \E v \in N : named = Line(t, v, q, p, s)
  <2> HIDE DEF filled
  <2> QED
    BY <1>2, <1>5
<1>7. PICK v \in N : named = Line(t, v, q, p, s)
  BY <1>6
<1>8. ParseRow(at, row, h, c) =
         IF IsRecognized(named) THEN named ELSE [named EXCEPT !.title = 0, !.unit = 0]
  BY DEF ParseRow
<1>9. \/ ParseRow(at, row, h, c) = Line(t, v, q, p, s)
      \/ ParseRow(at, row, h, c) = Line(0, 0, q, p, s)
  <2> HIDE DEF named
  <2> QED
    BY <1>7, <1>8
<1>10. \A a, b, d, e, g \in N : InColumns(Line(a, b, d, e, g))
  BY DEF InColumns, Fields, N
<1>11. RawLine(at) = Line(0, 0, 0, 0, 0)
  BY DEF RawLine
<1> HIDE DEF Line
<1> QED
  BY <1>0, <1>9, <1>10, <1>11

(* The fields of a line come from the columns that were kept.              *)
LEMMA FieldsAre ==
  ASSUME Inputs, IsBook, HeaderIsHere, place \in Places, place[1] <= Len(input.sheets),
         place[2] <= Len(Sheet.rows), NEW row, row = RowsOf(Sheet)[place[2]]
  PROVE  LineOf(row) = <<>> \/ \E l : LineOf(row) = <<l>> /\ InColumns(l)
<1>1. PICK s, r : s = place[1] /\ r = place[2]
  OBVIOUS
<1>2. s \in 1..Len(input.sheets) /\ r \in Nat \ {0} /\ Sheet \in Sheets
  BY <1>1, BookIs DEF Sheet, Places
<1>3. PICK rows \in Seq(Seq(Cells)) : rows = RowsOf(Sheet)
  BY <1>2, RowsAre
<1>4. /\ r \in 1..Len(rows) /\ Len(rows) \in Nat /\ row = rows[r]
      /\ rows = RowsOf(input.sheets[s])
  BY <1>1, <1>2, <1>3, RowsAre DEF Sheet
<1>5. header = Find(rows) /\ (header # 0 => header \in 1..Len(rows))
  <2>1. header = HeaderOf(s)
    BY <1>1, <1>2 DEF HeaderIsHere
  <2>2. header = Find(rows)
    BY <1>4, <2>1 DEF HeaderOf
  <2>3. Find(rows) \in 0..Len(rows)
    BY FindIs
  <2> QED
    BY <1>4, <2>2, <2>3
<1>6. \A k \in 1..Len(rows) : rows[k] \in Seq(Cells) /\ Len(rows[k]) <= MaxColumns
  <2>1. Len(rows) = Len(Sheet.rows)
    BY <1>2, <1>3, RowsAre
  <2> QED
    BY <1>2, <1>3, <2>1, RowsFit
<1>7. row \in Seq(Cells) /\ DOMAIN row \subseteq 1..MaxColumns
  BY <1>4, <1>6, ParseAssumption
<1>8. PICK c : c = IF header = 0 THEN NoColumns ELSE ColumnsOf(rows[header])
  OBVIOUS
<1>9. \A f \in Fields : c[f] \in 0..MaxColumns
  <2>1. CASE header = 0
    BY <1>8, <2>1, ParseAssumption DEF NoColumns, Fields
  <2>2. CASE header # 0
    <3>1. PICK top \in Seq(Cells) : top = rows[header] /\ Len(top) <= MaxColumns
      BY <1>5, <1>6, <2>2
    <3>2. DOMAIN top \subseteq 1..MaxColumns
      BY <3>1, ParseAssumption
    <3>3. c = ColumnsOf(top)
      BY <1>8, <2>2, <3>1
    <3>4. /\ c.title # 0 => c.title \in DOMAIN top
          /\ c.unit # 0 => c.unit \in DOMAIN top
          /\ c.quantity # 0 => c.quantity \in DOMAIN top
          /\ c.price # 0 => c.price \in DOMAIN top
          /\ c.total # 0 => c.total \in DOMAIN top
      BY <3>3, ColumnsSay
    <3>5. \A k : (k # 0 => k \in DOMAIN top) => k \in 0..MaxColumns
      BY <3>2, ParseAssumption
    <3>6. /\ c.title \in 0..MaxColumns /\ c.unit \in 0..MaxColumns
          /\ c.quantity \in 0..MaxColumns /\ c.price \in 0..MaxColumns
          /\ c.total \in 0..MaxColumns
      BY <3>4, <3>5
    <3> QED
      BY <3>6 DEF Fields
  <2> QED
    BY <2>1, <2>2
<1>10. InColumns(RawLine(place)) /\ InColumns(ParseRow(place, row, header, c))
  BY <1>7, <1>9, RowInColumns
<1> QED
  BY <1>1, <1>3, <1>8, <1>10 DEF LineOf

LEMMA BoundsStart == Init => BoundsInv
<1> SUFFICES ASSUME Init PROVE BoundsInv
  OBVIOUS
<1>1. lines = <<>> /\ result = "new" /\ Len(<<>>) = 0 /\ DOMAIN lines = {} /\ MaxLines \in Nat
  BY ParseAssumption DEF Init
<1> QED
  BY <1>1 DEF BoundsInv, LimitsHold

(* A book with a line is within the limits of its kind.                    *)
LEMMA BoundedBook ==
  ASSUME Inputs, IsBook, ~OutOfBounds(input), input.kind \in {"xlsx", "xls"}
  PROVE  /\ Len(input.sheets) <= MaxSheets
         /\ \A i \in DOMAIN input.sheets :
               \/ ~input.sheets[i].readable \/ input.sheets[i].far = "no"
               \/ input.kind = "xls" /\ input.sheets[i].far # "rows"
<1>1. Len(input.sheets) <= MaxSheets
  BY BookIs, ParseAssumption DEF OutOfBounds
<1>2. ASSUME NEW i \in DOMAIN input.sheets, input.sheets[i].readable
      PROVE  \/ input.sheets[i].far = "no"
             \/ input.kind = "xls" /\ input.sheets[i].far # "rows"
  <2>1. input.sheets[i].far \in {"no", "rows", "columns", "cells"}
    BY BookIs DEF Sheets
  <2>2. input.sheets[i].far \notin IF input.kind = "xlsx" THEN {"rows", "columns", "cells"}
                                  ELSE {"rows"}
    BY <1>2 DEF OutOfBounds
  <2> QED
    BY <2>1, <2>2
<1> QED
  BY <1>1, <1>2

LEMMA FullBounds ==
  ASSUME ParseInv, BoundsInv, IsBook, TakeRow, Len(lines) >= MaxLines
  PROVE  BoundsInv'
<1>1. /\ input' = input /\ lines' = lines
      /\ result' = IF lines = <<>> THEN "no_data" ELSE "ok"
  BY DEF TakeRow, Finished
<1>2. /\ result' # "walk" /\ (result' = "ok" => lines # <<>>)
  BY <1>1
<1> QED
  BY <1>1, <1>2, SameInput DEF BoundsInv, LimitsHold, InColumns

LEMMA RowBounds ==
  ASSUME ParseInv, BoundsInv, IsBook, TakeRow, ~(Len(lines) >= MaxLines)
  PROVE  BoundsInv'
<1>1. /\ input' = input /\ result = "walk" /\ result' = "walk"
      /\ lines' = lines \o LineOf(RowsOf(Sheet)[place[2]])
      /\ place[1] <= Len(input.sheets) /\ place[2] <= Len(Sheet.rows)
  BY DEF TakeRow
<1>2. /\ Inputs /\ IsSeq /\ HeaderIsHere /\ place \in Places
  BY <1>1 DEF ParseInv, WalkInv
<1>3. ~OutOfBounds(input) /\ input.kind \in {"xlsx", "xls"} /\ LimitsHold
  BY <1>1 DEF BoundsInv
<1>4. PICK t : t = LineOf(RowsOf(Sheet)[place[2]])
  OBVIOUS
<1>5. t = <<>> \/ \E l : t = <<l>> /\ InColumns(l)
  BY <1>1, <1>2, <1>4, FieldsAre
<1>6. \E T : t \in Seq(T) /\ \A j \in 1..Len(t) : InColumns(t[j])
  <2>1. CASE t = <<>>
    <3>1. t \in Seq({0}) /\ Len(t) = 0
      BY <2>1
    <3> QED
      BY <3>1
  <2>2. CASE \E l : t = <<l>> /\ InColumns(l)
    <3>1. PICK l : t = <<l>> /\ InColumns(l)
      BY <2>2
    <3>2. t \in Seq({l}) /\ \A j \in 1..Len(t) : t[j] = l
      BY <3>1
    <3>3. \A j \in 1..Len(t) : InColumns(t[j])
      BY <3>1, <3>2
    <3> QED
      BY <3>2, <3>3
  <2> QED
    BY <1>5, <2>1, <2>2
<1>7. PICK T : t \in Seq(T) /\ \A j \in 1..Len(t) : InColumns(t[j])
  BY <1>6
<1>8. \A k \in DOMAIN lines' :
         \/ k \in DOMAIN lines /\ lines'[k] = lines[k]
         \/ \E j \in 1..Len(t) : k = Len(lines) + j /\ lines'[k] = t[j]
  BY <1>1, <1>2, <1>4, <1>7, Added
<1>9. \A k \in DOMAIN lines' : InColumns(lines'[k])
  BY <1>3, <1>7, <1>8 DEF LimitsHold
<1>10. Len(lines') <= MaxLines
  <2>1. ParseInv'
    BY RowKeeps
  <2> QED
    BY <1>1, <2>1 DEF ParseInv, WalkInv
<1>11. /\ Len(input.sheets) <= MaxSheets
       /\ \A i \in DOMAIN input.sheets :
             \/ ~input.sheets[i].readable \/ input.sheets[i].far = "no"
             \/ input.kind = "xls" /\ input.sheets[i].far # "rows"
  BY <1>2, <1>3, BoundedBook
<1>12. OutOfBounds(input)' <=> OutOfBounds(input)
  BY <1>1 DEF OutOfBounds
<1>13. LimitsHold'
  BY <1>1, <1>9, <1>10, <1>11 DEF LimitsHold, InColumns
<1> QED
  BY <1>1, <1>3, <1>12, <1>13 DEF BoundsInv

LEMMA BoundsStep == ParseInv /\ BoundsInv /\ [Next]_vars => BoundsInv'
<1> SUFFICES ASSUME ParseInv, BoundsInv, [Next]_vars PROVE BoundsInv'
  OBVIOUS
<1>1. input' = input /\ (IsBook' <=> IsBook)
  <2>1. input' = input
    BY DEF Next, Open, NextSheet, TakeRow, FinishBook, TakeAnswerLine, FinishPhoto, vars
  <2> QED
    BY <2>1, SameInput
<1> SUFFICES ASSUME IsBook PROVE BoundsInv'
  BY <1>1 DEF BoundsInv, LimitsHold
<1>2. OutOfBounds(input)' <=> OutOfBounds(input)
  BY <1>1 DEF OutOfBounds
<1>3. CASE lines' = lines /\ (result' = "ok" => lines # <<>>)
           /\ (result' = "walk" => ~OutOfBounds(input) /\ input.kind \in {"xlsx", "xls"})
  BY <1>1, <1>2, <1>3 DEF BoundsInv, LimitsHold, InColumns
<1>4. CASE Open
  <2>1. lines' = lines /\ result' # "ok"
    BY <1>4 DEF Open
  <2>2. result' = "walk" => ~OutOfBounds(input) /\ input.kind \in {"xlsx", "xls"}
    BY <1>4 DEF Open
  <2> QED
    BY <1>3, <2>1, <2>2
<1>5. CASE NextSheet
  BY <1>3, <1>5 DEF NextSheet, BoundsInv
<1>6. CASE TakeRow /\ Len(lines) >= MaxLines
  BY <1>6, FullBounds
<1>7. CASE TakeRow /\ ~(Len(lines) >= MaxLines)
  BY <1>7, RowBounds
<1>8. CASE FinishBook
  BY <1>3, <1>8 DEF FinishBook, Finished, BoundsInv
<1>9. CASE TakeAnswerLine \/ FinishPhoto
  BY <1>9 DEF TakeAnswerLine, FinishPhoto, ParseInv, WalkInv
<1>10. CASE UNCHANGED vars
  BY <1>3, <1>10 DEF vars, BoundsInv, LimitsHold
<1> QED
  BY <1>4, <1>5, <1>6, <1>7, <1>8, <1>9, <1>10 DEF Next

(* book.rs and mod.rs: whatever the workbook, one beyond the limits yields *)
(* no line, none comes from a column cut off, there are never more than    *)
(* the limit, and an estimate that is stored has one.                      *)
THEOREM LimitsKept == Spec => []LimitsHold
<1>1. BoundsInv => LimitsHold
  BY DEF BoundsInv
<1> QED
  BY <1>1, BoundsStart, BoundsStep, ParseInvariant, PTL DEF Spec
=============================================================================

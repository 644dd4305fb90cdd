--------------------------- MODULE LlmBudgetProofs ---------------------------
(***************************************************************************)
(* The daily ceiling of recorded tokens, for any number of callers.        *)
(***************************************************************************)
EXTENDS LlmBudget, FiniteSetTheorems, TLAPS

(* Callers past the check whose row is not yet written.                    *)
Out == {w \in Callers : call[w] # "idle"}

(* Every caller that is out may still add MaxCost.                         *)
BudgetInv ==
    /\ TypeOK
    /\ spent[0] + Cardinality(Out) * MaxCost <= Cap - 1 + Slack

(* Products of natural numbers, for the step that adds or takes one.       *)
LEMMA Products ==
    \A m, n, k \in Nat : /\ n <= k => n * m <= k * m
                         /\ (n + 1) * m = n * m + m
                         /\ n * m \in Nat
<1>1. SUFFICES ASSUME NEW m \in Nat, NEW n \in Nat, NEW k \in Nat
               PROVE  /\ n <= k => n * m <= k * m
                      /\ (n + 1) * m = n * m + m
                      /\ n * m \in Nat
      OBVIOUS
<1>2. (n + 1) * m = n * m + m /\ n * m \in Nat
      OBVIOUS
<1>3. ASSUME n <= k PROVE n * m <= k * m
  <2>1. PICK d \in Nat : k = n + d
        BY <1>3
  <2>2. k * m = n * m + d * m /\ d * m \in Nat
        BY <2>1
  <2>3. QED BY <2>2, <1>2
<1>4. QED BY <1>2, <1>3

LEMMA Sizes ==
    ASSUME NEW S, S \subseteq Callers
    PROVE  /\ IsFiniteSet(S) /\ Cardinality(S) \in Nat
           /\ Cardinality(S) * MaxCost \in Nat /\ Slack \in Nat
           /\ Cardinality(S) * MaxCost <= Slack
<1>1. IsFiniteSet(Callers) /\ MaxCost \in Nat
      BY BudgetAssumption
<1>2. /\ IsFiniteSet(S) /\ Cardinality(S) \in Nat /\ Cardinality(Callers) \in Nat
      /\ Cardinality(S) <= Cardinality(Callers)
      BY <1>1, FS_Subset, FS_CardinalityType
<1>3. QED BY <1>1, <1>2, Products DEF Slack

(* spent[0] is today's sum, and today is an age.                           *)
LEMMA TodayIsAnAge == 0 \in Ages /\ (TypeOK => spent[0] \in Nat)
BY BudgetAssumption DEF Ages, TypeOK

LEMMA TypesKept == ASSUME TypeOK, [Next]_vars PROVE TypeOK'
<1> USE BudgetAssumption
<1>1. CASE \E w \in Callers : SpentToday(w)
      BY <1>1 DEF SpentToday, TypeOK
<1>2. CASE \E w \in Callers : Answered(w)
  <2>1. PICK w \in Callers : Answered(w)
        BY <1>2
  <2>2. PICK cost \in 0..MaxCost, said \in -1..MaxCost :
            /\ call' = [call EXCEPT ![w] = "answered"]
            /\ usage' = [usage EXCEPT ![w] = said]
            /\ billed' = billed + cost
            /\ unknown' = IF said = cost THEN unknown ELSE unknown + cost
            /\ UNCHANGED spent
        BY <2>1 DEF Answered
  <2>3. QED BY <2>2 DEF TypeOK
<1>3. CASE \E w \in Callers : Unanswered(w)
      BY <1>3 DEF Unanswered, TypeOK
<1>4. CASE \E w \in Callers : Record(w)
  <2>1. PICK w \in Callers : Record(w)
        BY <1>4
  <2>2. Recorded(w) \in Nat
        BY DEF Recorded, TypeOK
  <2>3. QED BY <2>1, <2>2, TodayIsAnAge DEF Record, TypeOK
<1>5. CASE \E w \in Callers : RecordFails(w)
  <2>1. PICK w \in Callers : RecordFails(w)
        BY <1>5
  <2>2. Recorded(w) \in Nat
        BY DEF Recorded, TypeOK
  <2>3. QED BY <2>1, <2>2 DEF RecordFails, TypeOK
<1>6. CASE Midnight
      BY <1>6 DEF Midnight, TypeOK, Ages
<1>7. CASE CleanupOldCalls
      BY <1>7 DEF CleanupOldCalls, TypeOK
<1>8. CASE UNCHANGED vars
      BY <1>8 DEF vars, TypeOK
<1>9. QED BY <1>1, <1>2, <1>3, <1>4, <1>5, <1>6, <1>7, <1>8 DEF Next

(* A call that ends makes room for what it may have recorded.              *)
LEMMA OneLess ==
    ASSUME NEW S, S \subseteq Callers, NEW w \in S
    PROVE  Cardinality(S \ {w}) * MaxCost + MaxCost = Cardinality(S) * MaxCost
<1>1. IsFiniteSet(S) /\ Cardinality(S) \in Nat /\ Cardinality(S \ {w}) \in Nat
      BY Sizes, S \ {w} \subseteq Callers
<1>2. Cardinality(S) = Cardinality(S \ {w}) + 1
  <2>1. Cardinality(S \ {w}) = Cardinality(S) - 1
        BY <1>1, FS_RemoveElement
  <2>2. QED BY <1>1, <2>1
<1>3. QED BY <1>1, <1>2, Products, BudgetAssumption

LEMMA BudgetKept == ASSUME BudgetInv, [Next]_vars PROVE BudgetInv'
<1> USE BudgetAssumption
<1> DEFINE Size(S) == Cardinality(S) * MaxCost
<1>1. TypeOK /\ TypeOK' /\ spent[0] + Size(Out) <= Cap - 1 + Slack
      BY TypesKept DEF BudgetInv
<1>2. Out \subseteq Callers /\ Out' \subseteq Callers
      BY DEF Out
<1>3. /\ spent[0] \in Nat /\ Size(Out) \in Nat /\ Size(Out') \in Nat
      /\ Slack \in Nat /\ Size(Out') <= Slack
      BY <1>1, <1>2, Sizes, TodayIsAnAge
<1>4. SUFFICES spent'[0] + Size(Out') <= Cap - 1 + Slack
      BY <1>1 DEF BudgetInv
<1> HIDE DEF Size
<1>5. ASSUME spent'[0] = spent[0], Out' = Out
      PROVE  spent'[0] + Size(Out') <= Cap - 1 + Slack
      BY <1>1, <1>5
(* One more call goes out only where the sum is below the ceiling.         *)
<1>6. CASE \E w \in Callers : SpentToday(w)
  <2>1. spent' = spent /\ spent[0] < Cap
        BY <1>6 DEF SpentToday, WithinCap
  <2>2. QED BY <1>3, <2>1
<1>7. CASE \E w \in Callers : Answered(w)
  <2>1. spent' = spent /\ Out' = Out
        BY <1>7, <1>1 DEF Answered, Out, TypeOK
  <2>2. QED BY <1>5, <2>1
<1>8. ASSUME NEW w \in Callers, w \in Out, Out' = Out \ {w},
             NEW more \in 0..MaxCost, spent'[0] = spent[0] + more
      PROVE  spent'[0] + Size(Out') <= Cap - 1 + Slack
  <2>1. Size(Out') + MaxCost = Size(Out)
        BY <1>8, <1>2, OneLess DEF Size
  <2>2. QED BY <1>1, <1>3, <1>8, <2>1
<1>9. CASE \E w \in Callers : Unanswered(w) \/ RecordFails(w)
  <2>1. PICK w \in Callers : Unanswered(w) \/ RecordFails(w)
        BY <1>9
  <2>2. /\ w \in Out /\ Out' = Out \ {w}
        /\ spent'[0] = spent[0] + 0 /\ 0 \in 0..MaxCost
        BY <2>1, <1>1, <1>3 DEF Unanswered, RecordFails, Out, TypeOK
  <2>3. QED BY <2>2, <1>8
<1>10. CASE \E w \in Callers : Record(w)
  <2>1. PICK w \in Callers : Record(w)
        BY <1>10
  <2>2. w \in Out /\ Out' = Out \ {w}
        BY <2>1, <1>1 DEF Record, Out, TypeOK
  <2>3. Recorded(w) \in 0..MaxCost /\ spent'[0] = spent[0] + Recorded(w)
        BY <2>1, <1>1, TodayIsAnAge DEF Record, Recorded, TypeOK
  <2>4. QED BY <2>2, <2>3, <1>8
<1>11. CASE Midnight
  <2>1. spent'[0] = 0
        BY <1>11, TodayIsAnAge DEF Midnight
  <2>2. QED BY <2>1, <1>3
<1>12. CASE CleanupOldCalls
  <2>1. spent'[0] = spent[0] /\ call' = call
        BY <1>12, TodayIsAnAge DEF CleanupOldCalls, Swept
  <2>2. Out' = Out
        BY <2>1 DEF Out
  <2>3. QED BY <2>1, <2>2, <1>5
<1>13. CASE UNCHANGED vars
      BY <1>13, <1>5 DEF vars, Out
<1>14. QED BY <1>6, <1>7, <1>9, <1>10, <1>11, <1>12, <1>13 DEF Next

LEMMA BudgetStart == Init => BudgetInv
<1> USE BudgetAssumption
<1>1. ASSUME Init PROVE TypeOK
      BY <1>1 DEF Init, TypeOK
<1>2. ASSUME Init PROVE spent[0] = 0 /\ Out = {}
      BY <1>2, TodayIsAnAge DEF Init, Out
<1>3. Cardinality({}) = 0 /\ 0 * MaxCost = 0 /\ Slack \in Nat
      BY Sizes, FS_EmptySet
<1>4. QED BY <1>1, <1>2, <1>3 DEF BudgetInv

(* complete(): no day's rows pass the ceiling by more than one call of     *)
(* each caller, for any ceiling and any number of processes.               *)
THEOREM DaysStayBounded == Spec => []RecordedBounded
<1> USE BudgetAssumption
<1>1. Init => BudgetInv
      BY BudgetStart
<1>2. BudgetInv /\ [Next]_vars => BudgetInv'
      BY BudgetKept
<1>3. BudgetInv => RecordedBounded
  <2>1. SUFFICES ASSUME BudgetInv PROVE RecordedBounded
        OBVIOUS
  <2>2. Cardinality(Out) * MaxCost \in Nat /\ Slack \in Nat /\ spent[0] \in Nat
        BY <2>1, Sizes, TodayIsAnAge DEF BudgetInv, Out
  <2>3. QED BY <2>1, <2>2 DEF BudgetInv, RecordedBounded
<1>4. QED BY <1>1, <1>2, <1>3, PTL DEF Spec

-----------------------------------------------------------------------------
(* What the provider bills.                                                *)

(* What the row of an answer of today will tell of.                        *)
Due(w) == IF call[w] = "answered" THEN Recorded(w) ELSE 0

(* f adds up what the callers of each set are still to record, never more  *)
(* than MaxCost for each that is out.  There is always such an f: each     *)
(* step says how the sums change.                                          *)
Owed(f) ==
    /\ f \in [SUBSET Callers -> Nat]
    /\ f[{}] = 0
    /\ \A S \in SUBSET Callers : \A w \in S : f[S] = f[S \ {w}] + Due(w)
    /\ \A S \in SUBSET Callers : f[S] <= Cardinality(S \cap Out) * MaxCost

BilledInv ==
    \E f : Owed(f) /\ billed <= spent[0] + unknown + f[Callers]

(* One caller's share changes, and that of no other.                       *)
LEMMA ShareChanges ==
  ASSUME TypeOK, TypeOK', NEW f, Owed(f), NEW w \in Callers,
         \A v \in Callers \ {w} : call'[v] = call[v] /\ usage'[v] = usage[v],
         Due(w)' > 0 => w \in Out'
  PROVE  \E g : Owed(g)' /\ g[Callers] = f[Callers] - Due(w) + Due(w)'
<1> USE BudgetAssumption
<1> DEFINE rest(S) == S \ {w}
           g == [S \in SUBSET Callers |-> IF w \in S THEN f[S \ {w}] + Due(w)' ELSE f[S]]
<1>1. Due(w) \in Nat /\ Due(w)' \in 0..MaxCost /\ MaxCost \in Nat
  BY DEF Due, Recorded, TypeOK
<1>2. \A v \in Callers \ {w} : Due(v)' = Due(v) /\ (v \in Out <=> v \in Out')
  BY DEF Due, Recorded, Out
<1>3. PICK d : d = Due(w)'
  OBVIOUS
<1>4. g \in [SUBSET Callers -> Nat]
  BY <1>1, <1>3 DEF Owed
<1>5. g[{}] = 0
  BY DEF Owed
<1>6. ASSUME NEW S \in SUBSET Callers, NEW v \in S
      PROVE  g[S] = g[S \ {v}] + Due(v)'
  <2>1. CASE v = w
    <3>1. S \ {w} \in SUBSET Callers /\ w \notin S \ {w}
      OBVIOUS
    <3> QED
      BY <1>3, <2>1, <3>1
  <2>2. CASE v # w /\ w \in S
    <3>1. /\ S \ {v} \in SUBSET Callers /\ S \ {w} \in SUBSET Callers
          /\ w \in S \ {v} /\ v \in S \ {w} /\ (S \ {v}) \ {w} = (S \ {w}) \ {v}
          /\ (S \ {w}) \ {v} \in SUBSET Callers
      BY <2>2
    <3>2. g[S] = f[S \ {w}] + d /\ g[S \ {v}] = f[(S \ {w}) \ {v}] + d
      BY <1>3, <2>2, <3>1
    <3>3. f[S \ {w}] = f[(S \ {w}) \ {v}] + Due(v)
      BY <3>1 DEF Owed
    <3>4. f[(S \ {w}) \ {v}] \in Nat /\ Due(v) \in Nat /\ d \in Nat
      BY <1>1, <1>3, <3>1 DEF Owed, Due, Recorded, TypeOK
    <3>5. Due(v)' = Due(v)
      BY <1>2, <2>2
    <3> QED
      BY <3>2, <3>3, <3>4, <3>5
  <2>3. CASE w \notin S
    <3>1. g[S] = f[S] /\ g[S \ {v}] = f[S \ {v}]
      BY <2>3
    <3>2. Due(v)' = Due(v)
      BY <1>2, <2>3
    <3>3. f[S] = f[S \ {v}] + Due(v)
      BY DEF Owed
    <3> QED
      BY <3>1, <3>2, <3>3
  <2> QED
    BY <2>1, <2>2, <2>3
<1>7. ASSUME NEW S \in SUBSET Callers
      PROVE  g[S] <= Cardinality(S \cap Out') * MaxCost
  <2>1. CASE w \notin S
    <3>1. S \cap Out' = S \cap Out /\ g[S] = f[S]
      BY <1>2, <2>1
    <3> QED
      BY <3>1 DEF Owed
  <2>2. CASE w \in S
    <3>1. /\ S \ {w} \in SUBSET Callers /\ g[S] = f[S \ {w}] + d
          /\ (S \ {w}) \cap Out = (S \cap Out') \ {w}
      BY <1>2, <1>3, <2>2
    <3> DEFINE T == (S \cap Out') \ {w}
               m == Cardinality(T) * MaxCost
    <3>2. f[S \ {w}] <= m /\ f[S \ {w}] \in Nat
      BY <3>1 DEF Owed
    <3>3. CASE w \in Out'
      <4>1. /\ S \cap Out' \subseteq Callers /\ w \in S \cap Out'
            /\ T \subseteq Callers
        BY <2>2, <3>3
      <4>2. m + MaxCost = Cardinality(S \cap Out') * MaxCost
        BY <4>1, OneLess
      <4>3. m \in Nat
        BY <4>1, Sizes
      <4> HIDE DEF m
      <4> QED
        BY <1>1, <1>3, <3>1, <3>2, <4>2, <4>3
    <3>4. CASE w \notin Out'
      <4>1. d = 0 /\ T = S \cap Out'
        BY <1>1, <1>3, <3>4
      <4>2. m = Cardinality(S \cap Out') * MaxCost
        BY <4>1
      <4> HIDE DEF m
      <4> QED
        BY <3>1, <3>2, <4>1, <4>2
    <3> QED
      BY <3>3, <3>4
  <2> QED
    BY <2>1, <2>2
<1>8. g[Callers] = f[Callers] - Due(w) + Due(w)'
  <2>1. Callers \in SUBSET Callers /\ Callers \ {w} \in SUBSET Callers
    OBVIOUS
  <2>2. f[Callers] = f[Callers \ {w}] + Due(w) /\ f[Callers \ {w}] \in Nat
    BY <2>1 DEF Owed
  <2>3. g[Callers] = f[Callers \ {w}] + d
    BY <1>3, <2>1
  <2> QED
    BY <1>1, <1>3, <2>2, <2>3
<1>9. PICK h : h = g
  OBVIOUS
<1>10. Owed(h)'
  <2> HIDE DEF g
  <2>1. h \in [SUBSET Callers -> Nat] /\ h[{}] = 0
    BY <1>4, <1>5, <1>9
  <2>2. \A S \in SUBSET Callers : \A v \in S : h[S] = h[S \ {v}] + Due(v)'
    BY <1>6, <1>9
  <2>3. \A S \in SUBSET Callers : h[S] <= Cardinality(S \cap Out') * MaxCost
    BY <1>7, <1>9
  <2> QED
    BY <2>1, <2>2, <2>3 DEF Owed
<1> HIDE DEF g
<1> QED
  BY <1>8, <1>9, <1>10

(* Nobody owes anything where no answer of today waits to be recorded.     *)
NothingOwed ==
  (\A w \in Callers : Due(w) = 0) => \E f : Owed(f) /\ f[Callers] = 0

LEMMA NothingDue == NothingOwed
<1> SUFFICES ASSUME \A w \in Callers : Due(w) = 0
             PROVE  \E f : Owed(f) /\ f[Callers] = 0
  BY DEF NothingOwed
<1> DEFINE f == [S \in SUBSET Callers |-> 0]
<1>1. ASSUME NEW S \in SUBSET Callers
      PROVE  0 <= Cardinality(S \cap Out) * MaxCost
  <2>1. S \cap Out \subseteq Callers
    OBVIOUS
  <2> QED
    BY <2>1, Sizes
<1>2. ASSUME NEW S \in SUBSET Callers, NEW w \in S
      PROVE  f[S] = f[S \ {w}] + Due(w)
  <2>1. S \ {w} \in SUBSET Callers /\ w \in Callers
    OBVIOUS
  <2>2. Due(w) = 0
    BY <2>1
  <2> QED
    BY <2>1, <2>2
<1>3. f \in [SUBSET Callers -> Nat] /\ f[{}] = 0 /\ f[Callers] = 0
  OBVIOUS
<1>4. \A S \in SUBSET Callers : f[S] <= Cardinality(S \cap Out) * MaxCost
  BY <1>1
<1> HIDE DEF f
<1> QED
  BY <1>2, <1>3, <1>4 DEF Owed

(* Every token billed is in today's rows, in an answer that waits to be    *)
(* recorded, or counted as lost, through every step and every failure.     *)
LEMMA BilledKept ==
  ASSUME TypeOK, BilledInv, [Next]_vars
  PROVE  BilledInv'
<1> USE BudgetAssumption
<1>0. PICK f : Owed(f) /\ billed <= spent[0] + unknown + f[Callers]
  BY DEF BilledInv
<1>1. /\ TypeOK' /\ spent[0] \in Nat /\ spent'[0] \in Nat /\ f[Callers] \in Nat
      /\ billed \in Nat /\ unknown \in Nat
  <2>1. Callers \in SUBSET Callers
    OBVIOUS
  <2> QED
    BY <1>0, <2>1, TypesKept, TodayIsAnAge DEF TypeOK, Owed
(* Where no share changes, the same sums do.                               *)
<1>2. ASSUME \A w \in Callers : Due(w)' = Due(w), Out \subseteq Out',
             billed' <= spent'[0] + unknown' + f[Callers]
      PROVE  BilledInv'
  <2>1. ASSUME NEW S \in SUBSET Callers
        PROVE  f[S] <= Cardinality(S \cap Out') * MaxCost
    <3>1. /\ S \cap Out \subseteq S \cap Out' /\ S \cap Out' \subseteq Callers
          /\ S \cap Out \subseteq Callers
      BY <1>2
    <3>2. /\ IsFiniteSet(S \cap Out') /\ Cardinality(S \cap Out) \in Nat
          /\ Cardinality(S \cap Out') \in Nat
      BY <3>1, Sizes
    <3>3. Cardinality(S \cap Out) <= Cardinality(S \cap Out')
      BY <3>1, <3>2, FS_Subset
    <3> DEFINE m == Cardinality(S \cap Out) * MaxCost
               n == Cardinality(S \cap Out') * MaxCost
    <3>4. m <= n /\ m \in Nat /\ n \in Nat
      BY <3>2, <3>3, Products
    <3>5. f[S] <= m /\ f[S] \in Nat
      BY <1>0 DEF Owed
    <3> HIDE DEF m, n
    <3>6. f[S] <= n
      BY <3>4, <3>5
    <3> QED
      BY <3>6 DEF n
  <2>2. Owed(f)'
    <3>1. f \in [SUBSET Callers -> Nat] /\ f[{}] = 0
      BY <1>0 DEF Owed
    <3>2. ASSUME NEW S \in SUBSET Callers, NEW w \in S
          PROVE  f[S] = f[S \ {w}] + Due(w)'
      <4>1. w \in Callers /\ Due(w)' = Due(w)
        BY <1>2
      <4>2. f[S] = f[S \ {w}] + Due(w)
        BY <1>0 DEF Owed
      <4> QED
        BY <4>1, <4>2
    <3> QED
      BY <2>1, <3>1, <3>2 DEF Owed
  <2> QED
    BY <1>2, <2>2 DEF BilledInv
(* Where one share changes, one sum does.                                  *)
<1>3. ASSUME NEW w \in Callers,
             \A v \in Callers \ {w} : call'[v] = call[v] /\ usage'[v] = usage[v],
             Due(w)' > 0 => w \in Out',
             billed' <= spent'[0] + unknown' + (f[Callers] - Due(w) + Due(w)')
      PROVE  BilledInv'
  <2>1. PICK g : Owed(g)' /\ g[Callers] = f[Callers] - Due(w) + Due(w)'
    BY <1>0, <1>1, <1>3, ShareChanges
  <2> QED
    BY <1>3, <2>1 DEF BilledInv
<1>4. ASSUME NEW w \in Callers PROVE Due(w) \in Nat
  BY DEF Due, Recorded, TypeOK
<1>5. CASE \E w \in Callers : SpentToday(w)
  <2>1. PICK w \in Callers : SpentToday(w)
    BY <1>5
  <2>2. /\ \A v \in Callers : Due(v)' = Due(v)
        /\ Out \subseteq Out'
        /\ UNCHANGED <<spent, billed, unknown>>
    BY <2>1 DEF SpentToday, Due, Recorded, Out, TypeOK
  <2> QED
    BY <1>0, <1>2, <2>2
<1>6. CASE \E w \in Callers : Answered(w)
  <2>1. PICK w \in Callers, cost \in 0..MaxCost, said \in -1..MaxCost :
            /\ call[w] = "allowed" /\ said \in {cost, 0, -1}
            /\ call' = [call EXCEPT ![w] = "answered"]
            /\ usage' = [usage EXCEPT ![w] = said]
            /\ billed' = billed + cost
            /\ unknown' = IF said = cost THEN unknown ELSE unknown + cost
            /\ spent' = spent
    BY <1>6 DEF Answered
  <2>2. /\ \A v \in Callers \ {w} : call'[v] = call[v] /\ usage'[v] = usage[v]
        /\ Due(w) = 0 /\ w \in Out'
        /\ Due(w)' = IF said < 0 THEN 0 ELSE said
    BY <2>1 DEF TypeOK, Due, Recorded, Out
  <2>3. billed' <= spent'[0] + unknown' + (f[Callers] - Due(w) + Due(w)')
    BY <1>0, <1>1, <2>1, <2>2
  <2> QED
    BY <1>3, <2>2, <2>3
<1>7. CASE \E w \in Callers : Unanswered(w)
  <2>1. PICK w \in Callers, cost \in 0..MaxCost :
            /\ call[w] = "allowed" /\ call' = [call EXCEPT ![w] = "idle"]
            /\ billed' = billed + cost /\ unknown' = unknown + cost
            /\ UNCHANGED <<spent, usage>>
    BY <1>7 DEF Unanswered
  <2>2. /\ \A v \in Callers \ {w} : call'[v] = call[v] /\ usage'[v] = usage[v]
        /\ Due(w) = 0 /\ Due(w)' = 0
    BY <2>1 DEF TypeOK, Due
  <2>3. billed' <= spent'[0] + unknown' + (f[Callers] - Due(w) + Due(w)')
    BY <1>0, <1>1, <2>1, <2>2
  <2> QED
    BY <1>3, <2>2, <2>3
<1>8. CASE \E w \in Callers : Record(w) \/ RecordFails(w)
  <2>1. PICK w \in Callers : Record(w) \/ RecordFails(w)
    BY <1>8
  <2>2. /\ \A v \in Callers \ {w} : call'[v] = call[v] /\ usage'[v] = usage[v]
        /\ Due(w)' = 0 /\ billed' = billed
    BY <2>1 DEF TypeOK, Record, RecordFails, Due
  <2>3. spent'[0] + unknown' >= spent[0] + unknown + Due(w)
    <3>1. Recorded(w) \in Nat /\ 0 \in Ages
      BY TodayIsAnAge DEF Recorded, TypeOK
    <3>2. CASE Record(w)
      <4>1. spent'[0] = spent[0] + Recorded(w) /\ unknown' = unknown
        BY <3>1, <3>2 DEF Record, TypeOK
      <4> QED
        BY <1>1, <3>1, <4>1 DEF Due
    <3>3. CASE RecordFails(w)
      <4>1. /\ spent' = spent /\ call[w] \in {"answered", "late"}
            /\ unknown' = unknown + (IF call[w] = "late" THEN 0 ELSE Recorded(w))
        BY <3>3 DEF RecordFails
      <4> QED
        BY <1>1, <3>1, <4>1 DEF Due
    <3> QED
      BY <2>1, <3>2, <3>3
  <2>4. unknown' \in Nat
    BY <1>1 DEF TypeOK
  <2>5. billed' <= spent'[0] + unknown' + (f[Callers] - Due(w) + Due(w)')
    BY <1>0, <1>1, <1>4, <2>2, <2>3, <2>4
  <2> QED
    BY <1>3, <2>2, <2>5
<1>9. CASE Midnight
  <2>1. (\A w \in Callers : Due(w) = 0)'
    BY <1>9 DEF Midnight, Due, TypeOK
  <2>2. NothingOwed'
    BY NothingDue, PTL
  <2>3. PICK g : Owed(g)' /\ g[Callers] = 0
    BY <2>1, <2>2 DEF NothingOwed
  <2>4. billed' = 0 /\ unknown' = 0
    BY <1>9 DEF Midnight
  <2> QED
    BY <1>1, <2>3, <2>4 DEF BilledInv
<1>10. CASE CleanupOldCalls
  <2>1. spent'[0] = spent[0] /\ UNCHANGED <<call, usage, billed, unknown>>
    BY <1>10, TodayIsAnAge DEF CleanupOldCalls, Swept
  <2>2. (\A v \in Callers : Due(v)' = Due(v)) /\ Out' = Out
    BY <2>1 DEF Due, Recorded, Out
  <2> QED
    BY <1>0, <1>2, <2>1, <2>2
<1>11. CASE UNCHANGED vars
  <2>1. (\A v \in Callers : Due(v)' = Due(v)) /\ Out' = Out
    BY <1>11 DEF vars, Due, Recorded, Out
  <2> QED
    BY <1>0, <1>2, <1>11, <2>1 DEF vars
<1> QED
  BY <1>5, <1>6, <1>7, <1>8, <1>9, <1>10, <1>11 DEF Next

(* complete(): what the provider bills in a day stays within the ceiling   *)
(* but for one call of each caller and the tokens whose record was lost,   *)
(* for any ceiling and any number of processes, over any midnights.        *)
THEOREM BillStaysBounded == Spec => []BilledBounded
<1> USE BudgetAssumption
<1>1. Init => BudgetInv /\ BilledInv
  <2> SUFFICES ASSUME Init PROVE BudgetInv /\ BilledInv
    OBVIOUS
  <2>1. BudgetInv
    BY BudgetStart
  <2>2. spent[0] = 0 /\ billed = 0 /\ unknown = 0 /\ \A w \in Callers : Due(w) = 0
    BY TodayIsAnAge DEF Init, Due
  <2>3. PICK f : Owed(f) /\ f[Callers] = 0
    BY <2>2, NothingDue DEF NothingOwed
  <2> QED
    BY <2>1, <2>2, <2>3 DEF BilledInv
<1>2. BudgetInv /\ BilledInv /\ [Next]_vars => BudgetInv' /\ BilledInv'
  BY BudgetKept, BilledKept DEF BudgetInv
<1>3. BudgetInv /\ BilledInv => BilledBounded
  <2> SUFFICES ASSUME BudgetInv, BilledInv PROVE BilledBounded
    OBVIOUS
  <2>1. PICK f : Owed(f) /\ billed <= spent[0] + unknown + f[Callers]
    BY DEF BilledInv
  <2> DEFINE m == Cardinality(Out) * MaxCost
  <2>2. Callers \in SUBSET Callers /\ Callers \cap Out = Out
    BY DEF Out
  <2>3. f[Callers] \in Nat /\ f[Callers] <= m
    BY <2>1, <2>2 DEF Owed
  <2>4. m \in Nat /\ Slack \in Nat /\ spent[0] + m <= Cap - 1 + Slack
    BY <2>2, Sizes DEF BudgetInv
  <2>5. spent[0] \in Nat /\ unknown \in Nat /\ billed \in Nat
    BY TodayIsAnAge DEF BudgetInv, TypeOK
  <2> HIDE DEF m
  <2> QED
    BY <2>1, <2>3, <2>4, <2>5 DEF BilledBounded
<1> QED
  BY <1>1, <1>2, <1>3, PTL DEF Spec
=============================================================================

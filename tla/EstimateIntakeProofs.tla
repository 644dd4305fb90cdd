------------------------ MODULE EstimateIntakeProofs -------------------------
(***************************************************************************)
(* Proofs about EstimateIntake, for any number of uploads and owners, any  *)
(* limit and any size of the pool.                                         *)
(***************************************************************************)
EXTENDS EstimateIntake, FiniteSetTheorems, TLAPS

LEMMA IntakeTypeInit == Init => TypeOK
  BY DEF Init, TypeOK, Files, Places, Answers

LEMMA IntakeTypeStep == TypeOK /\ [Next]_vars => TypeOK'
<1> SUFFICES ASSUME TypeOK, [Next]_vars
             PROVE  TypeOK'
  OBVIOUS
<1> USE DEF GoTo, Tell, Finish, Undo
<1>1. ASSUME NEW r \in Requests,
             EarlyCheck(r) \/ Refuse(r) \/ TakeBody(r) \/ Cut(r)
      PROVE  TypeOK'
  BY <1>1 DEF TypeOK, EarlyCheck, Refuse, TakeBody, Cut, Places, Answers
<1>2. ASSUME NEW r \in Requests, OpenFile(r) \/ WriteFile(r) \/ Remove(r)
      PROVE  TypeOK'
  BY <1>2 DEF TypeOK, OpenFile, WriteFile, Remove, Places, Answers, Files
<1>3. ASSUME NEW r \in Requests,
             Begin(r) \/ Lock(r) \/ Count(r) \/ Insert(r) \/ CreateFails(r)
      PROVE  TypeOK'
  BY <1>3 DEF TypeOK, Begin, Lock, Count, Insert, CreateFails, Places, Answers
<1>4. ASSUME NEW r \in Requests, Commit(r)
      PROVE  TypeOK'
  BY <1>4 DEF TypeOK, Commit, Places, Answers
<1>5. CASE UNCHANGED vars
  BY <1>5 DEF vars, TypeOK
<1> QED
  BY <1>1, <1>2, <1>3, <1>4, <1>5 DEF Next, Proceed

(* The types of the handlers' places, of the disk and of the table.        *)
THEOREM IntakeTypeCorrect == Spec => []TypeOK
  BY IntakeTypeInit, IntakeTypeStep, PTL DEF Spec

-----------------------------------------------------------------------------
(* The limit.                                                              *)

LEMMA CardsFinite ==
  ASSUME TypeOK, NEW o
  PROVE  IsFiniteSet(CardsOf(o)) /\ Cardinality(CardsOf(o)) \in Nat
<1>1. CardsOf(o) \subseteq Requests
  BY DEF CardsOf, TypeOK
<1> QED
  BY <1>1, IntakeAssumption, FS_Subset, FS_CardinalityType

(* A step of one request that neither commits nor moves towards the lock   *)
(* takes nothing away from the others.                                     *)
LEMMA LimitStepAside ==
  ASSUME TypeOK, LimitInv, NEW r \in Requests, UNCHANGED cards,
         \A q \in Requests \ {r} : pc'[q] = pc[q],
         pc'[r] \notin {"count", "insert", "commit"}
  PROVE  LimitInv'
<1>1. UNCHANGED Cardinality(CardsOf(OwnerOf[r])) /\ LimitHolds'
  BY DEF CardsOf, LimitInv, LimitHolds
<1>2. OneLockHolder'
  BY DEF LimitInv, OneLockHolder, HasLock
<1>3. RoomForOne'
  BY DEF LimitInv, RoomForOne, CardsOf
<1> QED
  BY <1>1, <1>2, <1>3 DEF LimitInv

LEMMA LimitStepLock ==
  ASSUME TypeOK, LimitInv, NEW r \in Requests, Lock(r)
  PROVE  LimitInv'
<1>1. /\ UNCHANGED cards
      /\ pc'[r] = "count" /\ \A q \in Requests \ {r} : pc'[q] = pc[q]
  BY DEF Lock, GoTo, TypeOK
<1>2. \A q \in Requests : OwnerOf[q] = OwnerOf[r] => ~HasLock(q)
  BY DEF Lock, LockFree
<1>3. OneLockHolder'
  BY <1>1, <1>2 DEF LimitInv, OneLockHolder, HasLock
<1>4. RoomForOne' /\ LimitHolds'
  BY <1>1 DEF LimitInv, RoomForOne, LimitHolds, CardsOf
<1> QED
  BY <1>3, <1>4 DEF LimitInv

(* Counting and inserting keep the lock; the count leaves room for one.    *)
LEMMA LimitStepCount ==
  ASSUME TypeOK, LimitInv, NEW r \in Requests, pc'[r] = "insert", Count(r)
  PROVE  LimitInv'
<1>1. /\ UNCHANGED cards /\ pc[r] = "count"
      /\ \A q \in Requests \ {r} : pc'[q] = pc[q]
  BY DEF Count, GoTo, Undo, TypeOK
<1>2. Cardinality(CardsOf(OwnerOf[r])) < MAX_PER_USER
  <2>1. ~(Cardinality(CardsOf(OwnerOf[r])) >= MAX_PER_USER)
    BY DEF Count, Undo, GoTo, TypeOK
  <2> QED
    BY <2>1, CardsFinite, IntakeAssumption
<1>3. Cardinality(CardsOf(OwnerOf[r])) + 1 <= MAX_PER_USER
  BY <1>2, CardsFinite, IntakeAssumption
<1>4. OneLockHolder'
  BY <1>1 DEF LimitInv, OneLockHolder, HasLock
<1>5. RoomForOne' /\ LimitHolds'
  BY <1>1, <1>3 DEF LimitInv, RoomForOne, LimitHolds, CardsOf
<1> QED
  BY <1>4, <1>5 DEF LimitInv

LEMMA LimitStepInsert ==
  ASSUME TypeOK, LimitInv, NEW r \in Requests, Insert(r)
  PROVE  LimitInv'
<1>1. /\ UNCHANGED cards /\ pc[r] = "insert" /\ pc'[r] = "commit"
      /\ \A q \in Requests \ {r} : pc'[q] = pc[q]
  BY DEF Insert, GoTo, TypeOK
<1>2. OneLockHolder'
  BY <1>1 DEF LimitInv, OneLockHolder, HasLock
<1>3. RoomForOne' /\ LimitHolds'
  BY <1>1 DEF LimitInv, RoomForOne, LimitHolds, CardsOf
<1> QED
  BY <1>2, <1>3 DEF LimitInv

(* The commit uses the room up: no other request of the owner has it.      *)
LEMMA LimitStepCommit ==
  ASSUME TypeOK, LimitInv, NEW r \in Requests, Commit(r)
  PROVE  LimitInv'
<1>1. /\ cards' = cards \cup {r} /\ pc[r] = "commit"
      /\ pc'[r] \notin {"count", "insert", "commit"}
      /\ \A q \in Requests \ {r} : pc'[q] = pc[q]
  BY DEF Commit, Finish, Undo, GoTo, TypeOK
<1>2. OneLockHolder'
  BY <1>1 DEF LimitInv, OneLockHolder, HasLock
<1>3. \A o : o # OwnerOf[r] => CardsOf(o)' = CardsOf(o)
  BY <1>1 DEF CardsOf
<1>4. RoomForOne'
  <2> SUFFICES ASSUME NEW q \in Requests, pc'[q] \in {"insert", "commit"}
               PROVE  Cardinality(CardsOf(OwnerOf[q])') + 1 <= MAX_PER_USER
    BY DEF RoomForOne
  <2>1. q # r /\ pc[q] \in {"insert", "commit"}
    BY <1>1
  <2>2. OwnerOf[q] # OwnerOf[r]
    BY <1>1, <2>1 DEF LimitInv, OneLockHolder, HasLock
  <2>3. CardsOf(OwnerOf[q])' = CardsOf(OwnerOf[q])
    BY <1>3, <2>2
  <2> QED
    BY <2>1, <2>3 DEF LimitInv, RoomForOne
<1>5. LimitHolds'
  <2> SUFFICES ASSUME NEW o \in Owners
               PROVE  Cardinality(CardsOf(o)') <= MAX_PER_USER
    BY DEF LimitHolds
  <2>1. CASE o # OwnerOf[r]
    BY <1>3, <2>1 DEF LimitInv, LimitHolds
  <2>2. CASE o = OwnerOf[r]
    <3>1. CardsOf(o)' = CardsOf(o) \cup {r}
      BY <1>1, <2>2 DEF CardsOf
    <3>2. Cardinality(CardsOf(o)) + 1 <= MAX_PER_USER
      BY <1>1, <2>2 DEF LimitInv, RoomForOne
    <3>3. IsFiniteSet(CardsOf(o)) /\ Cardinality(CardsOf(o)) \in Nat
      BY CardsFinite
    <3>4. CASE r \in CardsOf(o)
      <4>1. CardsOf(o)' = CardsOf(o)
        BY <3>1, <3>4
      <4> QED
        BY <3>2, <3>3, <4>1, IntakeAssumption
    <3>5. CASE r \notin CardsOf(o)
      <4>1. Cardinality(CardsOf(o)') = Cardinality(CardsOf(o)) + 1
        BY <3>1, <3>3, <3>5, FS_AddElement
      <4> QED
        BY <3>2, <4>1
    <3> QED
      BY <3>4, <3>5
  <2> QED
    BY <2>1, <2>2
<1> QED
  BY <1>2, <1>4, <1>5 DEF LimitInv

LEMMA LimitStep == TypeOK /\ LimitInv /\ [Next]_vars => LimitInv'
<1> SUFFICES ASSUME TypeOK, LimitInv, [Next]_vars
             PROVE  LimitInv'
  OBVIOUS
<1>1. ASSUME NEW r \in Requests,
             \/ EarlyCheck(r) \/ Refuse(r) \/ TakeBody(r) \/ OpenFile(r)
             \/ WriteFile(r) \/ Begin(r) \/ CreateFails(r) \/ Remove(r) \/ Cut(r)
      PROVE  LimitInv'
  <2>1. /\ UNCHANGED cards
        /\ \A q \in Requests \ {r} : pc'[q] = pc[q]
        /\ pc'[r] \notin {"count", "insert", "commit"}
    BY <1>1 DEF EarlyCheck, Refuse, TakeBody, OpenFile, WriteFile, Begin,
                CreateFails, Remove, Cut, GoTo, Finish, Undo, TypeOK
  <2> QED
    BY <2>1, LimitStepAside
<1>2. ASSUME NEW r \in Requests, Count(r)
      PROVE  LimitInv'
  <2>1. CASE pc'[r] = "insert"
    BY <1>2, <2>1, LimitStepCount
  <2>2. CASE pc'[r] # "insert"
    <3>1. /\ UNCHANGED cards
          /\ \A q \in Requests \ {r} : pc'[q] = pc[q]
          /\ pc'[r] = "remove"
      BY <1>2, <2>2 DEF Count, Undo, GoTo, TypeOK
    <3> QED
      BY <3>1, LimitStepAside
  <2> QED
    BY <2>1, <2>2
<1>3. CASE UNCHANGED vars
  BY <1>3 DEF vars, LimitInv, OneLockHolder, RoomForOne, LimitHolds, HasLock,
              CardsOf
<1> QED
  BY <1>1, <1>2, <1>3, LimitStepLock, LimitStepInsert, LimitStepCommit
  DEF Next, Proceed

(* create never commits a card past MAX_PER_USER, however many uploads of  *)
(* one owner run at once and wherever they are cut: the advisory lock      *)
(* covers the count, the insert and the commit.                            *)
THEOREM LimitSafe == Spec => []LimitHolds
<1>1. Init => LimitInv
  <2> SUFFICES ASSUME Init
               PROVE  LimitInv
    OBVIOUS
  <2>1. \A o : CardsOf(o) = {}
    BY DEF Init, CardsOf
  <2>2. LimitHolds
    BY <2>1, FS_EmptySet, IntakeAssumption DEF LimitHolds
  <2> QED
    BY <2>2 DEF Init, LimitInv, OneLockHolder, RoomForOne, HasLock
<1>2. LimitInv => LimitHolds
  BY DEF LimitInv
<1> QED
  BY <1>1, <1>2, LimitStep, IntakeTypeCorrect, PTL DEF Spec

-----------------------------------------------------------------------------
(* A card stands on its whole file, or on none where its upload was        *)
(* answered with an error: upload_estimate writes the file before create   *)
(* and removes it only after an error, answers of COMMITs being lost, the  *)
(* write broken off and the handler cut anywhere.                          *)
THEOREM CardsStandOnFiles == Spec => []FileBehindCard
<1>1. Init => FileInv
  BY DEF Init, FileInv, FileBehindCard, InTx, HasLock
<1>2. ASSUME TypeOK, FileInv, [Next]_vars
      PROVE  FileInv'
  <2> USE DEF TypeOK, FileInv, FileBehindCard, InTx, HasLock, GoTo, Tell,
             Finish, Undo
  <2>1. ASSUME NEW r \in Requests,
               EarlyCheck(r) \/ Refuse(r) \/ TakeBody(r) \/ Cut(r)
        PROVE  FileInv'
    BY <1>2, <2>1 DEF EarlyCheck, Refuse, TakeBody, Cut
  <2>2. ASSUME NEW r \in Requests, OpenFile(r)
        PROVE  FileInv'
    BY <1>2, <2>2 DEF OpenFile
  <2>3. ASSUME NEW r \in Requests, WriteFile(r)
        PROVE  FileInv'
    BY <1>2, <2>3 DEF WriteFile
  <2>4. ASSUME NEW r \in Requests,
               Begin(r) \/ Lock(r) \/ Count(r) \/ Insert(r) \/ CreateFails(r)
        PROVE  FileInv'
    BY <1>2, <2>4 DEF Begin, Lock, Count, Insert, CreateFails
  <2>5. ASSUME NEW r \in Requests, Commit(r)
        PROVE  FileInv'
    BY <1>2, <2>5 DEF Commit
  <2>6. ASSUME NEW r \in Requests, Remove(r)
        PROVE  FileInv'
    BY <1>2, <2>6 DEF Remove
  <2>7. CASE UNCHANGED vars
    BY <1>2, <2>7 DEF vars
  <2> QED
    BY <1>2, <2>1, <2>2, <2>3, <2>4, <2>5, <2>6, <2>7 DEF Next, Proceed
<1>3. FileInv => FileBehindCard
  BY DEF FileInv
<1>4. TypeOK /\ FileInv /\ [Next]_vars => FileInv'
  BY <1>2
<1> QED
  BY <1>1, <1>3, <1>4, IntakeTypeCorrect, PTL DEF Spec

-----------------------------------------------------------------------------
(* Answers.                                                                *)

(* The cards of an owner only grow in number.                              *)
LEMMA CardsGrow ==
  ASSUME TypeOK, TypeOK', cards \subseteq cards', NEW o
  PROVE  Cardinality(CardsOf(o)) <= Cardinality(CardsOf(o)')
<1>1. CardsOf(o) \subseteq CardsOf(o)'
  BY DEF CardsOf
<1>2. CardsOf(o)' \subseteq Requests
  BY DEF CardsOf, TypeOK
<1>3. IsFiniteSet(CardsOf(o)')
  BY <1>2, IntakeAssumption, FS_Subset
<1> QED
  BY <1>1, <1>3, FS_Subset

(* What a request is told becomes true when it is told; all others go on   *)
(* holding what they were told.                                            *)
LEMMA AnswersStep ==
  ASSUME TypeOK, TypeOK', AnswersInv, NEW r \in Requests,
         cards' \in {cards, cards \cup {r}},
         \A q \in Requests \ {r} : pc'[q] = pc[q] /\ answer'[q] = answer[q],
         r \in cards' => pc'[r] \in {"remove", "done"},
         answer'[r] \in {"created", "limit", "invalid"} => pc'[r] \in {"remove", "done"},
         answer'[r] = "created" => r \in cards',
         answer'[r] \in {"limit", "invalid"} => r \notin cards',
         answer'[r] = "limit" => \/ answer[r] = "limit"
                                 \/ Cardinality(CardsOf(OwnerOf[r])) >= MAX_PER_USER
  PROVE  AnswersInv'
<1>1. \A q \in cards' : pc'[q] \in {"remove", "done"}
  BY DEF AnswersInv, TypeOK
<1>2. \A q \in Requests : answer'[q] \in {"created", "limit", "invalid"} =>
          pc'[q] \in {"remove", "done"}
  BY DEF AnswersInv
<1>3. ASSUME NEW q \in Requests, answer'[q] = "limit"
      PROVE  Cardinality(CardsOf(OwnerOf[q])') >= MAX_PER_USER
  <2>1. Cardinality(CardsOf(OwnerOf[q])) >= MAX_PER_USER
    BY <1>3 DEF AnswersInv, AnswersAreTrue
  <2>2. Cardinality(CardsOf(OwnerOf[q])) <= Cardinality(CardsOf(OwnerOf[q])')
    BY CardsGrow
  <2>3. Cardinality(CardsOf(OwnerOf[q])) \in Nat /\ Cardinality(CardsOf(OwnerOf[q])') \in Nat
    <3>1. \A S \in SUBSET Requests : Cardinality(S) \in Nat
      BY IntakeAssumption, FS_Subset, FS_CardinalityType
    <3> QED
      BY <3>1 DEF CardsOf, TypeOK
  <2> QED
    BY <2>1, <2>2, <2>3, IntakeAssumption
<1>4. ASSUME NEW q \in Requests
      PROVE  /\ answer'[q] = "created" => q \in cards'
             /\ answer'[q] \in {"limit", "invalid"} => q \notin cards'
  BY DEF AnswersInv, AnswersAreTrue
<1>5. AnswersAreTrue'
  BY <1>3, <1>4 DEF AnswersAreTrue, CardsOf
<1> QED
  BY <1>1, <1>2, <1>5 DEF AnswersInv

(* upload_estimate tells of a card only when it is there, of the limit     *)
(* only when it was reached, and refuses no upload whose card is there,    *)
(* lost answers of the COMMIT and cut requests included.                   *)
THEOREM AnswersTrue == Spec => []AnswersAreTrue
<1>1. Init => AnswersInv
  BY DEF Init, AnswersInv, AnswersAreTrue
<1>2. TypeOK /\ AnswersInv /\ [Next]_vars => AnswersInv'
  <2> SUFFICES ASSUME TypeOK, AnswersInv, [Next]_vars
               PROVE  AnswersInv'
    OBVIOUS
  <2>0. TypeOK'
    BY IntakeTypeStep
  <2> USE DEF TypeOK, GoTo, Tell, Finish, Undo
  <2>1. ASSUME NEW r \in Requests,
               EarlyCheck(r) \/ Refuse(r) \/ TakeBody(r) \/ OpenFile(r) \/ WriteFile(r)
        PROVE  AnswersInv'
    BY <2>0, <2>1, AnswersStep
       DEF EarlyCheck, Refuse, TakeBody, OpenFile, WriteFile, AnswersInv, AnswersAreTrue
  <2>2. ASSUME NEW r \in Requests, Begin(r) \/ Lock(r) \/ Count(r) \/ Insert(r)
        PROVE  AnswersInv'
    BY <2>0, <2>2, AnswersStep DEF Begin, Lock, Count, Insert, AnswersInv, AnswersAreTrue
  <2>3. ASSUME NEW r \in Requests, Commit(r)
        PROVE  AnswersInv'
    BY <2>0, <2>3, AnswersStep DEF Commit, AnswersInv, AnswersAreTrue
  <2>4. ASSUME NEW r \in Requests, CreateFails(r) \/ Remove(r) \/ Cut(r)
        PROVE  AnswersInv'
    BY <2>0, <2>4, AnswersStep
       DEF CreateFails, InTx, HasLock, Remove, Cut, AnswersInv, AnswersAreTrue
  <2>5. CASE UNCHANGED vars
    BY <2>5 DEF vars, AnswersInv, AnswersAreTrue, CardsOf
  <2> QED
    BY <2>1, <2>2, <2>3, <2>4, <2>5 DEF Next, Proceed
<1>3. AnswersInv => AnswersAreTrue
  BY DEF AnswersInv
<1> QED
  BY <1>1, <1>2, <1>3, IntakeTypeCorrect, PTL DEF Spec
=============================================================================

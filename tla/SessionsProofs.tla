---------------------------- MODULE SessionsProofs ---------------------------
(***************************************************************************)
(* Proofs about Sessions and about what its observer SessionAnswers sees,  *)
(* for any finite number of tokens and of requests at work at the same     *)
(* time.                                                                   *)
(***************************************************************************)
EXTENDS SessionAnswers, TLAPS

IInv == TypeOK /\ SessionsInv

LEMMA SessionsInit == Init => IInv
<1> SUFFICES ASSUME Init PROVE IInv
  OBVIOUS
<1>1. TypeOK
  BY DEF Init, TypeOK, Rows, Jobs, Idle, Kinds
<1>2. Begun = {}
  BY SessionsAssumption DEF Init, Begun
<1> QED
  BY <1>1, <1>2 DEF Init, IInv, SessionsInv, LocksAreHeld, ChainsAreNamed,
                    OneTokenPerSession

LEMMA StartTypes ==
  ASSUME TypeOK, NEW p \in Requests, NEW j \in Jobs, Start(p, j)
  PROVE  TypeOK'
<1>1. {t \in Tokens : Matches(j, t) /\ (j.kind = "rotate" => row[t] = "live")}
          \in SUBSET Tokens
  OBVIOUS
<1> QED
  BY <1>1 DEF TypeOK, Start

LEMMA ReleaseTypes ==
  ASSUME TypeOK, NEW p \in Requests, Release(p)
  PROVE  /\ job' \in [Requests -> Jobs]
         /\ todo' \in [Requests -> SUBSET Tokens]
         /\ lock' \in [Tokens -> Requests \cup {Nobody}]
  BY DEF TypeOK, Release, Idle, Jobs, Kinds

LEMMA SessionsTypeStep == IInv /\ [Next]_vars => TypeOK'
<1> SUFFICES ASSUME IInv, [Next]_vars PROVE TypeOK'
  OBVIOUS
<1> USE DEF IInv
<1>1. ASSUME NEW t \in Tokens, Issue(t) \/ Expire(t)
      PROVE  TypeOK'
  BY <1>1 DEF TypeOK, Issue, Expire, Rows
<1>2. ASSUME NEW p \in Requests, BeginRequest(p)
      PROVE  TypeOK'
  <2>1. PICK j \in Jobs : Start(p, j)
    BY <1>2 DEF BeginRequest, Jobs, Kinds, Begun
  <2> QED
    BY <2>1, StartTypes
<1>3. ASSUME NEW p \in Requests, SelectCurrent(p)
      PROVE  TypeOK'
  <2>1. PICK t \in Tokens :
            job' = [job EXCEPT ![p] = [kind |-> "mine", arg |-> session[t]]]
    BY <1>3 DEF SelectCurrent
  <2>2. [kind |-> "mine", arg |-> session[t]] \in Jobs
    BY DEF TypeOK, Jobs, Kinds
  <2> QED
    BY <1>3, <2>1, <2>2 DEF TypeOK, SelectCurrent
<1>4. ASSUME NEW p \in Requests, BeginOthers(p)
      PROVE  TypeOK'
  <2>1. [kind |-> "others", arg |-> job[p].arg] \in Jobs
    BY DEF TypeOK, Jobs, Kinds
  <2> QED
    BY <1>4, <2>1, StartTypes DEF BeginOthers
<1>5. ASSUME NEW p \in Requests, Visit(p)
      PROVE  TypeOK'
  BY <1>5 DEF TypeOK, Visit
<1>6. ASSUME NEW p \in Requests, Rotate(p)
      PROVE  TypeOK'
  <2>1. session[job[p].arg] \in Tokens \cup {Nobody}
    <3>1. PICK t \in Tokens : lock[t] = p
      BY <1>6 DEF Rotate, Held
    <3>2. t = job[p].arg
      BY <1>6, <3>1, SessionsAssumption DEF Rotate, SessionsInv, LocksAreHeld
    <3> QED
      BY <3>2 DEF TypeOK
  <2>2. row' \in [Tokens -> Rows] /\ session' \in [Tokens -> Tokens \cup {Nobody}]
    BY <1>6, <2>1 DEF TypeOK, Rotate, Rows
  <2> QED
    BY <1>6, <2>2, ReleaseTypes DEF TypeOK, Rotate
<1>7. ASSUME NEW p \in Requests, RefuseRotation(p) \/ Fail(p)
      PROVE  TypeOK'
  BY <1>7, ReleaseTypes DEF TypeOK, RefuseRotation, Fail
<1>8. ASSUME NEW p \in Requests, TakeAway(p)
      PROVE  TypeOK'
  <2>1. \A t \in Tokens : Unrevoked(t) => session[t] \in Tokens
    BY DEF Unrevoked, SessionsInv, ChainsAreNamed, Begun
  <2>2. {session[t] : t \in {u \in Held(p) : Unrevoked(u)}} \subseteq Tokens
    BY <2>1 DEF Held
  <2>3. row' \in [Tokens -> Rows]
    BY <1>8 DEF TypeOK, TakeAway, Rows
  <2> QED
    BY <1>8, <2>2, <2>3, ReleaseTypes DEF TypeOK, TakeAway
<1>9. CASE UNCHANGED vars
  BY <1>9 DEF vars, TypeOK
<1> QED
  BY <1>1, <1>2, <1>3, <1>4, <1>5, <1>6, <1>7, <1>8, <1>9 DEF Next, Proceed

-----------------------------------------------------------------------------
(* Steps that change no row: requests that begin, wait, are refused or     *)
(* fail.  The locks may only change in the way the step explains.          *)
LEMMA NoRowChanged ==
  ASSUME IInv, UNCHANGED <<row, session, closed>>, LocksAreHeld'
  PROVE  SessionsInv'
<1>1. Begun' = Begun /\ \A s : LiveOf(s)' = LiveOf(s)
  BY DEF Begun, LiveOf, Unrevoked
<1>2. ChainsAreNamed'
  BY <1>1 DEF IInv, SessionsInv, ChainsAreNamed
<1>3. OneTokenPerSession'
  BY <1>1 DEF IInv, SessionsInv, OneTokenPerSession
<1> QED
  BY <1>1, <1>2, <1>3 DEF IInv, SessionsInv

(* A request that holds nothing may take up anything.                      *)
LEMMA NothingHeld ==
  ASSUME IInv, NEW p \in Requests, job[p].kind \in {"idle", "mine"}
  PROVE  \A t \in Tokens : lock[t] # p
  BY SessionsAssumption DEF IInv, SessionsInv, LocksAreHeld

LEMMA JobTaken ==
  ASSUME IInv, NEW p \in Requests, job[p].kind \in {"idle", "mine"},
         \A q \in Requests \ {p} : job'[q] = job[q],
         UNCHANGED <<row, session, lock>>
  PROVE  LocksAreHeld'
<1>1. \A t \in Tokens : lock'[t] # Nobody =>
          lock'[t] = lock[t] /\ job'[lock[t]] = job[lock[t]]
  BY NothingHeld DEF IInv, TypeOK
<1> QED
  BY <1>1 DEF IInv, SessionsInv, LocksAreHeld, Unrevoked

(* Whoever ends lets go of his rows; the others keep theirs.               *)
LEMMA Released ==
  ASSUME IInv, NEW p \in Requests, Release(p)
  PROVE  \A t \in Tokens : lock'[t] # Nobody =>
             lock'[t] = lock[t] /\ lock[t] # p /\ job'[lock[t]] = job[lock[t]]
  BY DEF Release, IInv, TypeOK

-----------------------------------------------------------------------------
LEMMA IssueKeeps ==
  ASSUME IInv, NEW t \in Tokens, Issue(t)
  PROVE  SessionsInv'
<1> USE DEF IInv, SessionsInv
<1>1. /\ row[t] = "none" /\ session[t] = Nobody
      /\ row'[t] = "live" /\ session'[t] = t
      /\ \A u \in Tokens \ {t} : row'[u] = row[u] /\ session'[u] = session[u]
      /\ UNCHANGED <<job, lock, closed>>
  BY DEF Issue, TypeOK, ChainsAreNamed
<1>2. t \notin Begun /\ Begun' = Begun \cup {t}
  BY <1>1, SessionsAssumption DEF Begun
<1>3. \A u \in Tokens : session[u] # t
  BY <1>1, <1>2, SessionsAssumption DEF ChainsAreNamed
<1>4. LocksAreHeld'
  BY <1>1 DEF LocksAreHeld, Unrevoked
<1>5. ChainsAreNamed'
  BY <1>1, <1>2 DEF ChainsAreNamed
<1>6. LiveOf(t)' = {t} /\ \A s \in Begun : LiveOf(s)' = LiveOf(s)
  BY <1>1, <1>2, <1>3 DEF LiveOf, Unrevoked
<1>7. t \notin closed'
  BY <1>1, <1>2
<1>8. OneTokenPerSession'
  BY <1>1, <1>2, <1>6, <1>7 DEF OneTokenPerSession
<1> QED
  BY <1>1, <1>2, <1>4, <1>5, <1>8

LEMMA ExpireKeeps ==
  ASSUME IInv, NEW t \in Tokens, Expire(t)
  PROVE  SessionsInv'
<1> USE DEF IInv, SessionsInv
<1>1. /\ \A u \in Tokens : Unrevoked(u)' <=> Unrevoked(u)
      /\ \A u \in Tokens : row'[u] = "none" <=> row[u] = "none"
      /\ UNCHANGED <<session, job, lock, closed>>
  BY DEF Expire, Unrevoked, TypeOK
<1>2. Begun' = Begun /\ \A s : LiveOf(s)' = LiveOf(s)
  BY <1>1 DEF Begun, LiveOf
<1>3. LocksAreHeld'
  BY <1>1 DEF LocksAreHeld
<1>4. ChainsAreNamed'
  BY <1>1, <1>2 DEF ChainsAreNamed
<1>5. OneTokenPerSession'
  BY <1>1, <1>2 DEF OneTokenPerSession
<1> QED
  BY <1>1, <1>2, <1>3, <1>4, <1>5

LEMMA VisitKeeps ==
  ASSUME IInv, NEW p \in Requests, Visit(p)
  PROVE  SessionsInv'
<1> USE DEF IInv, SessionsInv
<1>1. PICK t \in todo[p] :
          /\ lock[t] = Nobody
          /\ lock' = IF Matches(job[p], t) THEN [lock EXCEPT ![t] = p] ELSE lock
  BY DEF Visit
<1>2. t \in Tokens /\ UNCHANGED <<row, session, job, closed>>
  BY DEF Visit, TypeOK
<1>3. \A u \in Tokens \ {t} : lock'[u] = lock[u]
  BY <1>1, <1>2 DEF TypeOK
<1>4. lock'[t] # Nobody => lock'[t] = p /\ Matches(job[p], t)
  BY <1>1, <1>2 DEF TypeOK
<1>5. Matches(job[p], t) =>
          /\ job[p].kind \notin {"idle", "mine"}
          /\ job[p].kind \in {"rotate", "all", "one", "others"} => Unrevoked(t)
          /\ job[p].kind = "rotate" => t = job[p].arg
          /\ job[p].kind = "others" => session[t] # job[p].arg
          /\ row[t] # "none"
  BY DEF Matches, Unrevoked
<1>6. LocksAreHeld'
  BY <1>2, <1>3, <1>4, <1>5 DEF LocksAreHeld, Unrevoked
<1> QED
  BY <1>2, <1>6, NoRowChanged

(* The session goes over from the old row to the new one.                  *)
LEMMA RotateKeeps ==
  ASSUME IInv, NEW p \in Requests, Rotate(p)
  PROVE  SessionsInv'
<1> USE DEF IInv, SessionsInv
<1>1. PICK old \in Tokens :
          old = job[p].arg /\ Held(p) = {old} /\ Unrevoked(old)
  <2>1. \A t \in Held(p) : t = job[p].arg /\ Unrevoked(t)
    BY SessionsAssumption DEF Rotate, Held, LocksAreHeld
  <2> QED
    BY <2>1 DEF Rotate, Held
<1>2. PICK s \in Begun : s = session[old]
  BY <1>1 DEF Unrevoked, ChainsAreNamed
<1>3. PICK new \in Tokens :
          /\ row[new] = "none"
          /\ row' = [t \in Tokens |-> CASE t = new       -> "live"
                                        [] t \in Held(p) -> "revoked"
                                        [] OTHER         -> row[t]]
          /\ session' = [session EXCEPT ![new] = s]
  BY <1>1, <1>2 DEF Rotate
<1>4. /\ row'[new] = "live" /\ row'[old] = "revoked" /\ new # old
      /\ \A t \in Tokens \ {old, new} : row'[t] = row[t]
      /\ session[new] = Nobody /\ session'[new] = s
      /\ \A t \in Tokens \ {new} : session'[t] = session[t]
      /\ UNCHANGED closed
  BY <1>1, <1>3 DEF TypeOK, Rotate, Unrevoked, ChainsAreNamed
<1>5. new \notin Begun /\ Begun' = Begun
  BY <1>2, <1>4, SessionsAssumption DEF Begun
<1>6. ChainsAreNamed'
  BY <1>1, <1>2, <1>4, <1>5 DEF ChainsAreNamed, Unrevoked
<1>7. LocksAreHeld'
  <2>1. lock[new] = Nobody
    BY <1>3 DEF LocksAreHeld
  <2>2. \A t \in Tokens : lock'[t] # Nobody =>
            /\ t \notin {old, new} /\ lock'[t] = lock[t]
            /\ job'[lock[t]] = job[lock[t]]
    BY <1>1, <2>1, Released DEF Rotate, Held
  <2> QED
    BY <1>4, <2>2 DEF LocksAreHeld, Unrevoked
<1>8. s \notin closed /\ LiveOf(s) = {old}
  <2>1. old \in LiveOf(s)
    BY <1>1, <1>2 DEF LiveOf
  <2> QED
    BY <2>1 DEF OneTokenPerSession
<1>9. LiveOf(s)' = {new}
  <2>1. \A t \in Tokens \ {old} : session[t] = s => ~ Unrevoked(t)
    BY <1>8 DEF LiveOf
  <2>2. \A t \in Tokens : (Unrevoked(t)' /\ session'[t] = s) <=> t = new
    BY <1>4, <2>1 DEF Unrevoked
  <2> QED
    BY <2>2 DEF LiveOf
<1>10. \A r \in Begun \ {s} : LiveOf(r)' = LiveOf(r)
  <2> SUFFICES ASSUME NEW r \in Begun \ {s}, NEW t \in Tokens
               PROVE  (Unrevoked(t)' /\ session'[t] = r) <=>
                          (Unrevoked(t) /\ session[t] = r)
    BY DEF LiveOf
  <2> QED
    BY <1>2, <1>3, <1>4, <1>5 DEF Unrevoked
<1>11. OneTokenPerSession'
  BY <1>4, <1>5, <1>8, <1>9, <1>10 DEF OneTokenPerSession
<1> QED
  BY <1>4, <1>5, <1>6, <1>7, <1>11

(* Every session loses its row or keeps it; with the row it is closed.     *)
LEMMA TakeAwayKeeps ==
  ASSUME IInv, NEW p \in Requests, TakeAway(p)
  PROVE  SessionsInv'
<1> USE DEF IInv, SessionsInv
<1>1. /\ \A t \in Held(p) : row'[t] \in {"revoked", "deleted"}
      /\ \A t \in Tokens \ Held(p) : row'[t] = row[t]
      /\ \A t \in Held(p) : t \in Tokens /\ row[t] # "none"
      /\ closed' = closed \cup {session[t] : t \in {u \in Held(p) : Unrevoked(u)}}
      /\ UNCHANGED session
  BY SessionsAssumption DEF TakeAway, Held, LocksAreHeld
<1>2. Begun' = Begun
  BY <1>1 DEF Begun
<1>3. ChainsAreNamed'
  BY <1>1, <1>2 DEF ChainsAreNamed
<1>4. closed' \subseteq Begun'
  BY <1>1, <1>2 DEF ChainsAreNamed
<1>5. LocksAreHeld'
  <2>1. \A t \in Tokens : lock'[t] # Nobody =>
            /\ t \notin Held(p) /\ lock'[t] = lock[t]
            /\ job'[lock[t]] = job[lock[t]]
    BY Released DEF TakeAway, Held
  <2> QED
    BY <1>1, <2>1 DEF LocksAreHeld, Unrevoked
<1>6. \A s : LiveOf(s)' = LiveOf(s) \ Held(p)
  BY <1>1 DEF LiveOf, Unrevoked
<1>7. OneTokenPerSession'
  <2> SUFFICES ASSUME NEW s \in Begun
               PROVE  IF s \in closed' THEN LiveOf(s)' = {}
                                       ELSE \E t \in Tokens : LiveOf(s)' = {t}
    BY <1>2 DEF OneTokenPerSession
  <2>1. CASE s \in closed
    BY <1>1, <1>6, <2>1 DEF OneTokenPerSession
  <2>2. CASE s \notin closed
    <3>1. PICK t \in Tokens : LiveOf(s) = {t}
      BY <2>2 DEF OneTokenPerSession
    <3>2. t \in LiveOf(s)
      BY <3>1
    <3>3. Unrevoked(t) /\ session[t] = s
      BY <3>2 DEF LiveOf
    <3>4. CASE t \in Held(p)
      BY <1>1, <1>6, <3>1, <3>3, <3>4
    <3>5. CASE t \notin Held(p)
      <4>1. s \notin closed'
        <5> SUFFICES ASSUME s \in closed' PROVE FALSE
          OBVIOUS
        <5>1. PICK u \in Held(p) : Unrevoked(u) /\ session[u] = s
          BY <1>1, <2>2
        <5>2. u \in LiveOf(s)
          BY <1>1, <5>1 DEF LiveOf
        <5> QED
          BY <3>1, <3>5, <5>1, <5>2
      <4> QED
        BY <1>6, <3>1, <3>5, <4>1
    <3> QED
      BY <3>4, <3>5
  <2> QED
    BY <2>1, <2>2
<1> QED
  BY <1>3, <1>4, <1>5, <1>7

-----------------------------------------------------------------------------
LEMMA SessionsStep == IInv /\ [Next]_vars => IInv'
<1> SUFFICES ASSUME IInv, [Next]_vars PROVE SessionsInv'
  BY SessionsTypeStep DEF IInv
<1>1. ASSUME NEW p \in Requests,
             BeginRequest(p) \/ SelectCurrent(p) \/ BeginOthers(p)
      PROVE  SessionsInv'
  <2>1. /\ job[p].kind \in {"idle", "mine"}
        /\ \A q \in Requests \ {p} : job'[q] = job[q]
        /\ UNCHANGED <<row, session, lock, closed>>
    <3>1. job[p].kind \in {"idle", "mine"}
      BY <1>1 DEF BeginRequest, SelectCurrent, BeginOthers, Idle
    <3>2. CASE SelectCurrent(p)
      BY <3>1, <3>2 DEF SelectCurrent, IInv, TypeOK
    <3>3. CASE BeginRequest(p) \/ BeginOthers(p)
      <4>1. \E j : Start(p, j)
        BY <3>3 DEF BeginRequest, BeginOthers
      <4> QED
        BY <3>1, <4>1 DEF Start, IInv, TypeOK
    <3> QED
      BY <1>1, <3>2, <3>3
  <2> QED
    BY <2>1, JobTaken, NoRowChanged
<1>2. ASSUME NEW p \in Requests, RefuseRotation(p) \/ Fail(p)
      PROVE  SessionsInv'
  <2>1. Release(p) /\ UNCHANGED <<row, session, closed>>
    BY <1>2 DEF RefuseRotation, Fail
  <2>2. LocksAreHeld'
    BY <2>1, Released DEF LocksAreHeld, Unrevoked, IInv, SessionsInv
  <2> QED
    BY <2>1, <2>2, NoRowChanged
<1>3. CASE UNCHANGED vars
  <2>1. LocksAreHeld' /\ UNCHANGED <<row, session, closed>>
    BY <1>3 DEF vars, LocksAreHeld, Unrevoked, IInv, SessionsInv
  <2> QED
    BY <2>1, NoRowChanged
<1> QED
  BY <1>1, <1>2, <1>3, IssueKeeps, ExpireKeeps, VisitKeeps, RotateKeeps,
     TakeAwayKeeps DEF Next, Proceed

(* The inductive invariant of the sessions, their types included.          *)
THEOREM SessionsInvariant == Spec => []IInv
  BY SessionsInit, SessionsStep, PTL DEF Spec

(* A session has exactly one unrevoked token until something takes it      *)
(* away, and never one again afterwards, however requests interleave.      *)
THEOREM OneToken == Spec => []OneTokenPerSession
<1>1. IInv => OneTokenPerSession
  BY DEF IInv, SessionsInv
<1> QED
  BY <1>1, SessionsInvariant, PTL

(* "Log out on the other devices" spares the session it came from, also if *)
(* its token is rotated meanwhile.                                         *)
THEOREM CurrentSpared == Spec => CurrentIsSpared
<1> DEFINE Spared ==
        \A p \in Requests : job[p].kind = "others" /\ job'[p] = Idle =>
            \A t \in LiveOf(job[p].arg) : row'[t] = row[t]
<1>1. IInv /\ [Next]_vars => [Spared]_vars
  <2> SUFFICES ASSUME IInv, Next, NEW p \in Requests, job[p].kind = "others",
                      job'[p] = Idle, NEW t \in LiveOf(job[p].arg)
               PROVE  row'[t] = row[t]
    BY DEF vars
  <2>1. job'[p] # job[p]
    BY DEF Idle
  <2>2. CASE UNCHANGED row
    BY <2>2
  <2>3. ASSUME NEW q \in Requests, Rotate(q) \/ TakeAway(q)
        PROVE  row'[t] = row[t]
    <3>1. q = p
      BY <2>1, <2>3 DEF Rotate, TakeAway, Release, IInv, TypeOK
    <3>2. TakeAway(p)
      BY <2>3, <3>1 DEF Rotate
    <3>3. t \notin Held(p)
      BY SessionsAssumption DEF LiveOf, Held, IInv, SessionsInv, LocksAreHeld
    <3> QED
      BY <3>2, <3>3 DEF TakeAway, LiveOf
  <2>4. ASSUME NEW u \in Tokens, Issue(u) \/ Expire(u)
        PROVE  row'[t] = row[t]
    BY <2>1, <2>4 DEF Issue, Expire
  <2> QED
    BY <2>2, <2>3, <2>4
       DEF Next, Proceed, BeginRequest, SelectCurrent, BeginOthers, Start, Visit,
           RefuseRotation, Fail
<1>2. CurrentIsSpared <=> [][Spared]_vars
  BY PTL DEF CurrentIsSpared
<1> QED
  BY <1>1, <1>2, SessionsInvariant, PTL DEF Spec

-----------------------------------------------------------------------------
(* What a request that ends sessions has ended when it answers.            *)

(* Rows keep their session, and no row is added to a session but by a      *)
(* rotation of one of its own.                                             *)
LEMMA OnlyRotationsAdd ==
  ASSUME IInv, [Next]_vars
  PROVE  /\ \A t \in Tokens : row[t] # "none" => session'[t] = session[t]
         /\ \A s \in Begun \ Refreshed : LiveOf(s)' \subseteq LiveOf(s)
<1>0. /\ row \in [Tokens -> Rows] /\ session \in [Tokens -> Tokens \cup {Nobody}]
      /\ \A t \in Tokens : row[t] = "none" => session[t] = Nobody
      /\ Nobody \notin Tokens
  BY SessionsAssumption DEF IInv, TypeOK, SessionsInv, ChainsAreNamed
<1>1. CASE UNCHANGED <<row, session>>
  BY <1>1 DEF LiveOf, Unrevoked
<1>2. ASSUME NEW u \in Tokens, Issue(u)
      PROVE  /\ \A t \in Tokens : row[t] # "none" => session'[t] = session[t]
             /\ \A s \in Begun \ Refreshed : LiveOf(s)' \subseteq LiveOf(s)
  <2>1. /\ row[u] = "none" /\ session'[u] = u /\ u \notin Begun
        /\ \A t \in Tokens \ {u} : row'[t] = row[t] /\ session'[t] = session[t]
    BY <1>0, <1>2 DEF Issue, Begun
  <2> QED
    BY <2>1 DEF LiveOf, Unrevoked
<1>3. ASSUME NEW u \in Tokens, Expire(u)
      PROVE  /\ \A t \in Tokens : row[t] # "none" => session'[t] = session[t]
             /\ \A s \in Begun \ Refreshed : LiveOf(s)' \subseteq LiveOf(s)
  BY <1>0, <1>3 DEF Expire, LiveOf, Unrevoked
<1>4. ASSUME NEW p \in Requests, Rotate(p)
      PROVE  /\ \A t \in Tokens : row[t] # "none" => session'[t] = session[t]
             /\ \A s \in Begun \ Refreshed : LiveOf(s)' \subseteq LiveOf(s)
  <2>1. session[job[p].arg] \in Refreshed
    BY <1>4 DEF Rotate, Refreshed
  <2>2. PICK new \in Tokens :
            /\ row[new] = "none"
            /\ row' = [t \in Tokens |-> CASE t = new       -> "live"
                                          [] t \in Held(p) -> "revoked"
                                          [] OTHER         -> row[t]]
            /\ session' = [session EXCEPT ![new] = session[job[p].arg]]
    BY <1>4 DEF Rotate
  <2>3. /\ session'[new] \in Refreshed
        /\ \A t \in Tokens \ {new} : session'[t] = session[t]
    BY <1>0, <2>1, <2>2
  <2>4. \A t \in Tokens \ {new} : row'[t] \in {"revoked", row[t]}
    BY <2>2
  <2> QED
    BY <2>2, <2>3, <2>4 DEF LiveOf, Unrevoked
<1>5. ASSUME NEW p \in Requests, TakeAway(p)
      PROVE  /\ \A t \in Tokens : row[t] # "none" => session'[t] = session[t]
             /\ \A s \in Begun \ Refreshed : LiveOf(s)' \subseteq LiveOf(s)
  <2>1. session' = session /\ \A t \in Tokens : row'[t] \in {"revoked", "deleted", row[t]}
    BY <1>5 DEF TakeAway
  <2> QED
    BY <2>1 DEF LiveOf, Unrevoked
<1>6. CASE \E p \in Requests : \/ BeginRequest(p) \/ SelectCurrent(p) \/ BeginOthers(p)
                              \/ Visit(p) \/ RefuseRotation(p) \/ Fail(p)
  BY <1>1, <1>6 DEF BeginRequest, SelectCurrent, BeginOthers, Start, Visit,
                    RefuseRotation, Fail
<1>7. CASE UNCHANGED vars
  BY <1>1, <1>7 DEF vars
<1> QED
  BY <1>2, <1>3, <1>4, <1>5, <1>6, <1>7 DEF Next, Proceed

(* What a request is when its statement begins.                            *)
LEMMA Starts ==
  ASSUME NEW p \in Requests, BeginRequest(p) \/ BeginOthers(p)
  PROVE  \E j : /\ Start(p, j)
                /\ job[p].kind \in {"idle", "mine"} /\ j.kind \notin {"idle", "mine"}
                /\ j.kind = "one" => j.arg \in Begun
                /\ j.kind = "logout" => j.arg \in Tokens /\ row[j.arg] # "none"
<1>1. ASSUME NEW q, Start(p, q), job[p].kind \in {"idle", "mine"},
             q.kind \notin {"idle", "mine"}, q.kind = "one" => q.arg \in Begun,
             q.kind = "logout" => q.arg \in Tokens /\ row[q.arg] # "none"
      PROVE  \E j : /\ Start(p, j)
                    /\ job[p].kind \in {"idle", "mine"} /\ j.kind \notin {"idle", "mine"}
                    /\ j.kind = "one" => j.arg \in Begun
                    /\ j.kind = "logout" => j.arg \in Tokens /\ row[j.arg] # "none"
  BY <1>1
<1>2. CASE BeginOthers(p)
  <2>1. Start(p, [kind |-> "others", arg |-> job[p].arg]) /\ job[p].kind = "mine"
    BY <1>2 DEF BeginOthers
  <2> QED
    BY <1>1, <2>1
<1>3. CASE BeginRequest(p)
  <2>1. job[p].kind = "idle"
    BY <1>3 DEF BeginRequest, Idle
  <2>2. ASSUME NEW t \in Tokens, row[t] # "none",
               \/ Start(p, [kind |-> "logout", arg |-> t])
               \/ Start(p, [kind |-> "rotate", arg |-> t])
        PROVE  \E j : /\ Start(p, j)
                      /\ job[p].kind \in {"idle", "mine"} /\ j.kind \notin {"idle", "mine"}
                      /\ j.kind = "one" => j.arg \in Begun
                      /\ j.kind = "logout" => j.arg \in Tokens /\ row[j.arg] # "none"
    BY <1>1, <2>1, <2>2
  <2>3. ASSUME NEW s \in Begun, Start(p, [kind |-> "one", arg |-> s])
        PROVE  \E j : /\ Start(p, j)
                      /\ job[p].kind \in {"idle", "mine"} /\ j.kind \notin {"idle", "mine"}
                      /\ j.kind = "one" => j.arg \in Begun
                      /\ j.kind = "logout" => j.arg \in Tokens /\ row[j.arg] # "none"
    BY <1>1, <2>1, <2>3
  <2>4. ASSUME NEW k \in {"all", "cleanup"}, Start(p, [kind |-> k, arg |-> Nobody])
        PROVE  \E j : /\ Start(p, j)
                      /\ job[p].kind \in {"idle", "mine"} /\ j.kind \notin {"idle", "mine"}
                      /\ j.kind = "one" => j.arg \in Begun
                      /\ j.kind = "logout" => j.arg \in Tokens /\ row[j.arg] # "none"
    BY <1>1, <2>1, <2>4
  <2> QED
    BY <1>3, <2>2, <2>3, <2>4 DEF BeginRequest
<1> QED
  BY <1>2, <1>3

(* Whoever lets go of his rows is done with what he did.                   *)
LEMMA DoneIsIdle ==
  ASSUME IInv, NEW p \in Requests,
         Rotate(p) \/ RefuseRotation(p) \/ TakeAway(p) \/ Fail(p)
  PROVE  /\ job'[p] = Idle /\ job[p] # Idle /\ \A q \in Requests \ {p} :
              job'[q] = job[q] /\ todo'[q] = todo[q]
         /\ \A t \in Tokens, q \in Requests \ {p} : lock[t] = q => lock'[t] = q
<1>1. Release(p)
  BY DEF Rotate, RefuseRotation, TakeAway, Fail
<1>2. job[p] # Idle
  BY DEF Rotate, RefuseRotation, TakeAway, Fail, Visited, Idle
<1>3. /\ job \in [Requests -> Jobs] /\ todo \in [Requests -> SUBSET Tokens]
      /\ lock \in [Tokens -> Requests \cup {Nobody}]
  BY DEF IInv, TypeOK
<1> QED
  BY <1>1, <1>2, <1>3 DEF Release

(* A request goes on: what it still comes to or has locked stays so, but   *)
(* for rows its WHERE does not pick.                                       *)
LEMMA GoingOn ==
  ASSUME IInv, [Next]_vars, NEW p \in Requests, job'[p] = job[p],
         NEW t \in Tokens, Matches(job[p], t), t \in todo[p] \/ lock[t] = p
  PROVE  t \in todo'[p] \/ lock'[t] = p
<1>0. /\ job \in [Requests -> Jobs] /\ todo \in [Requests -> SUBSET Tokens]
      /\ lock \in [Tokens -> Requests \cup {Nobody}] /\ Nobody \notin Requests
  BY SessionsAssumption DEF IInv, TypeOK
<1>1. CASE UNCHANGED <<todo, lock>>
  BY <1>1
<1>2. CASE \E u \in Tokens : Issue(u) \/ Expire(u)
  BY <1>1, <1>2 DEF Issue, Expire
<1>3. ASSUME NEW q \in Requests, BeginRequest(q) \/ BeginOthers(q)
      PROVE  t \in todo'[p] \/ lock'[t] = p
  <2>1. PICK j : /\ Start(q, j) /\ job[q].kind \in {"idle", "mine"}
                 /\ j.kind \notin {"idle", "mine"}
    BY <1>3, Starts
  <2>2. q # p
    BY <1>0, <2>1 DEF Start
  <2> QED
    BY <1>0, <2>1, <2>2 DEF Start
<1>4. ASSUME NEW q \in Requests, Visit(q)
      PROVE  t \in todo'[p] \/ lock'[t] = p
  <2>1. PICK u \in todo[q] :
            /\ lock[u] = Nobody
            /\ todo' = [todo EXCEPT ![q] = @ \ {u}]
            /\ lock' = IF Matches(job[q], u) THEN [lock EXCEPT ![u] = q] ELSE lock
    BY <1>4 DEF Visit
  <2>2. CASE q = p /\ u = t
    BY <1>0, <2>1, <2>2
  <2>3. CASE ~(q = p /\ u = t)
    <3>1. t \in todo[p] => t \in todo'[p]
      BY <1>0, <2>1, <2>3
    <3>2. lock[t] = p => lock'[t] = p
      BY <1>0, <2>1
    <3> QED
      BY <3>1, <3>2
  <2> QED
    BY <2>2, <2>3
<1>5. ASSUME NEW q \in Requests, Rotate(q) \/ RefuseRotation(q) \/ TakeAway(q) \/ Fail(q)
      PROVE  t \in todo'[p] \/ lock'[t] = p
  BY <1>5, DoneIsIdle
<1>6. CASE \E q \in Requests : SelectCurrent(q)
  BY <1>1, <1>6 DEF SelectCurrent
<1> QED
  BY <1>1, <1>2, <1>3, <1>4, <1>5, <1>6 DEF Next, Proceed, vars

(* A request begins: its snapshot has every row of the sessions it is to   *)
(* end, but of those that are being refreshed.                             *)
LEMMA SnapshotCovers ==
  ASSUME IInv, [Next]_vars, NEW p \in Requests, job'[p] # job[p],
         NEW s \in Claims(job'[p]) \ Dead(job'[p])
  PROVE  /\ job'[p].kind \in {"all", "one", "others", "logout"}
         /\ s \in Begun /\ UNCHANGED <<row, session>>
         /\ \A t \in LiveOf(s) : Matches(job'[p], t) /\ t \in todo'[p]
<1>0. /\ job \in [Requests -> Jobs] /\ todo \in [Requests -> SUBSET Tokens]
      /\ Begun \subseteq Tokens
  BY DEF IInv, TypeOK, Begun
<1>1. job'[p].kind \in {"all", "one", "others", "logout"}
  BY DEF Claims
<1>2. PICK q \in Requests :
          \/ BeginRequest(q) \/ BeginOthers(q) \/ SelectCurrent(q)
          \/ Rotate(q) \/ RefuseRotation(q) \/ TakeAway(q) \/ Fail(q)
  BY DEF Next, Proceed, Issue, Expire, Visit, vars
<1>3. ~(Rotate(q) \/ RefuseRotation(q) \/ TakeAway(q) \/ Fail(q))
  BY <1>1, DoneIsIdle DEF Idle
<1>4. ~SelectCurrent(q)
  BY <1>0, <1>1 DEF SelectCurrent
<1>5. PICK j : /\ Start(q, j)
               /\ j.kind = "one" => j.arg \in Begun
               /\ j.kind = "logout" => j.arg \in Tokens /\ row[j.arg] # "none"
  BY <1>2, <1>3, <1>4, Starts
<1>6. q = p /\ job'[p] = j
  BY <1>0, <1>5 DEF Start
<1>7. /\ UNCHANGED <<row, session>>
      /\ todo'[p] = {t \in Tokens : Matches(j, t) /\ (j.kind = "rotate" => row[t] = "live")}
  BY <1>0, <1>5, <1>6 DEF Start
<1>8. s \in Claims(j) \ Dead(j) /\ j.kind \in {"all", "one", "others", "logout"}
  BY <1>1, <1>6
<1>9. ASSUME s \in Begun, \A t \in LiveOf(s) : Matches(j, t)
      PROVE  /\ s \in Begun /\ UNCHANGED <<row, session>>
             /\ \A t \in LiveOf(s) : Matches(job'[p], t) /\ t \in todo'[p]
  BY <1>6, <1>7, <1>8, <1>9 DEF LiveOf
<1>10. CASE j.kind \in {"all", "one", "others"}
  <2>1. s \in Begun
    BY <1>5, <1>8, <1>10 DEF Claims
  <2>2. \A t \in LiveOf(s) : Matches(j, t)
    BY <1>8, <1>10 DEF Claims, Matches, LiveOf
  <2> QED
    BY <1>1, <1>9, <2>1, <2>2
<1>11. CASE j.kind = "logout"
  <2>1. s = session[j.arg] /\ Unrevoked(j.arg) /\ j.arg \in Tokens
    BY <1>5, <1>8, <1>11 DEF Claims, Dead
  <2>2. s \in Begun /\ j.arg \in LiveOf(s)
    BY <1>5, <1>11, <2>1 DEF IInv, SessionsInv, ChainsAreNamed, LiveOf
  <2>3. LiveOf(s) = {j.arg}
    BY <2>2 DEF IInv, SessionsInv, OneTokenPerSession
  <2>4. \A t \in LiveOf(s) : Matches(j, t)
    BY <1>11, <2>1, <2>3 DEF Matches, Unrevoked
  <2> QED
    BY <1>1, <1>9, <2>2, <2>4
<1> QED
  BY <1>8, <1>10, <1>11

LEMMA SteadyStep ==
  IInv /\ SteadyInv /\ [ObservedNext]_<<vars, promised, steady>> => SteadyInv'
<1> SUFFICES ASSUME IInv, SteadyInv, [ObservedNext]_<<vars, promised, steady>>,
                    NEW p \in Requests
             PROVE  /\ steady'[p] # {} => job'[p].kind \in {"all", "one", "others", "logout"}
                    /\ steady'[p] \subseteq Begun' \ Refreshed'
                    /\ \A s \in steady'[p] : \A t \in LiveOf(s)' :
                          Matches(job[p], t)' /\ (t \in todo'[p] \/ lock'[t] = p)
  BY DEF SteadyInv
<1>1. CASE UNCHANGED <<vars, promised, steady>>
  <2>1. Begun' = Begun /\ Refreshed' = Refreshed /\ \A s : LiveOf(s)' = LiveOf(s)
    BY <1>1 DEF vars, Begun, Refreshed, LiveOf, Unrevoked
  <2>2. \A t : Matches(job[p], t)' <=> Matches(job[p], t)
    BY <1>1 DEF vars, Matches, Unrevoked
  <2> QED
    BY <1>1, <2>1, <2>2 DEF vars, SteadyInv
<1>2. CASE ObservedNext
  <2>1. /\ [Next]_vars
        /\ steady'[p] = (IF job'[p] = job[p] THEN steady[p]
                          ELSE Claims(job'[p]) \ Dead(job'[p])) \ (Refreshed \cup Refreshed')
    BY <1>2 DEF ObservedNext
  <2>2. \A t \in Tokens : row[t] # "none" => session'[t] = session[t]
    BY <2>1, OnlyRotationsAdd
  <2>3. Begun \subseteq Begun'
    BY <2>2, SessionsAssumption DEF Begun, IInv, SessionsInv, ChainsAreNamed
  <2>4. \A s \in Begun \ Refreshed : LiveOf(s)' \subseteq LiveOf(s)
    BY <2>1, OnlyRotationsAdd
  <2>5. CASE job'[p] = job[p]
    <3>1. steady'[p] \subseteq steady[p] /\ steady'[p] \cap Refreshed' = {}
      BY <2>1, <2>5
    <3>2. ASSUME NEW s \in steady'[p], NEW t \in LiveOf(s)'
          PROVE  Matches(job[p], t)' /\ (t \in todo'[p] \/ lock'[t] = p)
      <4>1. s \in Begun \ Refreshed /\ job[p].kind \in {"all", "one", "others", "logout"}
        BY <3>1 DEF SteadyInv
      <4>2. t \in LiveOf(s) /\ t \in Tokens /\ row'[t] \in {"live", "expired"}
        BY <2>4, <4>1 DEF LiveOf, Unrevoked
      <4>3. Matches(job[p], t) /\ (t \in todo[p] \/ lock[t] = p)
        BY <3>1, <4>2 DEF SteadyInv
      <4>4. session'[t] = session[t]
        BY <2>2, <4>2 DEF LiveOf, Unrevoked
      <4>5. Matches(job[p], t)'
        BY <2>5, <4>1, <4>2, <4>3, <4>4 DEF Matches, Unrevoked
      <4> QED
        BY <2>1, <2>5, <4>2, <4>3, <4>5, GoingOn
    <3> QED
      BY <2>3, <2>5, <3>1, <3>2 DEF SteadyInv
  <2>6. CASE job'[p] # job[p]
    <3>1. /\ steady'[p] \subseteq Claims(job'[p]) \ Dead(job'[p])
          /\ steady'[p] \cap Refreshed' = {}
      BY <2>1, <2>6
    <3>2. ASSUME NEW s \in steady'[p]
          PROVE  /\ job'[p].kind \in {"all", "one", "others", "logout"}
                 /\ s \in Begun'
                 /\ \A t \in LiveOf(s)' :
                       Matches(job[p], t)' /\ (t \in todo'[p] \/ lock'[t] = p)
      <4>1. /\ job'[p].kind \in {"all", "one", "others", "logout"}
            /\ s \in Begun /\ UNCHANGED <<row, session>>
            /\ \A t \in LiveOf(s) : Matches(job'[p], t) /\ t \in todo'[p]
        BY <2>1, <2>6, <3>1, SnapshotCovers
      <4>2. LiveOf(s)' = LiveOf(s)
        BY <4>1 DEF LiveOf, Unrevoked
      <4>3. \A t : Matches(job'[p], t) => Matches(job[p], t)'
        BY <4>1 DEF Matches, Unrevoked
      <4> QED
        BY <2>3, <4>1, <4>2, <4>3
    <3> QED
      BY <3>1, <3>2
  <2> QED
    BY <2>5, <2>6
<1> QED
  BY <1>1, <1>2

(* revoke_all, revoke, revoke_others and logout: whatever they wait for,   *)
(* and whatever the sweep takes from under them, when they answer no row   *)
(* is left of a session that stood when their statement began, unless it   *)
(* was being refreshed meanwhile.                                          *)
THEOREM AnsweredIsEnded == Observed => EndsWhatStands
<1> DEFINE Claimed == \A p \in Requests : TakeAway(p) => \A s \in steady[p] : Ended(s)
<1>1. ObservedInit => Init /\ SteadyInv
  BY DEF ObservedInit, SteadyInv
<1>2. [ObservedNext]_<<vars, promised, steady>> => [Next]_vars
  BY DEF ObservedNext, vars
<1>3. IInv /\ SteadyInv => [Claimed]_<<vars, promised, steady>>
  <2> SUFFICES ASSUME IInv, SteadyInv, NEW p \in Requests, TakeAway(p),
                      NEW s \in steady[p], NEW t \in Tokens, session'[t] = s
               PROVE  row'[t] \in {"revoked", "deleted"}
    BY DEF Ended
  <2>1. s \in Begun /\ s \in Tokens /\ session[t] = s
    BY DEF SteadyInv, Begun, TakeAway
  <2>2. row[t] \in Rows \ {"none"}
    BY <2>1, SessionsAssumption DEF IInv, TypeOK, SessionsInv, ChainsAreNamed
  <2>3. /\ todo[p] = {}
        /\ row'[t] = IF lock[t] # p THEN row[t]
                     ELSE IF job[p].kind = "cleanup" THEN "deleted" ELSE "revoked"
    BY DEF TakeAway, Visited, Held
  <2>4. Unrevoked(t) => lock[t] = p
    BY <2>1, <2>3 DEF SteadyInv, LiveOf
  <2> QED
    BY <2>2, <2>3, <2>4 DEF Rows, Unrevoked
<1>4. EndsWhatStands <=> [][Claimed]_<<vars, promised, steady>>
  BY PTL DEF EndsWhatStands
<1>5. Observed => [](IInv /\ SteadyInv)
  BY <1>1, <1>2, SessionsInit, SessionsStep, SteadyStep, PTL DEF Observed
<1> QED
  BY <1>3, <1>4, <1>5, PTL
=============================================================================

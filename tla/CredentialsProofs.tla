-------------------------- MODULE CredentialsProofs -------------------------
(***************************************************************************)
(* Proofs about Credentials, for any number of requests, passwords,        *)
(* secrets and links, all requests interleaved statement by statement and  *)
(* any of them broken off between two of its statements.                   *)
(***************************************************************************)
EXTENDS Credentials, FiniteSetTheorems, TLAPS

(* All parts but TokensEarned, which follows on them.                      *)
IInv ==
    TypeOK /\ CallShape /\ StepsOfKinds /\ Grounds /\ LinksApart /\ SessionsEnd

-----------------------------------------------------------------------------
(* The initial states.                                                     *)

LEMMA InitInv == Init => IInv
<1> SUFFICES ASSUME Init
             PROVE  IInv
  OBVIOUS
<1> USE CredentialsAssumption
<1>1. TypeOK
  BY DEF Init, TypeOK, Holders, Accounts, Calls, Kinds, Steps, NoCall
<1>2. CallShape
  BY DEF Init, CallShape, NoCall
<1>3. StepsOfKinds /\ Grounds
  BY DEF Init, StepsOfKinds, Grounds, Running
<1>4. LinksApart
  BY DEF Init, LinksApart, UsedUp, NoCall
<1>5. SessionsEnd
  BY DEF Init, SessionsEnd
<1> QED
  BY <1>1, <1>2, <1>3, <1>4, <1>5 DEF IInv

-----------------------------------------------------------------------------
(* A call begins.                                                          *)

(* The calls a request may make, and the step each is to take first.       *)
Legal(c, step) ==
    /\ c \in Calls
    /\ c.kind \in {"change", "reset"} => c.offer \in Passwords
    /\ c.kind \in {"forgot", "reset"} <=> c.link \in Links
    /\ c.kind = "enable" => c.offer \in Secrets
    /\ c.kind = "disable" => c.offer = None
    /\ c.kind = "verify" => c.first \in pending
    /\ step = IF c.kind \in {"forgot", "reset"} THEN "write" ELSE "read"
    /\ c.kind = "forgot" =>
          /\ link[c.link] = "none"
          /\ \A q \in Requests : call[q].kind = "forgot" => call[q].link # c.link

LEMMA AskIsBegin ==
  ASSUME TypeOK, NEW r \in Requests, Ask(r)
  PROVE  \E c, step : Legal(c, step) /\ Begin(r, step, c)
<1> USE CredentialsAssumption DEF NoCall, Calls, Kinds, Legal
<1>1. CASE Login(r)
  <2>1. PICK p \in Passwords : Begin(r, "read", [NoCall EXCEPT !.give = p])
    BY <1>1 DEF Login
  <2>2. Legal([NoCall EXCEPT !.give = p], "read")
    OBVIOUS
  <2> QED
    BY <2>1, <2>2
<1>2. CASE Verify2fa(r)
  <2>1. PICK s \in Secrets, q \in pending :
          Begin(r, "read", [NoCall EXCEPT !.kind = "verify", !.give = s, !.first = q])
    BY <1>2 DEF Verify2fa
  <2>2. Legal([NoCall EXCEPT !.kind = "verify", !.give = s, !.first = q], "read")
    BY DEF TypeOK
  <2> QED
    BY <2>1, <2>2
<1>3. CASE Callback(r)
  <2>1. Legal([NoCall EXCEPT !.kind = "callback"], "read")
    OBVIOUS
  <2> QED
    BY <2>1, <1>3 DEF Callback
<1>4. CASE ChangePassword(r)
  <2>1. PICK p, n \in Passwords :
          Begin(r, "read", [NoCall EXCEPT !.kind = "change", !.give = p, !.offer = n])
    BY <1>4 DEF ChangePassword
  <2>2. Legal([NoCall EXCEPT !.kind = "change", !.give = p, !.offer = n], "read")
    OBVIOUS
  <2> QED
    BY <2>1, <2>2
<1>5. CASE Forgot(r)
  <2>1. PICK l \in Links :
          /\ link[l] = "none"
          /\ \A q \in Requests : call[q].kind = "forgot" => call[q].link # l
          /\ Begin(r, "write", [NoCall EXCEPT !.kind = "forgot", !.link = l])
    BY <1>5 DEF Forgot
  <2>2. Legal([NoCall EXCEPT !.kind = "forgot", !.link = l], "write")
    BY <2>1
  <2> QED
    BY <2>1, <2>2
<1>6. CASE Reset(r)
  <2>1. PICK l \in Links, n \in Passwords :
          Begin(r, "write", [NoCall EXCEPT !.kind = "reset", !.link = l, !.offer = n])
    BY <1>6 DEF Reset
  <2>2. Legal([NoCall EXCEPT !.kind = "reset", !.link = l, !.offer = n], "write")
    OBVIOUS
  <2> QED
    BY <2>1, <2>2
<1>7. CASE EnableTotp(r)
  <2>1. PICK s, c \in Secrets :
          Begin(r, "read", [NoCall EXCEPT !.kind = "enable", !.offer = s, !.give = c])
    BY <1>7 DEF EnableTotp
  <2>2. Legal([NoCall EXCEPT !.kind = "enable", !.offer = s, !.give = c], "read")
    OBVIOUS
  <2> QED
    BY <2>1, <2>2
<1>8. CASE DisableTotp(r)
  <2>1. PICK c \in Secrets :
          Begin(r, "read", [NoCall EXCEPT !.kind = "disable", !.give = c])
    BY <1>8 DEF DisableTotp
  <2>2. Legal([NoCall EXCEPT !.kind = "disable", !.give = c], "read")
    OBVIOUS
  <2> QED
    BY <2>1, <2>2
<1> QED
  BY <1>1, <1>2, <1>3, <1>4, <1>5, <1>6, <1>7, <1>8 DEF Ask

LEMMA BeginStep ==
  ASSUME IInv, NEW r \in Requests, NEW c, NEW step, Legal(c, step), Begin(r, step, c)
  PROVE  IInv'
<1> USE CredentialsAssumption DEF IInv
<1>1. /\ at[r] = "idle" /\ step \in {"read", "write"}
      /\ at' = [at EXCEPT ![r] = step]
      /\ call' = [call EXCEPT ![r] = c]
      /\ seen' = [seen EXCEPT ![r] = {account}]
      /\ UNCHANGED <<account, session, pending, link, standing>>
  BY DEF Begin, Go, Legal
<1>2. TypeOK'
  BY <1>1 DEF TypeOK, Legal, Steps
<1>3. CallShape'
  BY <1>1 DEF TypeOK, CallShape, Legal
<1>4. StepsOfKinds'
  BY <1>1 DEF TypeOK, StepsOfKinds, Legal, Calls, Kinds
<1>5. Grounds'
  <2> SUFFICES ASSUME NEW q \in Requests
               PROVE  Grounds!(q)'
    BY DEF Grounds, Running
  <2>1. CASE q = r
    <3>1. /\ at'[r] = step /\ step \in {"read", "write"} /\ seen'[r] = {account}
          /\ call'[r] = c /\ (step = "write" => c.kind \in {"forgot", "reset"})
      BY <1>1 DEF TypeOK, Legal
    <3> QED
      BY <3>1, <2>1, <1>1
  <2>2. CASE q # r
    <3>1. at'[q] = at[q] /\ seen'[q] = seen[q] /\ call'[q] = call[q]
      BY <1>1, <2>2 DEF TypeOK
    <3> QED
      BY <3>1, <1>1 DEF Grounds, Running
  <2> QED
    BY <2>1, <2>2
<1>6. standing[r] = {} /\ session[r] = "none"
  BY <1>1 DEF SessionsEnd
<1>7. LinksApart'
  <2>1. UsedUp(r)' = FALSE
    BY <1>1, <1>6 DEF UsedUp, TypeOK
  <2>2. ASSUME NEW q \in Requests, q # r
        PROVE  at'[q] = at[q] /\ call'[q] = call[q] /\ UsedUp(q)' = UsedUp(q)
    BY <2>2, <1>1 DEF UsedUp, TypeOK
  <2>3. at'[r] = step /\ call'[r] = c /\ link' = link
    BY <1>1 DEF TypeOK
  <2> QED
    BY <2>1, <2>2, <2>3 DEF LinksApart, Legal
<1>8. SessionsEnd'
  BY <1>1, <1>6 DEF SessionsEnd, TypeOK
<1> QED
  BY <1>2, <1>3, <1>4, <1>5, <1>7, <1>8

-----------------------------------------------------------------------------
(* A call goes on.                                                         *)

(* Reading the account decides the way of a call on what is in seen[r].    *)
LEMMA ReadStep ==
  ASSUME IInv, NEW r \in Requests, ReadAccount(r)
  PROVE  IInv'
<1> USE CredentialsAssumption DEF IInv
<1> DEFINE v == Verdict(call[r])
<1>1. /\ at[r] = "read" /\ at' = [at EXCEPT ![r] = v]
      /\ pending' \in {pending, pending \cup {r}}
      /\ UNCHANGED <<account, call, session, link, seen, standing>>
  BY DEF ReadAccount, Go
<1>2. /\ call[r].kind \in {"login", "verify", "callback", "change", "enable", "disable"}
      /\ account \in seen[r] /\ account \in Accounts
      /\ standing[r] = {} /\ session[r] = "none"
  BY <1>1 DEF TypeOK, StepsOfKinds, Grounds, Running, SessionsEnd, Calls, Kinds
<1>3. \/ call[r].kind \in {"login", "verify", "callback"} /\ v \in {"issue", "pending", "over"}
      \/ call[r].kind = "change" /\ v \in {"set", "over"}
      \/ call[r].kind \in {"enable", "disable"} /\ v \in {"write", "over"}
  BY <1>2 DEF Verdict, LoginVerdict, VerifyVerdict, CallbackVerdict, EnableVerdict,
              DisableVerdict
<1>4. CASE call[r].kind \in {"login", "verify", "callback"}
  <2>1. v = "issue" =>
          \/ call[r].kind = "login" /\ account = [password |-> call[r].give, secret |-> None]
          \/ call[r].kind = "callback" /\ account.secret = None
          \/ call[r].kind = "verify" /\ account.secret = call[r].give /\ account.secret # None
    BY <1>2, <1>4 DEF Verdict, LoginVerdict, VerifyVerdict, CallbackVerdict, Accounts
  <2>2. at'[r] = v /\ v \in {"issue", "pending", "over"}
    BY <1>1, <1>3, <1>4 DEF TypeOK
  <2>3. TypeOK' /\ CallShape' /\ StepsOfKinds'
    <3> HIDE DEF v
    <3> QED
      BY <1>1, <1>4, <2>2 DEF TypeOK, Steps, CallShape, StepsOfKinds
  <2>4. Grounds'
    <3> HIDE DEF v
    <3> QED
      BY <1>1, <1>2, <1>4, <2>1, <2>2 DEF TypeOK, Grounds, Running
  <2>5. LinksApart' /\ SessionsEnd'
    <3> HIDE DEF v
    <3> QED
      BY <1>1, <1>2, <1>4, <2>2 DEF TypeOK, LinksApart, UsedUp, SessionsEnd
  <2> QED
    BY <2>3, <2>4, <2>5
<1>5. CASE call[r].kind = "change"
  <2>1. v = "set" => account.password # None /\ account.password = call[r].give
    BY <1>5 DEF Verdict, CurrentPassword
  <2>2. at'[r] = v /\ v \in {"set", "over"}
    BY <1>1, <1>3, <1>5 DEF TypeOK
  <2>3. TypeOK' /\ CallShape' /\ StepsOfKinds'
    <3> HIDE DEF v
    <3> QED
      BY <1>1, <1>5, <2>2 DEF TypeOK, Steps, CallShape, StepsOfKinds
  <2>4. Grounds'
    <3> HIDE DEF v
    <3> QED
      BY <1>1, <1>2, <1>5, <2>1, <2>2 DEF TypeOK, Grounds, Running
  <2>5. LinksApart' /\ SessionsEnd'
    <3> HIDE DEF v
    <3> QED
      BY <1>1, <1>2, <1>5, <2>2 DEF TypeOK, LinksApart, UsedUp, SessionsEnd
  <2> QED
    BY <2>3, <2>4, <2>5
<1>6. CASE call[r].kind \in {"enable", "disable"}
  <2>1. v = "write" =>
          IF call[r].kind = "enable"
          THEN account.secret = None /\ call[r].offer = call[r].give
          ELSE account.secret # None /\ account.secret = call[r].give
    BY <1>6 DEF Verdict, EnableVerdict, DisableVerdict
  <2>2. at'[r] = v /\ v \in {"write", "over"}
    BY <1>1, <1>3, <1>6 DEF TypeOK
  <2>3. TypeOK' /\ CallShape' /\ StepsOfKinds'
    <3> HIDE DEF v
    <3> QED
      BY <1>1, <1>6, <2>2 DEF TypeOK, Steps, CallShape, StepsOfKinds
  <2>4. Grounds'
    <3> HIDE DEF v
    <3> QED
      BY <1>1, <1>2, <1>6, <2>1, <2>2 DEF TypeOK, Grounds, Running
  <2>5. LinksApart' /\ SessionsEnd'
    <3> HIDE DEF v
    <3> QED
      BY <1>1, <1>2, <1>6, <2>2 DEF TypeOK, LinksApart, UsedUp, SessionsEnd
  <2> QED
    BY <2>3, <2>4, <2>5
<1> QED
  BY <1>2, <1>4, <1>5, <1>6

LEMMA IssueStep ==
  ASSUME IInv, NEW r \in Requests, IssueSession(r)
  PROVE  IInv'
<1> USE DEF IInv
<1>1. /\ at[r] = "issue" /\ at' = [at EXCEPT ![r] = "ok"]
      /\ session' = [session EXCEPT ![r] = "live"]
      /\ UNCHANGED <<account, call, pending, link, seen, standing>>
  BY DEF IssueSession, Go
<1>2. standing[r] = {} /\ session[r] = "none"
  BY <1>1 DEF SessionsEnd
<1>3. \A q \in Requests : r \notin standing[q]
  BY <1>2 DEF SessionsEnd
<1>4. TypeOK' /\ CallShape' /\ StepsOfKinds'
  BY <1>1 DEF TypeOK, Steps, Holders, CallShape, StepsOfKinds
<1>5. Grounds'
  BY <1>1 DEF TypeOK, Grounds, Running
<1>6. LinksApart'
  BY <1>1, <1>2 DEF TypeOK, LinksApart, UsedUp
<1>7. SessionsEnd'
  BY <1>1, <1>2, <1>3 DEF TypeOK, Holders, SessionsEnd
<1> QED
  BY <1>4, <1>5, <1>6, <1>7

(* A link goes only forward: written, mailed, used up or expired, gone.    *)
LEMMA LinkSteps ==
  ASSUME IInv, NEW r \in Requests, StoreLink(r) \/ MailLink(r) \/ UseLink(r)
  PROVE  IInv'
<1> USE CredentialsAssumption DEF IInv
<1>1. CASE StoreLink(r)
  <2>1. /\ at[r] = "write" /\ call[r].kind = "forgot"
        /\ at' = [at EXCEPT ![r] = "mail"]
        /\ link' = [link EXCEPT ![call[r].link] = "written"]
        /\ UNCHANGED <<account, call, session, pending, seen, standing>>
    BY <1>1 DEF StoreLink, Go
  <2>2. call[r].link \in Links /\ link[call[r].link] = "none" /\ standing[r] = {}
    BY <2>1 DEF CallShape, LinksApart, SessionsEnd
  <2>3. TypeOK' /\ CallShape' /\ StepsOfKinds'
    BY <2>1, <2>2 DEF TypeOK, Steps, CallShape, StepsOfKinds
  <2>4. Grounds' /\ SessionsEnd'
    BY <2>1, <2>2 DEF TypeOK, Grounds, Running, SessionsEnd
  <2>5. LinksApart'
    BY <2>1, <2>2 DEF TypeOK, LinksApart, UsedUp
  <2> QED
    BY <2>3, <2>4, <2>5
<1>2. CASE MailLink(r)
  <2>1. /\ at[r] = "mail" /\ call[r].kind = "forgot"
        /\ at' = [at EXCEPT ![r] = "ok"]
        /\ link' = [link EXCEPT ![call[r].link] = IF @ = "written" THEN "mailed" ELSE @]
        /\ UNCHANGED <<account, call, session, pending, seen, standing>>
    BY <1>2 DEF MailLink, Go, StepsOfKinds
  <2>2. call[r].link \in Links /\ standing[r] = {}
    BY <2>1 DEF CallShape, SessionsEnd
  <2>3. TypeOK' /\ CallShape' /\ StepsOfKinds'
    BY <2>1, <2>2 DEF TypeOK, Steps, CallShape, StepsOfKinds
  <2>4. Grounds' /\ SessionsEnd'
    BY <2>1, <2>2 DEF TypeOK, Grounds, Running, SessionsEnd
  <2>5. LinksApart'
    BY <2>1, <2>2 DEF TypeOK, LinksApart, UsedUp
  <2> QED
    BY <2>3, <2>4, <2>5
<1>3. CASE UseLink(r)
  <2>1. /\ at[r] = "write" /\ call[r].kind = "reset"
        /\ UNCHANGED <<account, call, session, pending, seen, standing>>
    BY <1>3 DEF UseLink
  <2>2. call[r].link \in Links /\ standing[r] = {}
    BY <2>1 DEF CallShape, SessionsEnd
  <2>3. CASE link[call[r].link] = "mailed"
    <3>1. /\ at' = [at EXCEPT ![r] = "set"]
          /\ link' = [link EXCEPT ![call[r].link] = "used"]
      BY <1>3, <2>3 DEF UseLink, Go, Spent
    <3>2. \A q \in Requests : UsedUp(q) => call[q].link # call[r].link
      BY <2>3 DEF LinksApart
    <3>3. TypeOK' /\ CallShape' /\ StepsOfKinds'
      BY <2>1, <2>2, <3>1 DEF TypeOK, Steps, CallShape, StepsOfKinds
    <3>4. Grounds' /\ SessionsEnd'
      BY <2>1, <2>2, <3>1 DEF TypeOK, Grounds, Running, SessionsEnd
    <3>5. LinksApart'
      BY <2>1, <2>2, <2>3, <3>1, <3>2 DEF TypeOK, LinksApart, UsedUp
    <3> QED
      BY <3>3, <3>4, <3>5
  <2>4. CASE link[call[r].link] # "mailed"
    <3>1. at' = [at EXCEPT ![r] = "over"] /\ link' = link
      BY <1>3, <2>4 DEF UseLink, Go
    <3>2. TypeOK' /\ CallShape' /\ StepsOfKinds'
      BY <2>1, <3>1 DEF TypeOK, Steps, CallShape, StepsOfKinds
    <3>3. Grounds' /\ SessionsEnd'
      BY <2>1, <2>2, <3>1 DEF TypeOK, Grounds, Running, SessionsEnd
    <3>4. LinksApart'
      BY <2>1, <2>2, <3>1 DEF TypeOK, LinksApart, UsedUp
    <3> QED
      BY <3>2, <3>3, <3>4
  <2> QED
    BY <2>3, <2>4
<1> QED
  BY <1>1, <1>2, <1>3

(* A write to the row of users adds to what every running call has seen.   *)
LEMMA WriteGrounds ==
  ASSUME IInv, NEW r \in Requests, NEW new \in Accounts, Write(new), UNCHANGED call,
         NEW step \in {"ok", "revoke"}, Running(r), at' = [at EXCEPT ![r] = step]
  PROVE  Grounds'
<1> SUFFICES ASSUME NEW q \in Requests
             PROVE  Grounds!(q)'
  BY DEF Grounds, Running
<1>1. at'[q] = at[q] \/ (q = r /\ at'[q] = step)
  BY DEF IInv, TypeOK
<1>2. call'[q] = call[q] /\ Grounds!(q)
  BY DEF IInv, Grounds, Running
<1>3. CASE ~ Running(q)
  <2>1. q # r /\ at'[q] = at[q] /\ at[q] \in {"idle", "pending", "ok", "over"}
    BY <1>1, <1>3 DEF Running
  <2> QED
    BY <2>1 DEF Running
<1>4. CASE Running(q)
  <2>1. account' \in seen'[q] /\ seen[q] \subseteq seen'[q]
    BY <1>4 DEF Write
  <2>2. CASE at'[q] = step
    BY <2>1, <2>2
  <2>3. CASE at'[q] = at[q]
    BY <2>1, <2>3, <1>2
  <2> QED
    BY <1>1, <2>2, <2>3
<1> QED
  BY <1>3, <1>4

LEMMA WriteTypes ==
  ASSUME TypeOK, NEW new \in Accounts, Write(new)
  PROVE  account' \in Accounts /\ seen' \in [Requests -> SUBSET Accounts]
  BY DEF TypeOK, Write

LEMMA SetPasswordStep ==
  ASSUME IInv, NEW r \in Requests, SetPassword(r)
  PROVE  IInv'
<1> USE CredentialsAssumption DEF IInv
<1> DEFINE new == [account EXCEPT !.password = call[r].offer]
           open == {h \in Holders : session[h] # "none"}
<1>1. /\ at[r] = "set" /\ at' = [at EXCEPT ![r] = "revoke"]
      /\ Write(new) /\ standing' = [standing EXCEPT ![r] = open]
      /\ UNCHANGED <<call, session, pending, link>>
  BY DEF SetPassword, Go
<1>2. /\ call[r].kind \in {"change", "reset"} /\ call[r].offer \in Passwords
  BY <1>1 DEF StepsOfKinds, CallShape
<1>3. new \in Accounts
  BY <1>2 DEF TypeOK, Accounts
<1>4. Grounds'
  <2> HIDE DEF new
  <2> QED
    BY <1>1, <1>3, WriteGrounds DEF Running
<1>5. TypeOK'
  <2>1. account' \in Accounts /\ seen' \in [Requests -> SUBSET Accounts]
    <3> HIDE DEF new
    <3> QED
      BY <1>1, <1>3, WriteTypes
  <2> QED
    BY <1>1, <2>1 DEF TypeOK, Steps
<1> HIDE DEF new
<1>6. CallShape' /\ StepsOfKinds'
  BY <1>1 DEF TypeOK, CallShape, StepsOfKinds
<1>7. LinksApart'
  <2>1. \A q \in Requests : UsedUp(q)' => UsedUp(q)
    BY <1>1, <1>2 DEF TypeOK, UsedUp
  <2> QED
    BY <1>1, <2>1 DEF TypeOK, LinksApart
<1>8. SessionsEnd'
  BY <1>1, <1>2 DEF TypeOK, SessionsEnd
<1> QED
  BY <1>4, <1>5, <1>6, <1>7, <1>8

LEMMA RevokeAllStep ==
  ASSUME IInv, NEW r \in Requests, RevokeAll(r)
  PROVE  IInv'
<1> USE DEF IInv
<1>1. /\ at[r] = "revoke" /\ at' = [at EXCEPT ![r] = "ok"]
      /\ session' = Revoked
      /\ standing' = [standing EXCEPT ![r] = {h \in @ : session[h] # "rotating"}]
      /\ UNCHANGED <<account, call, pending, link, seen>>
  BY DEF RevokeAll, Go
<1>2. \A h \in Holders : /\ session'[h] = "none" <=> session[h] = "none"
                         /\ session[h] = "revoked" => session'[h] = "revoked"
                         /\ session'[h] # "live"
                         /\ session'[h] = "rotating" => session[h] = "rotating"
  BY <1>1 DEF Revoked
<1>3. session' \in [Holders -> {"none", "live", "rotating", "revoked"}]
  BY <1>1 DEF TypeOK, Revoked
<1>4. standing'[r] = {h \in standing[r] : session[h] # "rotating"}
  BY <1>1 DEF TypeOK
<1>5. \A q \in Requests : q # r => standing'[q] = standing[q] /\ at'[q] = at[q]
  BY <1>1 DEF TypeOK
<1>6. TypeOK'
  BY <1>1, <1>3 DEF TypeOK, Steps
<1>7. CallShape' /\ StepsOfKinds' /\ Grounds'
  BY <1>1 DEF TypeOK, CallShape, StepsOfKinds, Grounds, Running
<1>8. LinksApart'
  <2>1. \A q \in Requests : UsedUp(q)' => UsedUp(q)
    BY <1>1, <1>4, <1>5 DEF TypeOK, UsedUp
  <2> QED
    BY <1>1, <2>1 DEF TypeOK, LinksApart
<1>9. SessionsEnd'
  <2> SUFFICES ASSUME NEW q \in Requests
               PROVE  SessionsEnd!(q)'
    BY DEF SessionsEnd
  <2>1. SessionsEnd!(q)
    BY DEF SessionsEnd
  <2>2. standing[q] \in SUBSET Holders /\ q \in Holders
    BY DEF TypeOK, Holders
  <2>3. CASE q = r
    <3>1. at'[r] = "ok" /\ call'[r] = call[r]
      BY <1>1 DEF TypeOK
    <3>2. \A h \in standing'[r] : session'[h] = "revoked"
      <4> SUFFICES ASSUME NEW h \in standing[r], session[h] # "rotating"
                   PROVE  session'[h] = "revoked"
        BY <1>4
      <4>1. h \in Holders /\ session[h] \in {"live", "revoked"}
        BY <2>1, <2>2, <2>3 DEF TypeOK
      <4> QED
        BY <4>1, <1>1 DEF Revoked
    <3> QED
      BY <2>1, <2>3, <3>1, <3>2, <1>4
  <2>4. CASE q # r
    <3>1. standing'[q] = standing[q] /\ at'[q] = at[q] /\ call'[q] = call[q]
      BY <1>1, <1>5, <2>4
    <3> QED
      BY <2>1, <2>2, <3>1, <1>2
  <2> QED
    BY <2>3, <2>4
<1> QED
  BY <1>6, <1>7, <1>8, <1>9

LEMMA SetSecretStep ==
  ASSUME IInv, NEW r \in Requests, SetSecret(r)
  PROVE  IInv'
<1> USE CredentialsAssumption DEF IInv
<1> DEFINE new == [account EXCEPT !.secret = call[r].offer]
<1>1. /\ at[r] = "write" /\ call[r].kind \in {"enable", "disable"}
      /\ at' = [at EXCEPT ![r] = "ok"]
      /\ Write(new)
      /\ UNCHANGED <<call, session, pending, link, standing>>
  BY DEF SetSecret, Go
<1>2. call[r].offer \in Secrets \cup {None} /\ standing[r] = {}
  BY <1>1 DEF CallShape, SessionsEnd
<1>3. new \in Accounts
  BY <1>2 DEF TypeOK, Accounts
<1> HIDE DEF new
<1>4. Grounds'
  BY <1>1, <1>3, WriteGrounds DEF Running
<1>5. TypeOK'
  <2>1. account' \in Accounts /\ seen' \in [Requests -> SUBSET Accounts]
    BY <1>1, <1>3, WriteTypes
  <2> QED
    BY <1>1, <2>1 DEF TypeOK, Steps
<1>6. CallShape' /\ StepsOfKinds'
  BY <1>1 DEF TypeOK, CallShape, StepsOfKinds
<1>7. LinksApart' /\ SessionsEnd'
  BY <1>1, <1>2 DEF TypeOK, LinksApart, UsedUp, SessionsEnd
<1> QED
  BY <1>4, <1>5, <1>6, <1>7

(* A call that breaks off leaves everything as its last statement left it. *)
LEMMA BreakStep ==
  ASSUME IInv, NEW r \in Requests, Break(r)
  PROVE  IInv'
<1> USE DEF IInv
<1>1. /\ at[r] \in {"read", "issue", "write", "set", "revoke", "mail"}
      /\ at' = [at EXCEPT ![r] = "over"]
      /\ UNCHANGED <<account, call, session, pending, link, seen, standing>>
  BY DEF Break, Go
<1>2. TypeOK' /\ CallShape' /\ StepsOfKinds'
  BY <1>1 DEF TypeOK, Steps, CallShape, StepsOfKinds
<1>3. Grounds' /\ SessionsEnd'
  BY <1>1 DEF TypeOK, Grounds, Running, SessionsEnd
<1>4. LinksApart'
  <2>1. \A q \in Requests : UsedUp(q)' => UsedUp(q)
    BY <1>1 DEF TypeOK, UsedUp
  <2> QED
    BY <1>1, <2>1 DEF TypeOK, LinksApart
<1> QED
  BY <1>2, <1>3, <1>4

-----------------------------------------------------------------------------
(* Time passes, links are swept, sessions are refreshed.                   *)

LEMMA TimeStep ==
  ASSUME IInv, PendingExpires \/ LinkExpires \/ CleanupLinks
  PROVE  IInv'
<1> USE DEF IInv
<1>1. /\ UNCHANGED <<account, call, at, session, seen, standing>>
      /\ pending' \in SUBSET Requests
      /\ link' \in [Links -> {"none", "written", "mailed", "used", "expired", "gone"}]
      /\ \A l \in Links : /\ link[l] = "none" => link'[l] = "none"
                          /\ link[l] \in {"used", "gone"} => link'[l] \in {"used", "gone"}
  BY DEF TypeOK, PendingExpires, LinkExpires, CleanupLinks
<1>2. TypeOK'
  BY <1>1 DEF TypeOK
<1>3. CallShape' /\ StepsOfKinds' /\ Grounds' /\ SessionsEnd'
  BY <1>1 DEF CallShape, StepsOfKinds, Grounds, Running, SessionsEnd
<1>4. LinksApart'
  <2>1. \A q \in Requests : UsedUp(q)' = UsedUp(q)
    BY <1>1 DEF UsedUp
  <2>2. \A q \in Requests : call[q].kind \in {"forgot", "reset"} => call[q].link \in Links
    BY DEF CallShape
  <2>3. \A q \in Requests : UsedUp(q) => call[q].kind = "reset"
    BY DEF UsedUp
  <2> QED
    BY <1>1, <2>1, <2>2, <2>3 DEF LinksApart
<1> QED
  BY <1>2, <1>3, <1>4

LEMMA RefreshStep ==
  ASSUME IInv, NEW g \in Holders, Refresh(g)
  PROVE  IInv'
<1> USE DEF IInv
<1>1. /\ UNCHANGED <<account, call, at, pending, link, seen, standing>>
      /\ session[g] \in {"live", "rotating"}
      /\ session' \in [Holders -> {"none", "live", "rotating", "revoked"}]
      /\ session'[g] \in {"live", "rotating"}
      /\ \A h \in Holders : h # g => session'[h] = session[h]
  BY DEF TypeOK, Refresh
<1>2. TypeOK'
  BY <1>1 DEF TypeOK
<1>3. CallShape' /\ StepsOfKinds' /\ Grounds' /\ LinksApart'
  BY <1>1 DEF CallShape, StepsOfKinds, Grounds, Running, LinksApart, UsedUp
<1>4. SessionsEnd'
  BY <1>1 DEF TypeOK, SessionsEnd, Holders
<1> QED
  BY <1>2, <1>3, <1>4

LEMMA StutterStep ==
  ASSUME IInv, UNCHANGED vars
  PROVE  IInv'
<1> USE DEF vars, IInv
<1>1. TypeOK' /\ CallShape' /\ StepsOfKinds'
  BY DEF TypeOK, CallShape, StepsOfKinds
<1>2. Grounds' /\ SessionsEnd' /\ LinksApart'
  BY DEF Grounds, Running, SessionsEnd, LinksApart, UsedUp
<1> QED
  BY <1>1, <1>2

LEMMA InvStep == IInv /\ [Next]_vars => IInv'
<1> SUFFICES ASSUME IInv, [Next]_vars
             PROVE  IInv'
  OBVIOUS
<1>1. ASSUME NEW r \in Requests, Ask(r)
      PROVE  IInv'
  BY <1>1, AskIsBegin, BeginStep DEF IInv
<1>2. ASSUME NEW r \in Requests, Proceed(r)
      PROVE  IInv'
  BY <1>2, ReadStep, IssueStep, LinkSteps, SetPasswordStep, RevokeAllStep, SetSecretStep,
     BreakStep DEF Proceed
<1>3. ASSUME NEW h \in Holders, Refresh(h)
      PROVE  IInv'
  BY <1>3, RefreshStep
<1> QED
  BY <1>1, <1>2, <1>3, TimeStep, StutterStep DEF Next

LEMMA InvHolds == Spec => []IInv
  BY InitInv, InvStep, PTL DEF Spec

-----------------------------------------------------------------------------
(* What follows from the invariant.                                        *)

(* The types hold for any number of requests; no write puts anything but a *)
(* password and a secret into the row of users.                            *)
THEOREM TypeCorrect == Spec => []TypeOK
<1>1. IInv => TypeOK
  BY DEF IInv
<1> QED
  BY <1>1, InvHolds, PTL

(* change_password and reset_password: once they have answered, no session *)
(* that stood when the password was set is live, the ones a refresh held   *)
(* excepted, in every interleaving of logins, refreshes and other changes. *)
THEOREM SessionsAreEnded == Spec => []ChangeEndsSessions
<1>1. IInv => ChangeEndsSessions
  <2> SUFFICES ASSUME IInv, NEW r \in Requests, at[r] = "ok", NEW h \in standing[r]
               PROVE  session[h] \notin {"live", "rotating"}
    BY DEF ChangeEndsSessions
  <2>1. session[h] = "revoked"
    BY DEF IInv, SessionsEnd
  <2> QED
    BY <2>1
<1> QED
  BY <1>1, InvHolds, PTL

(* reset_password: a mailed link sets the password once, however many      *)
(* requests open it and however they interleave.                           *)
THEOREM LinkResetsOnce == Spec => []ResetOnce
<1>1. IInv => ResetOnce
  <2> SUFFICES ASSUME IInv, NEW l \in Links
               PROVE  Cardinality({r \in Requests : call[r].link = l /\ standing[r] # {}}) <= 1
    BY DEF ResetOnce
  <2> DEFINE by == {r \in Requests : call[r].link = l /\ standing[r] # {}}
  <2>1. \A r \in by : UsedUp(r)
    <3> SUFFICES ASSUME NEW r \in by
                 PROVE  UsedUp(r)
      OBVIOUS
    <3>1. call[r].kind \in {"change", "reset"} /\ call[r].link \in Links
      BY DEF IInv, SessionsEnd
    <3> QED
      BY <3>1 DEF IInv, CallShape, UsedUp
  <2>2. \A q, r \in by : q = r
    BY <2>1 DEF IInv, LinksApart
  <2>3. CASE by = {}
    <3>1. Cardinality(by) = 0
      BY <2>3, FS_EmptySet
    <3> QED
      BY <3>1
  <2>4. CASE by # {}
    <3>1. PICK r \in by : TRUE
      BY <2>4
    <3>2. by = {r}
      BY <2>2, <3>1
    <3>3. Cardinality(by) = 1
      BY <3>2, FS_Singleton
    <3> QED
      BY <3>3
  <2> QED
    BY <2>3, <2>4
<1> QED
  BY <1>1, InvHolds, PTL

(* Only issue_session opens a session of a request.                        *)
LEMMA OnlyIssueOpens ==
  ASSUME TypeOK, [Next]_vars, NEW r \in Requests, Opens(r)
  PROVE  at[r] = "issue"
<1>1. r \in Holders
  BY DEF Holders
<1>2. CASE UNCHANGED session
  BY <1>2 DEF Opens
<1>3. ASSUME NEW q \in Requests, IssueSession(q)
      PROVE  at[r] = "issue"
  BY <1>3, <1>1 DEF IssueSession, Opens, TypeOK
<1>4. ASSUME NEW q \in Requests, RevokeAll(q)
      PROVE  FALSE
  BY <1>4, <1>1 DEF RevokeAll, Revoked, Opens
<1>5. ASSUME NEW h \in Holders, Refresh(h)
      PROVE  FALSE
  BY <1>5, <1>1 DEF Refresh, Opens, TypeOK
<1>6. ASSUME NEW q \in Requests, Ask(q)
      PROVE  UNCHANGED session
  BY <1>6, AskIsBegin DEF Begin
<1> QED
  BY <1>2, <1>3, <1>4, <1>5, <1>6
     DEF Next, vars, Proceed, ReadAccount, StoreLink, MailLink, UseLink, SetPassword,
         SetSecret, Break, PendingExpires, LinkExpires, CleanupLinks

(* A first step that was answered with a token stays as it was: its       *)
(* request makes no further step.                                          *)
LEMMA FirstStays ==
  ASSUME TypeOK, [Next]_vars, NEW q \in Requests, FirstStep(q)
  PROVE  FirstStep(q)'
<1> SUFFICES UNCHANGED <<at[q], call[q]>> /\ seen[q] \subseteq seen'[q]
  BY DEF FirstStep
<1>1. at[q] = "pending"
  BY DEF FirstStep
<1>2. ASSUME NEW r \in Requests, Ask(r)
      PROVE  UNCHANGED <<at[q], call[q], seen[q]>>
  <2>1. PICK c, step : Begin(r, step, c)
    BY <1>2, AskIsBegin
  <2> QED
    BY <2>1, <1>1 DEF Begin, Go, TypeOK
<1>3. ASSUME NEW r \in Requests, Proceed(r)
      PROVE  UNCHANGED <<at[q], call[q]>> /\ seen[q] \subseteq seen'[q]
  <2>1. q # r
    BY <1>1, <1>3 DEF Proceed, ReadAccount, IssueSession, StoreLink, MailLink, UseLink,
                      SetPassword, RevokeAll, SetSecret, Break
  <2>2. call' = call /\ \E step : at' = [at EXCEPT ![r] = step]
    BY <1>3 DEF Proceed, ReadAccount, IssueSession, StoreLink, MailLink, UseLink,
                SetPassword, RevokeAll, SetSecret, Break, Go
  <2>3. seen[q] \subseteq seen'[q]
    BY <1>3 DEF Proceed, ReadAccount, IssueSession, StoreLink, MailLink, UseLink,
                SetPassword, RevokeAll, SetSecret, Break, Write
  <2> QED
    BY <2>1, <2>2, <2>3 DEF TypeOK
<1>4. CASE PendingExpires \/ LinkExpires \/ CleanupLinks \/ \E h \in Holders : Refresh(h)
  BY <1>4 DEF PendingExpires, LinkExpires, CleanupLinks, Refresh
<1>5. CASE UNCHANGED vars
  BY <1>5 DEF vars
<1> QED
  BY <1>2, <1>3, <1>4, <1>5 DEF Next

(* The token of a first step is given for a password or a provider.        *)
LEMMA TokenGiven ==
  ASSUME IInv, NEW r \in Requests, ReadAccount(r), Verdict(call[r]) = "pending"
  PROVE  FirstStep(r)'
<1>1. /\ at[r] = "read" /\ at' = [at EXCEPT ![r] = "pending"]
      /\ UNCHANGED <<call, seen>>
  BY DEF ReadAccount, Go
<1>2. /\ account \in seen[r]
      /\ call[r].kind \in {"login", "verify", "callback", "change", "enable", "disable"}
  BY <1>1 DEF IInv, TypeOK, Grounds, Running, StepsOfKinds, Calls, Kinds
<1>3. call[r].kind \in {"login", "callback"}
  BY <1>2 DEF Verdict, VerifyVerdict, EnableVerdict, DisableVerdict
<1>4. call[r].kind = "login" => account.password # None /\ account.password = call[r].give
  BY DEF Verdict, LoginVerdict
<1>5. at'[r] = "pending" /\ call'[r] = call[r] /\ seen'[r] = seen[r]
  BY <1>1 DEF IInv, TypeOK
<1> QED
  BY <1>2, <1>3, <1>4, <1>5 DEF FirstStep

(* No step gives a token for nothing, or starts a second factor without.   *)
LEMMA TokenStep == IInv /\ TokensEarned /\ [Next]_vars => TokensEarned'
<1> SUFFICES ASSUME IInv, TokensEarned, [Next]_vars, NEW r \in Requests
             PROVE  TokensEarned!(r)'
  BY DEF TokensEarned
<1>1. TypeOK
  BY DEF IInv
<1>2. r \in pending => FirstStep(r)'
  BY <1>1, FirstStays DEF TokensEarned
<1>3. ASSUME r \in pending', r \notin pending
      PROVE  FirstStep(r)'
  <2>1. PICK q \in Requests : ReadAccount(q)
    <3>1. ASSUME NEW q \in Requests, Ask(q)
          PROVE  UNCHANGED pending
      BY <3>1, <1>1, AskIsBegin DEF Begin
    <3> QED
      BY <1>3, <3>1
         DEF Next, vars, Proceed, IssueSession, StoreLink, MailLink, UseLink, SetPassword,
             RevokeAll, SetSecret, Break, PendingExpires, LinkExpires, CleanupLinks, Refresh
  <2>2. q = r /\ Verdict(call[r]) = "pending"
    BY <2>1, <1>3 DEF ReadAccount
  <2> QED
    BY <2>1, <2>2, TokenGiven
<1>4. ASSUME call'[r] = call[r], call[r].kind = "verify"
      PROVE  \E p \in Requests : p = call'[r].first /\ FirstStep(p)'
  <2>1. PICK p \in Requests : p = call[r].first /\ FirstStep(p)
    BY <1>4 DEF TokensEarned
  <2>2. FirstStep(p)'
    BY <1>1, <2>1, FirstStays
  <2> QED
    BY <1>4, <2>1, <2>2
<1>5. ASSUME call'[r] # call[r], call'[r].kind = "verify"
      PROVE  \E p \in Requests : p = call'[r].first /\ FirstStep(p)'
  <2>1. PICK q \in Requests : Ask(q)
    BY <1>5 DEF Next, vars, Proceed, ReadAccount, IssueSession, StoreLink, MailLink, UseLink,
                SetPassword, RevokeAll, SetSecret, Break, PendingExpires, LinkExpires,
                CleanupLinks, Refresh
  <2>2. \A c, step : Begin(q, step, c) => q = r /\ call'[r] = c
    BY <1>5 DEF Begin, IInv, TypeOK
  <2>3. PICK c, step : Legal(c, step) /\ Begin(q, step, c)
    BY <1>1, <2>1, AskIsBegin
  <2>4. call'[r] = c
    BY <2>2, <2>3
  <2>5. PICK p \in pending : p = call'[r].first
    BY <2>3, <2>4, <1>5 DEF Legal
  <2>6. p \in Requests /\ FirstStep(p)
    BY <1>1 DEF TypeOK, TokensEarned
  <2>7. FirstStep(p)'
    BY <1>1, <2>6, FirstStays
  <2> QED
    BY <2>5, <2>6, <2>7
<1>6. call'[r].kind = "verify" => \E p \in Requests : p = call'[r].first /\ FirstStep(p)'
  BY <1>4, <1>5
<1> QED
  BY <1>2, <1>3, <1>6 DEF FirstStep

LEMMA TokensHold == Spec => [](IInv /\ TokensEarned)
<1>1. Init => TokensEarned
  BY DEF Init, TokensEarned, NoCall
<1> QED
  BY <1>1, InitInv, InvStep, TokenStep, PTL DEF Spec

(* Whoever is signed in had all that the account asked for: in one step    *)
(* the password or the provider of an account that had no second factor at *)
(* some moment of his request, in two steps a code of its secret after a   *)
(* first step that was passed.  No interleaving of any number of requests  *)
(* opens a detour around either factor.                                    *)
THEOREM SignInProven == Spec => SignInIsProven
<1> DEFINE Proven(r) ==
      \E a \in seen[r] :
        CASE call[r].kind = "login"    -> a = [password |-> call[r].give, secret |-> None]
          [] call[r].kind = "callback" -> a.secret = None
          [] call[r].kind = "verify"   -> /\ a.secret # None /\ a.secret = call[r].give
                                          /\ FirstStep(call[r].first)
<1>1. (IInv /\ TokensEarned) /\ [Next]_vars => [\A r \in Requests : Opens(r) => Proven(r)]_vars
  <2> SUFFICES ASSUME IInv, TokensEarned, [Next]_vars, NEW r \in Requests, Opens(r)
               PROVE  Proven(r)
    OBVIOUS
  <2>1. at[r] = "issue"
    BY OnlyIssueOpens DEF IInv
  <2>2. PICK a \in seen[r] :
          \/ call[r].kind = "login" /\ a = [password |-> call[r].give, secret |-> None]
          \/ call[r].kind = "callback" /\ a.secret = None
          \/ call[r].kind = "verify" /\ a.secret = call[r].give /\ a.secret # None
    BY <2>1 DEF IInv, Grounds, Running
  <2>3. call[r].kind = "verify" => FirstStep(call[r].first)
    BY DEF TokensEarned
  <2> QED
    BY <2>2, <2>3
<1> QED
  BY <1>1, TokensHold, PTL DEF Spec, SignInIsProven

(* Only set_password and set_totp_secret write the row of users.           *)
LEMMA OnlyTwoWrite ==
  ASSUME TypeOK, [Next]_vars, account' # account
  PROVE  \E r \in Requests : SetPassword(r) \/ SetSecret(r)
<1>1. ASSUME NEW q \in Requests, Ask(q)
      PROVE  UNCHANGED account
  BY <1>1, AskIsBegin DEF Begin
<1> QED
  BY <1>1
     DEF Next, vars, Proceed, ReadAccount, IssueSession, StoreLink, MailLink, UseLink,
         RevokeAll, Break, PendingExpires, LinkExpires, CleanupLinks, Refresh

(* The password changes only by one who gave a password that was in force  *)
(* since he began, or by a link that was used up for it.                   *)
THEOREM PasswordAuthorised == Spec => PasswordIsAuthorised
<1>1. IInv /\ [Next]_vars =>
        [account'.password # account.password =>
           \E r \in Requests :
             /\ at[r] = "set" /\ at'[r] = "revoke"
             /\ \/ call[r].kind = "reset" /\ link[call[r].link] \in {"used", "gone"}
                \/ \E a \in seen[r] : a.password # None /\ a.password = call[r].give]_vars
  <2> SUFFICES ASSUME IInv, [Next]_vars, account'.password # account.password
               PROVE  \E r \in Requests :
             /\ at[r] = "set" /\ at'[r] = "revoke"
             /\ \/ call[r].kind = "reset" /\ link[call[r].link] \in {"used", "gone"}
                \/ \E a \in seen[r] : a.password # None /\ a.password = call[r].give
    OBVIOUS
  <2>1. PICK r \in Requests : SetPassword(r) \/ SetSecret(r)
    BY OnlyTwoWrite DEF IInv
  <2>2. ~ SetSecret(r)
    BY DEF SetSecret, Write, IInv, TypeOK, Accounts
  <2>3. at[r] = "set" /\ at'[r] = "revoke" /\ call[r].kind \in {"change", "reset"}
    BY <2>1, <2>2 DEF SetPassword, Go, IInv, TypeOK, StepsOfKinds
  <2>4. CASE call[r].kind = "reset"
    BY <2>3, <2>4 DEF IInv, LinksApart, UsedUp
  <2>5. CASE call[r].kind = "change"
    BY <2>3, <2>5 DEF IInv, Grounds, Running
  <2> QED
    BY <2>3, <2>4, <2>5
<1> QED
  BY <1>1, InvHolds, PTL DEF Spec, PasswordIsAuthorised

(* The second factor is turned off only with a code of a secret that was   *)
(* in force since the call began, and set only where it was found off, and *)
(* with a code of the very secret that is set.                             *)
THEOREM SecretAuthorised == Spec => SecretIsAuthorised
<1>1. IInv /\ [Next]_vars =>
        [account'.secret # account.secret =>
           \E r \in Requests :
             /\ at[r] = "write" /\ at'[r] = "ok"
             /\ \E a \in seen[r] :
                  IF account'.secret = None
                  THEN a.secret # None /\ a.secret = call[r].give
                  ELSE a.secret = None /\ account'.secret = call[r].give]_vars
  <2> SUFFICES ASSUME IInv, [Next]_vars, account'.secret # account.secret
               PROVE  \E r \in Requests :
             /\ at[r] = "write" /\ at'[r] = "ok"
             /\ \E a \in seen[r] :
                  IF account'.secret = None
                  THEN a.secret # None /\ a.secret = call[r].give
                  ELSE a.secret = None /\ account'.secret = call[r].give
    OBVIOUS
  <2>1. PICK r \in Requests : SetPassword(r) \/ SetSecret(r)
    BY OnlyTwoWrite DEF IInv
  <2>2. ~ SetPassword(r)
    BY DEF SetPassword, Write, IInv, TypeOK, Accounts
  <2>3. /\ at[r] = "write" /\ at'[r] = "ok" /\ call[r].kind \in {"enable", "disable"}
        /\ account'.secret = call[r].offer
    BY <2>1, <2>2 DEF SetSecret, Go, Write, IInv, TypeOK, Accounts
  <2>4. CASE call[r].kind = "enable"
    <3>1. call[r].offer \in Secrets /\ call[r].offer = call[r].give
      BY <2>3, <2>4 DEF IInv, CallShape, Grounds, Running
    <3>2. PICK a \in seen[r] : a.secret = None
      BY <2>3, <2>4 DEF IInv, Grounds, Running
    <3> QED
      BY <2>3, <3>1, <3>2, CredentialsAssumption
  <2>5. CASE call[r].kind = "disable"
    <3>1. call[r].offer = None
      BY <2>5 DEF IInv, CallShape
    <3>2. PICK a \in seen[r] : a.secret # None /\ a.secret = call[r].give
      BY <2>3, <2>5 DEF IInv, Grounds, Running
    <3> QED
      BY <2>3, <3>1, <3>2
  <2> QED
    BY <2>3, <2>4, <2>5
<1> QED
  BY <1>1, InvHolds, PTL DEF Spec, SecretIsAuthorised
=============================================================================

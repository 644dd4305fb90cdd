---------------------------- MODULE AccountsProofs ----------------------------
(***************************************************************************)
(* An address that counts as confirmed was confirmed, an identity is bound *)
(* to an account of its address, and an old address is told of a move, for *)
(* any number of handlers, accounts, addresses and links.                  *)
(*                                                                         *)
(* What a handler knows outlives the steps of the others because they are  *)
(* Steady: an account keeps its address or moves to a confirmed one, and a *)
(* link keeps what it is for and where it was sent.                        *)
(***************************************************************************)
EXTENDS Accounts, TLAPS

IInv == TypeOK /\ AccountsInv

LEMMA CallsFieldwise ==
  ASSUME TypeOK, NEW r \in Handlers, NEW s \in Steps \cup Answers
  PROVE  /\ Go(r, s) =>
              /\ req' \in [Handlers -> Calls]
              /\ \A h \in Handlers \ {r} : req'[h] = req[h]
              /\ req'[r].step = s /\ req'[r].who = req[r].who
              /\ req'[r].addr = req[r].addr /\ req'[r].link = req[r].link
         /\ Answer(r, s) =>
              /\ req' \in [Handlers -> Calls]
              /\ \A h \in Handlers \ {r} : req'[h] = req[h]
              /\ req'[r].step = s
  BY DEF TypeOK, Calls, Go, Answer, Rest, Kinds, Mailboxes

-----------------------------------------------------------------------------
(* Steady steps.                                                           *)

Steady ==
    /\ proven \subseteq proven'
    /\ left \subseteq left'
    /\ \A u \in Users : email[u] # None =>
           /\ email'[u] # None
           /\ \/ email'[u] = email[u]
              \/ <<u, email'[u]>> \in proven' /\ <<u, email[u]>> \in left'
    /\ \A l \in Links : link[l].kind # "none" =>
           /\ link'[l].kind = link[l].kind /\ link'[l].to = link[l].to
           /\ link[l].mailed # None => link'[l].mailed = link[l].mailed

LEMMA TrustSteady ==
  ASSUME Steady
  PROVE  \A u : Known(u) =>
           /\ u \in Users /\ email'[u] # None
           /\ \A a : Trusts(u, a) =>
                  email'[u] = a \/ <<u, email'[u]>> \in proven'
           /\ \A a : HasOrLeft(u, a) =>
                  \/ email'[u] = a
                  \/ <<u, a>> \in left' /\ <<u, email'[u]>> \in proven'
           /\ <<u, email[u]>> \in proven => <<u, email'[u]>> \in proven'
BY DEF Steady, Known, Trusts, HasOrLeft

LEMMA CallSteady ==
  ASSUME Steady, NEW r \in Handlers, req'[r] = req[r], CallOK(r)
  PROVE  CallOK(r)'
<1>1. Known(req[r].who) =>
        /\ Known(req[r].who)'
        /\ \A a : Trusts(req[r].who, a) =>
                 \/ email'[req[r].who] = a
                 \/ <<req[r].who, email'[req[r].who]>> \in proven'
        /\ \A a : HasOrLeft(req[r].who, a) =>
                 \/ email'[req[r].who] = a
                 \/ /\ <<req[r].who, a>> \in left'
                    /\ <<req[r].who, email'[req[r].who]>> \in proven'
        /\ <<req[r].who, email[req[r].who]>> \in proven =>
              <<req[r].who, email'[req[r].who]>> \in proven'
  BY TrustSteady DEF Known
<1>2. \A k \in {"verify", "change"} : Holds(req[r], k) =>
        /\ req[r].link \in Links /\ link'[req[r].link].kind = k
        /\ link'[req[r].link].to = link[req[r].link].to
        /\ link[req[r].link].mailed # None => link'[req[r].link].mailed # None
  BY DEF Steady, Holds
<1>3. proven \subseteq proven'
  BY DEF Steady
<1> QED
  BY <1>1, <1>2, <1>3 DEF CallOK, Known, Trusts, HasOrLeft, Holds

LEMMA LinkSteady ==
  ASSUME Steady, NEW l \in Links, link'[l] = link[l], LinkOK(l)
  PROVE  LinkOK(l)'
<1> SUFFICES ASSUME link[l].kind # "none" PROVE LinkOK(l)'
  BY DEF LinkOK
<1>1. Known(link[l].user)
  BY DEF LinkOK
<1> QED
  BY <1>1, TrustSteady DEF LinkOK, Known, Trusts

(* A steady step of one handler has to answer for its own call, for the    *)
(* link it changes, and for the accounts it touches.                       *)
LEMMA StepKeeps ==
  ASSUME AccountsInv, Steady, NEW r \in Handlers,
         \A h \in Handlers \ {r} : req'[h] = req[h], CallOK(r)',
         \A l \in Links : link'[l] = link[l] \/ LinkOK(l)',
         \A u \in verified' : <<u, email'[u]>> \in proven',
         verified' \cup password' \subseteq Users,
         \A u \in (verified' \cup password') \ (verified \cup password) : email'[u] # None
  PROVE  AccountsInv'
<1>1. VerifiedIsReached'
  BY DEF VerifiedIsReached
<1>2. \A u \in verified' \cup password' : email'[u] # None
  BY DEF AccountsInv, Steady
<1>3. ASSUME NEW l \in Links PROVE LinkOK(l)'
  BY LinkSteady DEF AccountsInv
<1>4. ASSUME NEW h \in Handlers PROVE CallOK(h)'
  <2>1. CASE h # r
    <3>1. req'[h] = req[h] /\ CallOK(h)
      BY <2>1 DEF AccountsInv
    <3> QED
      BY <3>1, CallSteady
  <2> QED
    BY <2>1
<1> QED
  BY <1>1, <1>2, <1>3, <1>4 DEF AccountsInv

LEMMA QuietKeeps ==
  ASSUME TypeOK, AccountsInv, NEW r \in Handlers,
         UNCHANGED <<email, verified, password, link, proven, left>>,
         \A h \in Handlers \ {r} : req'[h] = req[h], CallOK(r)'
  PROVE  AccountsInv'
<1>1. Steady
  BY DEF Steady
<1>2. \A u \in verified' : <<u, email'[u]>> \in proven'
  BY DEF AccountsInv, VerifiedIsReached
<1> QED
  BY <1>1, <1>2, StepKeeps DEF TypeOK

LEMMA AnsweredIsOK ==
  ASSUME NEW r \in Handlers, req'[r].step \in Answers
  PROVE  CallOK(r)'
BY DEF CallOK, Answers

-----------------------------------------------------------------------------
(* Types.                                                                  *)

LEMMA BeginTypes ==
  ASSUME TypeOK, NEW r \in Handlers, NEW q \in Calls, Begin(r, q)
  PROVE  /\ TypeOK' /\ req'[r] = q
         /\ \A h \in Handlers \ {r} : req'[h] = req[h]
BY DEF TypeOK, Begin, rows, history

LEMMA StoreTypes ==
  ASSUME TypeOK, NEW r \in Handlers, NEW k \in {"verify", "change"},
         NEW s \in Steps, StoreLink(r, k, s)
  PROVE  \E l \in Links :
           /\ link[l].kind = "none" /\ link' \in [Links -> Tokens]
           /\ \A m \in Links \ {l} : link'[m] = link[m]
           /\ link'[l].kind = k /\ link'[l].to = req[r].addr
           /\ link'[l].user = req[r].who /\ link'[l].mailed = None
           /\ req' \in [Handlers -> Calls]
           /\ \A h \in Handlers \ {r} : req'[h] = req[h]
           /\ req'[r].step = s /\ req'[r].link = l
           /\ req'[r].who = req[r].who /\ req'[r].addr = req[r].addr
<1>1. PICK l \in Links :
        /\ link[l].kind = "none"
        /\ link' = [link EXCEPT ![l] = [NoLink EXCEPT !.kind = k, !.user = req[r].who,
                                                      !.to = req[r].addr]]
        /\ req' = [req EXCEPT ![r].step = s, ![r].link = l]
  BY DEF StoreLink
<1>2. req[r] \in Calls /\ None \in Users \cup {None} /\ None \in Mailboxes
  BY DEF TypeOK, Mailboxes
<1>3. /\ link' \in [Links -> Tokens]
      /\ \A m \in Links \ {l} : link'[m] = link[m]
      /\ link'[l].kind = k /\ link'[l].to = req[r].addr
      /\ link'[l].user = req[r].who /\ link'[l].mailed = None
  BY <1>1, <1>2 DEF TypeOK, NoLink, Tokens, Calls
<1>4. /\ req' \in [Handlers -> Calls]
      /\ \A h \in Handlers \ {r} : req'[h] = req[h]
      /\ req'[r].step = s /\ req'[r].link = l
      /\ req'[r].who = req[r].who /\ req'[r].addr = req[r].addr
  BY <1>1 DEF TypeOK, Calls
<1> QED
  BY <1>1, <1>3, <1>4

LEMMA InsertTypes ==
  ASSUME TypeOK, NEW r \in Handlers, NEW pw \in BOOLEAN, NEW s \in Steps,
         Insert(r, pw, s)
  PROVE  \E u \in Users :
           /\ email[u] = None
           /\ email' = [email EXCEPT ![u] = req[r].addr]
           /\ password' \subseteq password \cup {u}
           /\ UNCHANGED <<verified, identity>>
           /\ req' \in [Handlers -> Calls]
           /\ \A h \in Handlers \ {r} : req'[h] = req[h]
           /\ req'[r].step = s /\ req'[r].who = u
           /\ req'[r].addr = req[r].addr
<1>1. PICK u \in Users :
        /\ email[u] = None
        /\ email' = [email EXCEPT ![u] = req[r].addr]
        /\ password' = password \cup (IF pw THEN {u} ELSE {})
        /\ req' = [req EXCEPT ![r].step = s, ![r].who = u]
        /\ UNCHANGED <<verified, identity>>
  BY DEF Insert
<1>2. req' = [req EXCEPT ![r].step = s, ![r].who = u]
  BY <1>1
<1>3. /\ req' \in [Handlers -> Calls]
      /\ \A h \in Handlers \ {r} : req'[h] = req[h]
      /\ req'[r].step = s /\ req'[r].who = u
      /\ req'[r].addr = req[r].addr
  BY <1>2 DEF TypeOK, Calls
<1>4. password' \subseteq password \cup {u}
  BY <1>1
<1> QED
  BY <1>1, <1>3, <1>4

LEMMA MailTypes ==
  ASSUME TypeOK, NEW r \in Handlers, req[r].link \in Links, NEW a \in Mailboxes,
         MailLink(r, a)
  PROVE  LET l == req[r].link IN
         /\ link' \in [Links -> Tokens]
         /\ \A m \in Links \ {l} : link'[m] = link[m]
         /\ link'[l].kind = link[l].kind /\ link'[l].to = link[l].to
         /\ link'[l].user = link[l].user /\ link'[l].mailed = a
BY DEF TypeOK, MailLink, Tokens

LEMMA UseTypes ==
  ASSUME TypeOK, NEW r \in Handlers, req[r].link \in Links, NEW s \in Steps,
         UseLink(r, s), ~link[req[r].link].used
  PROVE  LET l == req[r].link IN
         /\ link' \in [Links -> Tokens]
         /\ \A m \in Links \ {l} : link'[m] = link[m]
         /\ link'[l].kind = link[l].kind /\ link'[l].to = link[l].to
         /\ link'[l].user = link[l].user /\ link'[l].mailed = link[l].mailed
         /\ req' \in [Handlers -> Calls]
         /\ \A h \in Handlers \ {r} : req'[h] = req[h]
         /\ req'[r].step = s /\ req'[r].who = link[l].user
         /\ req'[r].addr = link[l].to
         /\ proven' = proven \cup {<<link[l].user, link[l].mailed>>}
         /\ UNCHANGED <<rows, breaks, told, left>>
<1> DEFINE l == req[r].link
<1>1. /\ link' = [link EXCEPT ![l].used = TRUE]
      /\ req' = [req EXCEPT ![r].step = s, ![r].who = link[l].user,
                            ![r].addr = link[l].to]
      /\ proven' = proven \cup {<<link[l].user, link[l].mailed>>}
      /\ UNCHANGED <<rows, breaks, told, left>>
  BY DEF UseLink
<1>2. /\ link' \in [Links -> Tokens]
      /\ \A m \in Links \ {l} : link'[m] = link[m]
      /\ link'[l].kind = link[l].kind /\ link'[l].to = link[l].to
      /\ link'[l].user = link[l].user /\ link'[l].mailed = link[l].mailed
  BY <1>1 DEF TypeOK, Tokens
<1>3. link[l].user \in Users \cup {None} /\ link[l].to \in Mailboxes
  BY DEF TypeOK, Tokens
<1>4. /\ req' \in [Handlers -> Calls]
      /\ \A h \in Handlers \ {r} : req'[h] = req[h]
      /\ req'[r].step = s /\ req'[r].who = link[l].user
      /\ req'[r].addr = link[l].to
  BY <1>1, <1>3 DEF TypeOK, Calls
<1> QED
  BY <1>1, <1>2, <1>4

-----------------------------------------------------------------------------
(* A handler begins, or goes on with nothing but its own place changed.    *)

LEMMA BeginKeeps ==
  ASSUME IInv, NEW r \in Handlers,
         \/ Register(r) \/ AskChange(r) \/ SignIn(r)
         \/ Open(r, "verify", "open") \/ Open(r, "change", "use")
  PROVE  IInv'
<1> USE AccountsAssumption DEF IInv
<1>1. CASE Register(r)
  <2>1. PICK a \in Addresses :
          Begin(r, [Rest EXCEPT !.kind = "register", !.step = "look", !.addr = a])
    BY <1>1 DEF Register
  <2> DEFINE q == [Rest EXCEPT !.kind = "register", !.step = "look", !.addr = a]
  <2>2. q \in Calls /\ q.step = "look" /\ q.addr = a
    BY DEF Rest, Calls, Kinds, Steps, Mailboxes
  <2> HIDE DEF q
  <2>3. TypeOK' /\ req'[r] = q /\ \A h \in Handlers \ {r} : req'[h] = req[h]
    BY <2>1, <2>2, BeginTypes DEF q
  <2>4. CallOK(r)'
    BY <2>2, <2>3 DEF CallOK, Answers
  <2> QED
    BY <2>1, <2>3, <2>4, QuietKeeps DEF Begin, rows, history
<1>2. CASE AskChange(r)
  <2>1. PICK u \in password, a \in Addresses :
          Begin(r, [Rest EXCEPT !.kind = "change", !.step = "ask", !.who = u, !.addr = a])
    BY <1>2 DEF AskChange
  <2> DEFINE q == [Rest EXCEPT !.kind = "change", !.step = "ask", !.who = u, !.addr = a]
  <2>2. q \in Calls /\ q.step = "ask" /\ q.addr = a /\ q.who = u
    BY DEF TypeOK, Rest, Calls, Kinds, Steps, Mailboxes
  <2>3. Known(u)
    BY DEF Known, AccountsInv, TypeOK
  <2> HIDE DEF q
  <2>4. /\ TypeOK' /\ req'[r] = q /\ \A h \in Handlers \ {r} : req'[h] = req[h]
    BY <2>1, <2>2, BeginTypes DEF q
  <2>5. UNCHANGED <<email, verified, password, link, proven, left>>
    BY <2>1 DEF Begin, rows, history
  <2>6. CallOK(r)'
    BY <2>2, <2>3, <2>4, <2>5 DEF CallOK, Answers, Known
  <2> QED
    BY <2>4, <2>5, <2>6, QuietKeeps
<1>3. CASE SignIn(r)
  <2>1. PICK a \in Addresses \cup {Synthetic} :
          Begin(r, [Rest EXCEPT !.kind = "oauth", !.step = "known", !.addr = a])
    BY <1>3 DEF SignIn
  <2> DEFINE q == [Rest EXCEPT !.kind = "oauth", !.step = "known", !.addr = a]
  <2>2. q \in Calls /\ q.step = "known" /\ q.addr = a
    BY DEF Rest, Calls, Kinds, Steps, Mailboxes
  <2> HIDE DEF q
  <2>3. TypeOK' /\ req'[r] = q /\ \A h \in Handlers \ {r} : req'[h] = req[h]
    BY <2>1, <2>2, BeginTypes DEF q
  <2>4. CallOK(r)'
    BY <2>2, <2>3 DEF CallOK, Answers
  <2> QED
    BY <2>1, <2>3, <2>4, QuietKeeps DEF Begin, rows, history
<1>4. CASE Open(r, "verify", "open")
  <2>1. PICK l \in Links :
          /\ link[l].kind = "verify" /\ link[l].mailed # None
          /\ Begin(r, [Rest EXCEPT !.kind = "verify", !.step = "open", !.link = l])
    BY <1>4 DEF Open
  <2> DEFINE q == [Rest EXCEPT !.kind = "verify", !.step = "open", !.link = l]
  <2>2. q \in Calls /\ q.step = "open" /\ q.link = l
    BY DEF Rest, Calls, Kinds, Steps, Mailboxes
  <2> HIDE DEF q
  <2>3. TypeOK' /\ req'[r] = q /\ \A h \in Handlers \ {r} : req'[h] = req[h]
    BY <2>1, <2>2, BeginTypes DEF q
  <2>4. UNCHANGED <<email, verified, password, link, proven, left>>
    BY <2>1 DEF Begin, rows, history
  <2>5. CallOK(r)'
    BY <2>1, <2>2, <2>3, <2>4 DEF CallOK, Answers, Holds
  <2> QED
    BY <2>3, <2>4, <2>5, QuietKeeps
<1>5. CASE Open(r, "change", "use")
  <2>1. PICK l \in Links :
          /\ link[l].kind = "change" /\ link[l].mailed # None
          /\ Begin(r, [Rest EXCEPT !.kind = "confirm", !.step = "use", !.link = l])
    BY <1>5 DEF Open
  <2> DEFINE q == [Rest EXCEPT !.kind = "confirm", !.step = "use", !.link = l]
  <2>2. q \in Calls /\ q.step = "use" /\ q.link = l
    BY DEF Rest, Calls, Kinds, Steps, Mailboxes
  <2> HIDE DEF q
  <2>3. TypeOK' /\ req'[r] = q /\ \A h \in Handlers \ {r} : req'[h] = req[h]
    BY <2>1, <2>2, BeginTypes DEF q
  <2>4. UNCHANGED <<email, verified, password, link, proven, left>>
    BY <2>1 DEF Begin, rows, history
  <2>5. CallOK(r)'
    BY <2>1, <2>2, <2>3, <2>4 DEF CallOK, Answers, Holds
  <2> QED
    BY <2>3, <2>4, <2>5, QuietKeeps
<1> QED
  BY <1>1, <1>2, <1>3, <1>4, <1>5

LEMMA AnswerKeeps ==
  ASSUME IInv, NEW r \in Handlers, NEW s \in Answers, Answer(r, s),
         UNCHANGED <<email, verified, password, link, proven, left>>,
         identity' \in Users \cup {None}, breaks' \in 0..MaxBreaks
  PROVE  IInv'
<1>1. /\ req' \in [Handlers -> Calls] /\ req'[r].step = s
      /\ \A h \in Handlers \ {r} : req'[h] = req[h]
  BY CallsFieldwise DEF IInv
<1>2. TypeOK'
  BY <1>1 DEF IInv, TypeOK
<1> QED
  BY <1>1, <1>2, AnsweredIsOK, QuietKeeps DEF IInv

LEMMA GoKeeps ==
  ASSUME IInv, NEW r \in Handlers, UNCHANGED <<rows, link, breaks, history>>,
         NEW s \in {"create", "free", "store", "move", "match", "adopt"}, Go(r, s),
         req[r].addr # None,
         s \in {"free", "store", "move"} => Known(req[r].who),
         s = "move" => <<req[r].who, req[r].addr>> \in proven
  PROVE  IInv'
<1>1. /\ req' \in [Handlers -> Calls]
      /\ \A h \in Handlers \ {r} : req'[h] = req[h]
      /\ req'[r].step = s /\ req'[r].who = req[r].who
      /\ req'[r].addr = req[r].addr
  BY CallsFieldwise DEF IInv, Steps
<1>2. TypeOK'
  BY <1>1 DEF IInv, TypeOK, rows, history
<1>3. CallOK(r)'
  BY <1>1 DEF CallOK, Known, Answers, rows, history
<1> QED
  BY <1>1, <1>2, <1>3, QuietKeeps DEF IInv, rows, history

(* Looking at whether an address is taken decides nothing that lasts.      *)
LEMMA LookKeeps ==
  ASSUME IInv, NEW r \in Handlers,
         \/ At(r, "look") /\ CreateUser(r)
         \/ At(r, "free") /\ RequestEmailChange(r)
         \/ At(r, "check") /\ ConfirmEmailChange(r)
         \/ At(r, "known") /\ FindOrCreateUser(r)
  PROVE  IInv'
<1>1. /\ UNCHANGED <<rows, link, breaks, history>>
      /\ \/ Answer(r, "conflict") \/ Answer(r, "done")
         \/ At(r, "look") /\ Go(r, "create")
         \/ At(r, "free") /\ Go(r, "store")
         \/ At(r, "check") /\ Go(r, "move")
         \/ At(r, "known") /\ Go(r, "match")
  BY DEF At, CreateUser, RequestEmailChange, ConfirmEmailChange, FindOrCreateUser,
         UseLink, Open, Begin, Answers
<1>2. CASE Answer(r, "conflict") \/ Answer(r, "done")
  BY <1>1, <1>2, AnswerKeeps DEF IInv, TypeOK, Answers, rows, history
<1>3. CallOK(r)
  BY DEF IInv, AccountsInv
<1>4. CASE At(r, "look") /\ Go(r, "create")
  BY <1>1, <1>3, <1>4, GoKeeps DEF CallOK, Answers, At
<1>5. CASE At(r, "free") /\ Go(r, "store")
  BY <1>1, <1>3, <1>5, GoKeeps DEF CallOK, Answers, At
<1>6. CASE At(r, "check") /\ Go(r, "move")
  BY <1>1, <1>3, <1>6, GoKeeps DEF CallOK, Answers, At
<1>7. CASE At(r, "known") /\ Go(r, "match")
  BY <1>1, <1>3, <1>7, GoKeeps DEF CallOK, Answers, At
<1> QED
  BY <1>1, <1>2, <1>4, <1>5, <1>6, <1>7

LEMMA AskKeeps ==
  ASSUME IInv, NEW r \in Handlers, At(r, "ask"), RequestEmailChange(r)
  PROVE  IInv'
<1>1. /\ UNCHANGED <<rows, link, breaks, history>>
      /\ \/ Answer(r, "done")
         \/ req' = [req EXCEPT ![r].step = "free", ![r].from = email[req[r].who]]
  BY DEF At, RequestEmailChange
<1>2. CASE Answer(r, "done")
  BY <1>1, <1>2, AnswerKeeps DEF IInv, TypeOK, Answers, rows, history
<1>3. CASE req' = [req EXCEPT ![r].step = "free", ![r].from = email[req[r].who]]
  <2>1. CallOK(r)
    BY DEF IInv, AccountsInv
  <2>2. Known(req[r].who) /\ req[r].addr # None
    BY <2>1 DEF CallOK, At, Answers
  <2>3. email[req[r].who] \in Mailboxes
    BY <2>2 DEF IInv, TypeOK, Known
  <2>4. /\ req' \in [Handlers -> Calls]
        /\ \A h \in Handlers \ {r} : req'[h] = req[h]
        /\ req'[r].step = "free" /\ req'[r].who = req[r].who
        /\ req'[r].addr = req[r].addr
    BY <1>3, <2>3 DEF IInv, TypeOK, Calls, Steps
  <2>5. TypeOK'
    BY <1>1, <2>4 DEF IInv, TypeOK, rows, history
  <2>6. CallOK(r)'
    BY <1>1, <2>2, <2>4 DEF CallOK, Known, Answers, rows, history
  <2> QED
    BY <1>1, <2>4, <2>5, <2>6, QuietKeeps DEF IInv, rows, history
<1> QED
  BY <1>1, <1>2, <1>3

LEMMA MatchKeeps ==
  ASSUME IInv, NEW r \in Handlers, At(r, "match"), FindOrCreateUser(r)
  PROVE  IInv'
<1>1. /\ UNCHANGED <<rows, link, breaks, history>>
      /\ \/ Go(r, "adopt")
         \/ \E u \in Match(req[r].addr) :
                req' = [req EXCEPT ![r].step = "bind", ![r].who = u]
  BY DEF At, FindOrCreateUser
<1>2. CallOK(r)
  BY DEF IInv, AccountsInv
<1>3. req[r].addr # None
  BY <1>2 DEF CallOK, At, Answers
<1>4. CASE Go(r, "adopt")
  BY <1>1, <1>3, <1>4, GoKeeps
<1>5. ASSUME NEW u \in Match(req[r].addr),
             req' = [req EXCEPT ![r].step = "bind", ![r].who = u]
      PROVE  IInv'
  <2>1. u \in Users /\ email[u] # None
    BY <1>3 DEF Match
  <2>2. /\ req' \in [Handlers -> Calls]
        /\ \A h \in Handlers \ {r} : req'[h] = req[h]
        /\ req'[r].step = "bind" /\ req'[r].who = u
        /\ req'[r].addr = req[r].addr
    BY <1>5, <2>1 DEF IInv, TypeOK, Calls, Steps
  <2>3. TypeOK'
    BY <1>1, <2>2 DEF IInv, TypeOK, rows, history
  <2>5. email[u] = req[r].addr
    BY DEF Match
  <2>4. CallOK(r)'
    BY <1>1, <1>3, <2>1, <2>2, <2>5 DEF CallOK, Known, HasOrLeft, Answers, rows, history
  <2> QED
    BY <1>1, <2>2, <2>3, <2>4, QuietKeeps DEF IInv, rows, history
<1> QED
  BY <1>1, <1>4, <1>5

-----------------------------------------------------------------------------
(* Rows of users.                                                          *)

LEMMA InsertKeeps ==
  ASSUME IInv, NEW r \in Handlers, NEW pw \in BOOLEAN, NEW s \in {"token", "vouch"},
         Insert(r, pw, s), UNCHANGED <<link, breaks, history>>, req[r].addr # None
  PROVE  IInv'
<1>1. PICK u \in Users :
        /\ email[u] = None
        /\ email' = [email EXCEPT ![u] = req[r].addr]
        /\ password' \subseteq password \cup {u}
        /\ UNCHANGED <<verified, identity>>
        /\ req' \in [Handlers -> Calls]
        /\ \A h \in Handlers \ {r} : req'[h] = req[h]
        /\ req'[r].step = s /\ req'[r].who = u
        /\ req'[r].addr = req[r].addr
  BY InsertTypes DEF IInv, Steps
<1>2. req[r].addr \in Mailboxes
  BY DEF IInv, TypeOK, Calls
<1>3. /\ email' \in [Users -> Mailboxes] /\ email'[u] = req[r].addr
      /\ \A v \in Users \ {u} : email'[v] = email[v]
  BY <1>1, <1>2 DEF IInv, TypeOK
<1>4. TypeOK'
  BY <1>1, <1>3 DEF IInv, TypeOK, history
<1>5. Steady
  BY <1>1, <1>3 DEF Steady, history
<1>6. CallOK(r)'
  BY <1>1, <1>3 DEF CallOK, Known, Trusts, HasOrLeft, Answers
<1>7. \A v \in verified' : <<v, email'[v]>> \in proven'
  <2>1. u \notin verified
    BY <1>1 DEF IInv, AccountsInv
  <2> QED
    BY <1>1, <1>3, <2>1 DEF IInv, TypeOK, AccountsInv, VerifiedIsReached, history
<1>8. /\ verified' \cup password' \subseteq Users
      /\ \A v \in (verified' \cup password') \ (verified \cup password) : email'[v] # None
  BY <1>1, <1>3, <1>4 DEF TypeOK
<1> QED
  BY <1>1, <1>4, <1>5, <1>6, <1>7, <1>8, StepKeeps DEF IInv

LEMMA CreateKeeps ==
  ASSUME IInv, NEW r \in Handlers,
         \/ At(r, "create") /\ CreateUser(r)
         \/ At(r, "adopt") /\ FindOrCreateUser(r)
  PROVE  IInv'
<1>1. /\ UNCHANGED <<link, breaks, history>>
      /\ \/ Answer(r, "conflict") /\ UNCHANGED rows
         \/ Answer(r, "error") /\ UNCHANGED rows
         \/ Insert(r, TRUE, "token") \/ Insert(r, FALSE, "vouch")
  BY DEF At, CreateUser, FindOrCreateUser
<1>2. CASE UNCHANGED rows /\ (Answer(r, "conflict") \/ Answer(r, "error"))
  BY <1>1, <1>2, AnswerKeeps DEF IInv, TypeOK, Answers, rows, history
<1>3. CASE Insert(r, TRUE, "token") \/ Insert(r, FALSE, "vouch")
  <2>1. req[r].addr # None
    BY DEF IInv, AccountsInv, CallOK, At, Answers
  <2> QED
    BY <1>1, <1>3, <2>1, InsertKeeps
<1> QED
  BY <1>1, <1>2, <1>3

(* set_verified after the link was used, and after the provider vouched.   *)
LEMMA MarkKeeps ==
  ASSUME IInv, NEW r \in Handlers,
         \/ At(r, "mark") /\ VerifyEmail(r)
         \/ At(r, "vouch") /\ FindOrCreateUser(r)
  PROVE  IInv'
<1>1. CallOK(r)
  BY DEF IInv, AccountsInv
<1> DEFINE who == req[r].who
<1>2. Known(who)
  BY <1>1 DEF CallOK, At
<1>3. CASE At(r, "mark") /\ VerifyEmail(r)
  <2>1. /\ Answer(r, "done") /\ verified' = verified \cup {who}
        /\ UNCHANGED <<email, password, identity, link, breaks, history>>
    BY <1>3 DEF At, VerifyEmail, Open, Begin, UseLink, Answers
  <2>2. <<who, email[who]>> \in proven
    BY <1>1, <1>3 DEF CallOK, At
  <2>3. /\ req' \in [Handlers -> Calls] /\ req'[r].step = "done"
        /\ \A h \in Handlers \ {r} : req'[h] = req[h]
    BY <2>1, CallsFieldwise DEF IInv, Answers
  <2>4. TypeOK'
    BY <1>2, <2>1, <2>3 DEF IInv, TypeOK, Known, history
  <2>5. Steady
    BY <2>1 DEF Steady, history
  <2>6. CallOK(r)'
    BY <2>3, AnsweredIsOK DEF Answers
  <2>7. \A u \in verified' : <<u, email'[u]>> \in proven'
    BY <2>1, <2>2 DEF IInv, AccountsInv, VerifiedIsReached, history
  <2>8. /\ verified' \cup password' \subseteq Users
        /\ \A u \in (verified' \cup password') \ (verified \cup password) : email'[u] # None
    BY <1>2, <2>1, <2>4 DEF TypeOK, Known
  <2> QED
    BY <2>1, <2>3, <2>4, <2>5, <2>6, <2>7, <2>8, StepKeeps DEF IInv
<1>4. CASE At(r, "vouch") /\ FindOrCreateUser(r)
  <2>1. /\ verified' = verified \cup {who} /\ Go(r, "bind")
        /\ proven' = proven \cup {<<who, req[r].addr>>}
        /\ UNCHANGED <<email, password, identity, link, breaks, told, left>>
    BY <1>4 DEF At, FindOrCreateUser
  <2>2. /\ Trusts(who, req[r].addr) /\ HasOrLeft(who, req[r].addr)
        /\ req[r].addr # None
    BY <1>1, <1>4 DEF CallOK, At, Answers
  <2>3. /\ req' \in [Handlers -> Calls] /\ req'[r].step = "bind"
        /\ req'[r].who = who /\ req'[r].addr = req[r].addr
        /\ \A h \in Handlers \ {r} : req'[h] = req[h]
    BY <2>1, CallsFieldwise DEF IInv, Steps
  <2>4. TypeOK'
    BY <1>2, <2>1, <2>3 DEF IInv, TypeOK, Known
  <2>5. Steady
    BY <2>1 DEF Steady
  <2>6. CallOK(r)'
    BY <1>2, <2>1, <2>2, <2>3 DEF CallOK, Answers, Known, HasOrLeft
  <2>7. \A u \in verified' : <<u, email'[u]>> \in proven'
    BY <2>1, <2>2 DEF IInv, AccountsInv, VerifiedIsReached, Trusts
  <2>8. /\ verified' \cup password' \subseteq Users
        /\ \A u \in (verified' \cup password') \ (verified \cup password) : email'[u] # None
    BY <1>2, <2>1, <2>4 DEF TypeOK, Known
  <2> QED
    BY <2>1, <2>3, <2>4, <2>5, <2>6, <2>7, <2>8, StepKeeps DEF IInv
<1> QED
  BY <1>3, <1>4

(* set_email: the address the link was mailed to.                          *)
LEMMA MoveKeeps ==
  ASSUME IInv, NEW r \in Handlers, At(r, "move"), ConfirmEmailChange(r)
  PROVE  IInv'
<1> DEFINE who == req[r].who
<1>1. CallOK(r)
  BY DEF IInv, AccountsInv
<1>2. /\ Known(who) /\ req[r].addr # None
      /\ <<who, req[r].addr>> \in proven
  BY <1>1 DEF CallOK, At, Answers
<1>3. /\ UNCHANGED <<password, identity, link, breaks, proven, told>>
      /\ \/ Answer(r, "conflict") /\ UNCHANGED <<email, verified, left>>
         \/ /\ email' = [email EXCEPT ![who] = req[r].addr]
            /\ left' = left \cup {<<who, email[who]>>}
            /\ verified' = verified \cup {who}
            /\ Answer(r, "done")
  BY DEF At, ConfirmEmailChange, Open, Begin, UseLink, Answers
<1>4. CASE Answer(r, "conflict") /\ UNCHANGED <<email, verified, left>>
  BY <1>3, <1>4, AnswerKeeps DEF IInv, TypeOK, Answers, history
<1>5. CASE /\ email' = [email EXCEPT ![who] = req[r].addr]
           /\ left' = left \cup {<<who, email[who]>>}
           /\ verified' = verified \cup {who}
           /\ Answer(r, "done")
  <2>1. who \in Users /\ req[r].addr \in Mailboxes
    BY <1>2 DEF IInv, TypeOK, Calls, Known
  <2>2. /\ email' \in [Users -> Mailboxes] /\ email'[who] = req[r].addr
        /\ \A u \in Users \ {who} : email'[u] = email[u]
    BY <1>5, <2>1 DEF IInv, TypeOK
  <2>3. /\ req' \in [Handlers -> Calls] /\ req'[r].step = "done"
        /\ \A h \in Handlers \ {r} : req'[h] = req[h]
    BY <1>5, CallsFieldwise DEF IInv, Answers
  <2>4. TypeOK'
    BY <1>3, <1>5, <2>1, <2>2, <2>3 DEF IInv, TypeOK, history
  <2>5. Steady
    BY <1>2, <1>3, <1>5, <2>2 DEF Steady
  <2>6. CallOK(r)'
    BY <2>3, AnsweredIsOK DEF Answers
  <2>7. \A u \in verified' : <<u, email'[u]>> \in proven'
    BY <1>2, <1>3, <1>5, <2>2
    DEF IInv, TypeOK, AccountsInv, VerifiedIsReached, history
  <2>8. /\ verified' \cup password' \subseteq Users
        /\ \A u \in (verified' \cup password') \ (verified \cup password) : email'[u] # None
    BY <1>2, <1>3, <1>5, <2>2, <2>4 DEF TypeOK
  <2> QED
    BY <1>3, <2>3, <2>4, <2>5, <2>6, <2>7, <2>8, StepKeeps DEF IInv
<1> QED
  BY <1>3, <1>4, <1>5

-----------------------------------------------------------------------------
(* Links.                                                                  *)

LEMMA VerifiedAside ==
  ASSUME IInv, UNCHANGED rows, proven \subseteq proven'
  PROVE  /\ \A u \in verified' : <<u, email'[u]>> \in proven'
         /\ verified' \cup password' \subseteq Users
         /\ \A u \in (verified' \cup password') \ (verified \cup password) : email'[u] # None
BY DEF IInv, TypeOK, AccountsInv, VerifiedIsReached, rows

LEMMA StoreKeeps ==
  ASSUME IInv, NEW r \in Handlers,
         \/ At(r, "token") /\ StoreLink(r, "verify", "post")
         \/ At(r, "store") /\ StoreLink(r, "change", "invite")
  PROVE  IInv'
<1> USE AccountsAssumption
<1>1. PICK k \in {"verify", "change"}, s \in {"post", "invite"} :
        /\ StoreLink(r, k, s)
        /\ \/ k = "verify" /\ s = "post" /\ At(r, "token")
           \/ k = "change" /\ s = "invite" /\ At(r, "store")
  OBVIOUS
<1>2. PICK l \in Links :
        /\ link[l].kind = "none" /\ link' \in [Links -> Tokens]
        /\ \A m \in Links \ {l} : link'[m] = link[m]
        /\ link'[l].kind = k /\ link'[l].to = req[r].addr
        /\ link'[l].user = req[r].who /\ link'[l].mailed = None
        /\ req' \in [Handlers -> Calls]
        /\ \A h \in Handlers \ {r} : req'[h] = req[h]
        /\ req'[r].step = s /\ req'[r].link = l
        /\ req'[r].who = req[r].who /\ req'[r].addr = req[r].addr
  BY <1>1, StoreTypes DEF IInv, Steps
<1>3. UNCHANGED <<rows, breaks, history>>
  BY <1>1 DEF StoreLink
<1>4. TypeOK'
  BY <1>2, <1>3 DEF IInv, TypeOK, rows, history
<1>5. Steady
  BY <1>2, <1>3 DEF Steady, rows, history
<1>6. CallOK(r)
  BY DEF IInv, AccountsInv
<1>7. /\ Known(req[r].who) /\ req[r].addr # None
      /\ k = "verify" => Trusts(req[r].who, req[r].addr)
  BY <1>1, <1>6 DEF CallOK, At, Answers
<1>8. CallOK(r)'
  BY <1>1, <1>2, <1>3, <1>7 DEF CallOK, Known, Trusts, Holds, Answers, rows, history
<1>9. LinkOK(l)'
  BY <1>2, <1>3, <1>7 DEF LinkOK, Known, Trusts, rows, history
<1> QED
  BY <1>2, <1>3, <1>4, <1>5, <1>8, <1>9, StepKeeps, VerifiedAside DEF IInv, history

LEMMA PostKeeps ==
  ASSUME IInv, NEW r \in Handlers,
         \/ At(r, "post") /\ SendVerification(r)
         \/ At(r, "invite") /\ RequestEmailChange(r)
  PROVE  IInv'
<1>1. /\ MailLink(r, req[r].addr) /\ UNCHANGED <<rows, breaks, history>>
      /\ \/ At(r, "post") /\ Answer(r, "done")
         \/ At(r, "invite") /\ Go(r, "notify")
  BY DEF At, SendVerification, RequestEmailChange, Invited
<1>2. CallOK(r)
  BY DEF IInv, AccountsInv
<1>3. PICK l \in Links :
        /\ l = req[r].link /\ link[l].to = req[r].addr /\ link[l].kind # "none"
        /\ Known(req[r].who) /\ req[r].addr # None
  BY <1>1, <1>2 DEF CallOK, At, Holds, Answers
<1>4. req[r].addr \in Mailboxes
  BY DEF IInv, TypeOK, Calls
<1>5. /\ link' \in [Links -> Tokens]
      /\ \A m \in Links \ {l} : link'[m] = link[m]
      /\ link'[l].kind = link[l].kind /\ link'[l].to = link[l].to
      /\ link'[l].user = link[l].user /\ link'[l].mailed = req[r].addr
  BY <1>1, <1>3, <1>4, MailTypes DEF IInv
<1>6. /\ req' \in [Handlers -> Calls]
      /\ \A h \in Handlers \ {r} : req'[h] = req[h]
      /\ \/ req'[r].step = "done"
         \/ /\ req'[r].step = "notify" /\ req'[r].who = req[r].who
            /\ req'[r].addr = req[r].addr
  BY <1>1, CallsFieldwise DEF IInv, Steps, Answers
<1>7. TypeOK'
  BY <1>1, <1>5, <1>6 DEF IInv, TypeOK, rows, history
<1>8. LinkOK(l)
  BY <1>3 DEF IInv, AccountsInv
<1>9. Steady
  BY <1>1, <1>3, <1>5, <1>8 DEF Steady, LinkOK, rows, history
<1>10. CallOK(r)'
  BY <1>1, <1>3, <1>6 DEF CallOK, Known, Answers, rows, history
<1>11. LinkOK(l)'
  BY <1>1, <1>3, <1>5, <1>8 DEF LinkOK, Known, Trusts, rows, history
<1> QED
  BY <1>1, <1>5, <1>6, <1>7, <1>9, <1>10, <1>11, StepKeeps, VerifiedAside
  DEF IInv, history

(* A used link proves the address it was mailed to, which is the one it is *)
(* for.                                                                    *)
LEMMA UseKeeps ==
  ASSUME IInv, NEW r \in Handlers,
         \/ At(r, "open") /\ UseLink(r, "mark")
         \/ At(r, "use") /\ UseLink(r, "check")
  PROVE  IInv'
<1>1. CallOK(r)
  BY DEF IInv, AccountsInv
<1>2. PICK l \in Links :
        /\ l = req[r].link /\ link[l].kind # "none" /\ link[l].mailed # None
        /\ At(r, "open") => link[l].kind = "verify"
  BY <1>1 DEF CallOK, At, Holds
<1>3. LinkOK(l)
  BY <1>2 DEF IInv, AccountsInv
<1>4. CASE link[l].used
  BY <1>2, <1>4, AnswerKeeps DEF UseLink, IInv, TypeOK, Answers, rows
<1>5. CASE ~link[l].used
  <2>1. PICK s \in {"mark", "check"} :
          /\ UseLink(r, s)
          /\ s = "mark" => At(r, "open")
    OBVIOUS
  <2>2. /\ link' \in [Links -> Tokens]
        /\ \A m \in Links \ {l} : link'[m] = link[m]
        /\ link'[l].kind = link[l].kind /\ link'[l].to = link[l].to
        /\ link'[l].user = link[l].user /\ link'[l].mailed = link[l].mailed
        /\ req' \in [Handlers -> Calls]
        /\ \A h \in Handlers \ {r} : req'[h] = req[h]
        /\ req'[r].step = s /\ req'[r].who = link[l].user
        /\ req'[r].addr = link[l].to
        /\ proven' = proven \cup {<<link[l].user, link[l].mailed>>}
        /\ UNCHANGED <<rows, breaks, told, left>>
    BY <1>2, <1>5, <2>1, UseTypes DEF IInv, Steps
  <2>3. TypeOK'
    BY <2>2 DEF IInv, TypeOK, rows
  <2>4. Steady
    BY <2>2 DEF Steady, rows
  <2>5. /\ Known(link[l].user) /\ link[l].to # None
        /\ link[l].mailed = link[l].to
        /\ s = "mark" => Trusts(link[l].user, link[l].to)
    BY <1>2, <1>3, <2>1 DEF LinkOK
  <2>6. CallOK(r)'
    BY <2>2, <2>5 DEF CallOK, Known, Trusts, Answers, rows
  <2>7. LinkOK(l)'
    BY <1>3, <2>2 DEF LinkOK, Known, Trusts, rows
  <2> QED
    BY <2>2, <2>3, <2>4, <2>6, <2>7, StepKeeps, VerifiedAside DEF IInv
<1> QED
  BY <1>4, <1>5

LEMMA AsideKeeps ==
  ASSUME IInv,
         \/ \E l \in Links : LinkExpires(l)
         \/ \E u \in Users : ResetPassword(u)
  PROVE  IInv'
<1>1. ASSUME NEW l \in Links, LinkExpires(l)
      PROVE  IInv'
  <2>1. /\ link' = [link EXCEPT ![l].used = TRUE]
        /\ UNCHANGED <<rows, req, breaks, history>>
    BY <1>1 DEF LinkExpires
  <2>2. /\ link' \in [Links -> Tokens]
        /\ \A m \in Links : link'[m].kind = link[m].kind /\ link'[m].to = link[m].to
                         /\ link'[m].user = link[m].user /\ link'[m].mailed = link[m].mailed
    BY <2>1 DEF IInv, TypeOK, Tokens
  <2>3. TypeOK'
    BY <2>1, <2>2 DEF IInv, TypeOK, rows, history
  <2>4. VerifiedIsReached' /\ \A u \in verified' \cup password' : email'[u] # None
    BY <2>1 DEF IInv, AccountsInv, VerifiedIsReached, rows, history
  <2>5. ASSUME NEW m \in Links PROVE LinkOK(m)'
    BY <2>1, <2>2 DEF IInv, AccountsInv, LinkOK, Known, Trusts, rows, history
  <2>6. ASSUME NEW r \in Handlers PROVE CallOK(r)'
    <3>1. Steady
      BY <2>1, <2>2 DEF Steady, rows, history
    <3> QED
      BY <2>1, <3>1, CallSteady DEF IInv, AccountsInv
  <2> QED
    BY <2>3, <2>4, <2>5, <2>6 DEF IInv, AccountsInv
<1>2. ASSUME NEW u \in Users, ResetPassword(u)
      PROVE  IInv'
  <2>1. /\ email[u] # None /\ password' = password \cup {u}
        /\ UNCHANGED <<email, verified, identity, link, req, breaks, history>>
    BY <1>2 DEF ResetPassword
  <2>2. TypeOK'
    BY <2>1 DEF IInv, TypeOK, history
  <2>3. Steady
    BY <2>1 DEF Steady, history
  <2> QED
    BY <2>1, <2>2, <2>3, LinkSteady, CallSteady
    DEF IInv, AccountsInv, VerifiedIsReached, history
<1> QED
  BY <1>1, <1>2

-----------------------------------------------------------------------------
LEMMA HandleKeeps ==
  ASSUME IInv, NEW r \in Handlers, Handle(r)
  PROVE  IInv'
<1>1. CASE Register(r) \/ AskChange(r) \/ SignIn(r)
  BY <1>1, BeginKeeps
<1>2. CASE CreateUser(r)
  BY <1>2, LookKeeps, CreateKeeps DEF CreateUser
<1>3. CASE SendVerification(r)
  BY <1>3, StoreKeeps, PostKeeps DEF SendVerification
<1>4. CASE VerifyEmail(r)
  BY <1>4, BeginKeeps, UseKeeps, MarkKeeps DEF VerifyEmail
<1>5. CASE RequestEmailChange(r)
  <2>1. CASE At(r, "notify")
    <3>1. Answer(r, "done") /\ UNCHANGED <<rows, link, breaks, proven, left>>
      BY <1>5, <2>1 DEF RequestEmailChange, At
    <3> QED
      BY <3>1, AnswerKeeps DEF IInv, TypeOK, Answers, rows
  <2> QED
    BY <1>5, <2>1, AskKeeps, LookKeeps, StoreKeeps, PostKeeps DEF RequestEmailChange
<1>6. CASE ConfirmEmailChange(r)
  BY <1>6, BeginKeeps, UseKeeps, LookKeeps, MoveKeeps DEF ConfirmEmailChange
<1>7. CASE FindOrCreateUser(r)
  <2>1. CASE At(r, "bind")
    <3>1. req[r].who \in Users
      BY <2>1 DEF IInv, AccountsInv, CallOK, Known, At
    <3>2. /\ Answer(r, "error") \/ Answer(r, "done")
          /\ identity' \in {identity, req[r].who}
          /\ UNCHANGED <<email, verified, password, link, breaks, history>>
      BY <1>7, <2>1 DEF FindOrCreateUser, At
    <3> QED
      BY <3>1, <3>2, AnswerKeeps DEF IInv, TypeOK, Answers, history
  <2> QED
    BY <1>7, <2>1, LookKeeps, MatchKeeps, CreateKeeps, MarkKeeps DEF FindOrCreateUser
<1>8. CASE Break(r)
  <2>1. /\ Answer(r, "done") /\ UNCHANGED <<rows, link, proven, left>>
        /\ breaks' \in 0..MaxBreaks
    BY <1>8, AccountsAssumption DEF Break, IInv, TypeOK
  <2> QED
    BY <2>1, AnswerKeeps DEF IInv, TypeOK, Answers, rows, history
<1> QED
  BY <1>1, <1>2, <1>3, <1>4, <1>5, <1>6, <1>7, <1>8 DEF Handle

LEMMA AccountsStart == Init => IInv
<1> SUFFICES ASSUME Init PROVE IInv
  OBVIOUS
<1> USE AccountsAssumption
<1>1. email[Owner] \in Addresses
  BY DEF Init
<1>2. email \in [Users -> Mailboxes]
  BY <1>1 DEF Init, Mailboxes
<1>3. Rest \in Calls /\ NoLink \in Tokens /\ Rest.step = "done" /\ NoLink.kind = "none"
  BY DEF Rest, NoLink, Calls, Tokens, Kinds, Answers, Mailboxes
<1>4. TypeOK
  <2>1. /\ link \in [Links -> Tokens] /\ req \in [Handlers -> Calls]
        /\ identity \in Users \cup {None}
    BY <1>3 DEF Init
  <2>2. verified \in SUBSET Users /\ password \in SUBSET Users
    BY DEF Init
  <2>3. breaks \in 0..MaxBreaks
    BY DEF Init
  <2> QED
    BY <1>2, <2>1, <2>2, <2>3 DEF TypeOK
<1>5. VerifiedIsReached /\ \A u \in verified \cup password : email[u] # None
  BY <1>1 DEF Init, VerifiedIsReached
<1>6. \A l \in Links : LinkOK(l)
  BY <1>3 DEF Init, LinkOK
<1>7. \A r \in Handlers : CallOK(r)
  BY <1>3 DEF Init, CallOK, Answers
<1> QED
  BY <1>4, <1>5, <1>6, <1>7 DEF IInv, AccountsInv

THEOREM AccountsInvariant == Spec => []IInv
<1>1. IInv /\ [Next]_vars => IInv'
  <2> SUFFICES ASSUME IInv, [Next]_vars PROVE IInv'
    OBVIOUS
  <2>1. CASE UNCHANGED vars
    BY <2>1 DEF vars, IInv, TypeOK, AccountsInv, VerifiedIsReached, LinkOK, CallOK,
                Known, Trusts, HasOrLeft, Holds
  <2>2. ASSUME NEW r \in Requests, Handle(r) PROVE IInv'
    BY <2>2, HandleKeeps DEF Handlers
  <2>3. CASE SignIn(Visitor) \/ FindOrCreateUser(Visitor) \/ Break(Visitor)
    BY <2>3, HandleKeeps DEF Handlers, Handle
  <2> QED
    BY <2>1, <2>2, <2>3, AsideKeeps DEF Next
<1> QED
  BY <1>1, AccountsStart, PTL DEF Spec

(* set_verified and set_email: an account's confirmed address was reached  *)
(* by a link of its own, or vouched for by the provider, whatever changes, *)
(* registrations and sign-ins overtake each other.                         *)
THEOREM ConfirmedIsReached == Spec => []VerifiedIsReached
<1>1. IInv => VerifiedIsReached
  BY DEF IInv, AccountsInv
<1> QED
  BY <1>1, AccountsInvariant, PTL

-----------------------------------------------------------------------------
(* What a step does to the handlers.                                       *)

(* A step of one handler that goes on, or ends with an answer.             *)
GoesOn(r, s) ==
    /\ \A h \in Handlers \ {r} : req'[h] = req[h]
    /\ req'[r].step = s /\ req'[r].kind = req[r].kind

Ends(r, s) ==
    /\ \A h \in Handlers \ {r} : req'[h] = req[h]
    /\ req'[r].step = s /\ req'[r].kind = "none"

LEMMA Fieldwise ==
  ASSUME TypeOK, NEW r \in Handlers, NEW s
  PROVE  /\ Go(r, s) => GoesOn(r, s)
         /\ Answer(r, s) => Ends(r, s)
         /\ \A u : req' = [req EXCEPT ![r].step = s, ![r].who = u] => GoesOn(r, s)
         /\ \A a : req' = [req EXCEPT ![r].step = s, ![r].from = a] => GoesOn(r, s)
         /\ \A l : req' = [req EXCEPT ![r].step = s, ![r].link = l] => GoesOn(r, s)
         /\ \A u, a : req' = [req EXCEPT ![r].step = s, ![r].who = u, ![r].addr = a]
                => GoesOn(r, s)
<1>1. req \in [Handlers -> Calls]
  BY DEF TypeOK
<1>2. Go(r, s) => GoesOn(r, s)
  BY <1>1 DEF Calls, Go, GoesOn
<1>3. Answer(r, s) => Ends(r, s)
  BY <1>1 DEF Answer, Rest, Ends
<1>4. ASSUME NEW u, req' = [req EXCEPT ![r].step = s, ![r].who = u]
      PROVE  GoesOn(r, s)
  BY <1>1, <1>4 DEF Calls, GoesOn
<1>5. ASSUME NEW a, req' = [req EXCEPT ![r].step = s, ![r].from = a]
      PROVE  GoesOn(r, s)
  BY <1>1, <1>5 DEF Calls, GoesOn
<1>6. ASSUME NEW l, req' = [req EXCEPT ![r].step = s, ![r].link = l]
      PROVE  GoesOn(r, s)
  BY <1>1, <1>6 DEF Calls, GoesOn
<1>7. ASSUME NEW u, NEW a, req' = [req EXCEPT ![r].step = s, ![r].who = u, ![r].addr = a]
      PROVE  GoesOn(r, s)
  BY <1>1, <1>7 DEF Calls, GoesOn
<1> QED
  BY <1>2, <1>3, <1>4, <1>5, <1>6, <1>7

(* A call begins with one of these steps.                                  *)
LEMMA BeginIs ==
  ASSUME NEW r \in Handlers,
         \/ Register(r) \/ AskChange(r) \/ SignIn(r)
         \/ Open(r, "verify", "open") \/ Open(r, "change", "use")
  PROVE  \E q : /\ Begin(r, q)
                /\ \/ q.step \in {"look", "ask", "open", "use"}
                   \/ q.step = "known" /\ q.kind = "oauth"
<1>1. ASSUME NEW p, Begin(r, p), \/ p.step \in {"look", "ask", "open", "use"}
                                 \/ p.step = "known" /\ p.kind = "oauth"
      PROVE  \E q : /\ Begin(r, q)
                    /\ \/ q.step \in {"look", "ask", "open", "use"}
                       \/ q.step = "known" /\ q.kind = "oauth"
  BY <1>1
<1>2. CASE Register(r)
  <2>1. PICK a \in Addresses :
          Begin(r, [Rest EXCEPT !.kind = "register", !.step = "look", !.addr = a])
    BY <1>2 DEF Register
  <2> QED
    BY <1>1, <2>1 DEF Rest
<1>3. CASE AskChange(r)
  <2>1. PICK u \in password, a \in Addresses :
          Begin(r, [Rest EXCEPT !.kind = "change", !.step = "ask", !.who = u, !.addr = a])
    BY <1>3 DEF AskChange
  <2> QED
    BY <1>1, <2>1 DEF Rest
<1>4. CASE SignIn(r)
  <2>1. PICK a \in Addresses \cup {Synthetic} :
          Begin(r, [Rest EXCEPT !.kind = "oauth", !.step = "known", !.addr = a])
    BY <1>4 DEF SignIn
  <2> QED
    BY <1>1, <2>1 DEF Rest
<1>5. CASE Open(r, "verify", "open")
  <2>1. PICK l \in Links :
          Begin(r, [Rest EXCEPT !.kind = "verify", !.step = "open", !.link = l])
    BY <1>5 DEF Open
  <2> QED
    BY <1>1, <2>1 DEF Rest
<1>6. CASE Open(r, "change", "use")
  <2>1. PICK l \in Links :
          Begin(r, [Rest EXCEPT !.kind = "confirm", !.step = "use", !.link = l])
    BY <1>6 DEF Open
  <2> QED
    BY <1>1, <2>1 DEF Rest
<1> QED
  BY <1>2, <1>3, <1>4, <1>5, <1>6

(* A step is one of a handler, or leaves the handlers alone.               *)
LEMMA WhoSteps ==
  ASSUME [Next]_vars
  PROVE  \/ \E r \in Handlers : Handle(r)
         \/ /\ UNCHANGED <<email, req, breaks, told>>
            /\ link' = link \/ \E l \in Links : LinkExpires(l)
  BY DEF Next, Handle, Handlers, LinkExpires, ResetPassword, vars, rows, history

(* Only the last statement of find_or_create_user writes the identity.     *)
LEMMA BindsAtBind ==
  ASSUME [Next]_vars, identity' # identity
  PROVE  \E r \in Handlers : At(r, "bind") /\ identity' = req[r].who
<1>1. PICK r \in Handlers : Handle(r)
  <2>1. \A u \in Users : ResetPassword(u) => UNCHANGED identity
    BY DEF ResetPassword
  <2>2. \A l \in Links : LinkExpires(l) => UNCHANGED identity
    BY DEF LinkExpires, rows
  <2> QED
    BY <2>1, <2>2 DEF Next, Handle, Handlers, vars
<1>2. ASSUME NEW q, Begin(r, q) PROVE FALSE
  BY <1>2 DEF Begin, rows
<1>3. ASSUME Register(r) \/ AskChange(r) \/ SignIn(r)
             \/ Open(r, "verify", "open") \/ Open(r, "change", "use")
      PROVE  FALSE
  BY <1>2, <1>3, BeginIs
<1>4. ~ CreateUser(r) /\ ~ SendVerification(r)
  BY DEF CreateUser, SendVerification, Insert, StoreLink, rows
<1>5. ~ VerifyEmail(r)
  BY <1>3 DEF VerifyEmail, UseLink, rows
<1>6. ~ RequestEmailChange(r)
  BY DEF RequestEmailChange, StoreLink, rows
<1>7. ~ ConfirmEmailChange(r)
  BY <1>3 DEF ConfirmEmailChange, UseLink, rows
<1>8. ~ Break(r)
  BY DEF Break, rows
<1>9. FindOrCreateUser(r)
  BY <1>1, <1>3, <1>4, <1>5, <1>6, <1>7, <1>8 DEF Handle
<1>10. At(r, "bind") /\ identity' = req[r].who
  BY <1>9 DEF FindOrCreateUser, Insert, rows
<1> QED
  BY <1>10

(* find_or_create_user: the identity is bound only to an account that has  *)
(* the address the provider gave, or had it and left it by a confirmed     *)
(* change between the look-up and the INSERT, however many handlers        *)
(* register, change and sign in meanwhile.                                 *)
THEOREM IdentityFits == Spec => BoundByAddress
<1>1. IInv /\ [Next]_vars =>
        [identity' # identity =>
           \E r \in Handlers :
              /\ At(r, "bind") /\ identity' = req[r].who
              /\ HasOrLeft(req[r].who, req[r].addr)]_vars
  <2> SUFFICES ASSUME IInv, [Next]_vars, identity' # identity
               PROVE  \E r \in Handlers :
              /\ At(r, "bind") /\ identity' = req[r].who
              /\ HasOrLeft(req[r].who, req[r].addr)
    OBVIOUS
  <2>1. PICK r \in Handlers : At(r, "bind") /\ identity' = req[r].who
    BY BindsAtBind
  <2>2. HasOrLeft(req[r].who, req[r].addr)
    BY <2>1 DEF IInv, AccountsInv, CallOK, At
  <2> QED
    BY <2>1, <2>2
<1> QED
  BY <1>1, AccountsInvariant, PTL DEF Spec, BoundByAddress

-----------------------------------------------------------------------------
(* The old address is told.                                                *)

(* What a step of a handler has to show so that whoever was told, or about *)
(* to be told, still is, and every invitation is followed by a notice.     *)
LEMMA TellStep ==
  ASSUME IInv, TellInv, NEW r \in Handlers,
         \A h \in Handlers \ {r} : req'[h] = req[h],
         told \subseteq told',
         At(r, "notify") =>
            \/ <<req[r].who, None, req[r].addr>> \in told'
            \/ <<req[r].who, req[r].from, req[r].addr>> \in told',
         \A l \in Links : link[l].kind # "none" =>
            link'[l].user = link[l].user /\ link'[l].to = link[l].to,
         \A l \in Links : link'[l].kind = "change" /\ link'[l].mailed # None =>
            \/ /\ link[l].kind = "change" /\ link[l].mailed # None
               /\ link'[l].user = link[l].user /\ link'[l].to = link[l].to
            \/ /\ req'[r].step = "notify"
               /\ req'[r].who = link'[l].user /\ req'[r].addr = link'[l].to,
         req'[r].step \in {"free", "store", "invite", "notify"} =>
            req'[r].from \notin {None, req'[r].addr},
         req'[r].step = "invite" => link'[req'[r].link].user = req'[r].who,
         req'[r].step \in {"check", "move"} => Told(req[r].who, req[r].addr)'
  PROVE  TellInv'
<1>1. ASSUME NEW u, NEW a, Told(u, a)
      PROVE  Told(u, a)'
  <2>1. CASE \E old \in Addresses \cup {Synthetic} : old # a /\ <<u, old, a>> \in told
    BY <2>1 DEF Told
  <2>2. CASE <<u, None, a>> \in told
    BY <2>2 DEF Told
  <2>3. ASSUME NEW h \in Handlers, At(h, "notify"), req[h].who = u, req[h].addr = a
        PROVE  Told(u, a)'
    <3>1. CASE h # r
      <4>1. req'[h] = req[h]
        BY <3>1
      <4> QED
        BY <2>3, <4>1 DEF Told, At
    <3>2. CASE h = r
      <4>1. req[r].from \notin {None, a} /\ req[r].from \in Mailboxes
        BY <2>3, <3>2 DEF IInv, TypeOK, Calls, TellInv, TellCall, At
      <4>2. req[r].from \in Addresses \cup {Synthetic}
        BY <4>1 DEF Mailboxes
      <4>3. <<u, None, a>> \in told' \/ <<u, req[r].from, a>> \in told'
        BY <2>3, <3>2
      <4> QED
        BY <4>1, <4>2, <4>3 DEF Told
    <3> QED
      BY <3>1, <3>2
  <2> QED
    BY <1>1, <2>1, <2>2, <2>3 DEF Told
<1>2. ASSUME NEW h \in Handlers
      PROVE  TellCall(h)'
  <2>1. CASE h = r
    BY <2>1 DEF TellCall, At
  <2>2. CASE h # r
    <3>1. req'[h] = req[h] /\ TellCall(h)
      BY <2>2 DEF TellInv
    <3>2. At(h, "invite") => req[h].link \in Links /\ link[req[h].link].kind # "none"
      BY DEF IInv, AccountsInv, CallOK, Holds, At
    <3>3. At(h, "invite") => link'[req[h].link].user = link[req[h].link].user
      BY <3>2
    <3>4. PICK u, a : u = req[h].who /\ a = req[h].addr
      OBVIOUS
    <3>5. Told(u, a) => Told(u, a)'
      BY <1>1
    <3>6. At(h, "check") \/ At(h, "move") => Told(u, a)
      BY <3>1, <3>4 DEF TellCall
    <3>7. At(h, "check") \/ At(h, "move") => Told(req[h].who, req[h].addr)'
      BY <3>1, <3>4, <3>5, <3>6 DEF Told
    <3> QED
      BY <3>1, <3>3, <3>7 DEF TellCall, At
  <2> QED
    BY <2>1, <2>2
<1>3. ASSUME NEW l \in Links, link'[l].kind = "change", link'[l].mailed # None
      PROVE  Told(link[l].user, link[l].to)'
  <2>1. CASE /\ req'[r].step = "notify"
             /\ req'[r].who = link'[l].user /\ req'[r].addr = link'[l].to
    BY <2>1 DEF Told, At
  <2>2. CASE /\ link[l].kind = "change" /\ link[l].mailed # None
             /\ link'[l].user = link[l].user /\ link'[l].to = link[l].to
    <3> DEFINE u == link[l].user
               a == link[l].to
    <3>1. PICK v, b : v = u /\ b = a
      OBVIOUS
    <3>2. Told(v, b)
      BY <2>2, <3>1 DEF TellInv
    <3>3. Told(v, b)'
      BY <1>1, <3>2
    <3> QED
      BY <2>2, <3>1, <3>3 DEF Told
  <2> QED
    BY <1>3, <2>1, <2>2
<1> QED
  BY <1>2, <1>3 DEF TellInv

LinkKept(l) ==
    /\ link'[l].kind = link[l].kind /\ link'[l].mailed = link[l].mailed
    /\ link'[l].user = link[l].user /\ link'[l].to = link[l].to

(* Most steps mail no link to a new address and are not part of a change.  *)
LEMMA TellQuiet ==
  ASSUME IInv, TellInv, NEW r \in Handlers,
         \A h \in Handlers \ {r} : req'[h] = req[h],
         req'[r].step \notin {"free", "store", "invite", "notify", "check", "move"},
         told \subseteq told',
         At(r, "notify") => <<req[r].who, None, req[r].addr>> \in told',
         \A l \in Links :
            \/ LinkKept(l)
            \/ /\ link'[l].kind = "verify"
               /\ link[l].kind # "none" =>
                     link'[l].user = link[l].user /\ link'[l].to = link[l].to
  PROVE  TellInv'
  BY TellStep DEF LinkKept

LEMMA UsedIsKept ==
  ASSUME TypeOK, NEW m \in Links, link' = [link EXCEPT ![m].used = TRUE]
  PROVE  \A l \in Links : LinkKept(l)
  BY DEF TypeOK, Tokens, LinkKept

LEMMA BeginQuiet ==
  ASSUME TypeOK, NEW r \in Handlers,
         \/ Register(r) \/ AskChange(r) \/ SignIn(r)
         \/ Open(r, "verify", "open") \/ Open(r, "change", "use")
  PROVE  /\ req'[r].step \in {"look", "ask", "known", "open", "use"}
         /\ \A h \in Handlers \ {r} : req'[h] = req[h]
         /\ UNCHANGED <<link, breaks, told>> /\ ~At(r, "notify")
<1>1. PICK q : Begin(r, q) /\ q.step \in {"look", "ask", "known", "open", "use"}
  BY BeginIs
<1> QED
  BY <1>1 DEF TypeOK, Begin, history, At, Answers

LEMMA TellBegin ==
  ASSUME IInv, TellInv, NEW r \in Handlers,
         \/ Register(r) \/ AskChange(r) \/ SignIn(r)
         \/ Open(r, "verify", "open") \/ Open(r, "change", "use")
  PROVE  TellInv'
  BY BeginQuiet, TellQuiet DEF IInv, LinkKept

(* The steps of registration, verification, sign-in and failures.          *)
LEMMA TellOthers ==
  ASSUME IInv, TellInv, NEW r \in Handlers,
         \/ CreateUser(r) \/ SendVerification(r) \/ VerifyEmail(r)
         \/ FindOrCreateUser(r) \/ Break(r)
  PROVE  TellInv'
<1>0. TypeOK /\ \A s : At(r, s) => s = req[r].step
  BY DEF IInv, At
<1>1. ASSUME NEW s \in {"create", "token", "post", "mark", "match", "adopt", "bind", "vouch"}
                        \cup Answers,
             GoesOn(r, s) \/ Ends(r, s), ~At(r, "notify"), UNCHANGED <<breaks, told>>,
             \A l \in Links :
                \/ LinkKept(l)
                \/ /\ link'[l].kind = "verify"
                   /\ link[l].kind # "none" =>
                         link'[l].user = link[l].user /\ link'[l].to = link[l].to
      PROVE  TellInv'
  <2>1. /\ \A h \in Handlers \ {r} : req'[h] = req[h]
        /\ req'[r].step \notin {"free", "store", "invite", "notify", "check", "move"}
    BY <1>1 DEF GoesOn, Ends, Answers
  <2> QED
    BY <1>1, <2>1, TellQuiet
<1>2. link' = link => \A l \in Links : LinkKept(l)
  BY DEF LinkKept
<1>3. CASE CreateUser(r)
  <2>1. /\ \/ Go(r, "create") \/ Answer(r, "conflict")
           \/ \E u : req' = [req EXCEPT ![r].step = "token", ![r].who = u]
        /\ UNCHANGED <<link, breaks, told>> /\ ~At(r, "notify")
    BY <1>3 DEF CreateUser, Insert, At, history
  <2> QED
    BY <1>0, <1>1, <1>2, <2>1, Fieldwise DEF Answers
<1>4. CASE SendVerification(r)
  <2>1. CASE At(r, "token") /\ StoreLink(r, "verify", "post")
    <3> DEFINE l == CHOOSE m \in Links : link[m].kind = "none"
    <3>1. /\ l \in Links /\ link[l].kind = "none"
          /\ link' = [link EXCEPT ![l] = [NoLink EXCEPT !.kind = "verify",
                                            !.user = req[r].who, !.to = req[r].addr]]
          /\ req' = [req EXCEPT ![r].step = "post", ![r].link = l]
          /\ UNCHANGED <<breaks, told>>
      BY <2>1 DEF StoreLink, history
    <3>2. link'[l].kind = "verify" /\ \A m \in Links : m # l => link'[m] = link[m]
      <4> HIDE DEF l
      <4> QED
        BY <1>0, <3>1 DEF TypeOK, NoLink
    <3> HIDE DEF l
    <3>3. \A m \in Links : \/ LinkKept(m)
                           \/ link'[m].kind = "verify" /\ link[m].kind = "none"
      BY <3>1, <3>2 DEF LinkKept
    <3> QED
      BY <1>0, <1>1, <2>1, <3>1, <3>3, Fieldwise DEF At
  <2>2. CASE At(r, "post") /\ MailLink(r, req[r].addr) /\ Answer(r, "done")
             /\ UNCHANGED <<rows, breaks, history>>
    <3>1. req[r].link \in Links /\ link[req[r].link].kind = "verify"
      BY <2>2 DEF IInv, AccountsInv, CallOK, Holds, At
    <3>2. link' = [link EXCEPT ![req[r].link].mailed = req[r].addr]
      BY <2>2 DEF MailLink
    <3>3. \A m \in Links : \/ LinkKept(m)
                           \/ /\ link'[m].kind = "verify"
                              /\ link'[m].user = link[m].user /\ link'[m].to = link[m].to
      BY <1>0, <3>1, <3>2 DEF TypeOK, Tokens, LinkKept
    <3> QED
      BY <1>0, <1>1, <2>2, <3>3, Fieldwise DEF Answers, At, history
  <2> QED
    BY <1>4, <2>1, <2>2 DEF SendVerification
<1>5. CASE VerifyEmail(r)
  <2>1. CASE Open(r, "verify", "open")
    BY <2>1, TellBegin
  <2>2. CASE At(r, "open") /\ UseLink(r, "mark")
    <3>1. req[r].link \in Links
      BY <2>2 DEF IInv, AccountsInv, CallOK, Holds, At
    <3>2. /\ \/ Answer(r, "done")
             \/ \E u, a : req' = [req EXCEPT ![r].step = "mark", ![r].who = u, ![r].addr = a]
          /\ link' = link \/ link' = [link EXCEPT ![req[r].link].used = TRUE]
          /\ UNCHANGED <<breaks, told>> /\ ~At(r, "notify")
      BY <2>2 DEF UseLink, At
    <3>3. \A l \in Links : LinkKept(l)
      BY <1>0, <1>2, <3>1, <3>2, UsedIsKept
    <3>4. Answer(r, "done") => Ends(r, "done")
      BY <1>0, Fieldwise
    <3>5. ASSUME NEW u, NEW a,
                 req' = [req EXCEPT ![r].step = "mark", ![r].who = u, ![r].addr = a]
          PROVE  GoesOn(r, "mark")
      BY <1>0, <3>5, Fieldwise
    <3>6. Ends(r, "done") \/ GoesOn(r, "mark")
      BY <3>2, <3>4, <3>5
    <3> QED
      BY <1>1, <3>2, <3>3, <3>6 DEF Answers
  <2>3. CASE At(r, "mark") /\ Answer(r, "done") /\ UNCHANGED <<link, breaks, history>>
    BY <1>0, <1>1, <1>2, <2>3, Fieldwise DEF Answers, At, history
  <2> QED
    BY <1>5, <2>1, <2>2, <2>3 DEF VerifyEmail
<1>6. CASE FindOrCreateUser(r)
  <2>1. /\ \/ Answer(r, "done") \/ Answer(r, "error")
           \/ Go(r, "match") \/ Go(r, "adopt") \/ Go(r, "bind")
           \/ \E u : \/ req' = [req EXCEPT ![r].step = "bind", ![r].who = u]
                     \/ req' = [req EXCEPT ![r].step = "vouch", ![r].who = u]
        /\ UNCHANGED <<link, breaks, told>> /\ ~At(r, "notify")
    BY <1>6 DEF FindOrCreateUser, Insert, At, history
  <2>2. \E s \in {"match", "adopt", "bind", "vouch", "done", "error"} :
            GoesOn(r, s) \/ Ends(r, s)
    BY <1>0, <2>1, Fieldwise
  <2> QED
    BY <1>1, <1>2, <2>1, <2>2 DEF Answers
<1>7. CASE Break(r)
  <2>1. /\ Ends(r, "done") /\ told \subseteq told'
        /\ At(r, "notify") => <<req[r].who, None, req[r].addr>> \in told'
        /\ \A l \in Links : LinkKept(l)
    BY <1>0, <1>2, <1>7, Fieldwise DEF Break
  <2> QED
    BY <2>1, TellQuiet DEF Ends
<1> QED
  BY <1>3, <1>4, <1>5, <1>6, <1>7

(* Whoever was told stays told through a step of a handler that is not     *)
(* telling.                                                                *)
LEMMA ToldStays ==
  ASSUME NEW r \in Handlers, \A h \in Handlers \ {r} : req'[h] = req[h],
         ~At(r, "notify"), UNCHANGED <<breaks, told>>,
         NEW u, NEW a, Told(u, a)
  PROVE  Told(u, a)'
  BY DEF Told, At

(* The steps of one who asks for a change: what he holds says whom to tell.*)
LEMMA TellAsks ==
  ASSUME IInv, TellInv, NEW r \in Handlers, RequestEmailChange(r)
  PROVE  TellInv'
<1>0. /\ TypeOK /\ CallOK(r) /\ TellCall(r)
      /\ req[r] \in Calls /\ email \in [Users -> Mailboxes]
      /\ \A h \in Handlers \ {r} : req'[h] = req[h]
  <2>1. \A s : Go(r, s) \/ Answer(r, s) => \A h \in Handlers \ {r} : req'[h] = req[h]
    BY DEF IInv, TypeOK, Go, Answer
  <2>2. req \in [Handlers -> Calls]
    BY DEF IInv, TypeOK
  <2>3. \/ \E s : Go(r, s) \/ Answer(r, s)
        \/ \E a : req' = [req EXCEPT ![r].step = "free", ![r].from = a]
        \/ \E l : req' = [req EXCEPT ![r].step = "invite", ![r].link = l]
    BY DEF RequestEmailChange, StoreLink
  <2>4. \A h \in Handlers \ {r} : req'[h] = req[h]
    BY <2>1, <2>2, <2>3
  <2> QED
    BY <2>4 DEF IInv, TypeOK, AccountsInv, TellInv
<1>1. ASSUME UNCHANGED <<link, breaks, told>>, ~At(r, "notify"),
             req'[r].step \in {"free", "store", "invite", "notify"} =>
                req'[r].from \notin {None, req'[r].addr},
             req'[r].step \notin {"invite", "check", "move"}
      PROVE  TellInv'
  BY <1>0, <1>1, TellStep
<1>2. CASE At(r, "ask") /\ UNCHANGED <<rows, link, breaks, history>>
  <2>1. CASE Answer(r, "done")
    BY <1>0, <1>1, <1>2, <2>1 DEF TypeOK, Answer, Rest, At, history
  <2>2. CASE /\ email[req[r].who] # req[r].addr
             /\ req' = [req EXCEPT ![r].step = "free", ![r].from = email[req[r].who]]
    <3>1. email[req[r].who] # None
      BY <1>0, <1>2 DEF CallOK, Known, At
    <3>2. /\ req'[r].step = "free" /\ req'[r].from = email[req[r].who]
          /\ req'[r].addr = req[r].addr
      BY <1>0, <2>2 DEF TypeOK, Calls
    <3> QED
      BY <1>1, <1>2, <2>2, <3>1, <3>2 DEF At, history
  <2> QED
    BY <1>2, <2>1, <2>2 DEF RequestEmailChange, At
<1>3. CASE At(r, "free") /\ UNCHANGED <<rows, link, breaks, history>>
  <2>1. CASE Answer(r, "conflict")
    BY <1>0, <1>1, <1>3, <2>1 DEF TypeOK, Answer, Rest, At, history
  <2>2. CASE Go(r, "store")
    <3>1. /\ req'[r].step = "store" /\ req'[r].from = req[r].from
          /\ req'[r].addr = req[r].addr
      BY <1>0, <2>2 DEF TypeOK, Calls, Go
    <3> QED
      BY <1>0, <1>1, <1>3, <3>1 DEF At, TellCall, history
  <2> QED
    BY <1>3, <2>1, <2>2 DEF RequestEmailChange, At
<1>4. CASE At(r, "store") /\ StoreLink(r, "change", "invite")
  <2>1. PICK l \in Links :
          /\ link[l].kind = "none"
          /\ link' = [link EXCEPT ![l] = [NoLink EXCEPT !.kind = "change",
                                            !.user = req[r].who, !.to = req[r].addr]]
          /\ req' = [req EXCEPT ![r].step = "invite", ![r].link = l]
          /\ UNCHANGED <<breaks, told>>
    BY <1>4 DEF StoreLink, history
  <2>2. /\ link'[l].user = req[r].who /\ link'[l].mailed = None
        /\ \A m \in Links : m # l => link'[m] = link[m]
    BY <1>0, <2>1 DEF TypeOK, NoLink
  <2>3. /\ req'[r].step = "invite" /\ req'[r].from = req[r].from
        /\ req'[r].addr = req[r].addr /\ req'[r].who = req[r].who /\ req'[r].link = l
    BY <1>0, <2>1 DEF TypeOK, Calls
  <2>4. ~At(r, "notify") /\ req[r].from \notin {None, req[r].addr}
    BY <1>0, <1>4 DEF At, TellCall
  <2> QED
    BY <1>0, <2>1, <2>2, <2>3, <2>4, TellStep
<1>5. CASE At(r, "invite") /\ MailLink(r, Invited(req[r])) /\ Go(r, "notify")
           /\ UNCHANGED <<rows, breaks, history>>
  <2> DEFINE l == req[r].link
  <2>1. /\ l \in Links /\ link[l].kind = "change" /\ link[l].to = req[r].addr
        /\ link[l].user = req[r].who
    BY <1>0, <1>5 DEF CallOK, Holds, TellCall, At
  <2>2. link' = [link EXCEPT ![l].mailed = req[r].addr]
    BY <1>5 DEF MailLink, Invited
  <2>3. /\ link'[l].user = link[l].user /\ link'[l].to = link[l].to
        /\ \A m \in Links : m # l => link'[m] = link[m]
    <3> HIDE DEF l
    <3> QED
      BY <1>0, <2>1, <2>2 DEF TypeOK, Tokens
  <2>4. /\ req'[r].step = "notify" /\ req'[r].from = req[r].from
        /\ req'[r].addr = req[r].addr /\ req'[r].who = req[r].who
    BY <1>0, <1>5 DEF TypeOK, Calls, Go
  <2>5. ~At(r, "notify") /\ req[r].from \notin {None, req[r].addr}
    BY <1>0, <1>5 DEF At, TellCall
  <2> HIDE DEF l
  <2> QED
    BY <1>0, <1>5, <2>1, <2>3, <2>4, <2>5, TellStep DEF history
<1>6. CASE /\ At(r, "notify")
           /\ told' = told \cup {<<req[r].who, Notified(req[r]), req[r].addr>>}
           /\ Answer(r, "done")
           /\ UNCHANGED <<rows, link, breaks, proven, left>>
  <2>1. req'[r].step = "done"
    BY <1>0, <1>6 DEF TypeOK, Answer, Rest
  <2>2. <<req[r].who, req[r].from, req[r].addr>> \in told' /\ told \subseteq told'
    BY <1>6 DEF Notified
  <2> QED
    BY <1>0, <1>6, <2>1, <2>2, TellStep
<1> QED
  BY <1>2, <1>3, <1>4, <1>5, <1>6 DEF RequestEmailChange

(* The steps of one who confirms a change: the link he opened was mailed,  *)
(* so the old address was told, or is about to be.                         *)
LEMMA TellConfirms ==
  ASSUME IInv, TellInv, NEW r \in Handlers, ConfirmEmailChange(r)
  PROVE  TellInv'
<1>0. /\ TypeOK /\ CallOK(r) /\ TellCall(r) /\ req \in [Handlers -> Calls]
      /\ link' = link => \A l \in Links : LinkKept(l)
  BY DEF IInv, TypeOK, AccountsInv, TellInv, LinkKept
<1>1. CASE Open(r, "change", "use")
  BY <1>1, TellBegin
<1>2. ASSUME NEW s, Answer(r, s), s \in {"done", "conflict"}, ~At(r, "notify"),
             UNCHANGED <<breaks, told, link>>
      PROVE  TellInv'
  <2>1. Ends(r, s)
    BY <1>0, <1>2, Fieldwise
  <2> QED
    BY <1>0, <1>2, <2>1, TellQuiet DEF Ends
<1>3. CASE At(r, "use") /\ UseLink(r, "check")
  <2> DEFINE l == req[r].link
  <2>1. l \in Links /\ link[l].kind = "change" /\ link[l].mailed # None
    BY <1>0, <1>3 DEF CallOK, Holds, At
  <2>2. ~At(r, "notify") /\ UNCHANGED <<breaks, told>>
    BY <1>3 DEF At, UseLink
  <2>3. CASE Answer(r, "done") /\ link' = link
    BY <1>2, <2>2, <2>3
  <2>4. CASE /\ link' = [link EXCEPT ![l].used = TRUE]
             /\ req' = [req EXCEPT ![r].step = "check", ![r].who = link[l].user,
                                   ![r].addr = link[l].to]
    <3>1. PICK u, a : u = link[l].user /\ a = link[l].to
      OBVIOUS
    <3>2. /\ \A h \in Handlers \ {r} : req'[h] = req[h]
          /\ req'[r].step = "check" /\ req'[r].who = u /\ req'[r].addr = a
      BY <1>0, <2>4, <3>1 DEF Calls
    <3>3. \A m \in Links : LinkKept(m)
      <4> HIDE DEF l
      <4> QED
        BY <1>0, <2>1, <2>4, UsedIsKept
    <3>4. Told(u, a)
      <4> HIDE DEF l
      <4> QED
        BY <2>1, <3>1 DEF TellInv
    <3>5. Told(u, a)'
      BY <2>2, <3>2, <3>4, ToldStays
    <3>6. Told(req[r].who, req[r].addr)'
      BY <3>2, <3>5 DEF Told
    <3> QED
      BY <2>2, <3>2, <3>3, <3>6, TellStep DEF LinkKept
  <2> QED
    BY <1>3, <2>3, <2>4 DEF UseLink
<1>4. CASE /\ At(r, "check")
           /\ Answer(r, "conflict") \/ Go(r, "move")
           /\ UNCHANGED <<rows, link, breaks, history>>
  <2>1. CASE Answer(r, "conflict")
    BY <1>2, <1>4, <2>1 DEF At, history
  <2>2. CASE Go(r, "move")
    <3>1. PICK u, a : u = req[r].who /\ a = req[r].addr
      OBVIOUS
    <3>2. /\ \A h \in Handlers \ {r} : req'[h] = req[h]
          /\ req'[r].step = "move" /\ req'[r].who = u /\ req'[r].addr = a
      BY <1>0, <2>2, <3>1 DEF Calls, Go
    <3>3. ~At(r, "notify") /\ UNCHANGED <<link, breaks, told>>
      BY <1>4 DEF At, history
    <3>4. Told(u, a)
      BY <1>0, <1>4, <3>1 DEF TellCall
    <3>5. Told(u, a)'
      BY <3>2, <3>3, <3>4, ToldStays
    <3>6. Told(req[r].who, req[r].addr)'
      BY <3>2, <3>5 DEF Told
    <3> QED
      BY <3>2, <3>3, <3>6, TellStep
  <2> QED
    BY <1>4, <2>1, <2>2
<1>5. CASE /\ At(r, "move")
           /\ Answer(r, "conflict") \/ Answer(r, "done")
           /\ UNCHANGED <<link, breaks, told>>
  BY <1>2, <1>5 DEF At
<1> QED
  BY <1>1, <1>3, <1>4, <1>5 DEF ConfirmEmailChange

LEMMA TellKeeps == IInv /\ TellInv /\ [Next]_vars => TellInv'
<1> SUFFICES ASSUME IInv, TellInv, [Next]_vars PROVE TellInv'
  OBVIOUS
<1>1. ASSUME NEW r \in Handlers, Handle(r) PROVE TellInv'
  BY <1>1, TellBegin, TellOthers, TellAsks, TellConfirms DEF Handle
<1>2. CASE /\ UNCHANGED <<req, breaks, told>>
           /\ link' = link \/ \E l \in Links : LinkExpires(l)
  <2>1. \A l \in Links : LinkKept(l)
    <3>1. CASE link' = link
      BY <3>1 DEF LinkKept
    <3>2. ASSUME NEW l \in Links, LinkExpires(l)
          PROVE  link' = [link EXCEPT ![l].used = TRUE]
      BY <3>2 DEF LinkExpires
    <3> QED
      BY <1>2, <3>1, <3>2, UsedIsKept DEF IInv
  <2>2. \A r \in Handlers : \A s : At(r, s)' <=> At(r, s)
    BY <1>2 DEF At
  <2>3. ASSUME NEW u, NEW a, Told(u, a) PROVE Told(u, a)'
    BY <1>2, <2>3 DEF Told, At
  <2>4. ASSUME NEW h \in Handlers PROVE TellCall(h)'
    <3>1. TellCall(h) /\ (At(h, "invite") => req[h].link \in Links)
      BY DEF TellInv, IInv, AccountsInv, CallOK, Holds, At
    <3>2. PICK u, a : u = req[h].who /\ a = req[h].addr
      OBVIOUS
    <3>3. At(h, "check") \/ At(h, "move") => Told(u, a)'
      BY <2>3, <3>1, <3>2 DEF TellCall
    <3>4. At(h, "check") \/ At(h, "move") => Told(req[h].who, req[h].addr)'
      BY <1>2, <3>2, <3>3 DEF Told
    <3> QED
      BY <1>2, <2>1, <2>2, <3>1, <3>4 DEF TellCall, LinkKept, At
  <2>5. ASSUME NEW l \in Links, link'[l].kind = "change", link'[l].mailed # None
        PROVE  Told(link[l].user, link[l].to)'
    <3>1. PICK u, a : u = link[l].user /\ a = link[l].to
      OBVIOUS
    <3>2. Told(u, a)
      BY <2>1, <2>5, <3>1 DEF TellInv, LinkKept
    <3>3. Told(u, a)' /\ link'[l].user = u /\ link'[l].to = a
      BY <2>1, <2>3, <3>1, <3>2 DEF LinkKept
    <3> QED
      BY <3>3 DEF Told
  <2> QED
    BY <2>4, <2>5 DEF TellInv
<1> QED
  BY <1>1, <1>2, WhoSteps

(* Only confirm_email_change moves an account that has an address.         *)
LEMMA MovesAtMove ==
  ASSUME IInv, [Next]_vars, NEW u \in Users, email[u] \notin {None, email'[u]}
  PROVE  \E r \in Handlers :
            At(r, "move") /\ req[r].who = u /\ req[r].addr = email'[u]
<1>0. email \in [Users -> Mailboxes]
  BY DEF IInv, TypeOK
<1>1. PICK r \in Handlers : Handle(r)
  BY WhoSteps
<1>2. ASSUME NEW q, Begin(r, q) PROVE FALSE
  BY <1>2 DEF Begin, rows
<1>3. ASSUME NEW pw, NEW next, Insert(r, pw, next) PROVE FALSE
  <2>1. PICK v \in Users : email[v] = None /\ email' = [email EXCEPT ![v] = req[r].addr]
    BY <1>3 DEF Insert
  <2> QED
    BY <1>0, <2>1
<1>4. CASE Register(r) \/ AskChange(r) \/ SignIn(r)
  BY <1>2, <1>4, BeginIs
<1>5. CASE CreateUser(r)
  BY <1>3, <1>5 DEF CreateUser, rows
<1>6. CASE SendVerification(r)
  BY <1>6 DEF SendVerification, StoreLink, rows
<1>7. CASE VerifyEmail(r)
  <2>1. CASE Open(r, "verify", "open")
    BY <1>2, <2>1, BeginIs
  <2> QED
    BY <1>7, <2>1 DEF VerifyEmail, UseLink, rows
<1>8. CASE RequestEmailChange(r)
  BY <1>8 DEF RequestEmailChange, StoreLink, rows
<1>9. CASE ConfirmEmailChange(r)
  <2>1. ~Open(r, "change", "use")
    BY <1>2, BeginIs
  <2>2. At(r, "move") /\ email' = [email EXCEPT ![req[r].who] = req[r].addr]
    BY <1>9, <2>1 DEF ConfirmEmailChange, UseLink, rows
  <2> QED
    BY <1>0, <2>2
<1>10. CASE FindOrCreateUser(r)
  BY <1>3, <1>10 DEF FindOrCreateUser, rows
<1>11. CASE Break(r)
  BY <1>11 DEF Break, rows
<1> QED
  BY <1>1, <1>4, <1>5, <1>6, <1>7, <1>8, <1>9, <1>10, <1>11 DEF Handle

(* request_email_change and confirm_email_change: an account never moves   *)
(* to an address before one it had was told of the move, or is about to    *)
(* be, unless a failure fell between the two mails; whatever other changes *)
(* and links are under way for the same account.                           *)
THEOREM OldAddressTold == Spec => OldAddressIsTold
<1>1. Init => TellInv
  BY DEF Init, TellInv, TellCall, Rest, NoLink, At
<1>2. IInv /\ TellInv /\ [Next]_vars =>
        [\A u \in Users : email[u] \notin {None, email'[u]} => Told(u, email'[u])]_vars
  <2> SUFFICES ASSUME IInv, TellInv, [Next]_vars, NEW u \in Users,
                      email[u] \notin {None, email'[u]}
               PROVE  Told(u, email'[u])
    OBVIOUS
  <2>1. PICK r \in Handlers : At(r, "move") /\ req[r].who = u /\ req[r].addr = email'[u]
    BY MovesAtMove
  <2>2. Told(req[r].who, req[r].addr)
    BY <2>1 DEF TellInv, TellCall
  <2> QED
    BY <2>1, <2>2
<1> QED
  BY <1>1, <1>2, TellKeeps, AccountsInvariant, PTL DEF Spec, OldAddressIsTold
=============================================================================

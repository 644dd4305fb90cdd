------------------------------ MODULE Accounts ------------------------------
(***************************************************************************)
(* How accounts come to be and how their addresses are confirmed and       *)
(* changed: register, the link of the first mail, the change of the        *)
(* address in two steps, and the first sign-in through a provider.         *)
(* server/src/auth/mod.rs, account.rs, verify_email.rs, oauth.rs and the   *)
(* statements of server/src/users/mod.rs they use.                         *)
(*                                                                         *)
(* Every statement commits by itself; between two statements of a handler  *)
(* the others run, and the handler may end.  Mails go to the table of the  *)
(* outbox (module Outbox), so a mail is written when its statement is.     *)
(***************************************************************************)
EXTENDS Naturals, FiniteSets

CONSTANTS
    Requests,   \* handlers at work at the same time
    Visitor,    \* the browser of one who signs in through a provider
    Users,      \* ids of rows of users
    Owner,      \* a row that is there from the beginning, with a password
    Addresses,  \* normalised addresses
    Synthetic,  \* provider.id@oauth.local, of the visitor's identity
    Links,      \* tokens of email_verification_tokens and email_change_tokens
    MaxBreaks,  \* bound on the statements that fail
    None

ASSUME AccountsAssumption ==
    /\ Owner \in Users /\ Visitor \notin Requests
    /\ Addresses # {} /\ Synthetic \notin Addresses
    /\ None \notin Users \cup Addresses \cup Links \cup {Synthetic}
    /\ MaxBreaks \in Nat

Handlers == Requests \cup {Visitor}
Steps    == {"look", "create", "token", "post", "open", "mark", "ask", "free",
             "store", "invite", "notify", "use", "check", "move", "known",
             "match", "adopt", "vouch", "bind"}
Answers  == {"done", "conflict", "error"}
Kinds    == {"none", "register", "verify", "change", "confirm", "oauth"}

VARIABLES
    email,      \* users.email, None where there is no row
    verified,   \* users whose email_verified_at is set
    password,   \* users whose password_hash is set
    identity,   \* user_id of the visitor's row of identities
    link,       \* rows of both tables of tokens, and where their mails went
    req,        \* what each handler is doing, or has answered
    breaks,     \* statements that failed
    proven,     \* history: <<user, address>>: a link mailed to the address was
                \* opened for the user, or a provider vouched for it
    told,       \* history: <<user, address told, new address>> of the notices,
                \* None for the address told where the notice broke off
    left        \* history: <<user, address>> of the addresses accounts moved from

vars == <<email, verified, password, identity, link, req, breaks, proven, told, left>>

NoLink == [kind |-> "none", used |-> FALSE, user |-> None, to |-> None, mailed |-> None]
Rest   == [kind |-> "none", step |-> "done", who |-> None, addr |-> None,
           from |-> None, link |-> None]
Mailboxes == Addresses \cup {Synthetic, None}

Tokens == [kind : {"none", "verify", "change"}, used : BOOLEAN,
           user : Users \cup {None}, to : Mailboxes, mailed : Mailboxes]
Calls  == [kind : Kinds, step : Steps \cup Answers, addr : Mailboxes,
           who : Users \cup {None}, from : Mailboxes, link : Links \cup {None}]

TypeOK ==
    /\ email \in [Users -> Mailboxes]
    /\ verified \in SUBSET Users /\ password \in SUBSET Users
    /\ identity \in Users \cup {None}
    /\ link \in [Links -> Tokens]
    /\ req \in [Handlers -> Calls]
    /\ breaks \in 0..MaxBreaks

Init ==
    /\ email = [u \in Users |-> IF u = Owner THEN CHOOSE a \in Addresses : TRUE ELSE None]
    /\ verified \in SUBSET {Owner}
    /\ password = {Owner}
    /\ identity = None
    /\ link = [l \in Links |-> NoLink]
    /\ req = [r \in Handlers |-> Rest]
    /\ breaks = 0
    /\ proven = {<<u, email[u]>> : u \in verified}
    /\ told = {}
    /\ left = {}

rows    == <<email, verified, password, identity>>
history == <<proven, told, left>>

Taken(a) == \E u \in Users : email[u] = a
At(r, s) == req[r].step = s

Go(r, s)     == req' = [req EXCEPT ![r].step = s]
Answer(r, s) == req' = [req EXCEPT ![r] = [Rest EXCEPT !.step = s]]

Begin(r, call) ==
    /\ req[r].step \in Answers
    /\ req' = [req EXCEPT ![r] = call]
    /\ UNCHANGED <<rows, link, breaks, history>>

(* A row of users; that email is UNIQUE is looked at by the callers.  Which*)
(* of the unused ids a row gets does not matter.                           *)
Insert(r, pw, next) == LET u == CHOOSE v \in Users : email[v] = None IN
    /\ \E v \in Users : email[v] = None
    /\ email' = [email EXCEPT ![u] = req[r].addr]
    /\ password' = password \cup (IF pw THEN {u} ELSE {})
    /\ req' = [req EXCEPT ![r].step = next, ![r].who = u]
    /\ UNCHANGED <<verified, identity>>

StoreLink(r, kind, next) == LET l == CHOOSE m \in Links : link[m].kind = "none" IN
    /\ \E m \in Links : link[m].kind = "none"
    /\ link' = [link EXCEPT ![l] = [NoLink EXCEPT !.kind = kind, !.user = req[r].who,
                                                  !.to = req[r].addr]]
    /\ req' = [req EXCEPT ![r].step = next, ![r].link = l]
    /\ UNCHANGED <<rows, breaks, history>>

MailLink(r, address) == link' = [link EXCEPT ![req[r].link].mailed = address]

(* A link is opened by one who reads the mailbox it was sent to, any       *)
(* number of times.                                                        *)
Open(r, kind, step) == \E l \in Links :
    /\ link[l].kind = kind /\ link[l].mailed # None
    /\ Begin(r, [Rest EXCEPT !.kind = IF kind = "verify" THEN kind ELSE "confirm",
                             !.step = step, !.link = l])

UseLink(r, next) ==
    LET l == req[r].link IN
    /\ IF link[l].used
       THEN Answer(r, "done") /\ UNCHANGED <<link, proven>>
       ELSE /\ link' = [link EXCEPT ![l].used = TRUE]
            /\ req' = [req EXCEPT ![r].step = next, ![r].who = link[l].user,
                                  ![r].addr = link[l].to]
            /\ proven' = proven \cup {<<link[l].user, link[l].mailed>>}
    /\ UNCHANGED <<rows, breaks, told, left>>

-----------------------------------------------------------------------------
(* Registration, and the link of its mail.                                 *)

Register(r) == \E a \in Addresses :
    Begin(r, [Rest EXCEPT !.kind = "register", !.step = "look", !.addr = a])

CreateUser(r) ==
    \/ /\ At(r, "look")
       /\ IF Taken(req[r].addr) THEN Answer(r, "conflict") ELSE Go(r, "create")
       /\ UNCHANGED <<rows, link, breaks, history>>
    \/ /\ At(r, "create")
       /\ IF Taken(req[r].addr) THEN Answer(r, "conflict") /\ UNCHANGED rows
                                ELSE Insert(r, TRUE, "token")
       /\ UNCHANGED <<link, breaks, history>>

SendVerification(r) ==
    \/ At(r, "token") /\ StoreLink(r, "verify", "post")
    \/ /\ At(r, "post")
       /\ MailLink(r, req[r].addr)
       /\ Answer(r, "done")
       /\ UNCHANGED <<rows, breaks, history>>

VerifyEmail(r) ==
    \/ Open(r, "verify", "open")
    \/ At(r, "open") /\ UseLink(r, "mark")
    \/ /\ At(r, "mark")
       /\ Answer(r, "done")
       /\ verified' = verified \cup {req[r].who}
       /\ UNCHANGED <<email, password, identity, link, breaks, history>>

-----------------------------------------------------------------------------
(* The change of the address, asked for by one who knows the password.     *)

AskChange(r) == \E u \in password, a \in Addresses :
    Begin(r, [Rest EXCEPT !.kind = "change", !.step = "ask", !.who = u, !.addr = a])

(* Mutant: the notice goes where the link went.                            *)
Notified_New(q) == q.addr
Notified(q)     == q.from

(* Mutant: the link goes to the address the account has.                   *)
Invited_Old(q) == q.from
Invited(q)     == q.addr

RequestEmailChange(r) ==
    \/ /\ At(r, "ask")
       /\ IF email[req[r].who] = req[r].addr
          THEN Answer(r, "done")
          ELSE req' = [req EXCEPT ![r].step = "free", ![r].from = email[req[r].who]]
       /\ UNCHANGED <<rows, link, breaks, history>>
    \/ /\ At(r, "free")
       /\ IF Taken(req[r].addr) THEN Answer(r, "conflict") ELSE Go(r, "store")
       /\ UNCHANGED <<rows, link, breaks, history>>
    \/ At(r, "store") /\ StoreLink(r, "change", "invite")
    \/ /\ At(r, "invite")
       /\ MailLink(r, Invited(req[r]))
       /\ Go(r, "notify")
       /\ UNCHANGED <<rows, breaks, history>>
    \/ /\ At(r, "notify")
       /\ told' = told \cup {<<req[r].who, Notified(req[r]), req[r].addr>>}
       /\ Answer(r, "done")
       /\ UNCHANGED <<rows, link, breaks, proven, left>>

ConfirmEmailChange(r) ==
    \/ Open(r, "change", "use")
    \/ At(r, "use") /\ UseLink(r, "check")
    \/ /\ At(r, "check")
       /\ IF Taken(req[r].addr) THEN Answer(r, "conflict") ELSE Go(r, "move")
       /\ UNCHANGED <<rows, link, breaks, history>>
    \/ /\ At(r, "move")
       /\ IF Taken(req[r].addr)
          THEN Answer(r, "conflict") /\ UNCHANGED <<email, verified, left>>
          ELSE /\ email' = [email EXCEPT ![req[r].who] = req[r].addr]
               /\ left' = left \cup {<<req[r].who, email[req[r].who]>>}
               /\ verified' = verified \cup {req[r].who}
               /\ Answer(r, "done")
       /\ UNCHANGED <<password, identity, link, breaks, proven, told>>

-----------------------------------------------------------------------------
(* Signing in through a provider.                                          *)

(* He may try in several tabs.  The address is the one the provider gave,  *)
(* if it is trusted with it, and else a synthetic one.                     *)
SignIn(r) == \E a \in Addresses \cup {Synthetic} :
    Begin(r, [Rest EXCEPT !.kind = "oauth", !.step = "known", !.addr = a])

(* Mutants: an account with his address is not looked for; the address is  *)
(* not looked at.                                                          *)
Match_Nobody(a)     == {}
Match_Unfiltered(a) == {u \in Users : email[u] # None}
Match(a)        == {u \in Users : email[u] = a}

FindOrCreateUser(r) ==
    \/ /\ At(r, "known")
       /\ IF identity # None THEN Answer(r, "done") ELSE Go(r, "match")
       /\ UNCHANGED <<rows, link, breaks, history>>
    \/ /\ At(r, "match")
       /\ IF Match(req[r].addr) = {}
          THEN Go(r, "adopt")
          ELSE \E u \in Match(req[r].addr) :
                   req' = [req EXCEPT ![r].step = "bind", ![r].who = u]
       /\ UNCHANGED <<rows, link, breaks, history>>
    \/ /\ At(r, "adopt")
       /\ IF Taken(req[r].addr) THEN Answer(r, "error") /\ UNCHANGED rows
                                ELSE Insert(r, FALSE, "vouch")
       /\ UNCHANGED <<link, breaks, history>>
    \/ /\ At(r, "vouch")
       /\ verified' = verified \cup {req[r].who}
       /\ proven' = proven \cup {<<req[r].who, req[r].addr>>}
       /\ Go(r, "bind")
       /\ UNCHANGED <<email, password, identity, link, breaks, told, left>>
    \/ /\ At(r, "bind")
       /\ IF identity # None
          THEN Answer(r, "error") /\ UNCHANGED identity
          ELSE Answer(r, "done") /\ identity' = req[r].who
       /\ UNCHANGED <<email, verified, password, link, breaks, history>>

-----------------------------------------------------------------------------
(* A statement fails, or the handler is dropped.                           *)
Break(r) ==
    /\ req[r].step \notin Answers /\ breaks < MaxBreaks
    /\ breaks' = breaks + 1
    /\ Answer(r, "done")
    /\ told' = told \cup (IF At(r, "notify") THEN {<<req[r].who, None, req[r].addr>>} ELSE {})
    /\ UNCHANGED <<rows, link, proven, left>>

(* Swept or past expires_at, a token is as good as used.                   *)
LinkExpires(l) ==
    /\ ~link[l].used /\ link[l].kind # "none"
    /\ link' = [link EXCEPT ![l].used = TRUE]
    /\ UNCHANGED <<rows, req, breaks, history>>

(* An account made by a sign-in gains a password by a reset (Credentials). *)
ResetPassword(u) ==
    /\ email[u] # None /\ u \notin password
    /\ password' = password \cup {u}
    /\ UNCHANGED <<email, verified, identity, link, req, breaks, history>>

Handle(r) ==
    \/ Register(r) \/ CreateUser(r) \/ SendVerification(r) \/ VerifyEmail(r)
    \/ AskChange(r) \/ RequestEmailChange(r) \/ ConfirmEmailChange(r)
    \/ SignIn(r) \/ FindOrCreateUser(r) \/ Break(r)

Next ==
    \/ \E r \in Requests : Handle(r)
    \/ SignIn(Visitor) \/ FindOrCreateUser(Visitor) \/ Break(Visitor)
    \/ \E l \in Links : LinkExpires(l)
    \/ \E u \in Users : ResetPassword(u)

Fairness == WF_vars(SignIn(Visitor)) /\ WF_vars(FindOrCreateUser(Visitor))

Spec == Init /\ [][Next]_vars /\ Fairness

-----------------------------------------------------------------------------
(* Properties.                                                             *)

(* An address that counts as confirmed was confirmed: a link mailed to     *)
(* this very address was opened for this very account, or a provider       *)
(* vouched for it, whatever changes and links were under way together.     *)
VerifiedIsReached == \A u \in verified : <<u, email[u]>> \in proven

(* The account has the address, or has left it for a confirmed one.        *)
HasOrLeft(u, a) == email[u] = a \/ (<<u, a>> \in left /\ <<u, email[u]>> \in proven)

(* find_or_create_user looks for the account by the address, and binds it  *)
(* two statements later by its id.  An identity is bound only to an        *)
(* account that has the address the provider gave, or had it and has moved *)
(* on meanwhile by a confirmed change; never to another's.                 *)
BoundByAddress == [][identity' # identity =>
    \E r \in Handlers :
        /\ At(r, "bind") /\ identity' = req[r].who
        /\ HasOrLeft(req[r].who, req[r].addr)]_vars

(* The visitor's identity is bound to an account in the end, wherever his  *)
(* earlier sign-ins broke off: he keeps trying, and failures end.          *)
SignInWorks == <>(identity # None)

(* An address the account had has been told that it is to move to a, or is *)
(* about to be told; or this very notice was lost: the handler broke off   *)
(* after the mail with the link and before the notice.                     *)
Told(u, a) ==
    \/ \E old \in Addresses \cup {Synthetic} : old # a /\ <<u, old, a>> \in told
    \/ \E r \in Handlers : At(r, "notify") /\ req[r].who = u /\ req[r].addr = a
    \/ <<u, None, a>> \in told

(* The comment in request_email_change: the old address learns of the      *)
(* change, even if it was not the owner of the account who asked for it.   *)
(* When an account moves to an address, one it had when that was asked for *)
(* has been told, or is about to be.  The code keeps this but for one case:*)
(* the handler that asked broke off between its two mails.  No failure of  *)
(* another statement or of another handler leaves a change untold.         *)
OldAddressIsTold == [][\A u \in Users :
    email[u] \notin {None, email'[u]} => Told(u, email'[u])]_vars

-----------------------------------------------------------------------------
(* What the proofs in AccountsProofs keep from step to step.               *)

Known(u) == u \in Users /\ email[u] # None

(* The account still has the address, or one that was confirmed since.     *)
Trusts(u, a) == email[u] = a \/ <<u, email[u]>> \in proven

LinkOK(l) == link[l].kind # "none" =>
    /\ Known(link[l].user) /\ link[l].to # None
    /\ link[l].mailed \in {None, link[l].to}
    /\ link[l].kind = "verify" => Trusts(link[l].user, link[l].to)

Holds(q, kind) == q.link \in Links /\ link[q.link].kind = kind

CallOK(r) == LET q == req[r] IN
    /\ q.step \notin Answers \cup {"open", "use"} => q.addr # None
    /\ q.step \in {"token", "post", "mark", "ask", "free", "store", "invite",
                   "notify", "check", "move", "vouch", "bind"} => Known(q.who)
    /\ q.step \in {"token", "post", "vouch"} => Trusts(q.who, q.addr)
    /\ q.step \in {"vouch", "bind"} => HasOrLeft(q.who, q.addr)
    /\ q.step \in {"check", "move"} => <<q.who, q.addr>> \in proven
    /\ q.step = "mark" => <<q.who, email[q.who]>> \in proven
    /\ q.step = "post" => Holds(q, "verify") /\ link[q.link].to = q.addr
    /\ q.step = "invite" => Holds(q, "change") /\ link[q.link].to = q.addr
    /\ q.step = "open" => Holds(q, "verify") /\ link[q.link].mailed # None
    /\ q.step = "use" => Holds(q, "change") /\ link[q.link].mailed # None

AccountsInv ==
    /\ VerifiedIsReached
    /\ \A u \in verified \cup password : email[u] # None
    /\ \A l \in Links : LinkOK(l)
    /\ \A r \in Handlers : CallOK(r)

(* No link to a new address is mailed but by a handler that goes on to     *)
(* tell the address the account had.                                       *)
TellCall(r) ==
    /\ At(r, "free") \/ At(r, "store") \/ At(r, "invite") \/ At(r, "notify") =>
           req[r].from \notin {None, req[r].addr}
    /\ At(r, "invite") => link[req[r].link].user = req[r].who
    /\ At(r, "check") \/ At(r, "move") => Told(req[r].who, req[r].addr)

TellInv ==
    /\ \A r \in Handlers : TellCall(r)
    /\ \A l \in Links :
          link[l].kind = "change" /\ link[l].mailed # None => Told(link[l].user, link[l].to)
=============================================================================

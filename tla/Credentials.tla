----------------------------- MODULE Credentials ----------------------------
(***************************************************************************)
(* What opens the account of one user, and what changes it: login, the     *)
(* second factor, sign-in through a provider, change and reset of the      *)
(* password, turning the second factor on and off.  server/src/auth/mod.rs,*)
(* account.rs, jwt.rs, password.rs and their handlers under auth/http/.    *)
(*                                                                         *)
(* A request is an async function: it reads the row of users once, decides *)
(* on what it has read, and writes in later statements of their own, each  *)
(* committed by itself.  Between two of them any other request may run, an *)
(* argon2 hash takes tens of milliseconds, and the request may end: the    *)
(* statement fails, or the client leaves and the handler is dropped.       *)
(***************************************************************************)
EXTENDS Naturals, FiniteSets

CONSTANTS
    Requests,   \* calls of the handlers, each made at most once
    Passwords,  \* passwords of legal length
    Secrets,    \* TOTP secrets; a code is told by the secret it belongs to
    Links,      \* tokens of password_reset_tokens
    Device,     \* a device that may be signed in before the first request
    None

ASSUME CredentialsAssumption ==
    /\ None \notin Passwords \cup Secrets \cup Links \cup Requests
    /\ Device \notin Requests

Holders  == Requests \cup {Device}
Accounts == [password : Passwords \cup {None}, secret : Secrets \cup {None}]
Kinds    == {"login", "verify", "callback", "change", "forgot", "reset",
             "enable", "disable"}
Calls    == [kind : Kinds, give : Passwords \cup Secrets \cup {None},
             offer : Passwords \cup Secrets \cup {None}, link : Links \cup {None},
            first : Requests \cup {None}]
Steps    == {"idle", "read", "issue", "pending", "write", "set", "revoke",
             "mail", "ok", "over"}

VARIABLES
    account,    \* password_hash and totp_secret of the row of users
    call, at,   \* what each request asks for, and the step it is to take next
    session,    \* the session each holder was given; "rotating" while a refresh
                \* holds its row; his access token outlives it (15 minutes)
    pending,    \* requests answered with a pending-2FA token that is not expired
    link,       \* rows of password_reset_tokens; "mailed": its owner has it
    seen,       \* history: states of the account while each request ran
    standing    \* history: sessions to end, noted when a request set the password

vars == <<account, call, at, session, pending, link, seen, standing>>

NoCall == [kind |-> "login", give |-> None, offer |-> None, link |-> None,
           first |-> None]

TypeOK ==
    /\ account \in Accounts
    /\ call \in [Requests -> Calls]
    /\ at \in [Requests -> Steps]
    /\ session \in [Holders -> {"none", "live", "rotating", "revoked"}]
    /\ pending \in SUBSET Requests
    /\ link \in [Links -> {"none", "written", "mailed", "used", "expired", "gone"}]
    /\ seen \in [Requests -> SUBSET Accounts]
    /\ standing \in [Requests -> SUBSET Holders]

(* Any account there can be: one of VK or Yandex has no password.          *)
Init ==
    /\ account \in Accounts
    /\ call = [r \in Requests |-> NoCall]
    /\ at = [r \in Requests |-> "idle"]
    /\ session \in [Holders -> {"none", "live"}]
    /\ \A r \in Requests : session[r] = "none"
    /\ pending = {}
    /\ link = [l \in Links |-> "none"]
    /\ seen = [r \in Requests |-> {}]
    /\ standing = [r \in Requests |-> {}]

Running(r) == at[r] \notin {"idle", "pending", "ok", "over"}

(* The row of users is written; what it was and is goes into history.      *)
Write(new) ==
    /\ account' = new
    /\ seen' = [q \in Requests |-> IF Running(q) THEN seen[q] \cup {new} ELSE seen[q]]

Go(r, step) == at' = [at EXCEPT ![r] = step]

Begin(r, step, c) ==
    /\ at[r] = "idle"
    /\ Go(r, step)
    /\ call' = [call EXCEPT ![r] = c]
    /\ seen' = [seen EXCEPT ![r] = {account}]
    /\ UNCHANGED <<account, session, pending, link, standing>>

(* CurrentUser: a bearer token was signed for some session of the user.    *)
SignedIn == \E h \in Holders : session[h] # "none"

-----------------------------------------------------------------------------
(* The calls.                                                              *)

Login(r) == \E p \in Passwords :
    Begin(r, "read", [NoCall EXCEPT !.give = p])

(* Mutant: the token of any request will do.                               *)
Verify2fa_AnyToken(r) == \E s \in Secrets, q \in Requests :
    Begin(r, "read", [NoCall EXCEPT !.kind = "verify", !.give = s, !.first = q])
(* verify_pending_2fa: the token some first step was answered with, of this*)
(* purpose and not expired; it is not used up.                             *)
Verify2fa(r) == \E s \in Secrets, q \in pending :
    Begin(r, "read", [NoCall EXCEPT !.kind = "verify", !.give = s, !.first = q])

(* The provider vouches for the identity; no password is asked.            *)
Callback(r) == Begin(r, "read", [NoCall EXCEPT !.kind = "callback"])

ChangePassword(r) == \E p, n \in Passwords :
    /\ SignedIn
    /\ Begin(r, "read", [NoCall EXCEPT !.kind = "change", !.give = p, !.offer = n])

Forgot(r) == \E l \in Links :
    /\ link[l] = "none" /\ \A q \in Requests : call[q].kind = "forgot" => call[q].link # l
    /\ Begin(r, "write", [NoCall EXCEPT !.kind = "forgot", !.link = l])

Reset(r) == \E l \in Links, n \in Passwords :
    /\ link[l] \notin {"none", "written"}
    /\ Begin(r, "write", [NoCall EXCEPT !.kind = "reset", !.link = l, !.offer = n])

(* totp_setup stores nothing: the secret to turn on comes from the client. *)
EnableTotp(r) == \E s, c \in Secrets :
    /\ SignedIn
    /\ Begin(r, "read", [NoCall EXCEPT !.kind = "enable", !.offer = s, !.give = c])

DisableTotp(r) == \E c \in Secrets :
    /\ SignedIn
    /\ Begin(r, "read", [NoCall EXCEPT !.kind = "disable", !.give = c])

-----------------------------------------------------------------------------
(* Where a call goes once it has read the account.                         *)

LoginVerdict(c) ==
    IF account.password = None \/ account.password # c.give THEN "over"
    ELSE IF account.secret # None THEN "pending" ELSE "issue"

VerifyVerdict(c) ==
    IF account.secret # None /\ account.secret = c.give THEN "issue" ELSE "over"

CallbackVerdict == IF account.secret # None THEN "pending" ELSE "issue"

(* Mutant: an account without a password accepts any.                      *)
CurrentPassword_AnyIfNone(p) == account.password \in {None, p}
CurrentPassword(p) == account.password # None /\ account.password = p

(* Mutant: a second factor that is on can be turned on again.              *)
EnableVerdict_Again(c) == IF c.offer = c.give THEN "write" ELSE "over"
EnableVerdict(c) ==
    IF account.secret = None /\ c.offer = c.give THEN "write" ELSE "over"

DisableVerdict(c) ==
    IF account.secret # None /\ account.secret = c.give THEN "write" ELSE "over"

Verdict(c) ==
    CASE c.kind = "login"    -> LoginVerdict(c)
      [] c.kind = "verify"   -> VerifyVerdict(c)
      [] c.kind = "callback" -> CallbackVerdict
      [] c.kind = "change"   -> IF CurrentPassword(c.give) THEN "set" ELSE "over"
      [] c.kind = "enable"   -> EnableVerdict(c)
      [] c.kind = "disable"  -> DisableVerdict(c)

(* find_by_email, find_by_id: one row, and everything up to the next       *)
(* statement.                                                              *)
ReadAccount(r) ==
    /\ at[r] = "read"
    /\ Go(r, Verdict(call[r]))
    /\ pending' = IF Verdict(call[r]) = "pending" THEN pending \cup {r} ELSE pending
    /\ UNCHANGED <<account, call, session, link, seen, standing>>

-----------------------------------------------------------------------------
(* The statements that write.                                              *)

IssueSession(r) ==
    /\ at[r] = "issue"
    /\ Go(r, "ok")
    /\ session' = [session EXCEPT ![r] = "live"]
    /\ UNCHANGED <<account, call, pending, link, seen, standing>>

StoreLink(r) ==
    /\ at[r] = "write" /\ call[r].kind = "forgot"
    /\ Go(r, "mail")
    /\ link' = [link EXCEPT ![call[r].link] = "written"]
    /\ UNCHANGED <<account, call, session, pending, seen, standing>>

MailLink(r) ==
    /\ at[r] = "mail"
    /\ Go(r, "ok")
    /\ link' = [link EXCEPT ![call[r].link] = IF @ = "written" THEN "mailed" ELSE @]
    /\ UNCHANGED <<account, call, session, pending, seen, standing>>

(* Mutant: the link is looked up and not marked as used.                   *)
Spent_Looked(l) == link
Spent(l) == [link EXCEPT ![l] = "used"]

UseLink(r) ==
    /\ at[r] = "write" /\ call[r].kind = "reset"
    /\ IF link[call[r].link] = "mailed"
       THEN Go(r, "set") /\ link' = Spent(call[r].link)
       ELSE Go(r, "over") /\ UNCHANGED link
    /\ UNCHANGED <<account, call, session, pending, seen, standing>>

(* Mutant: a reset ends no session.                                        *)
SetPassword_KeepSessions(r) ==
    /\ at[r] = "set"
    /\ Go(r, IF call[r].kind = "reset" THEN "ok" ELSE "revoke")
    /\ Write([account EXCEPT !.password = call[r].offer])
    /\ standing' = [standing EXCEPT ![r] = {h \in Holders : session[h] # "none"}]
    /\ UNCHANGED <<call, session, pending, link>>
SetPassword(r) ==
    /\ at[r] = "set"
    /\ Go(r, "revoke")
    /\ Write([account EXCEPT !.password = call[r].offer])
    /\ standing' = [standing EXCEPT ![r] = {h \in Holders : session[h] # "none"}]
    /\ UNCHANGED <<call, session, pending, link>>

(* One UPDATE.  A row that a refresh holds is not ended: it is replaced by *)
(* one the UPDATE does not see (Sessions shows this row by row).           *)
Revoked == [h \in Holders |-> IF session[h] = "live" THEN "revoked" ELSE session[h]]

RevokeAll(r) ==
    /\ at[r] = "revoke"
    /\ Go(r, "ok")
    /\ session' = Revoked
    /\ standing' = [standing EXCEPT ![r] = {h \in @ : session[h] # "rotating"}]
    /\ UNCHANGED <<account, call, pending, link, seen>>

SetSecret(r) ==
    /\ at[r] = "write" /\ call[r].kind \in {"enable", "disable"}
    /\ Go(r, "ok")
    /\ Write([account EXCEPT !.secret = call[r].offer])
    /\ UNCHANGED <<call, session, pending, link, standing>>

(* A statement fails, the hash fails, or the client is gone.               *)
Break(r) ==
    /\ at[r] \in {"read", "issue", "write", "set", "revoke", "mail"}
    /\ Go(r, "over")
    /\ UNCHANGED <<account, call, session, pending, link, seen, standing>>

-----------------------------------------------------------------------------
(* Time, the sweep, and refreshes.                                         *)

PendingExpires == \E r \in pending :
    /\ pending' = pending \ {r}
    /\ UNCHANGED <<account, call, at, session, link, seen, standing>>

LinkExpires == \E l \in Links :
    /\ link[l] \in {"written", "mailed"}
    /\ link' = [link EXCEPT ![l] = "expired"]
    /\ UNCHANGED <<account, call, at, session, pending, seen, standing>>

CleanupLinks ==
    /\ \E l \in Links : link[l] \in {"used", "expired"}
    /\ link' = [l \in Links |-> IF link[l] \in {"used", "expired"} THEN "gone" ELSE link[l]]
    /\ UNCHANGED <<account, call, at, session, pending, seen, standing>>

Refresh(h) ==
    /\ session[h] \in {"live", "rotating"}
    /\ session' = [session EXCEPT ![h] = IF @ = "live" THEN "rotating" ELSE "live"]
    /\ UNCHANGED <<account, call, at, pending, link, seen, standing>>

Ask(r) ==
    \/ Login(r) \/ Verify2fa(r) \/ Callback(r) \/ ChangePassword(r)
    \/ Forgot(r) \/ Reset(r) \/ EnableTotp(r) \/ DisableTotp(r)

Proceed(r) ==
    \/ ReadAccount(r) \/ IssueSession(r) \/ StoreLink(r) \/ MailLink(r) \/ UseLink(r)
    \/ SetPassword(r) \/ RevokeAll(r) \/ SetSecret(r) \/ Break(r)

Next ==
    \/ \E r \in Requests : Ask(r) \/ Proceed(r)
    \/ PendingExpires \/ LinkExpires \/ CleanupLinks
    \/ \E h \in Holders : Refresh(h)

Spec == Init /\ [][Next]_vars

-----------------------------------------------------------------------------
(* Properties.                                                             *)

Opens(r) == session[r] = "none" /\ session'[r] # "none"

(* The first of two steps was taken: its password was the account's while  *)
(* it ran, or the provider vouched for the user.                           *)
FirstStep(q) ==
    /\ at[q] = "pending"
    /\ \/ call[q].kind = "callback"
       \/ /\ call[q].kind = "login"
          /\ \E a \in seen[q] : a.password # None /\ a.password = call[q].give

(* The callback's comment: signing in through a provider does not cancel   *)
(* the second factor.  Whoever opens a session, by whatever way, had all   *)
(* the account asked for.  In one step: the password, or the provider, of  *)
(* an account that had no second factor at that moment.  In two: a code of *)
(* the secret there was, and a first step of his own that was passed.      *)
SignInIsProven == [][\A r \in Requests : Opens(r) =>
    \E a \in seen[r] :
        CASE call[r].kind = "login"    -> a = [password |-> call[r].give, secret |-> None]
          [] call[r].kind = "callback" -> a.secret = None
          [] call[r].kind = "verify"   -> /\ a.secret # None /\ a.secret = call[r].give
                                          /\ FirstStep(call[r].first)]_vars

(* change_password, reset_password: once they have answered, every session *)
(* that stood when the password was set is over, but one whose refresh was *)
(* in the middle of its transaction when the sessions were ended.          *)
ChangeEndsSessions == \A r \in Requests :
    at[r] = "ok" => \A h \in standing[r] : session[h] \notin {"live", "rotating"}

(* A link from a mail sets the password once, however often and however    *)
(* closely together it is opened.                                          *)
ResetOnce == \A l \in Links :
    Cardinality({r \in Requests : call[r].link = l /\ standing[r] # {}}) <= 1

(* account.rs: "nothing changes without the current password".  The        *)
(* password is changed by one who gave a password that was in force since  *)
(* he began, or who opened a link that was mailed.                         *)
PasswordIsAuthorised == [][account'.password # account.password =>
    \E r \in Requests :
        /\ at[r] = "set" /\ at'[r] = "revoke"
        /\ \/ call[r].kind = "reset" /\ link[call[r].link] \in {"used", "gone"}
           \/ \E a \in seen[r] : a.password # None /\ a.password = call[r].give]_vars

(* The second factor is turned off only with a code of a secret that was   *)
(* in force since the call began, and set only by a call that found it off *)
(* since it began, and with a code of the secret it sets.                  *)
SecretIsAuthorised == [][account'.secret # account.secret =>
    \E r \in Requests :
        /\ at[r] = "write" /\ at'[r] = "ok"
        /\ \E a \in seen[r] :
               IF account'.secret = None
               THEN a.secret # None /\ a.secret = call[r].give
               ELSE a.secret = None /\ account'.secret = call[r].give]_vars

(* The comment at change_password: "the login of a stranger must end right *)
(* now", so a password that was changed opens nothing once the change has  *)
(* been answered.                                                          *)
OldPasswordOpensNothing == [][\A r, c \in Requests :
    /\ Opens(r) /\ call[r].kind = "login"
    /\ at[c] = "ok" /\ call[c].kind = "change" /\ call[c].offer = account.password
    => call[r].give = account.password]_vars

-----------------------------------------------------------------------------
(* What the proofs keep: together with TypeOK these parts are inductive.   *)

(* What a call of each kind asks for.                                      *)
CallShape == \A r \in Requests :
    /\ at[r] = "idle" => call[r] = NoCall
    /\ call[r].kind \in {"change", "reset"} => call[r].offer \in Passwords
    /\ call[r].kind \in {"forgot", "reset"} <=> call[r].link \in Links
    /\ call[r].kind = "enable" => call[r].offer \in Secrets
    /\ call[r].kind = "disable" => call[r].offer = None

(* The steps a call of each kind gets to.                                  *)
StepsOfKinds == \A r \in Requests :
    /\ at[r] = "read" => call[r].kind \notin {"forgot", "reset"}
    /\ at[r] = "issue" => call[r].kind \in {"login", "verify", "callback"}
    /\ at[r] = "write" => call[r].kind \in {"forgot", "reset", "enable", "disable"}
    /\ at[r] = "mail" => call[r].kind = "forgot"
    /\ at[r] = "set" => call[r].kind \in {"change", "reset"}

(* A call on its way has seen the account as it is, and writes on grounds  *)
(* it has seen.                                                            *)
Grounds == \A r \in Requests :
    /\ Running(r) => account \in seen[r]
    /\ at[r] = "issue" => \E a \in seen[r] :
           \/ call[r].kind = "login" /\ a = [password |-> call[r].give, secret |-> None]
           \/ call[r].kind = "callback" /\ a.secret = None
           \/ call[r].kind = "verify" /\ a.secret = call[r].give /\ a.secret # None
    /\ at[r] = "set" /\ call[r].kind = "change" =>
           \E a \in seen[r] : a.password # None /\ a.password = call[r].give
    /\ at[r] = "write" /\ call[r].kind = "enable" =>
           call[r].offer = call[r].give /\ \E a \in seen[r] : a.secret = None
    /\ at[r] = "write" /\ call[r].kind = "disable" =>
           \E a \in seen[r] : a.secret # None /\ a.secret = call[r].give

(* A pending token is given for a first step, and a second one has such.   *)
TokensEarned == \A r \in Requests :
    /\ r \in pending => FirstStep(r)
    /\ call[r].kind = "verify" =>
           call[r].first \in Requests /\ FirstStep(call[r].first)

(* The reset r has its link used up, and sets the password or has set it.  *)
UsedUp(r) ==
    /\ call[r].kind = "reset"
    /\ at[r] \in {"set", "revoke"} \/ standing[r] # {}

(* A link is made by one call, and used up by at most one.                 *)
LinksApart == \A q, r \in Requests :
    /\ call[r].kind = "forgot" /\ at[r] = "write" => link[call[r].link] = "none"
    /\ UsedUp(r) => link[call[r].link] \in {"used", "gone"}
    /\ q # r /\ call[q].kind = "forgot" /\ call[r].kind = "forgot"
           => call[q].link # call[r].link
    /\ q # r /\ UsedUp(q) /\ UsedUp(r) => call[q].link # call[r].link

(* A session is opened once; those that are to end have been opened.       *)
SessionsEnd == \A r \in Requests :
    /\ at[r] \in {"idle", "read", "issue"} => session[r] = "none"
    /\ standing[r] # {} => /\ call[r].kind \in {"change", "reset"}
                           /\ at[r] \in {"revoke", "ok", "over"}
    /\ \A h \in standing[r] : session[h] # "none"
    /\ at[r] = "ok" => \A h \in standing[r] : session[h] = "revoked"
=============================================================================

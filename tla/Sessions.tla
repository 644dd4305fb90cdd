------------------------------- MODULE Sessions ------------------------------
(***************************************************************************)
(* The sessions of one user: server/src/auth/sessions.rs and the part of   *)
(* auth::cleanup_expired_tokens that sweeps refresh_tokens.                *)
(*                                                                         *)
(* A session is a chain of refresh tokens: every refresh revokes the       *)
(* presented token and stores its successor in one transaction.  Requests  *)
(* run concurrently at READ COMMITTED: an UPDATE or DELETE picks its rows  *)
(* from the snapshot of its start, waits for those another transaction     *)
(* holds, and looks at each of them again once it has its lock.  Rows that *)
(* were not in the snapshot are never seen.                                *)
(***************************************************************************)
EXTENDS Naturals, FiniteSets

CONSTANTS
    Tokens,     \* values of new_raw_token; each is stored at most once
    Requests,   \* requests in work, the sweep among them
    Nobody

ASSUME SessionsAssumption ==
    /\ IsFiniteSet(Tokens) /\ IsFiniteSet(Requests)
    /\ Nobody \notin Requests /\ Nobody \notin Tokens

(* A session id is named by the first token of the chain.                  *)
Kinds == {"idle", "rotate", "logout", "all", "one", "mine", "others", "cleanup"}
Jobs  == [kind : Kinds, arg : Tokens \cup {Nobody}]
Idle  == [kind |-> "idle", arg |-> Nobody]
Rows  == {"none", "live", "expired", "revoked", "deleted"}

VARIABLES
    row,        \* committed rows of refresh_tokens; "expired": past expires_at,
                \* while revoked_at is null
    session,    \* session_id of each row
    job,        \* what each request is doing
    todo,       \* rows of its snapshot it has not come to yet
    lock,       \* who holds each row until the end of his transaction
    closed      \* history: sessions whose live row was taken away

vars == <<row, session, job, todo, lock, closed>>

Init ==
    /\ row = [t \in Tokens |-> "none"]
    /\ session = [t \in Tokens |-> Nobody]
    /\ job = [p \in Requests |-> Idle]
    /\ todo = [p \in Requests |-> {}]
    /\ lock = [t \in Tokens |-> Nobody]
    /\ closed = {}

Unrevoked(t) == row[t] \in {"live", "expired"}
Held(p)   == {t \in Tokens : lock[t] = p}
Begun     == {t \in Tokens : session[t] = t}
LiveOf(s) == {t \in Tokens : Unrevoked(t) /\ session[t] = s}

(* Mutant: the current session is told by its token, not by its id.        *)
Matches_ByToken(j, t) ==
    CASE j.kind = "rotate"  -> t = j.arg /\ Unrevoked(t)
      [] j.kind = "logout"  -> t = j.arg /\ row[t] \in {"live", "expired", "revoked"}
      [] j.kind = "all"     -> Unrevoked(t)
      [] j.kind = "one"     -> Unrevoked(t) /\ session[t] = j.arg
      [] j.kind = "others"  -> Unrevoked(t) /\ t # j.arg
      [] j.kind = "cleanup" -> row[t] \in {"expired", "revoked"}
      [] OTHER              -> FALSE

(* The WHERE of each statement.                                            *)
Matches(j, t) ==
    CASE j.kind = "rotate"  -> t = j.arg /\ Unrevoked(t)
      [] j.kind = "logout"  -> t = j.arg /\ row[t] \in {"live", "expired", "revoked"}
      [] j.kind = "all"     -> Unrevoked(t)
      [] j.kind = "one"     -> Unrevoked(t) /\ session[t] = j.arg
      [] j.kind = "others"  -> Unrevoked(t) /\ session[t] # j.arg
      [] j.kind = "cleanup" -> row[t] \in {"expired", "revoked"}
      [] OTHER              -> FALSE

-----------------------------------------------------------------------------
(* The bound on tokens: rotations in work must find fresh ones.            *)
Spare == Cardinality({t \in Tokens : row[t] = "none"}) >
         Cardinality({p \in Requests : job[p].kind = "rotate"})

(* issue: the row of a new session, after a login.                         *)
Issue(t) ==
    /\ row[t] = "none" /\ Spare
    /\ row' = [row EXCEPT ![t] = "live"]
    /\ session' = [session EXCEPT ![t] = t]
    /\ UNCHANGED <<job, todo, lock, closed>>

(* That of a revoked row makes no difference any more.                     *)
Expire(t) ==
    /\ row[t] = "live"
    /\ row' = [row EXCEPT ![t] = "expired"]
    /\ UNCHANGED <<session, job, todo, lock, closed>>

(* A statement begins: its snapshot decides which rows it will visit, its  *)
(* now() which of them are past expires_at.                                *)
Start(p, j) ==
    /\ job' = [job EXCEPT ![p] = j]
    /\ todo' = [todo EXCEPT ![p] = {t \in Tokens :
           Matches(j, t) /\ (j.kind = "rotate" => row[t] = "live")}]
    /\ UNCHANGED <<row, session, lock, closed>>

(* Requests come with a token they were given, or with the id of a session *)
(* from the list.                                                          *)
BeginRequest(p) ==
    /\ job[p] = Idle
    /\ \/ \E t \in Tokens :
              /\ row[t] # "none"
              /\ \/ Start(p, [kind |-> "logout", arg |-> t])
                 \/ Spare /\ Start(p, [kind |-> "rotate", arg |-> t])
       \/ \E s \in Begun : Start(p, [kind |-> "one", arg |-> s])
       \/ \E k \in {"all", "cleanup"} : Start(p, [kind |-> k, arg |-> Nobody])

(* revoke_others reads the session of the presented token first ...        *)
SelectCurrent(p) ==
    /\ job[p] = Idle
    /\ \E t \in Tokens :
           /\ Unrevoked(t)
           /\ job' = [job EXCEPT ![p] = [kind |-> "mine", arg |-> session[t]]]
    /\ UNCHANGED <<row, session, todo, lock, closed>>

(* ... and revokes the rest in a second statement.                         *)
BeginOthers(p) ==
    /\ job[p].kind = "mine"
    /\ Start(p, [kind |-> "others", arg |-> job[p].arg])

(* Mutant: the row is not looked at again after the wait.                  *)
Visit_Blindly(p) ==
    \E t \in todo[p] :
        /\ lock[t] = Nobody
        /\ todo' = [todo EXCEPT ![p] = @ \ {t}]
        /\ lock' = [lock EXCEPT ![t] = p]
        /\ UNCHANGED <<row, session, job, closed>>

(* Mutant: SKIP LOCKED, as in the queues.                                  *)
Visit_SkipLocked(p) ==
    \E t \in todo[p] :
        /\ todo' = [todo EXCEPT ![p] = @ \ {t}]
        /\ lock' = IF lock[t] = Nobody /\ Matches(job[p], t)
                   THEN [lock EXCEPT ![t] = p] ELSE lock
        /\ UNCHANGED <<row, session, job, closed>>

(* The next row: wait for its lock, then test the WHERE on what it is now. *)
Visit(p) ==
    \E t \in todo[p] :
        /\ lock[t] = Nobody
        /\ todo' = [todo EXCEPT ![p] = @ \ {t}]
        /\ lock' = IF Matches(job[p], t) THEN [lock EXCEPT ![t] = p] ELSE lock
        /\ UNCHANGED <<row, session, job, closed>>

Visited(p) == job[p].kind \notin {"idle", "mine"} /\ todo[p] = {}

Release(p) ==
    /\ job' = [job EXCEPT ![p] = Idle]
    /\ todo' = [todo EXCEPT ![p] = {}]
    /\ lock' = [t \in Tokens |-> IF lock[t] = p THEN Nobody ELSE lock[t]]

(* refresh: the old row revoked and the new one stored, in one COMMIT.     *)
Rotate(p) ==
    /\ Visited(p) /\ job[p].kind = "rotate" /\ Held(p) # {}
    /\ \E new \in Tokens :
           /\ row[new] = "none"
           /\ row' = [t \in Tokens |-> CASE t = new       -> "live"
                                         [] t \in Held(p) -> "revoked"
                                         [] OTHER         -> row[t]]
           /\ session' = [session EXCEPT ![new] = session[job[p].arg]]
    /\ Release(p)
    /\ UNCHANGED closed

(* refresh: no such row any more, 401.                                     *)
RefuseRotation(p) ==
    /\ Visited(p) /\ job[p].kind = "rotate" /\ Held(p) = {}
    /\ Release(p)
    /\ UNCHANGED <<row, session, closed>>

(* logout, revoke, revoke_all, revoke_others, the sweep: the statement is  *)
(* its own transaction.                                                    *)
TakeAway(p) ==
    LET gone == IF job[p].kind = "cleanup" THEN "deleted" ELSE "revoked"
    IN
    /\ Visited(p) /\ job[p].kind # "rotate"
    /\ row' = [t \in Tokens |-> IF t \in Held(p) THEN gone ELSE row[t]]
    /\ closed' = closed \cup {session[t] : t \in {u \in Held(p) : Unrevoked(u)}}
    /\ Release(p)
    /\ UNCHANGED session

(* An error, a dropped handler, a deadlock broken by Postgres: rolled back.*)
Fail(p) ==
    /\ job[p] # Idle
    /\ Release(p)
    /\ UNCHANGED <<row, session, closed>>

-----------------------------------------------------------------------------
Proceed(p) ==
    \/ BeginOthers(p) \/ Visit(p) \/ Rotate(p) \/ RefuseRotation(p) \/ TakeAway(p)

Next ==
    \/ \E t \in Tokens : Issue(t) \/ Expire(t)
    \/ \E p \in Requests :
           BeginRequest(p) \/ SelectCurrent(p) \/ Proceed(p) \/ Fail(p)

Spec == Init /\ [][Next]_vars

-----------------------------------------------------------------------------
(* Properties.                                                             *)

TypeOK ==
    /\ row \in [Tokens -> Rows]
    /\ session \in [Tokens -> Tokens \cup {Nobody}]
    /\ job \in [Requests -> Jobs]
    /\ todo \in [Requests -> SUBSET Tokens]
    /\ lock \in [Tokens -> Requests \cup {Nobody}]
    /\ closed \subseteq Tokens

(* refresh: a session has one row in the list at any time, neither lost    *)
(* nor doubled by requests that rotate the same token, until something     *)
(* takes that row away; after that it never has one again.                 *)
OneTokenPerSession ==
    \A s \in Begun :
        IF s \in closed THEN LiveOf(s) = {}
                        ELSE \E t \in Tokens : LiveOf(s) = {t}

(* revoke_others: "the current session stays alive", although its token    *)
(* may be rotated between the two statements.                              *)
CurrentIsSpared ==
    [][\A p \in Requests :
           job[p].kind = "others" /\ job'[p] = Idle =>
               \A t \in LiveOf(job[p].arg) : row'[t] = row[t]]_vars

-----------------------------------------------------------------------------
(* What the proofs in SessionsProofs keep from step to step.               *)

(* A row is locked by a request at work on it, and as that request saw it. *)
LocksAreHeld ==
    \A t \in Tokens : lock[t] # Nobody =>
        LET j == job[lock[t]]
        IN  /\ j.kind \notin {"idle", "mine"}
            /\ j.kind \in {"rotate", "all", "one", "others"} => Unrevoked(t)
            /\ j.kind = "rotate" => t = j.arg
            /\ j.kind = "others" => session[t] # j.arg
            /\ row[t] # "none"

(* Only rows that were stored have a session, named by a row of its own.   *)
ChainsAreNamed ==
    \A t \in Tokens : IF row[t] = "none" THEN session[t] = Nobody
                                         ELSE session[t] \in Begun

SessionsInv ==
    /\ LocksAreHeld /\ ChainsAreNamed /\ closed \subseteq Begun
    /\ OneTokenPerSession
=============================================================================

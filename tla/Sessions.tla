------------------------------- MODULE Sessions -------------------------------
(***************************************************************************)
(* Refresh-token sessions and the password of one account: AuthService's   *)
(* login, refresh, logout, forgot_password and reset_password as           *)
(* concurrent READ COMMITTED transactions.                                 *)
(*                                                                         *)
(* A request answers its client before get_db commits.  What a transaction *)
(* has written is locked by it and not seen by the others until it         *)
(* commits.  A password is represented by how many resets preceded it.     *)
(* The fields gen, parent, root, forked and late of a session are history, *)
(* as is spent: no code reads them.                                        *)
(***************************************************************************)
EXTENDS Naturals

CONSTANTS
    MaxSession,  \* bound: refresh tokens issued
    Req,         \* requests in flight at once
    Token        \* password reset tokens, each drawn once

ASSUME SessionsAssumption == MaxSession \in Nat

Sid == 1 .. MaxSession
UserRow == 0              \* the account's row in users
Row == {UserRow} \cup Sid \* a session's row is named by its jti

VARIABLES
    password,  \* users.hashed_password
    session,   \* user_sessions
    next,      \* the jti drawn next
    store,     \* reset tokens: Redis, or _reset_store of a single process
    req,       \* the requests in flight
    spent      \* history of the reset tokens

vars == <<password, session, next, store, req, spent>>

Session == [state : {"none", "live", "revoked"},
            gen : Nat,        \* password its login presented
            parent : Row,     \* session it replaced; UserRow: none
            root : Row,       \* the login it goes back to
            forked : BOOLEAN, \* two refreshes of an ancestor overlapped
            late : BOOLEAN]   \* its login or a refresh overlapped a reset

NoSession == [state |-> "none", gen |-> 0, parent |-> UserRow, root |-> UserRow,
              forked |-> FALSE, late |-> FALSE]

Request == [pc : {"idle", "write", "revoke", "rows", "burn", "respond", "commit"},
            op : {"none", "login", "refresh", "logout", "reset"},
            sid : Row,          \* the session it loaded
            jti : Row,          \* the session it issues
            new : Session,      \* ... and its row
            tokens : SUBSET Token, \* the reset token it presented
            hits : SUBSET Sid,  \* rows revoke_all_for_user still has to visit
            locks : SUBSET Row] \* rows it has written

Idle == [pc |-> "idle", op |-> "none", sid |-> UserRow, jti |-> UserRow,
         new |-> NoSession, tokens |-> {}, hits |-> {}, locks |-> {}]

\* What has become of a reset token: how many changes of the password it has brought,
\* whether two resets had it at once, and whether it was lost, to its expiry or to a
\* reset that failed after deleting it.
Fate == [uses : Nat, shared : BOOLEAN, lost : BOOLEAN]
Unspent == [uses |-> 0, shared |-> FALSE, lost |-> FALSE]

Init ==
    /\ password = 0
    /\ session = [s \in Sid |-> NoSession]
    /\ next = 1
    /\ store = [t \in Token |-> "new"]
    /\ req = [r \in Req |-> Idle]
    /\ spent = [t \in Token |-> Unspent]

-----------------------------------------------------------------------------

Live(s) == session[s].state = "live"

\* Requests of these operations in flight, r apart.
Others(r, ops) == {o \in Req \ {r} : req[o].op \in ops}

\* No other transaction has an uncommitted write of the row.
Unlocked(r, x) == \A o \in Req \ {r} : x \notin req[o].locks

\* The history marks of the requests when r starts: a login or refresh that
\* overlaps a reset is late, two refreshes of one session are forked.
MarkLate(ops) ==
    [o \in Req |-> IF req[o].op \in ops
                   THEN [req[o] EXCEPT !.new.late = TRUE] ELSE req[o]]

MarkForked(s) ==
    [o \in Req |-> IF req[o].op = "refresh" /\ req[o].sid = s
                   THEN [req[o] EXCEPT !.new.forked = TRUE] ELSE req[o]]

-----------------------------------------------------------------------------
(* login and refresh                                                        *)

\* The session a login issues.
LoginSession(r) ==
    [state |-> "live", gen |-> password, parent |-> UserRow, root |-> next,
     forked |-> FALSE, late |-> Others(r, {"reset"}) # {}]

\* Two refresh tokens created where one is stored.
LoginRead_Twice(r) ==
    /\ req[r].pc = "idle" /\ next \in Sid
    /\ next' = next + 2
    /\ req' = [req EXCEPT ![r] = [Idle EXCEPT
                 !.pc = "write", !.op = "login", !.jti = next, !.new = LoginSession(r)]]
    /\ UNCHANGED <<password, session, store, spent>>

\* authenticate with the current password of an active account; anything else
\* is refused and changes nothing.
LoginRead(r) ==
    /\ req[r].pc = "idle" /\ next \in Sid
    /\ next' = next + 1
    /\ req' = [req EXCEPT ![r] = [Idle EXCEPT
                 !.pc = "write", !.op = "login", !.jti = next, !.new = LoginSession(r)]]
    /\ UNCHANGED <<password, session, store, spent>>

\* _issue_tokens and flush: the new session, and users.last_login_at.
LoginWrite(r) ==
    /\ req[r].pc = "write" /\ req[r].op = "login"
    /\ Unlocked(r, UserRow)
    /\ req' = [req EXCEPT ![r].pc = "respond", ![r].locks = {UserRow}]
    /\ UNCHANGED <<password, session, next, store, spent>>

\* The session a refresh of s issues.
RefreshSession(r, s) ==
    [state |-> "live", gen |-> session[s].gen, parent |-> s, root |-> session[s].root,
     forked |-> \/ session[s].forked
                \/ \E o \in Others(r, {"refresh"}) : req[o].sid = s,
     late |-> session[s].late \/ Others(r, {"reset"}) # {}]

\* refresh without the check of is_active.
RefreshRead_Any(r, s) ==
    /\ req[r].pc = "idle" /\ next \in Sid
    /\ session[s].state # "none"
    /\ next' = next + 1
    /\ req' = [MarkForked(s) EXCEPT ![r] = [Idle EXCEPT
                 !.pc = "write", !.op = "refresh", !.sid = s, !.jti = next,
                 !.new = RefreshSession(r, s)]]
    /\ UNCHANGED <<password, session, store, spent>>

\* refresh up to the flush: the session of the token is read and must be live;
\* else, or with an expired token, 401 and nothing changes.
RefreshRead(r, s) ==
    /\ req[r].pc = "idle" /\ next \in Sid
    /\ Live(s)
    /\ next' = next + 1
    /\ req' = [MarkForked(s) EXCEPT ![r] = [Idle EXCEPT
                 !.pc = "write", !.op = "refresh", !.sid = s, !.jti = next,
                 !.new = RefreshSession(r, s)]]
    /\ UNCHANGED <<password, session, store, spent>>

\* The row to revoke is not in the session: the UPDATE is never sent.
RevokeOwn_Detached(r, op) ==
    /\ req[r].pc = "write" /\ req[r].op = op
    /\ Unlocked(r, req[r].sid)
    /\ req' = [req EXCEPT ![r].pc = "respond"]
    /\ UNCHANGED <<password, session, next, store, spent>>

\* revoked_at is set by primary key: not checked again after a wait for the row.
RevokeOwn(r, op) ==
    /\ req[r].pc = "write" /\ req[r].op = op
    /\ Unlocked(r, req[r].sid)
    /\ req' = [req EXCEPT ![r].pc = "respond", ![r].locks = {req[r].sid}]
    /\ UNCHANGED <<password, session, next, store, spent>>

\* The flush of refresh; _issue_tokens adds the new row for the commit to insert.
RefreshWrite(r) == RevokeOwn(r, "refresh")

\* logout: with no token, or one that is not live, it does nothing.
LogoutRead(r, s) ==
    /\ req[r].pc = "idle"
    /\ Live(s)
    /\ req' = [req EXCEPT ![r].pc = "write", ![r].op = "logout", ![r].sid = s]
    /\ UNCHANGED <<password, session, next, store, spent>>

LogoutWrite(r) == RevokeOwn(r, "logout")

-----------------------------------------------------------------------------
(* Password reset                                                           *)

\* forgot_password, for a known e-mail; it writes nothing to the database.
ForgotPassword(t) ==
    /\ store[t] = "new"
    /\ store' = [store EXCEPT ![t] = "valid"]
    /\ UNCHANGED <<password, session, next, req, spent>>

\* password_reset_ttl_seconds have passed, or the process restarted.
ResetExpires(t) ==
    /\ store[t] = "valid"
    /\ store' = [store EXCEPT ![t] = "gone"]
    /\ spent' = [spent EXCEPT ![t].lost = TRUE]
    /\ UNCHANGED <<password, session, next, req>>

\* GETDEL in place of GET.
ResetRead_Takes(r, t) ==
    /\ req[r].pc = "idle"
    /\ store[t] = "valid"
    /\ req' = [MarkLate({"login", "refresh"}) EXCEPT ![r] = [Idle EXCEPT
                 !.pc = "write", !.op = "reset", !.tokens = {t}]]
    /\ spent' = [spent EXCEPT ![t].shared = @ \/ \E o \in Req : t \in req[o].tokens]
    /\ store' = [store EXCEPT ![t] = "gone"]
    /\ UNCHANGED <<password, session, next>>

\* reset_password: the token must be in the store; else 422.
ResetRead(r, t) ==
    /\ req[r].pc = "idle"
    /\ store[t] = "valid"
    /\ req' = [MarkLate({"login", "refresh"}) EXCEPT ![r] = [Idle EXCEPT
                 !.pc = "write", !.op = "reset", !.tokens = {t}]]
    /\ spent' = [spent EXCEPT ![t].shared = @ \/ \E o \in Req : t \in req[o].tokens]
    /\ UNCHANGED <<password, session, next, store>>

\* UPDATE users SET hashed_password, flushed before the sessions are revoked.
ResetWrite(r) ==
    /\ req[r].pc = "write" /\ req[r].op = "reset"
    /\ Unlocked(r, UserRow)
    /\ req' = [req EXCEPT ![r].pc = "revoke", ![r].locks = {UserRow}]
    /\ UNCHANGED <<password, session, next, store, spent>>

\* revoke_all_for_user left out.
RevokeAll_None(r) ==
    /\ req[r].pc = "revoke"
    /\ req' = [req EXCEPT ![r].pc = "rows"]
    /\ UNCHANGED <<password, session, next, store, spent>>

\* revoke_all_for_user starts: its snapshot has the committed live sessions.
RevokeAll(r) ==
    /\ req[r].pc = "revoke"
    /\ req' = [req EXCEPT ![r].pc = "rows", ![r].hits = {s \in Sid : Live(s)}]
    /\ UNCHANGED <<password, session, next, store, spent>>

\* Retries a row until it is unrevoked.
RevokeRow_Retry(r, s) ==
    /\ req[r].pc = "rows" /\ s \in req[r].hits
    /\ Unlocked(r, s) /\ Live(s)
    /\ req' = [req EXCEPT ![r].hits = @ \ {s}, ![r].locks = @ \cup {s}]
    /\ UNCHANGED <<password, session, next, store, spent>>

\* ... and visits them: waits for a locked row, then skips it if it is no longer
\* unrevoked.
RevokeRow(r, s) ==
    /\ req[r].pc = "rows" /\ s \in req[r].hits
    /\ Unlocked(r, s)
    /\ req' = [req EXCEPT ![r].hits = @ \ {s},
                          ![r].locks = IF Live(s) THEN @ \cup {s} ELSE @]
    /\ UNCHANGED <<password, session, next, store, spent>>

RevokeDone(r) ==
    /\ req[r].pc = "rows" /\ req[r].hits = {}
    /\ req' = [req EXCEPT ![r].pc = "burn"]
    /\ UNCHANGED <<password, session, next, store, spent>>

\* The token is left to its expiry.
BurnToken_Kept(r) ==
    /\ req[r].pc = "burn"
    /\ req' = [req EXCEPT ![r].pc = "respond"]
    /\ UNCHANGED <<password, session, next, store, spent>>

\* The token leaves the store, before the commit and whatever becomes of it.
BurnToken(r) ==
    /\ req[r].pc = "burn"
    /\ store' = [t \in Token |-> IF t \in req[r].tokens THEN "gone" ELSE store[t]]
    /\ req' = [req EXCEPT ![r].pc = "respond"]
    /\ UNCHANGED <<password, session, next, spent>>

-----------------------------------------------------------------------------
(* get_db after the handler                                                 *)

Respond(r) ==
    /\ req[r].pc = "respond"
    /\ req' = [req EXCEPT ![r].pc = "commit"]
    /\ UNCHANGED <<password, session, next, store, spent>>

\* The sessions r has revoked, and the one it adds, seen by all.
Written(r) ==
    [s \in Sid |-> CASE s = req[r].jti -> req[r].new
                     [] s \in req[r].locks -> [session[s] EXCEPT !.state = "revoked"]
                     [] OTHER -> session[s]]

Commit(r) ==
    /\ req[r].pc = "commit"
    /\ session' = Written(r)
    /\ password' = IF req[r].op = "reset" THEN password + 1 ELSE password
    /\ spent' = [t \in Token |-> IF t \in req[r].tokens
                                THEN [spent[t] EXCEPT !.uses = @ + 1] ELSE spent[t]]
    /\ req' = [req EXCEPT ![r] = Idle]
    /\ UNCHANGED <<next, store>>

\* An error, a lost connection or a worker's death: rollback, locks freed.
Abort(r) ==
    /\ req[r].pc # "idle"
    /\ spent' = [t \in Token |-> IF t \in req[r].tokens /\ req[r].pc \in {"respond", "commit"}
                                THEN [spent[t] EXCEPT !.lost = TRUE] ELSE spent[t]]
    /\ req' = [req EXCEPT ![r] = Idle]
    /\ UNCHANGED <<password, session, next, store>>

Next ==
    \/ \E r \in Req : LoginRead(r)
    \/ \E r \in Req : LoginWrite(r)
    \/ \E r \in Req, s \in Sid : RefreshRead(r, s)
    \/ \E r \in Req : RefreshWrite(r)
    \/ \E r \in Req, s \in Sid : LogoutRead(r, s)
    \/ \E r \in Req : LogoutWrite(r)
    \/ \E t \in Token : ForgotPassword(t)
    \/ \E t \in Token : ResetExpires(t)
    \/ \E r \in Req, t \in Token : ResetRead(r, t)
    \/ \E r \in Req : ResetWrite(r)
    \/ \E r \in Req : RevokeAll(r)
    \/ \E r \in Req, s \in Sid : RevokeRow(r, s)
    \/ \E r \in Req : RevokeDone(r)
    \/ \E r \in Req : BurnToken(r)
    \/ \E r \in Req : Respond(r)
    \/ \E r \in Req : Commit(r)
    \/ \E r \in Req : Abort(r)

Spec == Init /\ [][Next]_vars

(***************************************************************************)
(* A request runs on when it can.  The database wakes the waiters of a row *)
(* in turn, so one that is free again and again is got: strong fairness.   *)
(***************************************************************************)
Step(r) ==
    \/ LoginWrite(r) \/ RefreshWrite(r) \/ LogoutWrite(r) \/ ResetWrite(r)
    \/ RevokeAll(r) \/ (\E s \in Sid : RevokeRow(r, s)) \/ RevokeDone(r)
    \/ BurnToken(r) \/ Respond(r) \/ Commit(r)

FairSpec == Spec /\ \A r \in Req : SF_vars(Step(r))

-----------------------------------------------------------------------------
(* Properties                                                               *)

TypeOK ==
    /\ password \in Nat
    /\ session \in [Sid -> Session]
    /\ next \in 1 .. MaxSession + 1
    /\ store \in [Token -> {"new", "valid", "gone"}]
    /\ req \in [Req -> Request]
    /\ spent \in [Token -> Fate]

\* Rotation is atomic: a session that replaced another is never in the database
\* while the one it replaced is still live, whichever of refresh, logout, reset
\* and crash come in between (service.py:175-179).
RotationAtomic ==
    \A s \in Sid : session[s].state # "none" /\ session[s].parent # UserRow =>
        session[session[s].parent].state = "revoked"

\* One login has one live refresh token: two live sessions that go back to the
\* same login exist just where two refreshes of one token overlapped
\* (service.py:167-179).
SerialLineage ==
    \A s, u \in Sid :
        s # u /\ Live(s) /\ Live(u) /\ session[s].root = session[u].root =>
            session[s].forked /\ session[u].forked

\* A password reset ends every session of the old password; the ones that
\* survive it are those whose login or refresh overlapped a reset
\* (service.py:227-229, repository.py:44-51).
ResetCutsOff ==
    \A s \in Sid : Live(s) /\ ~session[s].late => session[s].gen = password

\* A reset token changes the password once.  It does so twice just where two resets
\* had read it before either deleted it: it is looked up at the start and deleted
\* near the end (service.py:209-233).
ResetTokenOnce == \A t \in Token : spent[t].uses > 1 => spent[t].shared

\* A token that is gone has changed the password, or its time ran out, or the reset
\* that deleted it is about to commit or has failed since: the delete comes before
\* the commit, so that reset costs the user the token and leaves the old password
\* (service.py:230-233, session.py:70).
ResetTokenLost ==
    \A t \in Token : store[t] = "gone" /\ spent[t].uses = 0 =>
        \/ spent[t].lost
        \/ \E r \in Req : t \in req[r].tokens /\ req[r].pc \in {"respond", "commit"}

\* Requests wait for each other's rows (a login for a reset, a reset for every
\* refresh and logout) but never in a circle: each one ends.
RequestsEnd == \A r \in Req : req[r].pc # "idle" ~> req[r].pc = "idle"

\* docs/FE_HANDOFF.md:70 "the old refresh token is invalidated. Reusing it ->
\* 401": a token whose refresh has been answered is not accepted again.
ReuseRefused ==
    [][\A r \in Req, s \in Sid :
          (\E o \in Req \ {r} : /\ req[o].op = "refresh" /\ req[o].pc = "commit"
                                /\ req[o].sid = s)
          => ~RefreshRead(r, s)]_vars
=============================================================================

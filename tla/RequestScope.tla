----------------------------- MODULE RequestScope -----------------------------
(***************************************************************************)
(* The life of an HTTP request: tenant context, pooled connection, RLS     *)
(* settings, statements, audit write, response, commit.                    *)
(*                                                                         *)
(* A row of a tenant-scoped table is represented by its tenant_id, and     *)
(* every known tenant has rows.  A connection carries the two settings the *)
(* RLS policies read; set_config(..., true) makes them local to the        *)
(* transaction, so they are gone when the connection returns to the pool.  *)
(***************************************************************************)
EXTENDS Naturals, FiniteSets

CONSTANTS
    Tenant,   \* tenant UUIDs a request may name
    Known,    \* those with a row in table tenants
    Conn,     \* connections of the pool (db_pool_size + db_max_overflow)
    Req,      \* requests in flight at once
    None      \* no tenant, no request

ASSUME TenantAssumption == Known \subseteq Tenant /\ None \notin Tenant \cup Req

VARIABLES
    enable_rls,  \* settings.enable_row_level_security of this deployment
    enforced,    \* its database role is subject to the policies (not a superuser)
    conn,        \* the pool
    req          \* the requests and their RequestContext

deployment == <<enable_rls, enforced>>
vars == <<deployment, conn, req>>

MaybeTenant == Tenant \cup {None}

Pc == {"idle", "resolve", "resolving", "begin", "handler", "audit", "auditing",
       "lookup", "looking", "platform", "working", "respond", "commit"}

Request == [pc : Pc,
            token : BOOLEAN,        \* a valid access token came with it
            superuser : BOOLEAN,    \* users.is_superuser of the token's user
            tenant : MaybeTenant,   \* RequestContext.tenant_id
            is_superadmin : BOOLEAN, \* RequestContext.is_superadmin
            touched : SUBSET Tenant] \* tenants whose rows it read or wrote

Idle == [pc |-> "idle", token |-> FALSE, superuser |-> FALSE, tenant |-> None,
         is_superadmin |-> FALSE, touched |-> {}]

\* holder and role: which request has it, and for what; tenant and bypass are
\* the settings app.tenant_id and app.bypass_rls of its transaction.
Connection == [holder : Req \cup {None}, role : {"free", "own", "side"},
               tenant : MaybeTenant, bypass : BOOLEAN]

Free == [holder |-> None, role |-> "free", tenant |-> None, bypass |-> FALSE]

Init ==
    /\ enable_rls \in BOOLEAN
    /\ enforced \in BOOLEAN
    /\ conn = [c \in Conn |-> Free]
    /\ req = [r \in Req |-> Idle]

-----------------------------------------------------------------------------
(* Connections                                                              *)

\* _bind_rls: the bypass always, the tenant only if there is one.
Bound(c, r, role, t, bypass) ==
    [holder |-> r, role |-> role,
     tenant |-> IF enable_rls /\ t # None THEN t ELSE conn[c].tenant,
     bypass |-> IF enable_rls THEN bypass ELSE conn[c].bypass]

\* session_factory() and begin(): takes a free connection.
Checkout(c, r, role, t, bypass) ==
    /\ conn[c].role = "free"
    /\ conn' = [conn EXCEPT ![c] = Bound(c, r, role, t, bypass)]

\* Settings of the session instead of the transaction: they outlive it.
Ended_SessionLevel(k) ==
    [holder |-> None, role |-> "free", tenant |-> k.tenant, bypass |-> k.bypass]

\* The transaction of connection k ends, and with it its settings.
Ended(k) == Free

\* The connections r has for these roles go back to the pool.
Release(r, roles) ==
    conn' = [c \in Conn |-> IF conn[c].holder = r /\ conn[c].role \in roles
                            THEN Ended(conn[c]) ELSE conn[c]]

PoolEmpty == \A c \in Conn : conn[c].role # "free"

-----------------------------------------------------------------------------
(* What a statement may touch                                               *)

\* USING and WITH CHECK of policy tenant_isolation for a row of tenant t.
Policy(k, t) == enforced => k.tenant = t \/ k.bypass

\* TenantRepository._select: filtered if the context has a tenant.
Filter(q, t) == q.tenant # None => t = q.tenant

\* The rows the policy shows to the request's own session.
Visible(r) ==
    {t \in Known : \E c \in Conn : /\ conn[c].holder = r /\ conn[c].role = "own"
                                  /\ Policy(conn[c], t)}

-----------------------------------------------------------------------------
(* Actions                                                                  *)

Advance(r, pc) == req' = [req EXCEPT ![r].pc = pc]

\* The exception leaves get_db: rollback, connections returned.
Fail(r) ==
    /\ req' = [req EXCEPT ![r] = Idle]
    /\ Release(r, {"own", "side"})
    /\ UNCHANGED deployment

\* RequestContextMiddleware with a valid access token: tenant from its claims.
ArriveToken(r, t, super) ==
    /\ req[r].pc = "idle"
    /\ req' = [req EXCEPT ![r] =
          [pc |-> "begin", token |-> TRUE, superuser |-> super, tenant |-> t,
           is_superadmin |-> FALSE, touched |-> {}]]
    /\ UNCHANGED <<deployment, conn>>

\* ... or the tenant header with a UUID, which is not looked up, or nothing.
ArriveHeader(r, t) ==
    /\ req[r].pc = "idle"
    /\ req' = [req EXCEPT ![r] =
          [pc |-> "begin", token |-> FALSE, superuser |-> FALSE, tenant |-> t,
           is_superadmin |-> FALSE, touched |-> {}]]
    /\ UNCHANGED <<deployment, conn>>

\* ... or the header with a slug.
ArriveSlug(r) ==
    /\ req[r].pc = "idle"
    /\ req' = [req EXCEPT ![r].pc = "resolve"]
    /\ UNCHANGED <<deployment, conn>>

\* resolve_tenant_id finds the slug in Redis.
ResolveCached(r, t) ==
    /\ req[r].pc = "resolve"
    /\ req' = [req EXCEPT ![r].pc = "begin", ![r].tenant = t]
    /\ UNCHANGED <<deployment, conn>>

\* resolve_tenant_id asks the database, on a session that bypasses RLS.
ResolveOpen(r, c) ==
    /\ req[r].pc = "resolve"
    /\ Checkout(c, r, "side", None, TRUE)
    /\ Advance(r, "resolving")
    /\ UNCHANGED deployment

ResolveEnd(r, t) ==
    /\ req[r].pc = "resolving"
    /\ req' = [req EXCEPT ![r].pc = "begin", ![r].tenant = t]
    /\ Release(r, {"side"})
    /\ UNCHANGED deployment

\* get_db up to the yield.
OpenSession(r, c) ==
    /\ req[r].pc = "begin"
    /\ Checkout(c, r, "own", req[r].tenant, req[r].is_superadmin)
    /\ Advance(r, "handler")
    /\ UNCHANGED deployment

\* get_current_user: loads the user through the repository and enriches the
\* context.  An inactive or missing user, or no token, is refused (Refuse).
Authenticate(r) ==
    /\ req[r].pc = "handler" /\ req[r].token
    /\ req[r].tenant \in Visible(r)
    /\ req' = [req EXCEPT ![r].is_superadmin = req[r].superuser]
    /\ UNCHANGED <<deployment, conn>>

\* A repository query, or a loaded row changed or soft-deleted by the handler.
RepositoryQuery(r) ==
    /\ req[r].pc = "handler"
    /\ req' = [req EXCEPT ![r].touched =
                 @ \cup {t \in Visible(r) : Filter(req[r], t)}]
    /\ UNCHANGED <<deployment, conn>>

\* A statement built with select() or update(), such as the counts of
\* ReportService: only the policy filters it.
RawQuery(r) ==
    /\ req[r].pc = "handler"
    /\ req' = [req EXCEPT ![r].touched = @ \cup Visible(r)]
    /\ UNCHANGED <<deployment, conn>>

\* TenantRepository.create stamps the context's tenant; the policy and the
\* foreign key to tenants check the row.
Create(r) ==
    /\ req[r].pc = "handler"
    /\ req[r].tenant \in Visible(r)
    /\ req' = [req EXCEPT ![r].touched = @ \cup {req[r].tenant}]
    /\ UNCHANGED <<deployment, conn>>

\* The handler raises: no user, no permission, no tenant, a refused row, an
\* unknown slug...
Refuse(r) == req[r].pc \in {"handler", "looking", "working"} /\ Fail(r)

\* event_bus.publish for a tenant's event; the handler goes on when it returns.
Publish(r) ==
    /\ req[r].pc = "handler" /\ req[r].tenant # None
    /\ Advance(r, "audit")
    /\ UNCHANGED <<deployment, conn>>

\* write_audit: a session of its own while the request keeps its connection.
AuditOpen(r, c) ==
    /\ req[r].pc = "audit"
    /\ Checkout(c, r, "side", req[r].tenant, FALSE)
    /\ Advance(r, "auditing")
    /\ UNCHANGED deployment

\* A session the event handler forgets to close.
AuditEnd_Leak(r) ==
    /\ req[r].pc = "auditing"
    /\ Advance(r, "handler")
    /\ UNCHANGED <<deployment, conn>>

\* Committed, or failed: the event bus logs what a handler raises.
AuditEnd(r) ==
    /\ req[r].pc = "auditing"
    /\ Release(r, {"side"})
    /\ Advance(r, "handler")
    /\ UNCHANGED deployment

\* An event handler without a timeout waits for a connection for ever.
AuditTimeout_Never(r) == FALSE /\ UNCHANGED vars

\* No connection within the pool's timeout: the audit entry is dropped.
AuditTimeout(r) ==
    /\ req[r].pc = "audit" /\ PoolEmpty
    /\ Advance(r, "handler")
    /\ UNCHANGED <<deployment, conn>>

\* The tenant routes of the admin API, whose dependencies hold the request's own
\* session: a slug that is not cached is looked up first.
Platform(r, pc) ==
    /\ req[r].pc = "handler" /\ req[r].token
    /\ Advance(r, pc)
    /\ UNCHANGED <<deployment, conn>>

LookupOpen(r, c) ==
    /\ req[r].pc = "lookup"
    /\ Checkout(c, r, "side", None, TRUE)
    /\ Advance(r, "looking")
    /\ UNCHANGED deployment

LookupEnd(r) ==
    /\ req[r].pc = "looking"
    /\ Release(r, {"side"})
    /\ Advance(r, "platform")
    /\ UNCHANGED deployment

\* TenantAdminService opens a session of its own.
PlatformOpen(r, c) ==
    /\ req[r].pc = "platform"
    /\ Checkout(c, r, "side", None, TRUE)
    /\ Advance(r, "working")
    /\ UNCHANGED deployment

\* Its session commits before the request's own.
PlatformEnd(r) ==
    /\ req[r].pc = "working"
    /\ Release(r, {"side"})
    /\ Advance(r, "respond")
    /\ UNCHANGED deployment

\* No connection within the pool's timeout: the exception ends the request.
PoolTimeout(r) ==
    /\ req[r].pc \in {"resolve", "begin", "lookup", "platform"} /\ PoolEmpty
    /\ Fail(r)

\* The handler returns.
Finish(r) ==
    /\ req[r].pc = "handler"
    /\ Advance(r, "respond")
    /\ UNCHANGED <<deployment, conn>>

Respond(r) ==
    /\ req[r].pc = "respond"
    /\ Advance(r, "commit")
    /\ UNCHANGED <<deployment, conn>>

\* get_db after the yield; a worker's death or a lost connection end alike.
Commit(r) == req[r].pc = "commit" /\ Fail(r)
Crash(r) == req[r].pc # "idle" /\ Fail(r)

Next ==
    \/ \E r \in Req, t \in Known, super \in BOOLEAN : ArriveToken(r, t, super)
    \/ \E r \in Req, t \in MaybeTenant : ArriveHeader(r, t)
    \/ \E r \in Req : ArriveSlug(r)
    \/ \E r \in Req, t \in Known : ResolveCached(r, t)
    \/ \E r \in Req, c \in Conn : ResolveOpen(r, c)
    \/ \E r \in Req, t \in Known \cup {None} : ResolveEnd(r, t)
    \/ \E r \in Req, c \in Conn : OpenSession(r, c)
    \/ \E r \in Req : Authenticate(r)
    \/ \E r \in Req : RepositoryQuery(r)
    \/ \E r \in Req : RawQuery(r)
    \/ \E r \in Req : Create(r)
    \/ \E r \in Req : Refuse(r)
    \/ \E r \in Req : Publish(r)
    \/ \E r \in Req, c \in Conn : AuditOpen(r, c)
    \/ \E r \in Req : AuditEnd(r)
    \/ \E r \in Req : AuditTimeout(r)
    \/ \E r \in Req, pc \in {"lookup", "platform"} : Platform(r, pc)
    \/ \E r \in Req, c \in Conn : LookupOpen(r, c)
    \/ \E r \in Req : LookupEnd(r)
    \/ \E r \in Req, c \in Conn : PlatformOpen(r, c)
    \/ \E r \in Req : PlatformEnd(r)
    \/ \E r \in Req : PoolTimeout(r)
    \/ \E r \in Req : Finish(r)
    \/ \E r \in Req : Respond(r)
    \/ \E r \in Req : Commit(r)
    \/ \E r \in Req : Crash(r)

Spec == Init /\ [][Next]_vars

(***************************************************************************)
(* A request goes on when it can: its side sessions end, and a wait for a  *)
(* connection ends with a connection or with the pool's timeout.  The pool *)
(* serves its waiters in turn, hence strong fairness where a connection is *)
(* awaited.  A handler publishes finitely many events (two at most, for a  *)
(* quiz) and returns: Finish has a fairness of its own.  Nothing makes a   *)
(* client send a request or a worker crash.                                *)
(***************************************************************************)
Progress(r) ==
    \/ \E t \in Known \cup {None} : ResolveEnd(r, t)
    \/ \E c \in Conn : ResolveOpen(r, c) \/ OpenSession(r, c) \/ AuditOpen(r, c)
                        \/ LookupOpen(r, c) \/ PlatformOpen(r, c)
    \/ AuditEnd(r) \/ AuditTimeout(r) \/ LookupEnd(r) \/ PlatformEnd(r)
    \/ PoolTimeout(r)
    \/ Respond(r) \/ Commit(r)

FairSpec == Spec /\ \A r \in Req : SF_vars(Progress(r)) /\ SF_vars(Finish(r))

-----------------------------------------------------------------------------
(* Properties                                                               *)

TypeOK ==
    /\ enable_rls \in BOOLEAN
    /\ enforced \in BOOLEAN
    /\ conn \in [Conn -> Connection]
    /\ req \in [Req -> Request]

\* Tenant isolation where the database enforces the policies: whatever order
\* requests, slug lookups, audit writes and platform sessions use the pooled
\* connections in, and whether or not a statement goes through a repository, a
\* request touches rows of the tenant its context names and of no other; with no
\* tenant it touches none (session.py:40-52, 0002_row_level_security.py:52-63).
RlsIsolates ==
    enforced => \A r \in Req : req[r].touched \subseteq {req[r].tenant}

\* A request past get_db holds one connection for its session, and a second one
\* just while its side session runs; nobody else holds any: none leaks, whatever
\* fails (session.py:61-70, 82-91).
ConnectionsAccounted ==
    \A r \in Req :
        /\ Cardinality({c \in Conn : conn[c].holder = r /\ conn[c].role = "own"})
             = IF req[r].pc \in {"handler", "audit", "auditing", "lookup", "looking",
                                "platform", "working", "respond", "commit"}
               THEN 1 ELSE 0
        /\ Cardinality({c \in Conn : conn[c].holder = r /\ conn[c].role = "side"})
             = IF req[r].pc \in {"resolving", "auditing", "looking", "working"}
               THEN 1 ELSE 0

\* Requests hold one connection while they wait for another, so they can all
\* wait for each other; the pool's timeout ends that, and every request ends.
RequestsEnd == \A r \in Req : req[r].pc # "idle" ~> req[r].pc = "idle"

\* app/modules/auth/dependencies.py:44 "enrich request context for downstream
\* layers (audit, RLS bypass, guards)", app/modules/auth/models.py:86
\* "platform-level super admin - bypasses tenant RLS for admin ops": once the
\* context says is_superadmin, the request's session bypasses the policies.
SuperadminBypassesRls ==
    \A r \in Req : \A c \in Conn :
        /\ enable_rls /\ req[r].is_superadmin
        /\ conn[c].holder = r /\ conn[c].role = "own"
        => conn[c].bypass
=============================================================================

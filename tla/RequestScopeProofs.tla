-------------------------- MODULE RequestScopeProofs --------------------------
(***************************************************************************)
(* Proofs of tenant isolation and of the accounting of connections, for    *)
(* any number of tenants, connections and requests.                        *)
(***************************************************************************)
EXTENDS RequestScope, FiniteSetTheorems, TLAPS

\* A request has no session yet.
Early == {"idle", "resolve", "resolving", "begin"}

\* Before get_db the context is still that of the middleware and the request has
\* touched nothing.
EarlyClean ==
    \A r \in Req : req[r].pc \in Early =>
        ~req[r].is_superadmin /\ req[r].touched = {}

\* A connection in the pool carries no settings.
PoolClean == \A c \in Conn : conn[c].role = "free" => conn[c] = Free

\* The session of a request is bound to its tenant, or to none, and does not
\* bypass the policies.
OwnBound ==
    \A c \in Conn : conn[c].role = "own" =>
        /\ conn[c].holder \in Req
        /\ ~conn[c].bypass
        /\ req[conn[c].holder].pc \notin Early
        /\ conn[c].tenant \in {None, req[conn[c].holder].tenant}

\* The inductive invariant.
IInv == TypeOK /\ EarlyClean /\ PoolClean /\ OwnBound /\ RlsIsolates

-----------------------------------------------------------------------------

\* Requests start idle, connections free.
LEMMA InitInv == Init => IInv
<1> SUFFICES ASSUME Init PROVE IInv
    OBVIOUS
<1>1. TypeOK
    BY DEF Init, TypeOK, Connection, Request, Free, Idle, MaybeTenant, Pc
<1>2. EarlyClean /\ PoolClean /\ OwnBound
    BY DEF Init, EarlyClean, PoolClean, OwnBound, Free, Idle
<1>3. RlsIsolates
    BY DEF Init, RlsIsolates, Idle
<1>4. QED
    BY <1>1, <1>2, <1>3 DEF IInv

\* A request that ends gives its connections back and forgets its context.
LEMMA FailStep ==
    ASSUME IInv, NEW r \in Req, Fail(r)
    PROVE  IInv'
<1> USE DEF IInv, Fail, deployment
<1>1. /\ req'[r] = Idle /\ \A o \in Req \ {r} : req'[o] = req[o]
      /\ req' = [req EXCEPT ![r] = Idle]
    BY DEF TypeOK
<1>2. \A c \in Conn : conn'[c] = IF /\ conn[c].holder = r
                                    /\ conn[c].role \in {"own", "side"}
                                 THEN Free ELSE conn[c]
    BY DEF Release, Ended
<1>3. TypeOK'
  <2>1. Idle \in Request /\ Free \in Connection
    BY DEF Idle, Request, Free, Connection, MaybeTenant, Pc
  <2>2. conn' \in [Conn -> Connection]
    BY <2>1 DEF Release, Ended, TypeOK
  <2>3. QED
    BY <1>1, <2>1, <2>2 DEF TypeOK
<1>4. EarlyClean' /\ RlsIsolates'
    BY <1>1 DEF EarlyClean, RlsIsolates, Idle
<1>5. PoolClean'
    BY <1>2 DEF PoolClean
<1>6. OwnBound'
    BY <1>1, <1>2 DEF OwnBound, Free
<1>7. QED
    BY <1>3, <1>4, <1>5, <1>6

\* A step of a request that leaves the connections alone.
LEMMA ContextStep ==
    ASSUME IInv, NEW r \in Req, NEW q \in Request,
           req' = [req EXCEPT ![r] = q],
           UNCHANGED <<deployment, conn>>,
           req[r].pc \notin Early => q.pc \notin Early /\ q.tenant = req[r].tenant,
           q.pc \in Early => ~q.is_superadmin /\ q.touched = {},
           enforced => q.touched \subseteq {q.tenant}
    PROVE  IInv'
<1> USE DEF IInv, deployment
<1>1. req'[r] = q /\ \A o \in Req \ {r} : req'[o] = req[o]
    BY DEF TypeOK
<1>2. TypeOK'
    BY DEF TypeOK
<1>3. EarlyClean' /\ RlsIsolates'
    BY <1>1 DEF EarlyClean, RlsIsolates
<1>4. PoolClean' /\ OwnBound'
    BY <1>1 DEF PoolClean, OwnBound
<1>5. QED
    BY <1>2, <1>3, <1>4

\* Where the policies are enforced, a handler sees rows of its own tenant only.
LEMMA VisibleIsOwn ==
    ASSUME IInv, NEW r \in Req, enforced, NEW t \in Visible(r)
    PROVE  t = req[r].tenant
<1>1. PICK c \in Conn : /\ conn[c].holder = r /\ conn[c].role = "own"
                        /\ Policy(conn[c], t)
    BY DEF Visible
<1>2. ~conn[c].bypass /\ conn[c].tenant \in {None, req[r].tenant}
    BY <1>1 DEF IInv, OwnBound
<1>3. t # None
    BY TenantAssumption DEF Visible
<1>4. QED
    BY <1>1, <1>2, <1>3 DEF Policy

\* The middleware sets the context of a request that has touched nothing.
LEMMA ArriveSteps ==
    ASSUME IInv, NEW r \in Req,
           \/ \E t \in Known, super \in BOOLEAN : ArriveToken(r, t, super)
           \/ \E t \in MaybeTenant : ArriveHeader(r, t)
           \/ ArriveSlug(r)
           \/ \E t \in Known : ResolveCached(r, t)
    PROVE  IInv'
<1> USE TenantAssumption DEF IInv, TypeOK, Request, Pc, Early, MaybeTenant, EarlyClean
<1>1. ASSUME NEW t \in Known, NEW super \in BOOLEAN, ArriveToken(r, t, super)
      PROVE  IInv'
  <2> DEFINE q == [pc |-> "begin", token |-> TRUE, superuser |-> super,
                   tenant |-> t, is_superadmin |-> FALSE,
                   touched |-> {}]
  <2>1. q \in Request
    OBVIOUS
  <2>2. QED
    BY <1>1, <2>1, ContextStep DEF ArriveToken
<1>2. ASSUME NEW t \in MaybeTenant, ArriveHeader(r, t)
      PROVE  IInv'
  <2> DEFINE q == [pc |-> "begin", token |-> FALSE, superuser |-> FALSE,
                   tenant |-> t, is_superadmin |-> FALSE,
                   touched |-> {}]
  <2>1. q \in Request
    OBVIOUS
  <2>2. QED
    BY <1>2, <2>1, ContextStep DEF ArriveHeader
<1>3. CASE ArriveSlug(r)
  <2> DEFINE q == [req[r] EXCEPT !.pc = "resolve"]
  <2>1. q \in Request /\ q.pc = "resolve" /\ q.touched = {} /\ ~q.is_superadmin
    BY <1>3 DEF ArriveSlug
  <2>2. req' = [req EXCEPT ![r] = q] /\ req[r].pc = "idle"
        /\ UNCHANGED <<deployment, conn>>
    BY <1>3 DEF ArriveSlug
  <2> HIDE DEF q
  <2>3. QED
    BY <2>1, <2>2, ContextStep
<1>4. ASSUME NEW t \in Known, ResolveCached(r, t) PROVE IInv'
  <2> DEFINE q == [req[r] EXCEPT !.pc = "begin", !.tenant = t]
  <2>0. /\ req[r] \in Request /\ t \in MaybeTenant
        /\ ~req[r].is_superadmin /\ req[r].touched = {}
    BY <1>4 DEF ResolveCached
  <2>1. q \in Request /\ q.pc = "begin" /\ q.touched = {} /\ ~q.is_superadmin
    BY <2>0
  <2>2. req' = [req EXCEPT ![r] = q] /\ req[r].pc = "resolve"
        /\ UNCHANGED <<deployment, conn>>
    BY <1>4 DEF ResolveCached
  <2> HIDE DEF q
  <2>3. QED
    BY <2>1, <2>2, ContextStep
<1>5. QED
    BY <1>1, <1>2, <1>3, <1>4

\* A request moves on without touching a row.
LEMMA MoveSteps ==
    ASSUME IInv, NEW r \in Req,
           \/ Authenticate(r) \/ Publish(r) \/ AuditTimeout(r)
           \/ \E pc \in {"lookup", "platform"} : Platform(r, pc)
           \/ Finish(r) \/ Respond(r)
    PROVE  IInv'
<1>1. ASSUME NEW pc \in Pc \ Early, req[r].pc \notin Early,
             req' = [req EXCEPT ![r].pc = pc], UNCHANGED <<deployment, conn>>
      PROVE  IInv'
  <2> DEFINE q == [req[r] EXCEPT !.pc = pc]
  <2>1. /\ q \in Request /\ q.pc = pc /\ q.touched = req[r].touched
        /\ q.tenant = req[r].tenant
        /\ req' = [req EXCEPT ![r] = q]
    BY <1>1 DEF IInv, TypeOK, Request
  <2> HIDE DEF q
  <2>2. enforced => q.touched \subseteq {q.tenant}
    BY <2>1 DEF IInv, RlsIsolates
  <2>3. QED
    BY <1>1, <2>1, <2>2, ContextStep
<1>2. CASE Authenticate(r)
  <2> DEFINE q == [req[r] EXCEPT !.is_superadmin = req[r].superuser]
  <2>1. /\ q \in Request /\ q.pc = req[r].pc /\ q.touched = req[r].touched
        /\ q.tenant = req[r].tenant
    BY DEF IInv, TypeOK, Request
  <2>2. /\ req' = [req EXCEPT ![r] = q] /\ req[r].pc = "handler"
        /\ UNCHANGED <<deployment, conn>>
    BY <1>2 DEF Authenticate
  <2> HIDE DEF q
  <2>3. QED
    BY <2>1, <2>2, ContextStep DEF IInv, RlsIsolates, Early
<1>3. CASE \/ Publish(r) \/ AuditTimeout(r) \/ Finish(r) \/ Respond(r)
           \/ \E pc \in {"lookup", "platform"} : Platform(r, pc)
    BY <1>1, <1>3 DEF Publish, AuditTimeout, Platform, Finish, Respond, Advance,
                      Early, Pc
<1>4. QED
    BY <1>2, <1>3

\* The statements of a handler touch rows of the request's tenant only.
LEMMA StatementSteps ==
    ASSUME IInv, NEW r \in Req,
           RepositoryQuery(r) \/ RawQuery(r) \/ Create(r)
    PROVE  IInv'
<1>0. /\ req[r] \in Request /\ req[r].pc = "handler" /\ Visible(r) \subseteq Tenant
      /\ enforced => \A t \in Visible(r) : t = req[r].tenant
    BY VisibleIsOwn, TenantAssumption DEF IInv, TypeOK, RepositoryQuery, RawQuery,
       Create, Visible
<1>1. ASSUME NEW new \in SUBSET Visible(r),
             req' = [req EXCEPT ![r].touched = @ \cup new],
             UNCHANGED <<deployment, conn>>
      PROVE  IInv'
  <2> DEFINE q == [req[r] EXCEPT !.touched = @ \cup new]
  <2>1. /\ q \in Request /\ q.pc = "handler"
        /\ q.touched = req[r].touched \cup new /\ q.tenant = req[r].tenant
        /\ req' = [req EXCEPT ![r] = q]
    BY <1>0, <1>1 DEF Request
  <2> HIDE DEF q
  <2>2. enforced => q.touched \subseteq {q.tenant}
    BY <1>0, <1>1, <2>1 DEF IInv, RlsIsolates
  <2>3. QED
    BY <1>0, <1>1, <2>1, <2>2, ContextStep DEF Early
<1>2. CASE RepositoryQuery(r)
  <2> DEFINE new == {t \in Visible(r) : Filter(req[r], t)}
  <2>1. /\ req' = [req EXCEPT ![r].touched = @ \cup new]
        /\ UNCHANGED <<deployment, conn>> /\ new \in SUBSET Visible(r)
    BY <1>2 DEF RepositoryQuery
  <2>2. QED
    BY <1>1, <2>1
<1>3. CASE RawQuery(r)
    BY <1>1, <1>3 DEF RawQuery
<1>4. CASE Create(r)
  <2>1. /\ req' = [req EXCEPT ![r].touched = @ \cup {req[r].tenant}]
        /\ UNCHANGED <<deployment, conn>> /\ {req[r].tenant} \in SUBSET Visible(r)
    BY <1>4 DEF Create
  <2>2. QED
    BY <1>1, <2>1
<1>5. QED
    BY <1>2, <1>3, <1>4

\* Advance changes the place of the request and nothing else of its context.
LEMMA Advanced ==
    ASSUME TypeOK, NEW r \in Req, NEW pc \in Pc, Advance(r, pc)
    PROVE  \E q \in Request :
              /\ req' = [req EXCEPT ![r] = q] /\ q.pc = pc
              /\ q.tenant = req[r].tenant /\ q.touched = req[r].touched
              /\ q.is_superadmin = req[r].is_superadmin
<1> DEFINE q == [req[r] EXCEPT !.pc = pc]
<1>0. req[r] \in Request
    BY DEF TypeOK
<1>1. /\ q \in Request /\ q.pc = pc /\ q.tenant = req[r].tenant
      /\ q.touched = req[r].touched
      /\ q.is_superadmin = req[r].is_superadmin
    BY <1>0 DEF Request
<1>2. req' = [req EXCEPT ![r] = q]
    BY DEF Advance
<1> HIDE DEF q
<1>3. QED
    BY <1>1, <1>2

\* What is said of the requests survives a step that sets one of them to q.
LEMMA RequestPart ==
    ASSUME IInv, NEW r \in Req, NEW q \in Request,
           req' = [req EXCEPT ![r] = q], UNCHANGED deployment,
           q.pc \in Early => ~q.is_superadmin /\ q.touched = {},
           enforced => q.touched \subseteq {q.tenant}
    PROVE  /\ EarlyClean' /\ RlsIsolates'
           /\ req'[r] = q /\ \A o \in Req \ {r} : req'[o] = req[o]
           /\ req' \in [Req -> Request]
<1>1. /\ req'[r] = q /\ \A o \in Req \ {r} : req'[o] = req[o]
      /\ req' \in [Req -> Request]
    BY DEF IInv, TypeOK
<1>2. EarlyClean' /\ RlsIsolates'
    BY <1>1 DEF IInv, EarlyClean, RlsIsolates, deployment
<1>3. QED
    BY <1>1, <1>2

\* A side session takes a connection: no session of a request is concerned.
LEMMA SideOpenStep ==
    ASSUME IInv, NEW r \in Req, NEW c \in Conn, NEW t \in MaybeTenant,
           NEW bypass \in BOOLEAN, NEW pc \in Pc,
           req[r].pc \in Early <=> pc \in Early,
           Checkout(c, r, "side", t, bypass), Advance(r, pc), UNCHANGED deployment
    PROVE  IInv'
<1>1. PICK q \in Request :
         /\ req' = [req EXCEPT ![r] = q] /\ q.pc = pc
         /\ q.tenant = req[r].tenant /\ q.touched = req[r].touched
         /\ q.is_superadmin = req[r].is_superadmin
    BY Advanced DEF IInv
<1>2. /\ q.pc \in Early => ~q.is_superadmin /\ q.touched = {}
      /\ enforced => q.touched \subseteq {q.tenant}
    BY <1>1 DEF IInv, EarlyClean, RlsIsolates
<1>3. /\ EarlyClean' /\ RlsIsolates'
      /\ req'[r] = q /\ \A o \in Req \ {r} : req'[o] = req[o]
      /\ req' \in [Req -> Request]
    BY <1>1, <1>2, RequestPart
<1>4. Bound(c, r, "side", t, bypass) \in Connection
    BY DEF IInv, TypeOK, Bound, Connection
<1>5. TypeOK'
    BY <1>3, <1>4 DEF IInv, TypeOK, Checkout, deployment
<1>6. /\ conn'[c].role = "side"
      /\ \A d \in Conn \ {c} : conn'[d] = conn[d]
    BY DEF IInv, TypeOK, Checkout, Bound
<1>7. PoolClean'
    BY <1>6 DEF IInv, PoolClean
<1>8. OwnBound'
  <2>1. SUFFICES ASSUME NEW d \in Conn, conn'[d].role = "own"
        PROVE  /\ conn'[d].holder \in Req /\ ~conn'[d].bypass
               /\ req'[conn'[d].holder].pc \notin Early
               /\ conn'[d].tenant \in {None, req'[conn'[d].holder].tenant}
    BY DEF OwnBound
  <2>2. /\ conn'[d] = conn[d] /\ conn[d].holder \in Req /\ ~conn[d].bypass
        /\ req[conn[d].holder].pc \notin Early
        /\ conn[d].tenant \in {None, req[conn[d].holder].tenant}
    BY <2>1, <1>6 DEF IInv, OwnBound
  <2>3. QED
    BY <1>1, <1>3, <2>2
<1>9. QED
    BY <1>3, <1>5, <1>7, <1>8 DEF IInv

\* get_db binds the session it opens to the tenant of the context.
LEMMA OpenSessionStep ==
    ASSUME IInv, NEW r \in Req, NEW c \in Conn, OpenSession(r, c)
    PROVE  IInv'
<1>0. /\ TypeOK /\ req[r].pc = "begin" /\ ~req[r].is_superadmin
      /\ req[r].touched = {} /\ conn[c] = Free /\ UNCHANGED deployment
    BY DEF OpenSession, Checkout, IInv, EarlyClean, PoolClean, Early
<1>1. PICK q \in Request :
         /\ req' = [req EXCEPT ![r] = q] /\ q.pc = "handler"
         /\ q.tenant = req[r].tenant /\ q.touched = req[r].touched
         /\ q.is_superadmin = req[r].is_superadmin
  <2>1. Advance(r, "handler") /\ "handler" \in Pc
    BY DEF OpenSession, Pc
  <2>2. QED
    BY <1>0, <2>1, Advanced
<1>2. /\ EarlyClean' /\ RlsIsolates'
      /\ req'[r] = q /\ \A o \in Req \ {r} : req'[o] = req[o]
      /\ req' \in [Req -> Request]
  <2>1. /\ q.pc \notin Early /\ q.touched = {}
    BY <1>0, <1>1 DEF Early
  <2>2. QED
    BY <1>0, <1>1, <2>1, RequestPart
<1>3. /\ conn'[c].role = "own" /\ conn'[c].holder = r
      /\ ~conn'[c].bypass /\ conn'[c].tenant \in {None, req[r].tenant}
      /\ conn' \in [Conn -> Connection]
      /\ \A d \in Conn \ {c} : conn'[d] = conn[d]
  <2>1. /\ conn' = [conn EXCEPT ![c] =
                      Bound(c, r, "own", req[r].tenant, req[r].is_superadmin)]
        /\ req[r] \in Request
    BY <1>0 DEF OpenSession, Checkout, TypeOK
  <2> DEFINE k == Bound(c, r, "own", req[r].tenant, req[r].is_superadmin)
  <2>2. PICK t \in MaybeTenant, b \in BOOLEAN :
          /\ k = [holder |-> r, role |-> "own", tenant |-> t, bypass |-> b]
          /\ t \in {None, req[r].tenant} /\ ~b
    <3>1. /\ None \in MaybeTenant /\ req[r].tenant \in MaybeTenant
          /\ req[r].is_superadmin \in BOOLEAN
      BY <2>1 DEF MaybeTenant, Request
    <3>2. conn[c].tenant = None /\ conn[c].bypass = FALSE
      BY <1>0 DEF Free
    <3>3. CASE enable_rls /\ req[r].tenant # None
      BY <1>0, <3>1, <3>2, <3>3 DEF Bound
    <3>4. CASE enable_rls /\ req[r].tenant = None
      BY <1>0, <3>1, <3>2, <3>4 DEF Bound
    <3>5. CASE ~enable_rls
      BY <1>0, <3>1, <3>2, <3>5 DEF Bound
    <3>6. QED
      BY <3>3, <3>4, <3>5
  <2>3. /\ k \in Connection /\ k.role = "own" /\ k.holder = r /\ ~k.bypass
        /\ k.tenant \in {None, req[r].tenant}
    BY <2>2 DEF Connection
  <2>4. conn' = [conn EXCEPT ![c] = k]
    BY <2>1
  <2> HIDE DEF k
  <2>5. QED
    BY <1>0, <2>3, <2>4 DEF TypeOK
<1>4. TypeOK'
    BY <1>0, <1>2, <1>3 DEF TypeOK, deployment
<1>5. PoolClean'
    BY <1>3 DEF IInv, PoolClean
<1>6. OwnBound'
  <2>1. SUFFICES ASSUME NEW d \in Conn, conn'[d].role = "own"
        PROVE  /\ conn'[d].holder \in Req /\ ~conn'[d].bypass
               /\ req'[conn'[d].holder].pc \notin Early
               /\ conn'[d].tenant \in {None, req'[conn'[d].holder].tenant}
    BY DEF OwnBound
  <2>2. CASE d = c
    BY <1>1, <1>2, <1>3, <2>2 DEF Early
  <2>3. CASE d # c
    <3>1. /\ conn'[d] = conn[d] /\ conn[d].holder \in Req /\ ~conn[d].bypass
          /\ req[conn[d].holder].pc \notin Early
          /\ conn[d].tenant \in {None, req[conn[d].holder].tenant}
      BY <2>1, <2>3, <1>3 DEF IInv, OwnBound
    <3>2. conn[d].holder # r
      BY <3>1, <1>0 DEF Early
    <3>3. QED
      BY <1>2, <3>1, <3>2
  <2>4. QED
    BY <2>2, <2>3
<1>7. QED
    BY <1>2, <1>4, <1>5, <1>6 DEF IInv

\* A side session ends; the context may take the tenant it found if the request
\* has no session yet.
LEMMA SideEndStep ==
    ASSUME IInv, NEW r \in Req, NEW q \in Request,
           req' = [req EXCEPT ![r] = q], Release(r, {"side"}), UNCHANGED deployment,
           req[r].pc \notin Early => q.pc \notin Early /\ q.tenant = req[r].tenant,
           q.pc \in Early => ~q.is_superadmin /\ q.touched = {},
           enforced => q.touched \subseteq {q.tenant}
    PROVE  IInv'
<1>1. /\ EarlyClean' /\ RlsIsolates'
      /\ req'[r] = q /\ \A o \in Req \ {r} : req'[o] = req[o]
      /\ req' \in [Req -> Request]
    BY RequestPart
<1>2. /\ conn' \in [Conn -> Connection]
      /\ \A c \in Conn : conn'[c] = Free \/ conn'[c] = conn[c]
  <2>1. Free \in Connection
    BY DEF Free, Connection, MaybeTenant
  <2>2. QED
    BY <2>1 DEF IInv, TypeOK, Release, Ended
<1>3. TypeOK'
    BY <1>1, <1>2 DEF IInv, TypeOK, deployment
<1>4. PoolClean'
    BY <1>2 DEF IInv, PoolClean
<1>5. OwnBound'
    BY <1>1, <1>2 DEF IInv, OwnBound, Free
<1>6. QED
    BY <1>1, <1>3, <1>4, <1>5 DEF IInv

\* The side sessions of an audit entry and of the platform admin end.
LEMMA SideEndSteps ==
    ASSUME IInv, NEW r \in Req, AuditEnd(r) \/ LookupEnd(r) \/ PlatformEnd(r)
    PROVE  IInv'
<1>0. PICK pc \in Pc \ Early :
        /\ req[r].pc \notin Early /\ Advance(r, pc)
        /\ Release(r, {"side"}) /\ UNCHANGED deployment /\ TypeOK
    BY DEF AuditEnd, LookupEnd, PlatformEnd, Early, Pc, IInv
<1>1. PICK q \in Request :
         /\ req' = [req EXCEPT ![r] = q] /\ q.pc = pc
         /\ q.tenant = req[r].tenant /\ q.touched = req[r].touched
         /\ q.is_superadmin = req[r].is_superadmin
    BY <1>0, Advanced
<1>2. enforced => q.touched \subseteq {q.tenant}
    BY <1>1 DEF IInv, RlsIsolates
<1>3. QED
    BY <1>0, <1>1, <1>2, SideEndStep

\* The slug lookup ends, with a tenant or without.
LEMMA ResolveEndStep ==
    ASSUME IInv, NEW r \in Req, NEW t \in Known \cup {None}, ResolveEnd(r, t)
    PROVE  IInv'
<1> DEFINE q == [req[r] EXCEPT !.pc = "begin", !.tenant = t]
<1>0. /\ req[r] \in Request /\ req[r].pc = "resolving" /\ t \in MaybeTenant
      /\ ~req[r].is_superadmin /\ req[r].touched = {}
      /\ Release(r, {"side"}) /\ UNCHANGED deployment
    BY TenantAssumption DEF ResolveEnd, IInv, TypeOK, EarlyClean, Early, MaybeTenant
<1>1. q \in Request /\ q.pc = "begin" /\ q.touched = {} /\ ~q.is_superadmin
    BY <1>0 DEF Request, Pc
<1>2. req' = [req EXCEPT ![r] = q]
    BY DEF ResolveEnd
<1> HIDE DEF q
<1>3. QED
    BY <1>0, <1>1, <1>2, SideEndStep DEF Early

\* One step of the specification keeps the invariant.
LEMMA NextInv == IInv /\ [Next]_vars => IInv'
<1> SUFFICES ASSUME IInv, [Next]_vars PROVE IInv'
    OBVIOUS
<1>0. ASSUME NEW r \in Req, NEW c \in Conn, ResolveOpen(r, c) PROVE IInv'
  <2>1. req[r].pc \in Early /\ "resolving" \in Pc /\ "resolving" \in Early
        /\ None \in MaybeTenant
    BY <1>0 DEF ResolveOpen, Early, Pc, MaybeTenant
  <2>2. QED
    BY <1>0, <2>1, SideOpenStep DEF ResolveOpen
<1>1. ASSUME NEW r \in Req, NEW c \in Conn, AuditOpen(r, c) PROVE IInv'
  <2>1. req[r].pc \notin Early /\ "auditing" \in Pc /\ "auditing" \notin Early
        /\ req[r].tenant \in MaybeTenant
    BY <1>1 DEF AuditOpen, Early, Pc, IInv, TypeOK, Request
  <2>2. QED
    BY <1>1, <2>1, SideOpenStep DEF AuditOpen
<1>2. ASSUME NEW r \in Req, NEW c \in Conn, PlatformOpen(r, c) PROVE IInv'
  <2>1. req[r].pc \notin Early /\ "working" \in Pc /\ "working" \notin Early
        /\ None \in MaybeTenant
    BY <1>2 DEF PlatformOpen, Early, Pc, MaybeTenant
  <2>2. QED
    BY <1>2, <2>1, SideOpenStep DEF PlatformOpen
<1>2a. ASSUME NEW r \in Req, NEW c \in Conn, LookupOpen(r, c) PROVE IInv'
  <2>1. req[r].pc \notin Early /\ "looking" \in Pc /\ "looking" \notin Early
        /\ None \in MaybeTenant
    BY <1>2a DEF LookupOpen, Early, Pc, MaybeTenant
  <2>2. QED
    BY <1>2a, <2>1, SideOpenStep DEF LookupOpen
<1>3. ASSUME NEW r \in Req,
             Refuse(r) \/ PoolTimeout(r) \/ Commit(r) \/ Crash(r)
      PROVE  IInv'
    BY <1>3, FailStep DEF Refuse, PoolTimeout, Commit, Crash
<1>4. CASE UNCHANGED vars
    BY <1>4 DEF vars, deployment, IInv, TypeOK, EarlyClean, PoolClean, OwnBound,
                RlsIsolates
<1>5. CASE Next
    BY <1>5, <1>0, <1>1, <1>2, <1>2a, <1>3, ArriveSteps, MoveSteps, StatementSteps,
       OpenSessionStep, SideEndSteps, ResolveEndStep DEF Next
<1>6. QED
    BY <1>4, <1>5

\* The invariant holds in every reachable state.
THEOREM Invariance == Spec => []IInv
BY InitInv, NextInv, PTL DEF Spec

\* Contexts and connections keep their types: what slug resolution, the
\* middleware and get_db store is a tenant id or nothing.
THEOREM TypeCorrect == Spec => []TypeOK
<1>1. IInv => TypeOK
    BY DEF IInv
<1>2. QED
    BY <1>1, Invariance, PTL

\* With the policies enforced no request ever touches another tenant's rows,
\* however many requests share however few connections.
THEOREM TenantIsolation == Spec => []RlsIsolates
<1>1. IInv => RlsIsolates
    BY DEF IInv
<1>2. QED
    BY <1>1, Invariance, PTL

-----------------------------------------------------------------------------
(* Connections                                                              *)

OwnPc == {"handler", "audit", "auditing", "lookup", "looking", "platform", "working",
          "respond", "commit"}
SidePc == {"resolving", "auditing", "looking", "working"}

\* The connections r has for a role.
Held(r, role) == {c \in Conn : conn[c].holder = r /\ conn[c].role = role}

\* r holds just what the point it is at calls for.
Holds(r) ==
    /\ IF req[r].pc \in OwnPc THEN \E c \in Conn : Held(r, "own") = {c}
                              ELSE Held(r, "own") = {}
    /\ IF req[r].pc \in SidePc THEN \E c \in Conn : Held(r, "side") = {c}
                               ELSE Held(r, "side") = {}

HoldInv == \A r \in Req : Holds(r)

LEMMA HoldInit == Init => HoldInv
<1> SUFFICES ASSUME Init, NEW r \in Req PROVE Holds(r)
    BY DEF HoldInv
<1>1. req[r].pc = "idle"
    BY DEF Init, Idle
<1>2. \A c \in Conn : conn[c].role = "free"
    BY DEF Init, Free
<1>3. QED
    BY <1>1, <1>2 DEF Holds, Held, OwnPc, SidePc

\* A free connection is nobody's: taking it adds to what one request holds for one
\* role.
LEMMA CheckoutHeld ==
    ASSUME IInv, NEW r \in Req, NEW c \in Conn, NEW role \in {"own", "side"},
           NEW t, NEW bypass, Checkout(c, r, role, t, bypass)
    PROVE  /\ Held(r, role)' = Held(r, role) \cup {c}
           /\ \A o \in Req, x \in {"own", "side"} :
                 o # r \/ x # role => Held(o, x)' = Held(o, x)
<1>1. /\ conn[c].role = "free" /\ conn \in [Conn -> Connection]
      /\ conn' = [conn EXCEPT ![c] = Bound(c, r, role, t, bypass)]
    BY DEF IInv, TypeOK, Checkout
<1>2. /\ conn'[c].holder = r /\ conn'[c].role = role
      /\ \A d \in Conn \ {c} : conn'[d] = conn[d]
    BY <1>1 DEF Bound
<1>3. QED
    BY <1>1, <1>2 DEF Held

\* What a request gives back it no longer holds.
LEMMA ReleaseHeld ==
    ASSUME IInv, NEW r \in Req, NEW roles \in SUBSET {"own", "side"}, Release(r, roles)
    PROVE  /\ \A x \in roles : Held(r, x)' = {}
           /\ \A o \in Req, x \in {"own", "side"} :
                 o # r \/ x \notin roles => Held(o, x)' = Held(o, x)
<1>1. \A c \in Conn :
          conn'[c] = IF conn[c].holder = r /\ conn[c].role \in roles THEN Free ELSE conn[c]
    BY DEF Release, Ended
<1>2. Free.role = "free"
    BY DEF Free
<1>3. QED
    BY <1>1, <1>2 DEF Held

\* A step of r that leaves the pool alone.
LEMMA HoldMove ==
    ASSUME HoldInv, NEW r \in Req, UNCHANGED conn,
           \A o \in Req \ {r} : req'[o] = req[o],
           req'[r].pc \in OwnPc <=> req[r].pc \in OwnPc,
           req[r].pc \notin SidePc, req'[r].pc \notin SidePc
    PROVE  HoldInv'
<1>1. \A o, x : Held(o, x)' = Held(o, x)
    BY DEF Held
<1>2. ASSUME NEW o \in Req PROVE Holds(o)'
    BY <1>1 DEF HoldInv, Holds
<1>3. QED
    BY <1>2 DEF HoldInv

\* A step of r that takes a connection for a role, or gives back those of some roles.
LEMMA HoldChange ==
    ASSUME HoldInv, NEW r \in Req, \A o \in Req \ {r} : req'[o] = req[o],
           \A o \in Req \ {r}, x \in {"own", "side"} : Held(o, x)' = Held(o, x),
           Holds(r)'
    PROVE  HoldInv'
<1>1. ASSUME NEW o \in Req \ {r} PROVE Holds(o)'
    BY DEF HoldInv, Holds
<1>2. QED
    BY <1>1 DEF HoldInv

LEMMA HoldNext == IInv /\ HoldInv /\ [Next]_vars => HoldInv'
<1> SUFFICES ASSUME IInv, HoldInv, [Next]_vars PROVE HoldInv'
    OBVIOUS
<1>0. req \in [Req -> Request] /\ \A r \in Req : Holds(r)
    BY DEF IInv, TypeOK, HoldInv
<1>1. ASSUME NEW r \in Req,
             \/ \E t \in Known, super \in BOOLEAN : ArriveToken(r, t, super)
             \/ \E t \in MaybeTenant : ArriveHeader(r, t)
             \/ ArriveSlug(r)
             \/ \E t \in Known : ResolveCached(r, t)
      PROVE  HoldInv'
  <2>1. /\ conn' = conn /\ \A o \in Req \ {r} : req'[o] = req[o]
        /\ req[r].pc \in {"idle", "resolve"} /\ req'[r].pc \in {"begin", "resolve"}
      BY <1>0, <1>1 DEF ArriveToken, ArriveHeader, ArriveSlug, ResolveCached, Request
  <2>2. QED
      BY <2>1, HoldMove DEF OwnPc, SidePc
<1>2. ASSUME NEW r \in Req,
             \/ Authenticate(r) \/ RepositoryQuery(r) \/ RawQuery(r) \/ Create(r)
             \/ Publish(r) \/ AuditTimeout(r) \/ Finish(r) \/ Respond(r)
             \/ \E pc \in {"lookup", "platform"} : Platform(r, pc)
      PROVE  HoldInv'
  <2>1. /\ conn' = conn /\ \A o \in Req \ {r} : req'[o] = req[o]
        /\ req[r].pc \in {"handler", "audit", "respond"}
        /\ req'[r].pc \in {"handler", "audit", "lookup", "platform", "respond", "commit"}
      BY <1>0, <1>2 DEF Authenticate, RepositoryQuery, RawQuery, Create, Publish,
                        AuditTimeout, Finish, Respond, Platform, Advance, Request
  <2>2. QED
      BY <2>1, HoldMove DEF OwnPc, SidePc
<1>3. ASSUME NEW r \in Req, NEW c \in Conn, OpenSession(r, c) PROVE HoldInv'
  <2>1. /\ req[r].pc = "begin" /\ req'[r].pc = "handler"
        /\ \A o \in Req \ {r} : req'[o] = req[o]
        /\ Checkout(c, r, "own", req[r].tenant, req[r].is_superadmin)
      BY <1>0, <1>3 DEF OpenSession, Advance, Request
  <2>2. /\ Held(r, "own")' = Held(r, "own") \cup {c} /\ Held(r, "side")' = Held(r, "side")
        /\ \A o \in Req \ {r}, x \in {"own", "side"} : Held(o, x)' = Held(o, x)
      BY <2>1, CheckoutHeld
  <2>3. Holds(r)'
      BY <1>0, <2>1, <2>2 DEF Holds, OwnPc, SidePc
  <2>4. QED
      BY <2>1, <2>2, <2>3, HoldChange
<1>4. ASSUME NEW r \in Req, NEW c \in Conn,
             ResolveOpen(r, c) \/ AuditOpen(r, c) \/ LookupOpen(r, c) \/ PlatformOpen(r, c)
      PROVE  HoldInv'
  <2>1. /\ \E t, bypass : Checkout(c, r, "side", t, bypass)
        /\ \A o \in Req \ {r} : req'[o] = req[o]
        /\ \/ req[r].pc = "resolve" /\ req'[r].pc = "resolving"
           \/ req[r].pc = "audit" /\ req'[r].pc = "auditing"
           \/ req[r].pc = "lookup" /\ req'[r].pc = "looking"
           \/ req[r].pc = "platform" /\ req'[r].pc = "working"
      BY <1>0, <1>4
      DEF ResolveOpen, AuditOpen, LookupOpen, PlatformOpen, Advance, Request
  <2>2. /\ Held(r, "side")' = Held(r, "side") \cup {c} /\ Held(r, "own")' = Held(r, "own")
        /\ \A o \in Req \ {r}, x \in {"own", "side"} : Held(o, x)' = Held(o, x)
      BY <2>1, CheckoutHeld
  <2>3. Holds(r)'
      BY <1>0, <2>1, <2>2 DEF Holds, OwnPc, SidePc
  <2>4. QED
      BY <2>1, <2>2, <2>3, HoldChange
<1>5. ASSUME NEW r \in Req,
             \/ AuditEnd(r) \/ LookupEnd(r) \/ PlatformEnd(r)
             \/ \E t \in Known \cup {None} : ResolveEnd(r, t)
      PROVE  HoldInv'
  <2>1. /\ Release(r, {"side"}) /\ \A o \in Req \ {r} : req'[o] = req[o]
        /\ \/ req[r].pc = "resolving" /\ req'[r].pc = "begin"
           \/ req[r].pc = "auditing" /\ req'[r].pc = "handler"
           \/ req[r].pc = "working" /\ req'[r].pc = "respond"
           \/ req[r].pc = "looking" /\ req'[r].pc = "platform"
      BY <1>0, <1>5 DEF AuditEnd, LookupEnd, PlatformEnd, ResolveEnd, Advance, Request
  <2>2. /\ Held(r, "side")' = {} /\ Held(r, "own")' = Held(r, "own")
        /\ \A o \in Req \ {r}, x \in {"own", "side"} : Held(o, x)' = Held(o, x)
      BY <2>1, ReleaseHeld
  <2>3. Holds(r)'
      BY <1>0, <2>1, <2>2 DEF Holds, OwnPc, SidePc
  <2>4. QED
      BY <2>1, <2>2, <2>3, HoldChange
<1>6. ASSUME NEW r \in Req, Refuse(r) \/ PoolTimeout(r) \/ Commit(r) \/ Crash(r)
      PROVE  HoldInv'
  <2>1. /\ Release(r, {"own", "side"}) /\ req'[r].pc = "idle"
        /\ \A o \in Req \ {r} : req'[o] = req[o]
      BY <1>0, <1>6 DEF Refuse, PoolTimeout, Commit, Crash, Fail, Idle
  <2>2. /\ Held(r, "side")' = {} /\ Held(r, "own")' = {}
        /\ \A o \in Req \ {r}, x \in {"own", "side"} : Held(o, x)' = Held(o, x)
      BY <2>1, ReleaseHeld
  <2>3. Holds(r)'
      BY <2>1, <2>2 DEF Holds, OwnPc, SidePc
  <2>4. QED
      BY <2>1, <2>2, <2>3, HoldChange
<1>7. CASE UNCHANGED vars
    BY <1>7 DEF vars, HoldInv, Holds, Held
<1>8. QED
    BY <1>1, <1>2, <1>3, <1>4, <1>5, <1>6, <1>7 DEF Next

\* A request holds one connection for its session and a second one just while a side
\* session runs, whatever fails, times out or crashes, for a pool of any size
\* (core/database/session.py:61-70, 82-91).
THEOREM NoConnectionLeaks == Spec => []ConnectionsAccounted
<1>1. HoldInv => ConnectionsAccounted
  <2> SUFFICES ASSUME HoldInv, NEW r \in Req
               PROVE  /\ Cardinality(Held(r, "own")) = IF req[r].pc \in OwnPc THEN 1 ELSE 0
                      /\ Cardinality(Held(r, "side")) = IF req[r].pc \in SidePc THEN 1 ELSE 0
      BY DEF ConnectionsAccounted, Held, OwnPc, SidePc
  <2>1. Cardinality({}) = 0
      BY FS_EmptySet
  <2>2. \A c : Cardinality({c}) = 1
      BY FS_Singleton
  <2>3. QED
      BY <2>1, <2>2 DEF HoldInv, Holds
<1>2. QED
    BY <1>1, HoldInit, HoldNext, Invariance, PTL DEF Spec
=============================================================================

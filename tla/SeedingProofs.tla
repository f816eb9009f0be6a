--------------------------- MODULE SeedingProofs ---------------------------
(***************************************************************************)
(* One account per address, seeds that are whole and roles as they were    *)
(* given last, for any number of addresses, roles and transactions: proofs *)
(* about Accounts and Seeding.                                             *)
(***************************************************************************)
EXTENDS Seeding, TLAPS

\* Places where a transaction has no tenant to write in yet.
Early == {"idle", "catalog", "tenant"}

\* A seed gives roles to the users of the seed.
Given(q) == q.kind \in {"seed", "sql"} => q.wrote \subseteq Seeded

\* What a transaction q inserts is new, and of users just when there is a tenant.
Legal(q) ==
    /\ q.newUsers \cap users = {}
    /\ q.pc \notin Early => q.newTenant # "none" \/ tenant # "none"
    /\ q.pc \in Early => q.newUsers = {}
    /\ q.pc = "tenant" /\ q.kind = "seed" /\ q.found = TRUE => tenant # "none"
    /\ q.pc = "flush" /\ q.kind = "seed" => q.email \in Seeded
    /\ Given(q)

Seeds == {"seed", "sql"}

\* How far a transaction q is with what makes a seed whole: committed rows and its
\* own, so that nothing is missing when it commits.  Any other transaction brings
\* users and grants only, and these of roles that are there.
Whole(q) ==
    /\ q.newRoles \in {{}, Role}
    /\ \A g \in q.give : g[1] \in users \cup q.newUsers /\ g[2] \in roles \cup q.newRoles
    /\ q.kind \notin Seeds =>
          /\ q.newRoles = {} /\ q.newContent = FALSE
          /\ q.kind = "update" => q.email \in users
          /\ q.pc = "flush" => q.codes \subseteq roles
    /\ q.kind \in Seeds =>
          /\ q.pc = "catalog" /\ q.kind = "seed" /\ q.found = TRUE => catalog = TRUE
          /\ q.pc # "catalog" => catalog = TRUE \/ q.newCatalog = TRUE
          /\ q.pc = "roles" /\ q.kind = "seed" /\ q.found = TRUE => roles # {}
          /\ q.pc \in {"users", "flush", "content", "commit"} => roles \cup q.newRoles = Role
          /\ q.kind = "seed" /\ q.pc # "flush" => Seeded \ q.todo \subseteq users \cup q.newUsers
          /\ q.pc = "flush" =>
                /\ Seeded \ (q.todo \cup {q.email}) \subseteq users \cup q.newUsers
                /\ q.found = TRUE => q.email \in users
          /\ q.pc \in {"content", "commit"} => Seeded \subseteq users \cup q.newUsers
          /\ q.pc = "content" /\ q.kind = "seed" /\ q.found = TRUE => content # {}
          /\ q.pc = "commit" => content # {} \/ q.newContent = TRUE

\* The roles of e when the grants of q are committed now,
After(q, e) == {c \in Role : <<e, c>> \in (grants \cup q.give) \ q.take}

\* and those that q means to leave it with.
Target(q, e) ==
    IF q.kind = "seed" THEN {SeedRole[e]}
    ELSE IF q.kind = "sql" THEN RolesOf(e) \cup {SeedRole[e]}
    ELSE q.codes

\* A transaction writes grants of the users in wrote only, as a difference to roles
\* which are still those of the user unless a writer of them has committed since.
Exact(q) ==
    /\ \A g \in q.give \cup q.take : g[1] \in q.wrote
    /\ q.kind \notin Seeds /\ q.pc \notin {"flush", "commit"} => q.wrote = {}
    /\ q.kind \notin Seeds /\ q.pc # "commit" => q.give = {} /\ q.take = {}
    /\ q.kind \in {"register", "create"} /\ q.pc = "flush" => q.wrote = {q.email}
    /\ q.kind = "update" /\ q.pc = "flush" =>
          q.wrote = {q.email} \/ (q.wrote = {} /\ q.codes = q.loaded)
    /\ q.kind = "tenant" => q.codes = {}
    /\ q.kind = "sql" /\ q.pc \notin {"content", "commit"} => q.wrote = {}
    /\ q.kind = "sql" => q.take = {}
    /\ q.kind = "seed" =>
          /\ q.wrote \cap q.todo = {}
          /\ q.pc \in {"catalog", "tenant", "roles"} => q.wrote = {}
          /\ q.pc = "flush" => q.email \notin q.wrote \cup q.todo
    /\ q.kind \in {"update", "seed"} /\ q.pc \in {"role", "flush"} /\ q.email \notin q.late =>
          q.loaded = RolesOf(q.email)
    /\ q.kind \in Seeds \/ q.pc = "commit" =>
          /\ q.wrote \subseteq users \cup q.newUsers
          /\ \A e \in q.wrote \ q.late : After(q, e) = Target(q, e)

\* Nothing was ever given to an address without account.
Unborn == \A e \in Email \ users : granted[e] = {}

\* No two open transactions insert the same user.
Disjoint ==
    \A r, o \in Req : r # o => req[r].newUsers \cap req[o].newUsers = {}

IInv ==
    /\ TypeOK
    /\ AccountOnce
    /\ users # {} => tenant # "none"
    /\ \A r \in Req : Legal(req[r])
    /\ Disjoint

\* The second invariant, which rests on the first.
RolesInv ==
    /\ SeedWhole
    /\ SerialRoles
    /\ Unborn
    /\ \A r \in Req : Whole(req[r]) /\ Exact(req[r])

-----------------------------------------------------------------------------

LEMMA IdleOK ==
    Idle \in Request /\ Idle.newUsers = {} /\ Idle.pc = "idle" /\ Idle.wrote = {}
<1>1. (CHOOSE e \in Email : TRUE) \in Email
    BY AccountsAssumption
<1>2. QED
    BY <1>1 DEF Idle, Request, Kind, TenantId

LEMMA InitInv == Init => IInv
<1> SUFFICES ASSUME Init PROVE IInv
    OBVIOUS
<1>1. \A r \in Req : req[r] = Idle
    BY DEF Init
<1>2. TypeOK
    BY IdleOK, AccountsAssumption DEF Init, TypeOK, TenantId
<1>3. AccountOnce
    BY DEF Init, AccountOnce
<1>4. QED
    BY <1>1, <1>2, <1>3, IdleOK DEF Init, IInv, Legal, Given, Early, Disjoint

\* A statement of a transaction keeps the invariant if what it leaves is legal
\* and inserts no user that another one inserts.
LEMMA StepInv ==
    ASSUME IInv, NEW r \in Req, NEW new \in Request, Step(r, new),
           UNCHANGED <<rows, history>>, started' \in 0 .. MaxStart,
           Legal(new), \A o \in Others(r) : new.newUsers \cap req[o].newUsers = {}
    PROVE  IInv'
<1>1. /\ req' \in [Req -> Request] /\ req'[r] = new
      /\ \A o \in Req : o # r => req'[o] = req[o]
    BY DEF IInv, TypeOK, Step
<1>2. TypeOK'
    BY <1>1 DEF IInv, TypeOK, rows, history
<1>3. AccountOnce' /\ (users # {} => tenant # "none")'
    BY DEF IInv, AccountOnce, rows, history
<1>4. \A o \in Req : Legal(req[o])'
    BY <1>1 DEF IInv, Legal, Given, rows
<1>5. Disjoint'
    BY <1>1 DEF IInv, Disjoint, Others
<1>6. QED
    BY <1>2, <1>3, <1>4, <1>5 DEF IInv

\* Started and ended.
LEMMA StartSteps ==
    ASSUME IInv, NEW r \in Req, NEW new \in Request, Start(r, new),
           new.newUsers = {}, new.wrote = {}, new.pc \in {"user", "catalog", "tenant"},
           new.pc = "user" => tenant # "none",
           new.pc = "tenant" => new.kind # "seed"
    PROVE  IInv'
<1>1. /\ Step(r, new) /\ UNCHANGED <<rows, history>>
      /\ started' = started + 1 /\ started < MaxStart
    BY DEF Start
<1>2. started' \in 0 .. MaxStart
    BY <1>1, AccountsAssumption DEF IInv, TypeOK
<1>3. Legal(new)
    BY DEF Legal, Given, Early
<1>4. QED
    BY <1>1, <1>2, <1>3, StepInv

LEMMA Begin ==
    ASSUME IInv, NEW r \in Req,
           \/ Seed(r) \/ SeedSql(r)
           \/ \E e \in Email : \/ Register(r, e) \/ CreateTenant(r, e)
                               \/ \E codes \in SUBSET Role, on \in BOOLEAN :
                                      CreateUser(r, e, codes, on) \/ UpdateUser(r, e, codes, on)
    PROVE  IInv'
<1>1. Idle \in Request /\ Idle.newUsers = {} /\ Idle.wrote = {}
    BY IdleOK
<1>2. CASE Seed(r)
  <2>1. PICK new : /\ new = [Idle EXCEPT !.kind = "seed", !.pc = "catalog", !.found = catalog,
                                         !.todo = Seeded]
                   /\ Start(r, new)
      BY <1>2 DEF Seed
  <2>2. new \in Request /\ new.newUsers = {} /\ new.wrote = {} /\ new.pc = "catalog"
      BY <1>1, <2>1 DEF IInv, TypeOK, Request, Kind
  <2>3. QED
      BY <2>1, <2>2, StartSteps
<1>3. CASE SeedSql(r)
  <2>1. PICK new : /\ new = [Idle EXCEPT !.kind = "sql", !.pc = "catalog"]
                   /\ Start(r, new)
      BY <1>3 DEF SeedSql
  <2>2. new \in Request /\ new.newUsers = {} /\ new.wrote = {} /\ new.pc = "catalog"
      BY <1>1, <2>1 DEF Request, Kind
  <2>3. QED
      BY <2>1, <2>2, StartSteps
<1>4. CASE \E e \in Email : Register(r, e)
  <2>1. PICK e, new :
            /\ e \in Email
            /\ new = [Idle EXCEPT !.kind = "register", !.pc = "user", !.email = e,
                                  !.active = TRUE]
            /\ Start(r, new) /\ tenant # "none"
      BY <1>4 DEF Register
  <2>2. new \in Request /\ new.newUsers = {} /\ new.wrote = {} /\ new.pc = "user"
      BY <1>1, <2>1 DEF Request, Kind
  <2>3. QED
      BY <2>1, <2>2, StartSteps
<1>5. CASE \E e \in Email : CreateTenant(r, e)
  <2>1. PICK e, new :
            /\ e \in Email
            /\ new = [Idle EXCEPT !.kind = "tenant", !.pc = "tenant", !.email = e,
                                  !.found = (tenant # "none")]
            /\ Start(r, new)
      BY <1>5 DEF CreateTenant
  <2>2. /\ new \in Request /\ new.newUsers = {} /\ new.wrote = {}
        /\ new.pc = "tenant" /\ new.kind = "tenant"
      BY <1>1, <2>1 DEF Request, Kind
  <2>3. QED
      BY <2>1, <2>2, StartSteps
<1>6. CASE \E e \in Email, codes \in SUBSET Role, on \in BOOLEAN :
               CreateUser(r, e, codes, on) \/ UpdateUser(r, e, codes, on)
  <2>1. PICK e \in Email, codes \in SUBSET Role, on \in BOOLEAN :
            CreateUser(r, e, codes, on) \/ UpdateUser(r, e, codes, on)
      BY <1>6
  <2>2. PICK kind, new :
            /\ Start(r, new)
            /\ new = [Idle EXCEPT !.kind = kind, !.pc = "user", !.email = e,
                                  !.codes = codes, !.active = on]
            /\ kind \in {"create", "update"}
    <3>1. CASE CreateUser(r, e, codes, on)
        BY <3>1 DEF CreateUser
    <3>2. CASE UpdateUser(r, e, codes, on)
        BY <3>2 DEF UpdateUser
    <3>3. QED
        BY <2>1, <3>1, <3>2
  <2>3. tenant # "none"
      BY <2>1 DEF CreateUser, UpdateUser, IInv
  <2>4. new \in Request /\ new.newUsers = {} /\ new.wrote = {} /\ new.pc = "user"
      BY <1>1, <2>2 DEF Request, Kind
  <2>5. QED
      BY <2>2, <2>3, <2>4, StartSteps
<1>7. QED
    BY <1>2, <1>3, <1>4, <1>5, <1>6

\* A statement that inserts no user, in a transaction that has its tenant.
LEMMA LaterStep ==
    ASSUME IInv, NEW r \in Req, NEW new \in Request, Step(r, new),
           UNCHANGED <<rows, started, history>>,
           req[r].pc \notin Early, new.pc \notin Early,
           new.newUsers = req[r].newUsers, new.newTenant = req[r].newTenant,
           new.pc = "flush" /\ new.kind = "seed" => new.email \in Seeded, Given(new)
    PROVE  IInv'
<1>1. Legal(new)
  <2>1. Legal(req[r])
      BY DEF IInv
  <2>2. QED
      BY <2>1 DEF Legal, Early
<1>2. \A o \in Others(r) : new.newUsers \cap req[o].newUsers = {}
    BY DEF IInv, Disjoint, Others
<1>3. started' \in 0 .. MaxStart
    BY DEF IInv, TypeOK
<1>4. QED
    BY <1>1, <1>2, <1>3, StepInv

LEMMA QuietSteps ==
    ASSUME IInv, NEW r \in Req,
           \/ EmailFree(r) \/ LoadUser(r) \/ LookupRoles(r) \/ FlushUpdate(r)
           \/ SeedRoles(r) \/ SeedLoadUser(r) \/ SeedFindContent(r) \/ SeedContent(r)
           \/ SqlRoles(r) \/ SqlContent(r)
    PROVE  IInv'
<1>1. req[r] \in Request /\ Given(req[r]) /\ roles \subseteq Role
    BY DEF IInv, TypeOK, Legal
<1>2. \A e : RolesOf(e) \subseteq Role
    BY DEF RolesOf
<1>3. \A e \in Email, a, b \in SUBSET Role :
          Give(e, a, b) \in SUBSET Grant /\ Take(e, a, b) \in SUBSET Grant
    BY DEF Give, Take, Grant
<1>4. CASE EmailFree(r)
  <2>1. PICK pc, new :
            /\ pc = (IF req[r].kind = "create" THEN "insert" ELSE "role")
            /\ new = [req[r] EXCEPT !.pc = pc]
            /\ Step(r, new) /\ UNCHANGED <<rows, started, history>>
            /\ req[r].pc = "user"
      BY <1>4, Zenon DEF EmailFree
  <2>2. /\ new \in Request /\ new.pc \notin Early
        /\ new.newUsers = req[r].newUsers /\ new.newTenant = req[r].newTenant
        /\ new.pc = "flush" /\ new.kind = "seed" => new.email \in Seeded
        /\ Given(new)
      BY <1>1, <2>1 DEF Request, Early, Given
  <2>3. QED
      BY <2>1, <2>2, LaterStep DEF Early
<1>5. CASE LoadUser(r)
  <2> DEFINE Loaded(given) ==
                 [req[r] EXCEPT !.pc = IF given THEN "role" ELSE "flush",
                                !.codes = IF given THEN @ ELSE RolesOf(req[r].email),
                                !.loaded = RolesOf(req[r].email),
                                !.found = req[r].email \in active,
                                !.late = {}]
  <2>0. PICK given \in BOOLEAN :
            /\ Step(r, Loaded(given)) /\ UNCHANGED <<rows, started, history>>
            /\ req[r].pc = "user" /\ req[r].kind = "update"
      BY <1>5, Zenon DEF LoadUser
  <2>1. PICK new :
            /\ new = Loaded(given)
            /\ Step(r, new) /\ UNCHANGED <<rows, started, history>>
            /\ req[r].pc = "user" /\ req[r].kind = "update"
      BY <2>0, Zenon
  <2>2. PICK pc \in {"role", "flush"}, codes \in SUBSET Role, loaded \in SUBSET Role,
             found \in BOOLEAN :
            new = [req[r] EXCEPT !.pc = pc, !.codes = codes, !.loaded = loaded,
                                 !.found = found, !.late = {}]
    <3>1. /\ req[r].codes \in SUBSET Role /\ RolesOf(req[r].email) \in SUBSET Role
          /\ (req[r].email \in active) \in BOOLEAN
        BY <1>1, <1>2 DEF Request
    <3>2. CASE given
        BY <2>1, <3>1, <3>2, Zenon
    <3>3. CASE ~given
        BY <2>1, <3>1, <3>3, Zenon
    <3>4. QED
        BY <3>2, <3>3
  <2>3. /\ new \in Request /\ new.pc \notin Early
        /\ new.newUsers = req[r].newUsers /\ new.newTenant = req[r].newTenant
        /\ new.pc = "flush" /\ new.kind = "seed" => new.email \in Seeded
        /\ Given(new)
    <3>1. req[r].kind = "update"
        BY <2>1
    <3>2. QED
        BY <1>1, <2>2, <3>1 DEF Request, Early, Given
  <2>4. QED
      BY <2>1, <2>3, LaterStep DEF Early
<1>6. CASE LookupRoles(r)
  <2>1. PICK codes, new :
            /\ codes \in SUBSET Role
            /\ new = [req[r] EXCEPT !.pc = "flush", !.wrote = {req[r].email}, !.codes = codes]
            /\ Step(r, new) /\ UNCHANGED <<rows, started, history>>
            /\ req[r].pc = "role" /\ req[r].kind \notin {"seed", "sql"}
      BY <1>6, <1>1, AccountsAssumption DEF LookupRoles
  <2>2. /\ new \in Request /\ new.pc \notin Early
        /\ new.newUsers = req[r].newUsers /\ new.newTenant = req[r].newTenant
        /\ new.pc = "flush" /\ new.kind = "seed" => new.email \in Seeded
        /\ Given(new)
      BY <1>1, <2>1 DEF Request, Early, Given
  <2>3. QED
      BY <2>1, <2>2, LaterStep DEF Early
<1>7. CASE FlushUpdate(r)
  <2>1. PICK new, on, off, give, take :
            /\ new = [req[r] EXCEPT !.pc = "commit", !.on = on, !.off = off,
                                    !.give = give, !.take = take]
            /\ on = (IF req[r].active /\ ~req[r].found THEN {req[r].email} ELSE {})
            /\ off = (IF ~req[r].active /\ req[r].found THEN {req[r].email} ELSE {})
            /\ give = Give(req[r].email, req[r].codes, req[r].loaded)
            /\ take = Take(req[r].email, req[r].codes, req[r].loaded)
            /\ Step(r, new) /\ UNCHANGED <<rows, started, history>>
            /\ req[r].pc = "flush"
      BY <1>7, Zenon DEF FlushUpdate
  <2>2. req[r].email \in Email /\ req[r].codes \in SUBSET Role /\ req[r].loaded \in SUBSET Role
      BY <1>1 DEF Request
  <2>3. /\ on \in SUBSET Email /\ off \in SUBSET Email
        /\ give \in SUBSET Grant /\ take \in SUBSET Grant
      BY <1>3, <2>1, <2>2
  <2>4. new = [req[r] EXCEPT !.pc = "commit", !.on = on, !.off = off,
                             !.give = give, !.take = take]
      BY <2>1
  <2>5. /\ new \in Request /\ new.pc \notin Early
        /\ new.newUsers = req[r].newUsers /\ new.newTenant = req[r].newTenant
        /\ new.pc = "flush" /\ new.kind = "seed" => new.email \in Seeded
        /\ Given(new)
      BY <1>1, <2>3, <2>4 DEF Request, Early, Given
  <2>6. QED
      BY <2>1, <2>5, LaterStep DEF Early
<1>8. CASE SeedRoles(r)
  <2>1. PICK given, new :
            /\ given = (IF req[r].found THEN {} ELSE Role)
            /\ new = [req[r] EXCEPT !.pc = "users", !.newRoles = given]
            /\ Step(r, new) /\ UNCHANGED <<rows, started, history>>
            /\ req[r].pc = "roles"
      BY <1>8 DEF SeedRoles
  <2>2. /\ new \in Request /\ new.pc \notin Early
        /\ new.newUsers = req[r].newUsers /\ new.newTenant = req[r].newTenant
        /\ new.pc = "flush" /\ new.kind = "seed" => new.email \in Seeded
        /\ Given(new)
      BY <1>1, <2>1 DEF Request, Early, Given
  <2>3. QED
      BY <2>1, <2>2, LaterStep DEF Early
<1>9. CASE SeedLoadUser(r)
  <2>1. PICK e, new :
            /\ e \in req[r].todo
            /\ new = [req[r] EXCEPT !.pc = "flush", !.email = e, !.todo = @ \ {e},
                                    !.found = e \in users, !.loaded = RolesOf(e),
                                    !.late = @ \ {e}]
            /\ Step(r, new) /\ UNCHANGED <<rows, started, history>>
            /\ req[r].pc = "users"
      BY <1>9, Zenon DEF SeedLoadUser
  <2>2. PICK todo \in SUBSET Seeded, late \in SUBSET Email, found \in BOOLEAN,
             loaded \in SUBSET Role :
            new = [req[r] EXCEPT !.pc = "flush", !.email = e, !.todo = todo, !.found = found,
                                 !.loaded = loaded, !.late = late]
    <3>1. /\ req[r].todo \ {e} \in SUBSET Seeded /\ req[r].late \ {e} \in SUBSET Email
          /\ (e \in users) \in BOOLEAN /\ RolesOf(e) \in SUBSET Role
        BY <1>1, <1>2 DEF Request
    <3>2. new = [req[r] EXCEPT !.pc = "flush", !.email = e, !.todo = @ \ {e},
                               !.found = e \in users, !.loaded = RolesOf(e),
                               !.late = @ \ {e}]
        BY <2>1, Zenon
    <3>3. QED
        BY <3>1, <3>2, Zenon
  <2>3. e \in Seeded /\ e \in Email
      BY <1>1, <2>1, AccountsAssumption DEF Request
  <2>4. /\ new \in Request /\ new.pc \notin Early
        /\ new.newUsers = req[r].newUsers /\ new.newTenant = req[r].newTenant
        /\ new.pc = "flush" /\ new.kind = "seed" => new.email \in Seeded
        /\ Given(new)
      BY <1>1, <2>2, <2>3 DEF Request, Early, Given
  <2>5. QED
      BY <2>1, <2>4, LaterStep DEF Early
<1>10. CASE SeedFindContent(r)
  <2>1. PICK found, new :
            /\ found = (content # {})
            /\ new = [req[r] EXCEPT !.pc = "content", !.found = found]
            /\ Step(r, new) /\ UNCHANGED <<rows, started, history>>
            /\ req[r].pc = "users"
      BY <1>10 DEF SeedFindContent
  <2>2. /\ new \in Request /\ new.pc \notin Early
        /\ new.newUsers = req[r].newUsers /\ new.newTenant = req[r].newTenant
        /\ new.pc = "flush" /\ new.kind = "seed" => new.email \in Seeded
        /\ Given(new)
      BY <1>1, <2>1 DEF Request, Early, Given
  <2>3. QED
      BY <2>1, <2>2, LaterStep DEF Early
<1>11. CASE SeedContent(r)
  <2>1. PICK b, new :
            /\ b = ~req[r].found
            /\ new = [req[r] EXCEPT !.pc = "commit", !.newContent = b]
            /\ Step(r, new) /\ UNCHANGED <<rows, started, history>>
            /\ req[r].pc = "content"
      BY <1>11 DEF SeedContent
  <2>2. /\ new \in Request /\ new.pc \notin Early
        /\ new.newUsers = req[r].newUsers /\ new.newTenant = req[r].newTenant
        /\ new.pc = "flush" /\ new.kind = "seed" => new.email \in Seeded
        /\ Given(new)
      BY <1>1, <2>1 DEF Request, Early, Given
  <2>3. QED
      BY <2>1, <2>2, LaterStep DEF Early
<1>12. CASE SqlRoles(r)
  <2>1. PICK given, new :
            /\ given \in SUBSET Role
            /\ new = [req[r] EXCEPT !.pc = "users", !.newRoles = given]
            /\ Step(r, new) /\ UNCHANGED <<rows, started, history>>
            /\ req[r].pc = "roles"
      BY <1>12 DEF SqlRoles
  <2>2. /\ new \in Request /\ new.pc \notin Early
        /\ new.newUsers = req[r].newUsers /\ new.newTenant = req[r].newTenant
        /\ new.pc = "flush" /\ new.kind = "seed" => new.email \in Seeded
        /\ Given(new)
      BY <1>1, <2>1 DEF Request, Early, Given
  <2>3. QED
      BY <2>1, <2>2, LaterStep DEF Early
<1>13. CASE SqlContent(r)
  <2>1. PICK b, new :
            /\ b = ("sample" \notin content)
            /\ new = [req[r] EXCEPT !.pc = "commit", !.newContent = b]
            /\ Step(r, new) /\ UNCHANGED <<rows, started, history>>
            /\ req[r].pc = "content"
      BY <1>13 DEF SqlContent
  <2>2. /\ new \in Request /\ new.pc \notin Early
        /\ new.newUsers = req[r].newUsers /\ new.newTenant = req[r].newTenant
        /\ new.pc = "flush" /\ new.kind = "seed" => new.email \in Seeded
        /\ Given(new)
      BY <1>1, <2>1 DEF Request, Early, Given
  <2>3. QED
      BY <2>1, <2>2, LaterStep DEF Early
<1>14. QED
    BY <1>4, <1>5, <1>6, <1>7, <1>8, <1>9, <1>10, <1>11, <1>12, <1>13

\* The catalogue and the tenant, before there are users.
LEMMA EarlySteps ==
    ASSUME IInv, NEW r \in Req,
           SeedCatalog(r) \/ SeedTenant(r) \/ SqlCatalog(r) \/ SqlTenant(r)
    PROVE  IInv'
<1>1. req[r] \in Request /\ tenant \in TenantId /\ catalog \in BOOLEAN
    BY DEF IInv, TypeOK
<1>2. /\ req[r].pc \in Early /\ UNCHANGED <<rows, started, history>>
      /\ req[r].newUsers = {} /\ Given(req[r]) /\ started' \in 0 .. MaxStart
    BY DEF SeedCatalog, SeedTenant, SqlCatalog, SqlTenant, Early, IInv, Legal, TypeOK
<1>3. CASE SeedCatalog(r)
  <2>1. PICK new, b, found :
            /\ new = [req[r] EXCEPT !.pc = "tenant", !.newCatalog = b, !.found = found]
            /\ b = ~req[r].found /\ found = (tenant # "none") /\ Step(r, new)
      BY <1>3 DEF SeedCatalog
  <2>2. new \in Request /\ new.pc = "tenant" /\ new.newUsers = {} /\ new.found = found /\ Given(new)
    <3>1. b \in BOOLEAN /\ found \in BOOLEAN
        BY <2>1
    <3>2. new = [req[r] EXCEPT !.pc = "tenant", !.newCatalog = b, !.found = found]
        BY <2>1
    <3>3. QED
        BY <1>1, <1>2, <3>1, <3>2 DEF Request, Given
  <2>3. Legal(new)
      BY <2>1, <2>2 DEF Legal, Early
  <2>4. QED
      BY <1>2, <2>1, <2>2, <2>3, StepInv
<1>4. CASE SeedTenant(r)
  <2>1. PICK new, found, id :
            /\ new = [req[r] EXCEPT !.pc = "roles", !.found = found, !.newTenant = id]
            /\ id = (IF req[r].found THEN "none" ELSE "random") /\ found = (roles # {})
            /\ Step(r, new) /\ req[r].pc = "tenant" /\ req[r].kind = "seed"
      BY <1>4 DEF SeedTenant
  <2>2. new \in Request /\ new.pc = "roles" /\ new.newUsers = {} /\ new.newTenant = id /\ Given(new)
    <3>1. id \in TenantId
        BY <2>1 DEF TenantId
    <3>2. QED
      <4>1. found \in BOOLEAN
          BY <2>1
      <4>2. new = [req[r] EXCEPT !.pc = "roles", !.found = found, !.newTenant = id]
          BY <2>1
      <4>3. QED
          BY <1>1, <1>2, <3>1, <4>1, <4>2 DEF Request, Given
  <2>3. req[r].found \in BOOLEAN
      BY <1>1 DEF Request, Given
  <2>4. req[r].found = TRUE => tenant # "none"
      BY <2>1 DEF IInv, Legal
  <2>5. Legal(new)
      BY <2>1, <2>2, <2>3, <2>4 DEF Legal, Early
  <2>6. QED
      BY <1>2, <2>1, <2>2, <2>5, StepInv
<1>5. CASE SqlCatalog(r)
  <2>1. PICK new, b :
            /\ new = [req[r] EXCEPT !.pc = "tenant", !.newCatalog = b]
            /\ b = ~catalog /\ Step(r, new) /\ req[r].kind = "sql"
      BY <1>5 DEF SqlCatalog
  <2>2. new \in Request /\ new.pc = "tenant" /\ new.newUsers = {} /\ new.kind = "sql" /\ Given(new)
      BY <1>1, <1>2, <2>1 DEF Request, Given
  <2>3. Legal(new)
      BY <2>1, <2>2 DEF Legal, Early
  <2>4. QED
      BY <1>2, <2>1, <2>2, <2>3, StepInv
<1>6. CASE SqlTenant(r)
  <2>1. PICK new, id :
            /\ new = [req[r] EXCEPT !.pc = "roles", !.newTenant = id]
            /\ Step(r, new) /\ id = IF tenant = "none" THEN "uuid5" ELSE "none"
      BY <1>6 DEF SqlTenant
  <2>2. new \in Request /\ new.pc = "roles" /\ new.newUsers = {} /\ new.newTenant = id /\ Given(new)
      BY <1>1, <1>2, <2>1 DEF Request, TenantId, Given
  <2>3. Legal(new)
      BY <2>1, <2>2 DEF Legal, Early
  <2>4. QED
      BY <1>2, <2>1, <2>2, <2>3, StepInv
<1>7. QED
    BY <1>3, <1>4, <1>5, <1>6

\* The statements that insert users: the index keeps them from inserting one that
\* is there or that another transaction has inserted.
LEMMA InsertStep ==
    ASSUME IInv, NEW r \in Req, NEW new \in Request, Step(r, new),
           UNCHANGED <<rows, started, history>>,
           req[r].pc \notin Early, new.pc \notin Early, new.newTenant = req[r].newTenant,
           new.pc # "flush", Given(new),
           \A e \in new.newUsers : e \in req[r].newUsers \/ (e \notin users /\ FreeUser(r, e))
    PROVE  IInv'
<1>1. Legal(req[r])
    BY DEF IInv
<1>2. Legal(new)
    BY <1>1 DEF Legal, Early
<1>3. \A o \in Others(r) : new.newUsers \cap req[o].newUsers = {}
    BY DEF IInv, Disjoint, Others, FreeUser
<1>4. started' \in 0 .. MaxStart
    BY DEF IInv, TypeOK
<1>5. QED
    BY <1>2, <1>3, <1>4, StepInv

LEMMA UserSteps ==
    ASSUME IInv, NEW r \in Req,
           InsertUser(r) \/ FlushNew(r) \/ SeedFlushUser(r) \/ SqlUsers(r)
    PROVE  IInv'
<1>1. /\ req[r] \in Request /\ req[r].email \in Email /\ Given(req[r])
      /\ req[r].codes \in SUBSET Role /\ req[r].loaded \in SUBSET Role
    BY DEF IInv, TypeOK, Request, Legal
<1>2. \A e \in Email, a, b \in SUBSET Role :
          Give(e, a, b) \in SUBSET Grant /\ Take(e, a, b) \in SUBSET Grant
    BY DEF Give, Take, Grant
<1>3. CASE InsertUser(r)
  <2>1. PICK new, on :
            /\ new = [req[r] EXCEPT !.pc = "role", !.newUsers = {req[r].email}, !.on = on]
            /\ on = (IF req[r].active THEN {req[r].email} ELSE {})
            /\ Step(r, new) /\ UNCHANGED <<rows, started, history>>
            /\ req[r].pc = "insert" /\ FreeUser(r, req[r].email) /\ req[r].email \notin users
      BY <1>3, Zenon DEF InsertUser
  <2>2. on \in SUBSET Email
      BY <1>1, <2>1
  <2>3. /\ new \in Request /\ new.pc \notin Early /\ new.pc # "flush" /\ Given(new)
        /\ new.newUsers = {req[r].email} /\ new.newTenant = req[r].newTenant
      BY <1>1, <2>1, <2>2 DEF Request, Early, Given
  <2>4. QED
      BY <2>1, <2>3, InsertStep DEF Early
<1>4. CASE FlushNew(r)
  <2>1. PICK new, on, give :
            /\ new = [req[r] EXCEPT !.pc = "commit", !.newUsers = {req[r].email}, !.on = on,
                                    !.give = give]
            /\ on = (IF req[r].active THEN {req[r].email} ELSE {})
            /\ give = Give(req[r].email, req[r].codes, {})
            /\ Step(r, new) /\ UNCHANGED <<rows, started, history>>
            /\ req[r].pc = "flush" /\ FreeUser(r, req[r].email) /\ req[r].email \notin users
      BY <1>4, Zenon DEF FlushNew
  <2>2. on \in SUBSET Email /\ give \in SUBSET Grant
      BY <1>1, <1>2, <2>1
  <2>3. /\ new \in Request /\ new.pc \notin Early /\ new.pc # "flush" /\ Given(new)
        /\ new.newUsers = {req[r].email} /\ new.newTenant = req[r].newTenant
      BY <1>1, <2>1, <2>2 DEF Request, Early, Given
  <2>4. QED
      BY <2>1, <2>3, InsertStep DEF Early
<1>5. CASE SeedFlushUser(r)
  <2>1. PICK new, e, inserted, on, give, take, wrote :
            /\ new = [req[r] EXCEPT !.pc = "users", !.newUsers = inserted, !.on = on,
                                    !.give = give, !.take = take, !.wrote = wrote]
            /\ e = req[r].email
            /\ inserted = (IF req[r].found THEN req[r].newUsers ELSE req[r].newUsers \cup {e})
            /\ on = (IF req[r].found THEN req[r].on ELSE req[r].on \cup {e})
            /\ give = req[r].give \cup Give(e, {SeedRole[e]}, req[r].loaded)
            /\ take = req[r].take \cup Take(e, {SeedRole[e]}, req[r].loaded)
            /\ wrote = req[r].wrote \cup {e}
            /\ Step(r, new) /\ UNCHANGED <<rows, started, history>>
            /\ req[r].pc = "flush" /\ req[r].kind = "seed"
            /\ ~req[r].found => FreeUser(r, e) /\ e \notin users
      BY <1>5, Zenon DEF SeedFlushUser
  <2>2. e \in Seeded /\ e \in Email /\ {SeedRole[e]} \in SUBSET Role
      BY <2>1, AccountsAssumption DEF IInv, Legal
  <2>3. /\ inserted \in SUBSET Email /\ on \in SUBSET Email /\ wrote \in SUBSET Email
        /\ give \in SUBSET Grant /\ take \in SUBSET Grant
    <3>1. /\ req[r].newUsers \in SUBSET Email /\ req[r].on \in SUBSET Email
          /\ req[r].wrote \in SUBSET Email
          /\ req[r].give \in SUBSET Grant /\ req[r].take \in SUBSET Grant
        BY <1>1 DEF Request
    <3>2. /\ Give(e, {SeedRole[e]}, req[r].loaded) \in SUBSET Grant
          /\ Take(e, {SeedRole[e]}, req[r].loaded) \in SUBSET Grant
        BY <1>1, <1>2, <2>2
    <3>3. QED
        BY <2>1, <2>2, <3>1, <3>2
  <2>4. new = [req[r] EXCEPT !.pc = "users", !.newUsers = inserted, !.on = on,
                             !.give = give, !.take = take, !.wrote = wrote]
      BY <2>1
  <2>5. /\ new \in Request /\ new.pc \notin Early /\ new.pc # "flush" /\ Given(new)
        /\ new.newUsers = inserted /\ new.newTenant = req[r].newTenant
    <3>1. /\ new \in Request /\ new.pc \notin Early /\ new.pc # "flush"
          /\ new.newUsers = inserted /\ new.newTenant = req[r].newTenant
          /\ new.wrote = wrote
        BY <1>1, <2>3, <2>4 DEF Request, Early
    <3>2. wrote \subseteq Seeded
        BY <1>1, <2>1, <2>2 DEF Given
    <3>3. QED
        BY <3>1, <3>2 DEF Given
  <2>6. \A x \in inserted : x \in req[r].newUsers \/ (x \notin users /\ FreeUser(r, x))
      BY <2>1
  <2>7. QED
      BY <2>1, <2>5, <2>6, InsertStep DEF Early
<1>6. CASE SqlUsers(r)
  <2>1. PICK new, given :
            /\ new = [req[r] EXCEPT !.pc = "content", !.newUsers = Seeded \ users,
                                    !.on = Seeded \ users, !.give = given \ grants,
                                    !.late = {}, !.wrote = Seeded]
            /\ given = {<<e, SeedRole[e]>> : e \in Seeded}
            /\ Step(r, new) /\ UNCHANGED <<rows, started, history>>
            /\ req[r].pc = "users" /\ \A e \in Seeded : FreeUser(r, e)
      BY <1>6, Zenon DEF SqlUsers
  <2>2. given \in SUBSET Grant
      BY <2>1, AccountsAssumption DEF Grant
  <2>3. /\ new \in Request /\ new.pc \notin Early /\ new.pc # "flush" /\ Given(new)
        /\ new.newUsers = Seeded \ users /\ new.newTenant = req[r].newTenant
    <3>1. PICK free \in SUBSET Email, give \in SUBSET Grant :
              /\ new = [req[r] EXCEPT !.pc = "content", !.newUsers = free, !.on = free,
                                      !.give = give, !.late = {}, !.wrote = Seeded]
              /\ free = Seeded \ users
      <4>1. Seeded \ users \in SUBSET Email /\ given \ grants \in SUBSET Grant
          BY <2>2, AccountsAssumption
      <4>2. QED
          BY <2>1, <4>1, Zenon
    <3>2. Seeded \in SUBSET Email
        BY AccountsAssumption
    <3>3. QED
        BY <1>1, <3>1, <3>2 DEF Request, Early, Given
  <2>4. QED
      BY <2>1, <2>3, InsertStep DEF Early
<1>7. QED
    BY <1>3, <1>4, <1>5, <1>6

\* A new tenant has no users, and nobody else can be inserting any.
LEMMA TenantStep ==
    ASSUME IInv, NEW r \in Req, InsertTenant(r)
    PROVE  IInv'
<1>1. req[r] \in Request /\ req[r].email \in Email /\ started \in 0 .. MaxStart
    BY DEF IInv, TypeOK, Request
<1>2. PICK new :
          /\ new = [req[r] EXCEPT !.pc = "commit", !.newTenant = "random",
                                  !.newUsers = {req[r].email}, !.on = {req[r].email},
                                  !.wrote = {req[r].email}]
          /\ Step(r, new) /\ UNCHANGED <<rows, started, history>>
          /\ FreeTenant(r) /\ tenant = "none" /\ req[r].kind = "tenant"
    BY Zenon DEF InsertTenant
<1>3. /\ new \in Request /\ new.pc = "commit" /\ new.newTenant = "random"
      /\ new.newUsers = {req[r].email} /\ new.kind = "tenant"
    BY <1>1, <1>2 DEF Request, TenantId
<1>4. users = {} /\ \A o \in Others(r) : req[o].newUsers = {}
    BY <1>2 DEF IInv, Legal, FreeTenant, Others
<1>5. Legal(new)
    BY <1>3, <1>4 DEF Legal, Given, Early
<1>6. QED
    BY <1>1, <1>2, <1>3, <1>4, <1>5, StepInv

LEMMA FailStep ==
    ASSUME IInv, NEW r \in Req, Fail(r)
    PROVE  IInv'
<1>1. Step(r, Idle) /\ UNCHANGED <<rows, started, history>>
    BY DEF Fail
<1>2. Legal(Idle) /\ started' \in 0 .. MaxStart
    BY <1>1, IdleOK DEF Legal, Given, Early, IInv, TypeOK
<1>3. QED
    BY <1>1, <1>2, IdleOK, StepInv

\* What is committed was new, so it is counted once.
LEMMA CommitStep ==
    ASSUME IInv, NEW r \in Req, Commit(r)
    PROVE  IInv'
<1> DEFINE q == req[r]
<1>1. /\ q \in Request /\ q.pc = "commit" /\ users' = users \cup q.newUsers
      /\ tenant' = TenantSeen(r) /\ UNCHANGED started
    BY DEF IInv, TypeOK, Commit
<1>2. req' = [o \in Req |-> IF o = r THEN Idle ELSE [req[o] EXCEPT !.late = @ \cup q.wrote]]
    BY Zenon DEF Commit
<1>3. req'[r] = Idle
    BY <1>2
<1>4. \A o \in Req : o # r => req'[o] = [req[o] EXCEPT !.late = @ \cup q.wrote]
    BY <1>2
<1>5. \A o \in Req : o # r =>
          /\ req'[o] \in Request
          /\ req'[o].newUsers = req[o].newUsers /\ req'[o].pc = req[o].pc
          /\ req'[o].kind = req[o].kind /\ req'[o].found = req[o].found
          /\ req'[o].newTenant = req[o].newTenant /\ req'[o].email = req[o].email
          /\ req'[o].wrote = req[o].wrote
  <2> SUFFICES ASSUME NEW o \in Req, o # r
               PROVE  /\ req'[o] \in Request
                      /\ req'[o].newUsers = req[o].newUsers /\ req'[o].pc = req[o].pc
                      /\ req'[o].kind = req[o].kind /\ req'[o].found = req[o].found
                      /\ req'[o].newTenant = req[o].newTenant
                      /\ req'[o].email = req[o].email /\ req'[o].wrote = req[o].wrote
      OBVIOUS
  <2>1. req[o] \in Request
      BY DEF IInv, TypeOK
  <2>2. PICK late \in SUBSET Email : req'[o] = [req[o] EXCEPT !.late = late]
    <3>1. req[o].late \cup q.wrote \in SUBSET Email
        BY <1>1, <2>1 DEF Request
    <3>2. QED
        BY <1>4, <3>1
  <2>3. QED
      BY <2>1, <2>2 DEF Request
<1>6. /\ q.newUsers \in SUBSET Email /\ q.newTenant \in TenantId /\ q.newRoles \in SUBSET Role
      /\ q.on \in SUBSET Email /\ q.give \in SUBSET Grant /\ q.wrote \in SUBSET Email
      /\ q.codes \in SUBSET Role
    BY <1>1 DEF Request
<1>7. TypeOK'
  <2>1. req' \in [Req -> Request]
    <3>1. \A o \in Req : req'[o] \in Request
        BY <1>3, <1>5, IdleOK
    <3>2. QED
        BY <1>2, <3>1
  <2>2. catalog' \in BOOLEAN
      BY DEF Commit
  <2>3. /\ tenant' \in TenantId /\ roles' \subseteq Role /\ users' \subseteq Email
        /\ active' \subseteq Email /\ grants' \subseteq Grant
      BY <1>6 DEF Commit, IInv, TypeOK, TenantSeen, RolesSeen
  <2>4. content' \subseteq {"sample", "own"}
      BY DEF Commit, IInv, TypeOK
  <2>5. granted' \in [Email -> SUBSET Role]
    <3>1. \A e \in Email : e \in q.wrote /\ q.kind \in {"seed", "sql"} => e \in Seeded
        BY DEF IInv, Legal, Given
    <3>2. QED
      <4>1. granted' = [e \in Email |->
                            IF e \notin q.wrote THEN granted[e]
                            ELSE CASE q.kind = "seed" -> {SeedRole[e]}
                                   [] q.kind = "sql" -> granted[e] \cup {SeedRole[e]}
                                   [] OTHER -> q.codes]
          BY Zenon DEF Commit
      <4>2. granted \in [Email -> SUBSET Role]
          BY DEF IInv, TypeOK
      <4>3. SUFFICES ASSUME NEW e \in Email PROVE granted'[e] \in SUBSET Role
          BY <4>1
      <4>4. CASE e \notin q.wrote
          BY <4>1, <4>2, <4>4
      <4>5. CASE e \in q.wrote /\ q.kind \in {"seed", "sql"}
        <5>1. SeedRole[e] \in Role
            BY <3>1, <4>5, AccountsAssumption
        <5>2. QED
            BY <4>1, <4>2, <4>5, <5>1
      <4>6. CASE e \in q.wrote /\ q.kind \notin {"seed", "sql"}
          BY <1>6, <4>1, <4>6
      <4>7. QED
          BY <4>4, <4>5, <4>6
  <2>6. raced' \subseteq Email
      BY <1>6 DEF Commit, IInv, TypeOK
  <2>7. created' \in [Email -> Nat]
      BY DEF Commit, IInv, TypeOK
  <2>8. QED
      BY <1>1, <2>1, <2>2, <2>3, <2>4, <2>5, <2>6, <2>7 DEF IInv, TypeOK
<1>8. AccountOnce'
  <2>1. \A e \in Email : created'[e] = IF e \in q.newUsers THEN created[e] + 1 ELSE created[e]
      BY DEF Commit
  <2>2. q.newUsers \cap users = {} /\ \A e \in Email : created[e] = IF e \in users THEN 1 ELSE 0
      BY DEF IInv, Legal, AccountOnce
  <2>3. QED
      BY <1>1, <2>1, <2>2 DEF AccountOnce
<1>9. q.newTenant # "none" \/ tenant # "none"
    BY <1>1 DEF IInv, Legal, Early
<1>10. tenant' # "none"
    BY <1>1, <1>9 DEF TenantSeen
<1>11. \A o \in Req : Legal(req[o])'
  <2> SUFFICES ASSUME NEW o \in Req PROVE Legal(req[o])'
      OBVIOUS
  <2>1. CASE o = r
      BY <1>3, <1>10, <2>1, IdleOK DEF Legal, Given, Early
  <2>2. CASE o # r
    <3>1. Legal(req[o]) /\ req[o].newUsers \cap q.newUsers = {}
        BY <2>2 DEF IInv, Disjoint
    <3>2. QED
        BY <1>1, <1>5, <1>10, <2>2, <3>1 DEF Legal, Given
  <2>3. QED
      BY <2>1, <2>2
<1>12. Disjoint'
    BY <1>3, <1>5, IdleOK DEF IInv, Disjoint
<1>13. QED
    BY <1>7, <1>8, <1>10, <1>11, <1>12 DEF IInv

LEMMA NextInv == IInv /\ [Next]_vars => IInv'
<1> SUFFICES ASSUME IInv, [Next]_vars PROVE IInv'
    OBVIOUS
<1>1. CASE UNCHANGED vars
  <2>1. UNCHANGED <<rows, history, req, started>>
      BY <1>1 DEF vars
  <2>2. QED
      BY <2>1 DEF rows, history, IInv, TypeOK, AccountOnce, Legal, Given, Disjoint
<1>2. CASE CreateCourse
    BY <1>2 DEF CreateCourse, history, IInv, TypeOK, AccountOnce, Legal, Given, Disjoint
<1>3. CASE \E r \in Req :
              \/ Seed(r) \/ SeedSql(r)
              \/ \E e \in Email : \/ Register(r, e) \/ CreateTenant(r, e)
                                  \/ \E codes \in SUBSET Role, on \in BOOLEAN :
                                         CreateUser(r, e, codes, on) \/ UpdateUser(r, e, codes, on)
    BY <1>3, Begin
<1>4. CASE \E r \in Req :
              \/ EmailFree(r) \/ LoadUser(r) \/ LookupRoles(r) \/ FlushUpdate(r)
              \/ SeedRoles(r) \/ SeedLoadUser(r) \/ SeedFindContent(r) \/ SeedContent(r)
              \/ SqlRoles(r) \/ SqlContent(r)
    BY <1>4, QuietSteps
<1>5. CASE \E r \in Req : SeedCatalog(r) \/ SeedTenant(r) \/ SqlCatalog(r) \/ SqlTenant(r)
    BY <1>5, EarlySteps
<1>6. CASE \E r \in Req : InsertUser(r) \/ FlushNew(r) \/ SeedFlushUser(r) \/ SqlUsers(r)
    BY <1>6, UserSteps
<1>7. CASE \E r \in Req : InsertTenant(r) \/ Fail(r) \/ Commit(r)
    BY <1>7, TenantStep, FailStep, CommitStep
<1>8. QED
    BY <1>1, <1>2, <1>3, <1>4, <1>5, <1>6, <1>7, Zenon DEF Next

-----------------------------------------------------------------------------
(* Whole seeds and serial roles                                             *)

LEMMA InitRoles == Init => RolesInv
<1> SUFFICES ASSUME Init PROVE RolesInv
    OBVIOUS
<1>1. \A r \in Req : req[r] = Idle
    BY DEF Init
<1>2. SeedWhole /\ SerialRoles /\ Unborn
    BY DEF Init, SeedWhole, SerialRoles, Unborn
<1>3. Whole(Idle) /\ Exact(Idle)
    BY DEF Idle, Whole, Exact, Seeds
<1>4. QED
    BY <1>1, <1>2, <1>3 DEF RolesInv

\* A statement of a transaction changes no row, and so nothing about the others.
LEMMA StepRoles ==
    ASSUME IInv, RolesInv, NEW r \in Req, NEW new, Step(r, new),
           UNCHANGED <<rows, history>>, Whole(new), Exact(new)
    PROVE  RolesInv'
<1>1. req'[r] = new /\ \A o \in Req : o # r => req'[o] = req[o]
    BY DEF IInv, TypeOK, Step
<1>2. SeedWhole'
    BY DEF RolesInv, SeedWhole, rows
<1>3. SerialRoles' /\ Unborn'
    BY DEF RolesInv, SerialRoles, Unborn, RolesOf, rows, history
<1>4. \A o \in Req : Whole(req[o])'
  <2> SUFFICES ASSUME NEW o \in Req, NEW q, q = req'[o], Whole(q)
               PROVE  Whole(req[o])'
      BY <1>1 DEF RolesInv
  <2>1. UNCHANGED <<catalog, roles, users, content>>
      BY DEF rows
  <2>2. QED
      BY <2>1 DEF Whole
<1>5. \A o \in Req : Exact(req[o])'
  <2> SUFFICES ASSUME NEW o \in Req, NEW q, q = req'[o], Exact(q)
               PROVE  Exact(req[o])'
      BY <1>1 DEF RolesInv
  <2>1. UNCHANGED <<grants, users>>
      BY DEF rows
  <2>2. \A e : UNCHANGED RolesOf(e)
      BY <2>1 DEF RolesOf
  <2>3. \A e : After(req[o], e)' = After(q, e) /\ Target(req[o], e)' = Target(q, e)
      BY <2>1, <2>2 DEF After, Target
  <2>4. QED
      BY <2>1, <2>2, <2>3 DEF Exact
<1>6. QED
    BY <1>2, <1>3, <1>4, <1>5 DEF RolesInv

LEMMA BeginRoles ==
    ASSUME IInv, RolesInv, NEW r \in Req, NEW new, Start(r, new),
           new.newRoles = {}, new.newUsers = {}, new.newContent = FALSE,
           new.give = {}, new.take = {}, new.wrote = {}, new.pc \in {"user", "catalog", "tenant"},
           new.kind = "update" => new.email \in users,
           new.kind \in Seeds => new.pc = "catalog",
           new.kind = "seed" => new.todo = Seeded /\ (new.found = TRUE => catalog = TRUE),
           new.kind = "tenant" => new.codes = {}
    PROVE  RolesInv'
<1>1. Step(r, new) /\ UNCHANGED <<rows, history>>
    BY DEF Start
<1>2. Whole(new)
    BY DEF Whole, Seeds
<1>3. Exact(new)
    BY DEF Exact, Seeds
<1>4. QED
    BY <1>1, <1>2, <1>3, StepRoles

LEMMA StartRoles ==
    ASSUME IInv, RolesInv, NEW r \in Req,
           \/ Seed(r) \/ SeedSql(r)
           \/ \E e \in Email : \/ Register(r, e) \/ CreateTenant(r, e)
                               \/ \E codes \in SUBSET Role, on \in BOOLEAN :
                                      CreateUser(r, e, codes, on) \/ UpdateUser(r, e, codes, on)
    PROVE  RolesInv'
<1>1. CASE Seed(r)
  <2>1. PICK new : /\ new = [Idle EXCEPT !.kind = "seed", !.pc = "catalog", !.found = catalog,
                                         !.todo = Seeded]
                   /\ Start(r, new)
      BY <1>1 DEF Seed
  <2>2. QED
      BY <2>1, BeginRoles DEF Idle, Seeds
<1>2. CASE SeedSql(r)
  <2>1. PICK new : /\ new = [Idle EXCEPT !.kind = "sql", !.pc = "catalog"]
                   /\ Start(r, new)
      BY <1>2 DEF SeedSql
  <2>2. QED
      BY <2>1, BeginRoles DEF Idle, Seeds
<1>3. CASE \E e \in Email : Register(r, e)
  <2>1. PICK e, new :
            /\ new = [Idle EXCEPT !.kind = "register", !.pc = "user", !.email = e,
                                  !.active = TRUE]
            /\ Start(r, new)
      BY <1>3 DEF Register
  <2>2. QED
      BY <2>1, BeginRoles DEF Idle, Seeds
<1>4. CASE \E e \in Email : CreateTenant(r, e)
  <2>1. PICK e, found, new :
            /\ new = [Idle EXCEPT !.kind = "tenant", !.pc = "tenant", !.email = e,
                                  !.found = found]
            /\ Start(r, new)
      BY <1>4 DEF CreateTenant
  <2>2. QED
      BY <2>1, BeginRoles DEF Idle, Seeds
<1>5. CASE \E e \in Email, codes \in SUBSET Role, on \in BOOLEAN : CreateUser(r, e, codes, on)
  <2>1. PICK e, codes, on, new :
            /\ new = [Idle EXCEPT !.kind = "create", !.pc = "user", !.email = e,
                                  !.codes = codes, !.active = on]
            /\ Start(r, new)
      BY <1>5 DEF CreateUser
  <2>2. QED
      BY <2>1, BeginRoles DEF Idle, Seeds
<1>6. CASE \E e \in Email, codes \in SUBSET Role, on \in BOOLEAN : UpdateUser(r, e, codes, on)
  <2>1. PICK e, codes, on, new :
            /\ new = [Idle EXCEPT !.kind = "update", !.pc = "user", !.email = e,
                                  !.codes = codes, !.active = on]
            /\ Start(r, new) /\ e \in users
      BY <1>6 DEF UpdateUser
  <2>2. QED
      BY <2>1, BeginRoles DEF Idle, Seeds
<1>7. QED
    BY <1>1, <1>2, <1>3, <1>4, <1>5, <1>6

\* register, create_user, update_user and create_tenant.
LEMMA RequestRoles ==
    ASSUME IInv, RolesInv, NEW r \in Req,
           \/ EmailFree(r) \/ InsertUser(r) \/ LoadUser(r) \/ LookupRoles(r)
           \/ FlushNew(r) \/ FlushUpdate(r) \/ InsertTenant(r)
    PROVE  RolesInv'
<1> DEFINE q == req[r]
<1>1. /\ q \in Request /\ Whole(q) /\ Exact(q)
      /\ UNCHANGED <<rows, history>>
    BY DEF IInv, TypeOK, RolesInv, EmailFree, InsertUser, LoadUser, LookupRoles,
           FlushNew, FlushUpdate, InsertTenant
<1>2. \A e : e \notin users => RolesOf(e) = {}
    BY DEF RolesInv, SeedWhole, RolesOf
<1>3. CASE EmailFree(r)
  <2>1. PICK pc, new :
            /\ new = [q EXCEPT !.pc = pc] /\ Step(r, new) /\ pc \in {"insert", "role"}
            /\ q.pc = "user" /\ q.kind \in {"register", "create"}
      BY <1>3 DEF EmailFree
  <2>2. Whole(new)
      BY <1>1, <2>1 DEF Request, Whole, Seeds
  <2>3. Exact(new)
      BY <1>1, <2>1 DEF Request, Exact, Seeds
  <2>4. QED
      BY <1>1, <2>1, <2>2, <2>3, StepRoles
<1>4. CASE InsertUser(r)
  <2>1. PICK on, new :
            /\ new = [q EXCEPT !.pc = "role", !.newUsers = {q.email}, !.on = on]
            /\ Step(r, new) /\ q.pc = "insert" /\ q.kind = "create"
      BY <1>4, Zenon DEF InsertUser
  <2>2. Whole(new)
      BY <1>1, <2>1 DEF Request, Whole, Exact, Seeds
  <2>3. Exact(new)
      BY <1>1, <2>1 DEF Request, Exact, Seeds
  <2>4. QED
      BY <1>1, <2>1, <2>2, <2>3, StepRoles
<1>5. CASE LoadUser(r)
  <2>1. PICK pc, codes, loaded, found, new :
            /\ new = [q EXCEPT !.pc = pc, !.codes = codes, !.loaded = loaded,
                               !.found = found, !.late = {}]
            /\ Step(r, new) /\ q.pc = "user" /\ q.kind = "update"
            /\ loaded = RolesOf(q.email)
            /\ pc = "role" \/ (pc = "flush" /\ codes = loaded)
    <3>1. PICK given \in BOOLEAN :
              /\ Step(r, [q EXCEPT !.pc = IF given THEN "role" ELSE "flush",
                                   !.codes = IF given THEN @ ELSE RolesOf(q.email),
                                   !.loaded = RolesOf(q.email),
                                   !.found = q.email \in active,
                                   !.late = {}])
              /\ q.pc = "user" /\ q.kind = "update"
        BY <1>5, Zenon DEF LoadUser
    <3>2. CASE given
        BY <3>1, <3>2, Zenon
    <3>3. CASE ~given
        BY <3>1, <3>3, Zenon
    <3>4. QED
        BY <3>2, <3>3
  <2>2. /\ new.kind = "update" /\ new.pc = pc /\ new.email = q.email /\ new.codes = codes
        /\ new.loaded = loaded /\ new.late = {} /\ new.newRoles = q.newRoles
        /\ new.newUsers = q.newUsers /\ new.newContent = q.newContent
        /\ new.give = q.give /\ new.take = q.take /\ new.wrote = q.wrote
      BY <1>1, <2>1 DEF Request
  <2>3. RolesOf(q.email) \subseteq roles
      BY DEF RolesInv, SeedWhole, RolesOf
  <2>4. Whole(new)
      BY <1>1, <2>1, <2>2, <2>3 DEF Whole, Seeds
  <2>5. Exact(new)
      BY <1>1, <2>1, <2>2 DEF Exact, Seeds
  <2>6. QED
      BY <1>1, <2>1, <2>4, <2>5, StepRoles
<1>6. CASE LookupRoles(r)
  <2>1. PICK codes, new :
            /\ new = [q EXCEPT !.pc = "flush", !.wrote = {q.email}, !.codes = codes]
            /\ Step(r, new) /\ q.pc = "role" /\ q.kind \in {"register", "create", "update"}
            /\ codes \subseteq roles
      BY <1>6 DEF LookupRoles
  <2>2. Whole(new)
      BY <1>1, <2>1 DEF Request, Whole, Seeds
  <2>3. Exact(new)
      BY <1>1, <2>1 DEF Request, Exact, Seeds
  <2>4. QED
      BY <1>1, <2>1, <2>2, <2>3, StepRoles
<1>7. CASE FlushNew(r)
  <2>1. PICK on, give, new :
            /\ new = [q EXCEPT !.pc = "commit", !.newUsers = {q.email}, !.on = on,
                               !.give = give]
            /\ Step(r, new) /\ q.pc = "flush" /\ q.kind \in {"register", "create"}
            /\ q.email \notin users /\ give = Give(q.email, q.codes, {})
      BY <1>7, Zenon DEF FlushNew
  <2>2. /\ new.kind = q.kind /\ new.pc = "commit" /\ new.email = q.email
        /\ new.codes = q.codes /\ new.newRoles = q.newRoles /\ new.newUsers = {q.email}
        /\ new.newContent = q.newContent /\ new.give = give /\ new.take = q.take
        /\ new.wrote = q.wrote /\ q.codes \subseteq Role
      BY <1>1, <2>1 DEF Request
  <2>3. Whole(new)
      BY <1>1, <2>1, <2>2 DEF Whole, Give, Seeds
  <2>4. After(new, q.email) = q.codes
    <3>1. new.take = {} /\ RolesOf(q.email) = {}
        BY <1>1, <1>2, <2>1, <2>2 DEF Exact, Seeds
    <3>2. QED
        BY <2>1, <2>2, <3>1 DEF After, Give, RolesOf
  <2>5. Exact(new)
      BY <1>1, <2>1, <2>2, <2>4 DEF Exact, Target, Give, Seeds
  <2>6. QED
      BY <1>1, <2>1, <2>3, <2>5, StepRoles
<1>8. CASE FlushUpdate(r)
  <2>1. PICK on, off, give, take, new :
            /\ new = [q EXCEPT !.pc = "commit", !.on = on, !.off = off,
                               !.give = give, !.take = take]
            /\ Step(r, new) /\ q.pc = "flush" /\ q.kind = "update"
            /\ give = Give(q.email, q.codes, q.loaded)
            /\ take = Take(q.email, q.codes, q.loaded)
      BY <1>8, Zenon DEF FlushUpdate
  <2>2. /\ new.kind = "update" /\ new.pc = "commit" /\ new.email = q.email
        /\ new.codes = q.codes /\ new.newRoles = q.newRoles /\ new.newUsers = q.newUsers
        /\ new.newContent = q.newContent /\ new.give = give /\ new.take = take
        /\ new.wrote = q.wrote /\ new.late = q.late /\ q.codes \subseteq Role
      BY <1>1, <2>1 DEF Request
  <2>3. Whole(new)
      BY <1>1, <2>1, <2>2 DEF Whole, Give, Seeds
  <2>4. ASSUME q.email \notin q.late PROVE After(new, q.email) = q.codes
    <3>1. q.loaded = RolesOf(q.email)
        BY <1>1, <2>1, <2>4 DEF Exact
    <3>2. QED
        BY <2>1, <2>2, <3>1 DEF After, Give, Take, RolesOf
  <2>5. q.wrote = {q.email} \/ (q.wrote = {} /\ give = {} /\ take = {})
      BY <1>1, <2>1 DEF Exact, Give, Take
  <2>6. q.email \in users
      BY <1>1, <2>1 DEF Whole, Seeds
  <2>7. Exact(new)
      BY <2>1, <2>2, <2>4, <2>5, <2>6 DEF Exact, Target, Give, Take, Seeds
  <2>8. QED
      BY <1>1, <2>1, <2>3, <2>7, StepRoles
<1>9. CASE InsertTenant(r)
  <2>1. PICK new :
            /\ new = [q EXCEPT !.pc = "commit", !.newTenant = "random",
                               !.newUsers = {q.email}, !.on = {q.email}, !.wrote = {q.email}]
            /\ Step(r, new) /\ tenant = "none" /\ q.kind = "tenant" /\ q.pc = "tenant"
      BY <1>9, Zenon DEF InsertTenant
  <2>2. /\ new.kind = "tenant" /\ new.pc = "commit" /\ new.email = q.email
        /\ new.codes = q.codes /\ new.newRoles = q.newRoles /\ new.newUsers = {q.email}
        /\ new.newContent = q.newContent /\ new.give = q.give /\ new.take = q.take
        /\ new.wrote = {q.email}
      BY <1>1, <2>1 DEF Request
  <2>3. RolesOf(q.email) = {}
      BY <1>2, <2>1 DEF IInv
  <2>4. Whole(new)
      BY <1>1, <2>1, <2>2 DEF Whole, Exact, Seeds
  <2>5. Exact(new)
      BY <1>1, <2>1, <2>2, <2>3 DEF Exact, After, Target, RolesOf, Seeds
  <2>6. QED
      BY <1>1, <2>1, <2>4, <2>5, StepRoles
<1>10. QED
    BY <1>3, <1>4, <1>5, <1>6, <1>7, <1>8, <1>9

\* scripts/seed.py
LEMMA SeedRolesSteps ==
    ASSUME IInv, RolesInv, NEW r \in Req,
           \/ SeedCatalog(r) \/ SeedTenant(r) \/ SeedRoles(r) \/ SeedLoadUser(r)
           \/ SeedFlushUser(r) \/ SeedFindContent(r) \/ SeedContent(r)
    PROVE  RolesInv'
<1> DEFINE q == req[r]
<1>1. /\ q \in Request /\ Legal(q) /\ Whole(q) /\ Exact(q) /\ q.kind = "seed"
      /\ UNCHANGED <<rows, history>>
    BY DEF IInv, TypeOK, RolesInv, SeedCatalog, SeedTenant, SeedRoles, SeedLoadUser,
           SeedFlushUser, SeedFindContent, SeedContent
<1>2. q.found \in BOOLEAN
    BY <1>1 DEF Request
<1>3. CASE SeedCatalog(r)
  <2>1. PICK b, found, new :
            /\ new = [q EXCEPT !.pc = "tenant", !.newCatalog = b, !.found = found]
            /\ Step(r, new) /\ q.pc = "catalog" /\ b = ~q.found
      BY <1>3 DEF SeedCatalog
  <2>2. catalog = TRUE \/ b = TRUE
      BY <1>1, <1>2, <2>1 DEF Whole, Seeds
  <2>3. Whole(new)
      BY <1>1, <2>1, <2>2 DEF Request, Whole, Seeds
  <2>4. Exact(new)
      BY <1>1, <2>1 DEF Request, Exact, After, Target, Seeds
  <2>5. QED
      BY <1>1, <2>1, <2>3, <2>4, StepRoles
<1>4. CASE SeedTenant(r)
  <2>1. PICK id, found, new :
            /\ new = [q EXCEPT !.pc = "roles", !.found = found, !.newTenant = id]
            /\ Step(r, new) /\ q.pc = "tenant" /\ found = (roles # {})
      BY <1>4 DEF SeedTenant
  <2>2. Whole(new)
      BY <1>1, <2>1 DEF Request, Whole, Seeds
  <2>3. Exact(new)
      BY <1>1, <2>1 DEF Request, Exact, After, Target, Seeds
  <2>4. QED
      BY <1>1, <2>1, <2>2, <2>3, StepRoles
<1>5. CASE SeedRoles(r)
  <2>1. PICK given, new :
            /\ new = [q EXCEPT !.pc = "users", !.newRoles = given]
            /\ Step(r, new) /\ q.pc = "roles" /\ given = (IF q.found THEN {} ELSE Role)
            /\ ~q.found => roles = {}
      BY <1>5, Zenon DEF SeedRoles
  <2>2. roles \cup given = Role /\ given \in {{}, Role}
      BY <1>1, <1>2, <2>1 DEF Whole, Seeds, RolesInv, SeedWhole
  <2>3. q.give = {}
      BY <1>1, <2>1 DEF Exact
  <2>4. Whole(new)
      BY <1>1, <2>1, <2>2, <2>3 DEF Request, Whole, Seeds
  <2>5. Exact(new)
      BY <1>1, <2>1 DEF Request, Exact, After, Target, Seeds
  <2>6. QED
      BY <1>1, <2>1, <2>4, <2>5, StepRoles
<1>6. CASE SeedLoadUser(r)
  <2>1. PICK e, todo, found, loaded, late, new :
            /\ new = [q EXCEPT !.pc = "flush", !.email = e, !.todo = todo, !.found = found,
                               !.loaded = loaded, !.late = late]
            /\ Step(r, new) /\ q.pc = "users" /\ e \in q.todo
            /\ todo = q.todo \ {e} /\ found = (e \in users) /\ loaded = RolesOf(e)
            /\ late = q.late \ {e}
      BY <1>6, Zenon DEF SeedLoadUser
  <2>2. /\ new.kind = "seed" /\ new.pc = "flush" /\ new.email = e /\ new.todo = todo
        /\ new.found = found /\ new.loaded = loaded /\ new.late = late
        /\ new.newCatalog = q.newCatalog /\ new.newRoles = q.newRoles
        /\ new.newUsers = q.newUsers /\ new.newContent = q.newContent
        /\ new.give = q.give /\ new.take = q.take /\ new.wrote = q.wrote
      BY <1>1, <2>1 DEF Request
  <2>3. Whole(new)
      BY <1>1, <2>1, <2>2 DEF Whole, Seeds
  <2>4. \A x : After(new, x) = After(q, x) /\ Target(new, x) = Target(q, x)
      BY <1>1, <2>2 DEF After, Target
  <2>5. e \notin q.wrote
      BY <1>1, <2>1 DEF Exact
  <2>6. Exact(new)
      BY <1>1, <2>1, <2>2, <2>4, <2>5 DEF Exact, Seeds
  <2>7. QED
      BY <1>1, <2>1, <2>3, <2>6, StepRoles
<1>7. CASE SeedFlushUser(r)
  <2>1. PICK e, inserted, on, give, take, wrote, new :
            /\ new = [q EXCEPT !.pc = "users", !.newUsers = inserted, !.on = on,
                               !.give = give, !.take = take, !.wrote = wrote]
            /\ Step(r, new) /\ q.pc = "flush" /\ e = q.email
            /\ inserted = (IF q.found THEN q.newUsers ELSE q.newUsers \cup {e})
            /\ give = q.give \cup Give(e, {SeedRole[e]}, q.loaded)
            /\ take = q.take \cup Take(e, {SeedRole[e]}, q.loaded)
            /\ wrote = q.wrote \cup {e}
      BY <1>7, Zenon DEF SeedFlushUser
  <2>2. /\ new.kind = "seed" /\ new.pc = "users" /\ new.email = e /\ new.todo = q.todo
        /\ new.found = q.found /\ new.loaded = q.loaded /\ new.late = q.late
        /\ new.newCatalog = q.newCatalog /\ new.newRoles = q.newRoles
        /\ new.newUsers = inserted /\ new.newContent = q.newContent
        /\ new.give = give /\ new.take = take /\ new.wrote = wrote
      BY <1>1, <2>1 DEF Request
  <2>3. /\ e \in Seeded /\ e \notin q.wrote /\ e \notin q.todo /\ SeedRole[e] \in Role
        /\ roles \cup q.newRoles = Role
      BY <1>1, <2>1, AccountsAssumption DEF Legal, Exact, Whole, Seeds
  <2>4. e \in users \cup inserted /\ q.newUsers \subseteq inserted
      BY <1>1, <1>2, <2>1 DEF Whole, Seeds
  <2>5. Whole(new)
      BY <1>1, <2>1, <2>2, <2>3, <2>4 DEF Whole, Give, Seeds
  <2>6. ASSUME e \notin q.late PROVE After(new, e) = Target(new, e)
    <3>1. q.loaded = RolesOf(e)
        BY <1>1, <2>1, <2>6 DEF Exact
    <3>2. \A c : <<e, c>> \notin q.give \cup q.take
        BY <1>1, <2>3 DEF Exact
    <3>3. \A c \in Role : /\ <<e, c>> \in give <=> c = SeedRole[e] /\ c \notin RolesOf(e)
                          /\ <<e, c>> \in take <=> c # SeedRole[e] /\ c \in RolesOf(e)
        BY <2>1, <3>1, <3>2 DEF Give, Take
    <3>4. QED
        BY <2>2, <2>3, <3>3 DEF After, Target, RolesOf
  <2>7. ASSUME NEW x \in q.wrote PROVE After(new, x) = After(q, x) /\ Target(new, x) = Target(q, x)
      BY <1>1, <2>1, <2>2, <2>3, <2>7 DEF After, Target, Give, Take
  <2>8. \A g \in new.give \cup new.take : g[1] \in new.wrote
      BY <1>1, <2>1, <2>2 DEF Exact, Give, Take
  <2>9. new.wrote \subseteq users \cup new.newUsers
      BY <1>1, <2>1, <2>2, <2>4 DEF Exact, Seeds
  <2>10. \A x \in new.wrote \ new.late : After(new, x) = Target(new, x)
    <3>1. \A x \in q.wrote \ q.late : After(q, x) = Target(q, x)
        BY <1>1 DEF Exact, Seeds
    <3>2. QED
        BY <2>1, <2>2, <2>6, <2>7, <3>1
  <2>11. new.wrote \cap new.todo = {}
      BY <1>1, <2>1, <2>2, <2>3 DEF Exact
  <2>12. Exact(new)
      BY <2>2, <2>8, <2>9, <2>10, <2>11 DEF Exact, Seeds
  <2>13. QED
      BY <1>1, <2>1, <2>5, <2>12, StepRoles
<1>8. CASE SeedFindContent(r)
  <2>1. PICK found, new :
            /\ new = [q EXCEPT !.pc = "content", !.found = found]
            /\ Step(r, new) /\ q.pc = "users" /\ q.todo = {} /\ found = (content # {})
      BY <1>8 DEF SeedFindContent
  <2>2. Whole(new)
      BY <1>1, <2>1 DEF Request, Whole, Seeds
  <2>3. Exact(new)
      BY <1>1, <2>1 DEF Request, Exact, After, Target, Seeds
  <2>4. QED
      BY <1>1, <2>1, <2>2, <2>3, StepRoles
<1>9. CASE SeedContent(r)
  <2>1. PICK b, new :
            /\ new = [q EXCEPT !.pc = "commit", !.newContent = b]
            /\ Step(r, new) /\ q.pc = "content" /\ b = ~q.found
      BY <1>9 DEF SeedContent
  <2>2. content # {} \/ b = TRUE
      BY <1>1, <1>2, <2>1 DEF Whole, Seeds
  <2>3. Whole(new)
      BY <1>1, <2>1, <2>2 DEF Request, Whole, Seeds
  <2>4. Exact(new)
      BY <1>1, <2>1 DEF Request, Exact, After, Target, Seeds
  <2>5. QED
      BY <1>1, <2>1, <2>3, <2>4, StepRoles
<1>10. QED
    BY <1>3, <1>4, <1>5, <1>6, <1>7, <1>8, <1>9

\* sql/04_seed.sql
LEMMA SqlRolesSteps ==
    ASSUME IInv, RolesInv, NEW r \in Req,
           SqlCatalog(r) \/ SqlTenant(r) \/ SqlRoles(r) \/ SqlUsers(r) \/ SqlContent(r)
    PROVE  RolesInv'
<1> DEFINE q == req[r]
<1>1. /\ q \in Request /\ Whole(q) /\ Exact(q) /\ q.kind = "sql"
      /\ UNCHANGED <<rows, history>> /\ catalog \in BOOLEAN
    BY DEF IInv, TypeOK, RolesInv, SqlCatalog, SqlTenant, SqlRoles, SqlUsers, SqlContent
<1>2. CASE SqlCatalog(r)
  <2>1. PICK b, new :
            /\ new = [q EXCEPT !.pc = "tenant", !.newCatalog = b]
            /\ Step(r, new) /\ q.pc = "catalog" /\ b = ~catalog
      BY <1>2 DEF SqlCatalog
  <2>2. catalog = TRUE \/ b = TRUE
      BY <1>1, <2>1
  <2>3. Whole(new)
      BY <1>1, <2>1, <2>2 DEF Request, Whole, Seeds
  <2>4. Exact(new)
      BY <1>1, <2>1 DEF Request, Exact, After, Target, Seeds
  <2>5. QED
      BY <1>1, <2>1, <2>3, <2>4, StepRoles
<1>3. CASE SqlTenant(r)
  <2>1. PICK id, new :
            /\ new = [q EXCEPT !.pc = "roles", !.newTenant = id]
            /\ Step(r, new) /\ q.pc = "tenant"
      BY <1>3 DEF SqlTenant
  <2>2. Whole(new)
      BY <1>1, <2>1 DEF Request, Whole, Seeds
  <2>3. Exact(new)
      BY <1>1, <2>1 DEF Request, Exact, After, Target, Seeds
  <2>4. QED
      BY <1>1, <2>1, <2>2, <2>3, StepRoles
<1>4. CASE SqlRoles(r)
  <2>1. PICK given, new :
            /\ new = [q EXCEPT !.pc = "users", !.newRoles = given]
            /\ Step(r, new) /\ q.pc = "roles" /\ given = Role \ roles
      BY <1>4 DEF SqlRoles
  <2>2. roles \cup given = Role /\ given \in {{}, Role}
      BY <2>1 DEF RolesInv, SeedWhole
  <2>3. q.give = {}
      BY <1>1, <2>1 DEF Exact
  <2>4. Whole(new)
      BY <1>1, <2>1, <2>2, <2>3 DEF Request, Whole, Seeds
  <2>5. Exact(new)
      BY <1>1, <2>1 DEF Request, Exact, After, Target, Seeds
  <2>6. QED
      BY <1>1, <2>1, <2>4, <2>5, StepRoles
<1>5. CASE SqlUsers(r)
  <2>1. PICK given, inserted, give, new :
            /\ new = [q EXCEPT !.pc = "content", !.newUsers = inserted, !.on = inserted,
                               !.give = give, !.late = {}, !.wrote = Seeded]
            /\ Step(r, new) /\ q.pc = "users" /\ inserted = Seeded \ users
            /\ given = {<<e, SeedRole[e]>> : e \in Seeded} /\ give = given \ grants
      BY <1>5, Zenon DEF SqlUsers
  <2>2. /\ new.kind = "sql" /\ new.pc = "content" /\ new.newCatalog = q.newCatalog
        /\ new.newRoles = q.newRoles /\ new.newUsers = inserted /\ new.late = {}
        /\ new.newContent = q.newContent
        /\ new.give = give /\ new.take = q.take /\ new.wrote = Seeded
      BY <1>1, <2>1 DEF Request
  <2>3. \A e \in Seeded : SeedRole[e] \in Role
      BY AccountsAssumption
  <2>4. Whole(new)
      BY <1>1, <2>1, <2>2, <2>3 DEF Whole, Seeds
  <2>5. ASSUME NEW e \in Seeded PROVE After(new, e) = Target(new, e)
    <3>1. q.take = {}
        BY <1>1 DEF Exact
    <3>2. \A c \in Role : <<e, c>> \in grants \cup give <=> <<e, c>> \in grants \/ c = SeedRole[e]
        BY <2>1, <2>5
    <3>3. QED
        BY <2>2, <2>3, <3>1, <3>2 DEF After, Target, RolesOf
  <2>6. /\ \A g \in new.give \cup new.take : g[1] \in new.wrote
        /\ new.take = {} /\ new.wrote \subseteq users \cup new.newUsers
      BY <1>1, <2>1, <2>2 DEF Exact
  <2>7. Exact(new)
      BY <2>2, <2>5, <2>6 DEF Exact, Seeds
  <2>8. QED
      BY <1>1, <2>1, <2>4, <2>7, StepRoles
<1>6. CASE SqlContent(r)
  <2>1. PICK b, new :
            /\ new = [q EXCEPT !.pc = "commit", !.newContent = b]
            /\ Step(r, new) /\ q.pc = "content" /\ b = ("sample" \notin content)
      BY <1>6 DEF SqlContent
  <2>2. content # {} \/ b = TRUE
      BY <2>1
  <2>3. Whole(new)
      BY <1>1, <2>1, <2>2 DEF Request, Whole, Seeds
  <2>4. Exact(new)
      BY <1>1, <2>1 DEF Request, Exact, After, Target, Seeds
  <2>5. QED
      BY <1>1, <2>1, <2>3, <2>4, StepRoles
<1>7. QED
    BY <1>2, <1>3, <1>4, <1>5, <1>6

LEMMA FailRoles ==
    ASSUME IInv, RolesInv, NEW r \in Req, Fail(r)
    PROVE  RolesInv'
<1>1. Step(r, Idle) /\ UNCHANGED <<rows, history>>
    BY DEF Fail
<1>2. Whole(Idle) /\ Exact(Idle)
    BY DEF Idle, Whole, Exact, Seeds
<1>3. QED
    BY <1>1, <1>2, StepRoles

\* A course of the tenant's own lets a seed leave its sample out.
LEMMA CourseRoles ==
    ASSUME IInv, RolesInv, CreateCourse
    PROVE  RolesInv'
<1>1. /\ content' = content \cup {"own"}
      /\ UNCHANGED <<catalog, tenant, roles, users, grants, req, granted, raced>>
    BY DEF CreateCourse, history
<1>2. SeedWhole' /\ SerialRoles' /\ Unborn'
    BY <1>1 DEF RolesInv, SeedWhole, SerialRoles, Unborn, RolesOf
<1>3. \A o \in Req : Whole(req[o])'
    BY <1>1 DEF RolesInv, Whole
<1>4. \A o \in Req : Exact(req[o])'
    BY <1>1 DEF RolesInv, Exact, After, Target, RolesOf
<1>5. QED
    BY <1>2, <1>3, <1>4 DEF RolesInv

\* A commit only adds to what makes a seed whole, and changes the roles of the
\* users in wrote alone: to what it means to leave them with, unless it is late.
LEMMA CommitRoles ==
    ASSUME IInv, RolesInv, NEW r \in Req, Commit(r)
    PROVE  RolesInv'
<1> DEFINE q == req[r]
<1>1. /\ q \in Request /\ q.pc = "commit" /\ Legal(q) /\ Whole(q) /\ Exact(q)
      /\ roles \subseteq Role /\ Student \in Role
    BY AccountsAssumption DEF IInv, TypeOK, RolesInv, Commit
<1>2. /\ catalog' = (catalog \/ q.newCatalog) /\ roles' = roles \cup q.newRoles
      /\ users' = users \cup q.newUsers /\ grants' = (grants \cup q.give) \ q.take
      /\ content' = IF q.newContent THEN content \cup {"sample"} ELSE content
      /\ tenant' = TenantSeen(r)
    BY DEF Commit, RolesSeen
<1>3. /\ req'[r] = Idle
      /\ \A o \in Req : o # r => req'[o] = [req[o] EXCEPT !.late = @ \cup q.wrote]
  <2>1. req' = [o \in Req |-> IF o = r THEN Idle ELSE [req[o] EXCEPT !.late = @ \cup q.wrote]]
      BY Zenon DEF Commit
  <2>2. QED
      BY <2>1
<1>4. /\ q.newCatalog \in BOOLEAN /\ q.newContent \in BOOLEAN /\ catalog \in BOOLEAN
      /\ q.newRoles \subseteq Role
    BY <1>1 DEF Request, IInv, TypeOK
<1>5. /\ catalog = TRUE => catalog' = TRUE
      /\ q.newCatalog = TRUE => catalog' = TRUE
      /\ content \subseteq content' /\ (q.newContent = TRUE => "sample" \in content')
      /\ q.newContent = FALSE => content' = content
    BY <1>2, <1>4
<1>6. q.newRoles # {} \/ q.newContent = TRUE => q.kind \in Seeds
    BY <1>1, <1>4 DEF Whole
<1>7. SeedWhole'
  <2>1. roles' \in {{}, Role}
      BY <1>1, <1>2 DEF Whole, RolesInv, SeedWhole
  <2>2. q.kind \in Seeds => /\ roles' = Role /\ content' # {}
                            /\ Seeded \subseteq users' /\ catalog' = TRUE
    <3> HAVE q.kind \in Seeds
    <3>1. roles' = Role /\ Seeded \subseteq users'
        BY <1>1, <1>2 DEF Whole
    <3>2. catalog' = TRUE
        BY <1>1, <1>5 DEF Whole
    <3>3. content' # {}
        BY <1>1, <1>5 DEF Whole
    <3>4. QED
        BY <3>1, <3>2, <3>3
  <2>3. tenant' # "none"
      BY <1>1, <1>2 DEF Legal, Early, TenantSeen
  <2>4. q.kind \notin Seeds => roles' = roles /\ content' = content
      BY <1>2, <1>4, <1>5, <1>6
  <2>5. catalog' \in BOOLEAN
      BY <1>2, <1>4
  <2>6. \A g \in grants' : g[1] \in users' /\ g[2] \in roles'
      BY <1>1, <1>2 DEF Whole, RolesInv, SeedWhole
  <2>7. CASE q.kind \in Seeds
      BY <1>1, <2>1, <2>2, <2>3, <2>5, <2>6, <2>7 DEF SeedWhole
  <2>8. CASE q.kind \notin Seeds
    <3>1. Seeded \subseteq users => Seeded \subseteq users'
        BY <1>2
    <3>2. catalog => catalog'
        BY <1>2
    <3>3. QED
        BY <2>1, <2>3, <2>4, <2>5, <2>6, <2>8, <3>1, <3>2 DEF SeedWhole, RolesInv
  <2>9. QED
      BY <2>7, <2>8
<1>8. \A e \in Email : e \notin q.wrote => RolesOf(e)' = RolesOf(e)
    BY <1>1, <1>2 DEF Exact, RolesOf
<1>9. \A e : RolesOf(e)' = After(q, e)
    BY <1>2 DEF RolesOf, After
<1>10. \A e : e \notin users => RolesOf(e) = {}
    BY DEF RolesInv, SeedWhole, RolesOf
<1>11. \A e \in Email : granted'[e] =
                            IF e \notin q.wrote THEN granted[e]
                            ELSE IF q.kind = "seed" THEN {SeedRole[e]}
                            ELSE IF q.kind = "sql" THEN granted[e] \cup {SeedRole[e]}
                            ELSE q.codes
  <2>1. granted' = [e \in Email |->
                        IF e \notin q.wrote THEN granted[e]
                        ELSE CASE q.kind = "seed" -> {SeedRole[e]}
                               [] q.kind = "sql" -> granted[e] \cup {SeedRole[e]}
                               [] OTHER -> q.codes]
      BY Zenon DEF Commit
  <2>2. QED
      BY <2>1
<1>12. /\ \A e : e \in raced /\ e \notin q.wrote => e \in raced'
       /\ \A e : e \in q.wrote \cap q.late => e \in raced'
       /\ q.kind = "sql" => raced \subseteq raced'
    BY DEF Commit
<1>13. q.wrote \subseteq users' /\ \A e \in q.wrote \ q.late : After(q, e) = Target(q, e)
    BY <1>1, <1>2 DEF Exact
<1>14. users' \subseteq Email /\ users \subseteq Email
    BY <1>1, <1>2 DEF Request, IInv, TypeOK
<1>15. Unborn'
    BY <1>2, <1>11, <1>13 DEF RolesInv, Unborn
<1>16. \A e \in Email : e \in raced \/ RolesOf(e) = granted[e] \/ e \notin users
    BY DEF RolesInv, SerialRoles
<1>17. \A e \in Email : e \notin users => RolesOf(e) = granted[e]
    BY <1>10 DEF RolesInv, Unborn
<1>18. SerialRoles'
  <2> SUFFICES ASSUME NEW e \in Email, e \notin raced' PROVE RolesOf(e)' = granted'[e]
      BY <1>14 DEF SerialRoles
  <2>1. CASE e \notin q.wrote
      BY <1>8, <1>11, <1>12, <1>16, <1>17, <2>1
  <2>2. CASE e \in q.wrote
    <3>1. RolesOf(e)' = Target(q, e)
        BY <1>9, <1>12, <1>13, <2>2
    <3>2. CASE q.kind = "sql"
        BY <1>11, <1>12, <1>16, <1>17, <2>2, <3>1, <3>2 DEF Target
    <3>3. CASE q.kind # "sql"
        BY <1>11, <2>2, <3>1, <3>3 DEF Target
    <3>4. QED
        BY <3>2, <3>3
  <2>3. QED
      BY <2>1, <2>2
<1>19. ASSUME NEW o \in Req PROVE Whole(req[o])' /\ Exact(req[o])'
  <2>1. CASE o = r
    <3>1. \A x : x = Idle => /\ x.kind = "register" /\ x.pc = "idle" /\ x.newRoles = {}
                             /\ x.newContent = FALSE /\ x.give = {} /\ x.take = {}
                             /\ x.wrote = {}
        BY DEF Idle
    <3>2. QED
        BY <1>3, <2>1, <3>1 DEF Whole, Exact, Seeds
  <2>2. CASE o # r
    <3>1. req[o] \in Request /\ Whole(req[o]) /\ Exact(req[o])
        BY DEF IInv, TypeOK, RolesInv
    <3>2. PICK p, new, late :
              /\ p = req[o] /\ new = req'[o]
              /\ new = [p EXCEPT !.late = late] /\ late = p.late \cup q.wrote
        BY <1>3, <2>2
    <3>3. /\ new.kind = p.kind /\ new.pc = p.pc /\ new.email = p.email /\ new.codes = p.codes
          /\ new.found = p.found /\ new.todo = p.todo /\ new.newCatalog = p.newCatalog
          /\ new.newRoles = p.newRoles /\ new.newUsers = p.newUsers
          /\ new.newContent = p.newContent /\ new.give = p.give
        BY <3>1, <3>2 DEF Request
    <3>4. /\ new.loaded = p.loaded /\ new.late = late /\ new.take = p.take
          /\ new.wrote = p.wrote /\ p.email \in Email /\ p.wrote \subseteq Email
          /\ p.newRoles \subseteq Role
        BY <3>1, <3>2 DEF Request
    <3>5. /\ users \subseteq users' /\ roles \subseteq roles' /\ roles' \subseteq Role
          /\ content \subseteq content'
        BY <1>1, <1>2, <1>4, <1>5
    <3>6. Whole(req[o])'
        BY <1>5, <3>1, <3>2, <3>3, <3>4, <3>5 DEF Whole
    <3>7. ASSUME NEW e \in Email, e \notin q.wrote
          PROVE  After(req[o], e)' = After(p, e) /\ Target(req[o], e)' = Target(p, e)
      <4>1. \A c \in Role : <<e, c>> \in grants' <=> <<e, c>> \in grants
          BY <1>1, <1>2, <3>7 DEF Exact
      <4>2. After(req[o], e)' = After(p, e)
          BY <3>2, <3>3, <3>4, <4>1 DEF After
      <4>3. Target(req[o], e)' = Target(p, e)
          BY <1>8, <3>2, <3>3, <3>7 DEF Target
      <4>4. QED
          BY <4>2, <4>3
    <3>8. new.email \notin new.late => RolesOf(new.email)' = RolesOf(p.email)
        BY <1>8, <3>2, <3>3, <3>4
    <3>9. \A e \in new.wrote \ new.late :
              e \in p.wrote \ p.late /\ After(req[o], e)' = After(p, e)
                                     /\ Target(req[o], e)' = Target(p, e)
        BY <3>2, <3>4, <3>7
    <3>10. new.email \notin new.late => p.email \notin p.late
        BY <3>2, <3>3, <3>4
    <3>11. Exact(req[o])'
        BY <3>1, <3>2, <3>3, <3>4, <3>5, <3>8, <3>9, <3>10 DEF Exact
    <3>12. QED
        BY <3>6, <3>11
  <2>3. QED
      BY <2>1, <2>2
<1>20. QED
    BY <1>7, <1>15, <1>18, <1>19 DEF RolesInv

LEMMA NextRoles == IInv /\ RolesInv /\ [Next]_vars => RolesInv'
<1> SUFFICES ASSUME IInv, RolesInv, [Next]_vars PROVE RolesInv'
    OBVIOUS
<1>1. CASE UNCHANGED vars
  <2>1. UNCHANGED <<rows, req, history>>
      BY <1>1 DEF vars
  <2>2. UNCHANGED <<catalog, tenant, roles, users, grants, content, req, granted, raced>>
      BY <2>1 DEF rows, history
  <2>3. SeedWhole' /\ SerialRoles' /\ Unborn'
      BY <2>2 DEF RolesInv, SeedWhole, SerialRoles, Unborn, RolesOf
  <2>4. \A o \in Req : Whole(req[o])'
      BY <2>2 DEF RolesInv, Whole
  <2>5. \A o \in Req : Exact(req[o])'
      BY <2>2 DEF RolesInv, Exact, After, Target, RolesOf
  <2>6. QED
      BY <2>3, <2>4, <2>5 DEF RolesInv
<1>2. CASE CreateCourse
    BY <1>2, CourseRoles
<1>3. CASE \E r \in Req :
              \/ Seed(r) \/ SeedSql(r)
              \/ \E e \in Email : \/ Register(r, e) \/ CreateTenant(r, e)
                                  \/ \E codes \in SUBSET Role, on \in BOOLEAN :
                                         CreateUser(r, e, codes, on) \/ UpdateUser(r, e, codes, on)
    BY <1>3, StartRoles
<1>4. CASE \E r \in Req :
              \/ EmailFree(r) \/ InsertUser(r) \/ LoadUser(r) \/ LookupRoles(r)
              \/ FlushNew(r) \/ FlushUpdate(r) \/ InsertTenant(r)
    BY <1>4, RequestRoles
<1>5. CASE \E r \in Req :
              \/ SeedCatalog(r) \/ SeedTenant(r) \/ SeedRoles(r) \/ SeedLoadUser(r)
              \/ SeedFlushUser(r) \/ SeedFindContent(r) \/ SeedContent(r)
    BY <1>5, SeedRolesSteps
<1>6. CASE \E r \in Req :
              SqlCatalog(r) \/ SqlTenant(r) \/ SqlRoles(r) \/ SqlUsers(r) \/ SqlContent(r)
    BY <1>6, SqlRolesSteps
<1>7. CASE \E r \in Req : Commit(r) \/ Fail(r)
    BY <1>7, CommitRoles, FailRoles
<1>8. QED
    BY <1>1, <1>2, <1>3, <1>4, <1>5, <1>6, <1>7, Zenon DEF Next

\* The inductive invariant holds throughout.
THEOREM Invariance == Spec => []IInv
    BY InitInv, NextInv, PTL DEF Spec

\* Tables, transactions and history keep their types.
THEOREM TypeCorrect == Spec => []TypeOK
<1>1. IInv => TypeOK
    BY DEF IInv
<1>2. QED
    BY <1>1, Invariance, PTL

\* One address makes one account, for any number of addresses, roles and open
\* transactions (auth/service.py register, admin/service.py create_user and
\* create_tenant, scripts/seed.py, scripts/gen_seed_sql.py).
THEOREM OneAccount == Spec => []AccountOnce
<1>1. IInv => AccountOnce
    BY DEF IInv
<1>2. QED
    BY <1>1, Invariance, PTL

LEMMA RolesInvariance == Spec => []RolesInv
    BY Invariance, InitRoles, NextRoles, PTL DEF Spec

\* A tenant is seeded wholly or not at all, wherever scripts/seed.py or the SQL file
\* of scripts/gen_seed_sql.py fails and whatever requests and other seeds run beside
\* it; and nobody holds a role that the tenant does not have.
THEOREM SeededWhole == Spec => []SeedWhole
<1>1. RolesInv => SeedWhole
    BY DEF RolesInv
<1>2. QED
    BY <1>1, RolesInvariance, PTL

\* A user has exactly the roles given last unless two writers of them overlapped,
\* for any number of users, roles and transactions (auth/service.py register,
\* admin/service.py create_user and update_user, scripts/seed.py _seed_user).
THEOREM RolesAreSerial == Spec => []SerialRoles
<1>1. RolesInv => SerialRoles
    BY DEF RolesInv
<1>2. QED
    BY <1>1, RolesInvariance, PTL
=============================================================================

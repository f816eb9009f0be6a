------------------------------ MODULE Seeding ------------------------------
(***************************************************************************)
(* The two ways to seed a tenant, beside the requests of module Accounts:  *)
(* scripts/seed.py, which looks every row up before it inserts it, and     *)
(* sql/04_seed.sql as gen_seed_sql.py writes it, which inserts ON CONFLICT *)
(* DO NOTHING under ids of its own.                                        *)
(*                                                                         *)
(* A flush of the script and the SELECT that follows it are one step.      *)
(***************************************************************************)
EXTENDS Accounts

FreeCatalog(r) == \A o \in Others(r) : ~req[o].newCatalog
FreeRoles(r) == \A o \in Others(r) : req[o].newRoles = {}
FreeContent(r) == \A o \in Others(r) : ~req[o].newContent

-----------------------------------------------------------------------------
(* scripts/seed.py                                                          *)

Seed(r) ==
    Start(r, [Idle EXCEPT !.kind = "seed", !.pc = "catalog", !.found = catalog, !.todo = Seeded])

\* seed_modules and seed_permissions; then the tenant is looked up.
SeedCatalog(r) ==
    LET q == req[r] IN
    /\ q.pc = "catalog" /\ q.kind = "seed"
    /\ ~q.found => FreeCatalog(r) /\ ~catalog
    /\ Step(r, [q EXCEPT !.pc = "tenant", !.newCatalog = ~q.found, !.found = (tenant # "none")])
    /\ UNCHANGED <<rows, started, history>>

\* seed_tenant: the tenant and its modules; then the roles are looked up.
SeedTenant(r) ==
    LET q == req[r] IN
    /\ q.pc = "tenant" /\ q.kind = "seed"
    /\ ~q.found => FreeTenant(r) /\ tenant = "none"
    /\ Step(r, [q EXCEPT !.pc = "roles", !.found = (roles # {}),
                         !.newTenant = IF q.found THEN "none" ELSE "random"])
    /\ UNCHANGED <<rows, started, history>>

SeedRoles_Ends(r) ==
    LET q == req[r] IN
    /\ q.pc = "roles" /\ q.kind = "seed"
    /\ ~q.found => FreeRoles(r) /\ roles = {}
    /\ Step(r, [q EXCEPT !.pc = "commit", !.newRoles = IF q.found THEN {} ELSE Role])
    /\ UNCHANGED <<rows, started, history>>

\* All roles of RoleCode in one flush; roles that exist get the same permissions.
SeedRoles(r) ==
    LET q == req[r] IN
    /\ q.pc = "roles" /\ q.kind = "seed"
    /\ ~q.found => FreeRoles(r) /\ roles = {}
    /\ Step(r, [q EXCEPT !.pc = "users", !.newRoles = IF q.found THEN {} ELSE Role])
    /\ UNCHANGED <<rows, started, history>>

\* _seed_user: SELECT, with the roles.
SeedLoadUser(r) ==
    LET q == req[r] IN
    /\ q.pc = "users" /\ q.kind = "seed"
    /\ \E e \in q.todo :
           Step(r, [q EXCEPT !.pc = "flush", !.email = e, !.todo = @ \ {e},
                             !.found = e \in users, !.loaded = RolesOf(e),
                             !.late = @ \ {e}])
    /\ UNCHANGED <<rows, started, history>>

\* A new user with its role, or the role in place of those the user had.
SeedFlushUser(r) ==
    LET q == req[r]
        e == q.email
    IN
    /\ q.pc = "flush" /\ q.kind = "seed"
    /\ ~q.found => FreeUser(r, e) /\ e \notin users
    /\ CanAssign(r, e, {SeedRole[e]}, q.loaded)
    /\ Step(r, [q EXCEPT !.pc = "users",
                         !.newUsers = IF q.found THEN @ ELSE @ \cup {e},
                         !.on = IF q.found THEN @ ELSE @ \cup {e},
                         !.give = @ \cup Give(e, {SeedRole[e]}, q.loaded),
                         !.take = @ \cup Take(e, {SeedRole[e]}, q.loaded),
                         !.wrote = @ \cup {e}])
    /\ UNCHANGED <<rows, started, history>>

\* seed_content: whether the tenant has any course, and what it writes if not.
SeedFindContent(r) ==
    LET q == req[r] IN
    /\ q.pc = "users" /\ q.kind = "seed"
    /\ q.todo = {}
    /\ Step(r, [q EXCEPT !.pc = "content", !.found = (content # {})])
    /\ UNCHANGED <<rows, started, history>>

SeedContent(r) ==
    LET q == req[r] IN
    /\ q.pc = "content" /\ q.kind = "seed"
    /\ ~q.found => FreeContent(r) /\ "sample" \notin content
    /\ Step(r, [q EXCEPT !.pc = "commit", !.newContent = ~q.found])
    /\ UNCHANGED <<rows, started, history>>

-----------------------------------------------------------------------------
(* sql/04_seed.sql                                                          *)

SeedSql(r) == Start(r, [Idle EXCEPT !.kind = "sql", !.pc = "catalog"])

SqlCatalog(r) ==
    /\ req[r].pc = "catalog" /\ req[r].kind = "sql"
    /\ FreeCatalog(r)
    /\ Step(r, [req[r] EXCEPT !.pc = "tenant", !.newCatalog = ~catalog])
    /\ UNCHANGED <<rows, started, history>>

SqlTenant(r) ==
    /\ req[r].pc = "tenant" /\ req[r].kind = "sql"
    /\ FreeTenant(r)
    /\ Step(r, [req[r] EXCEPT !.pc = "roles",
                              !.newTenant = IF tenant = "none" THEN "uuid5" ELSE "none"])
    /\ UNCHANGED <<rows, started, history>>

\* tenant_modules and roles name the tenant by its uuid5: under another id the
\* foreign key fails, and the file with it.
SqlRoles(r) ==
    /\ req[r].pc = "roles" /\ req[r].kind = "sql"
    /\ TenantSeen(r) = "uuid5"
    /\ FreeRoles(r)
    /\ Step(r, [req[r] EXCEPT !.pc = "users", !.newRoles = Role \ roles])
    /\ UNCHANGED <<rows, started, history>>

\* Users that are missing, and for each one its role where it is missing.
SqlUsers(r) ==
    LET q == req[r]
        give == {<<e, SeedRole[e]>> : e \in Seeded}
    IN
    /\ q.pc = "users" /\ q.kind = "sql"
    /\ \A e \in Seeded : FreeUser(r, e)
    /\ FreeGrants(r, give)
    /\ Step(r, [q EXCEPT !.pc = "content", !.newUsers = Seeded \ users, !.on = Seeded \ users,
                         !.give = give \ grants, !.late = {}, !.wrote = Seeded])
    /\ UNCHANGED <<rows, started, history>>

SqlContent(r) ==
    /\ req[r].pc = "content" /\ req[r].kind = "sql"
    /\ FreeContent(r)
    /\ Step(r, [req[r] EXCEPT !.pc = "commit", !.newContent = ("sample" \notin content)])
    /\ UNCHANGED <<rows, started, history>>

-----------------------------------------------------------------------------

\* An administrator creates a course (module Courses); the one that create_tenant
\* makes needs no role for it.
CreateCourse ==
    /\ tenant # "none"
    /\ content' = content \cup {"own"}
    /\ UNCHANGED <<catalog, tenant, roles, users, active, grants, req, started, history>>

Next ==
    \/ CreateCourse
    \/ \E r \in Req :
        \/ \E e \in Email :
              \/ Register(r, e)
              \/ CreateTenant(r, e)
              \/ \E codes \in SUBSET Role, on \in BOOLEAN :
                     CreateUser(r, e, codes, on) \/ UpdateUser(r, e, codes, on)
        \/ EmailFree(r) \/ InsertUser(r) \/ LoadUser(r) \/ LookupRoles(r)
        \/ FlushNew(r) \/ FlushUpdate(r) \/ InsertTenant(r)
        \/ Seed(r) \/ SeedCatalog(r) \/ SeedTenant(r) \/ SeedRoles(r)
        \/ SeedLoadUser(r) \/ SeedFlushUser(r) \/ SeedFindContent(r) \/ SeedContent(r)
        \/ SeedSql(r) \/ SqlCatalog(r) \/ SqlTenant(r) \/ SqlRoles(r)
        \/ SqlUsers(r) \/ SqlContent(r)
        \/ Commit(r) \/ Fail(r)

Spec == Init /\ [][Next]_vars

-----------------------------------------------------------------------------
(* Properties                                                               *)

\* A user has exactly the roles that were given last, by a registration, an
\* administrator or a seed, unless two writers of them overlapped: update_user
\* writes the difference to the roles it has loaded, so that two updates can
\* leave a mixture that neither asked for.  The next update that overlaps none
\* sets it right (auth/service.py register, admin/service.py update_user,
\* scripts/seed.py _seed_user).
SerialRoles ==
    \A e \in users : e \in raced \/ RolesOf(e) = granted[e]

\* One address makes one account, however many registrations, administrators
\* and seeds pass the test for the address before the first of them inserts.
AccountOnce ==
    \A e \in Email : created[e] = IF e \in users THEN 1 ELSE 0

\* Wherever a seed fails or is stopped and whatever runs beside it, the tenant
\* has been seeded wholly or not at all: with roles come the users of the seed,
\* the catalogue and the sample content, which seed.py leaves out of a tenant
\* that has a course, and nobody holds a role the tenant does not have
\* (scripts/seed.py main, scripts/gen_seed_sql.py main).
SeedWhole ==
    /\ roles \in {{}, Role}
    /\ roles # {} => content # {}
    /\ "sample" \in content => roles # {}
    /\ roles # {} => Seeded \subseteq users /\ catalog /\ tenant # "none"
    /\ \A g \in grants : g[1] \in users /\ g[2] \in roles

=============================================================================

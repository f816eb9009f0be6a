------------------------------ MODULE Accounts ------------------------------
(***************************************************************************)
(* The accounts of one tenant and everything that writes them:             *)
(* registration (auth/service.py), the administration's create_user,       *)
(* update_user and create_tenant (admin/service.py), the seed script       *)
(* (scripts/seed.py) and the SQL file that gen_seed_sql.py writes.         *)
(*                                                                         *)
(* Each of them is one transaction.  A statement that meets a key which    *)
(* another open transaction has inserted or deleted waits for that one to  *)
(* end.  What a role permits is the same in both seeds and changed by no   *)
(* route; licence flags are in module Licensing, audit entries in Learner. *)
(***************************************************************************)
EXTENDS Naturals

CONSTANTS
    Email,       \* addresses of the tenant
    Role,        \* RoleCode
    Student,     \* RoleCode.STUDENT
    Seeded,      \* addresses of the seeds
    SeedRole,    \* and the role each one gets
    Req,         \* transactions open at once
    MaxStart     \* bound: transactions that are started

ASSUME AccountsAssumption ==
    /\ Student \in Role
    /\ Email # {} /\ Seeded \subseteq Email
    /\ SeedRole \in [Seeded -> Role]
    /\ MaxStart \in Nat

VARIABLES
    catalog,    \* the rows of modules and permissions
    tenant,     \* the id of the row in tenants
    roles,      \* codes in roles
    users,      \* addresses in users
    active,     \* users with is_active
    grants,     \* user_roles
    content,    \* courses: the sample of the seeds, the tenant's own
    req,
    started,
    granted,    \* history: the roles last given to a user
    raced,      \* history: users last written by one of two overlapping writers
    created     \* history: transactions that created the user, committed

rows == <<catalog, tenant, roles, users, active, grants, content>>
history == <<granted, raced, created>>
vars == <<rows, req, started, history>>

Grant == Email \X Role

\* gen_random_uuid and uuid4 against the uuid5 of the SQL file.
TenantId == {"none", "random", "uuid5"}

Kind == {"register", "create", "update", "tenant", "seed", "sql"}

Request == [kind : Kind,
            pc : {"idle", "user", "insert", "role", "flush", "catalog", "tenant",
                  "roles", "users", "content", "commit"},
            email : Email,            \* the user the request is about
            codes : SUBSET Role,      \* data.role_codes, then the roles found
            active : BOOLEAN,         \* data.is_active
            found : BOOLEAN,          \* what the last SELECT returned,
            loaded : SUBSET Role,     \* and the roles of the user with it
            todo : SUBSET Seeded,     \* users the seed has not come to
            late : SUBSET Email,      \* history: written by others since loaded
            \* the uncommitted writes
            newCatalog : BOOLEAN, newTenant : TenantId, newRoles : SUBSET Role,
            newUsers : SUBSET Email, on : SUBSET Email, off : SUBSET Email,
            give : SUBSET Grant, take : SUBSET Grant, newContent : BOOLEAN,
            wrote : SUBSET Email]     \* history: users whose roles it gives

Idle == [kind |-> "register", pc |-> "idle", email |-> CHOOSE e \in Email : TRUE,
         codes |-> {}, active |-> FALSE, found |-> FALSE, loaded |-> {}, todo |-> {},
         late |-> {}, newCatalog |-> FALSE, newTenant |-> "none", newRoles |-> {},
         newUsers |-> {}, on |-> {}, off |-> {}, give |-> {}, take |-> {},
         newContent |-> FALSE, wrote |-> {}]

TypeOK ==
    /\ catalog \in BOOLEAN
    /\ tenant \in TenantId
    /\ roles \subseteq Role
    /\ users \subseteq Email
    /\ active \subseteq Email
    /\ grants \subseteq Grant
    /\ content \subseteq {"sample", "own"}
    /\ req \in [Req -> Request]
    /\ started \in 0 .. MaxStart
    /\ granted \in [Email -> SUBSET Role]
    /\ raced \subseteq Email
    /\ created \in [Email -> Nat]

\* The catalogue may have been seeded with another tenant.
Init ==
    /\ catalog \in BOOLEAN
    /\ tenant = "none"
    /\ roles = {}
    /\ users = {}
    /\ active = {}
    /\ grants = {}
    /\ content = {}
    /\ req = [r \in Req |-> Idle]
    /\ started = 0
    /\ granted = [e \in Email |-> {}]
    /\ raced = {}
    /\ created = [e \in Email |-> 0]

-----------------------------------------------------------------------------
(* Transactions                                                             *)

Others(r) == Req \ {r}

\* What the transaction itself sees: the committed rows and its own.
RolesSeen(r) == roles \cup req[r].newRoles
TenantSeen(r) == IF req[r].newTenant # "none" THEN req[r].newTenant ELSE tenant

\* Nobody else holds the key.
FreeUser(r, e) == \A o \in Others(r) : e \notin req[o].newUsers
FreeGrants(r, G) == \A o \in Others(r) : G \cap (req[o].give \cup req[o].take) = {}
FreeRow(r, e) == \A o \in Others(r) : e \notin req[o].on \cup req[o].off

Step(r, new) == req' = [req EXCEPT ![r] = new]

Start(r, new) ==
    /\ req[r].pc = "idle"
    /\ started < MaxStart
    /\ started' = started + 1
    /\ Step(r, new)
    /\ UNCHANGED <<rows, history>>

\* An error, a refusal or a lost connection: get_db and tenant_session roll
\* back.
Fail(r) ==
    /\ req[r].pc # "idle"
    /\ Step(r, Idle)
    /\ UNCHANGED <<rows, started, history>>

\* A writer of the user's roles that had loaded them before another one
\* committed has overlapped it.
Commit(r) ==
    LET q == req[r] IN
    /\ q.pc = "commit"
    /\ catalog' = (catalog \/ q.newCatalog)
    /\ tenant' = TenantSeen(r)
    /\ roles' = RolesSeen(r)
    /\ users' = users \cup q.newUsers
    /\ active' = (active \cup q.on) \ q.off
    /\ grants' = (grants \cup q.give) \ q.take
    /\ content' = IF q.newContent THEN content \cup {"sample"} ELSE content
    /\ req' = [o \in Req |->
                  IF o = r THEN Idle
                  ELSE [req[o] EXCEPT !.late = @ \cup q.wrote]]
    /\ granted' = [e \in Email |->
                      IF e \notin q.wrote THEN granted[e]
                      ELSE CASE q.kind = "seed" -> {SeedRole[e]}
                             [] q.kind = "sql" -> granted[e] \cup {SeedRole[e]}
                             [] OTHER -> q.codes]
    /\ raced' = IF q.kind = "sql" THEN raced \cup (q.wrote \cap q.late)
                ELSE (raced \ q.wrote) \cup (q.wrote \cap q.late)
    /\ created' = [e \in Email |-> IF e \in q.newUsers THEN created[e] + 1 ELSE created[e]]
    /\ UNCHANGED started

-----------------------------------------------------------------------------
(* register, create_user, update_user                                       *)

Register(r, e) ==
    /\ tenant # "none"
    /\ Start(r, [Idle EXCEPT !.kind = "register", !.pc = "user", !.email = e, !.active = TRUE])

CreateUser(r, e, codes, on) ==
    /\ tenant # "none"
    /\ Start(r, [Idle EXCEPT !.kind = "create", !.pc = "user", !.email = e,
                             !.codes = codes, !.active = on])

UpdateUser(r, e, codes, on) ==
    /\ e \in users
    /\ Start(r, [Idle EXCEPT !.kind = "update", !.pc = "user", !.email = e,
                             !.codes = codes, !.active = on])

\* get_by_email finds nobody; where it finds someone the request fails with 409.
EmailFree(r) ==
    /\ req[r].pc = "user" /\ req[r].kind \in {"register", "create"}
    /\ req[r].email \notin users
    /\ Step(r, [req[r] EXCEPT !.pc = IF req[r].kind = "create" THEN "insert" ELSE "role"])
    /\ UNCHANGED <<rows, started, history>>

\* create_user flushes the user before it comes to the roles.
InsertUser(r) ==
    LET q == req[r] IN
    /\ q.pc = "insert" /\ q.kind = "create"
    /\ FreeUser(r, q.email) /\ q.email \notin users
    /\ Step(r, [q EXCEPT !.pc = "role", !.newUsers = {q.email},
                         !.on = IF q.active THEN {q.email} ELSE {}])
    /\ UNCHANGED <<rows, started, history>>

RolesOf(e) == {c \in Role : <<e, c>> \in grants}

\* get_or_404, with the roles; without role_codes they are left alone.
LoadUser(r) ==
    LET q == req[r] IN
    /\ q.pc = "user" /\ q.kind = "update"
    /\ \E given \in BOOLEAN :
           Step(r, [q EXCEPT !.pc = IF given THEN "role" ELSE "flush",
                             !.codes = IF given THEN @ ELSE RolesOf(q.email),
                             !.loaded = RolesOf(q.email),
                             !.found = q.email \in active,
                             !.late = {}])
    /\ UNCHANGED <<rows, started, history>>

\* get_by_code(student), get_by_codes: codes the tenant lacks are dropped.
LookupRoles(r) ==
    LET q == req[r] IN
    /\ q.pc = "role" /\ q.kind \in {"register", "create", "update"}
    /\ Step(r, [q EXCEPT !.pc = "flush", !.wrote = {q.email},
                         !.codes = (IF q.kind = "register" THEN {Student} ELSE @) \cap roles])
    /\ UNCHANGED <<rows, started, history>>

\* The roles in wanted and not in loaded are inserted, the others deleted.
Give(e, wanted, loaded) == {e} \X (wanted \ loaded)
Take(e, wanted, loaded) == {e} \X (loaded \ wanted)

\* A grant that is there already breaks the primary key; one that is gone was
\* expected to be deleted (StaleDataError).
CanAssign(r, e, wanted, loaded) ==
    /\ FreeGrants(r, Give(e, wanted, loaded) \cup Take(e, wanted, loaded))
    /\ Give(e, wanted, loaded) \cap grants = {}
    /\ Take(e, wanted, loaded) \subseteq grants

FlushNew_NoIndex(r) ==
    LET q == req[r] IN
    /\ q.pc = "flush" /\ q.kind \in {"register", "create"}
    /\ Step(r, [q EXCEPT !.pc = "commit", !.newUsers = {q.email},
                         !.on = IF q.active THEN {q.email} ELSE {},
                         !.give = Give(q.email, q.codes, {})])
    /\ UNCHANGED <<rows, started, history>>

\* register inserts the user and its role in one flush (uq_users_tenant_email),
\* create_user the roles of the user it has inserted.
FlushNew(r) ==
    LET q == req[r] IN
    /\ q.pc = "flush" /\ q.kind \in {"register", "create"}
    /\ FreeUser(r, q.email) /\ q.email \notin users
    /\ Step(r, [q EXCEPT !.pc = "commit", !.newUsers = {q.email},
                         !.on = IF q.active THEN {q.email} ELSE {},
                         !.give = Give(q.email, q.codes, {})])
    /\ UNCHANGED <<rows, started, history>>

FlushUpdate_Append(r) ==
    LET q == req[r] IN
    /\ q.pc = "flush" /\ q.kind = "update"
    /\ Step(r, [q EXCEPT !.pc = "commit", !.give = Give(q.email, q.codes, q.loaded)])
    /\ UNCHANGED <<rows, started, history>>

\* Columns and roles are written where they differ from what was loaded.
FlushUpdate(r) ==
    LET q == req[r]
        e == q.email
    IN
    /\ q.pc = "flush" /\ q.kind = "update"
    /\ q.active # q.found => FreeRow(r, e)
    /\ CanAssign(r, e, q.codes, q.loaded)
    /\ Step(r, [q EXCEPT !.pc = "commit",
                         !.on = IF q.active /\ ~q.found THEN {e} ELSE {},
                         !.off = IF ~q.active /\ q.found THEN {e} ELSE {},
                         !.give = Give(e, q.codes, q.loaded),
                         !.take = Take(e, q.codes, q.loaded)])
    /\ UNCHANGED <<rows, started, history>>

-----------------------------------------------------------------------------
(* create_tenant                                                            *)

FreeTenant(r) == \A o \in Others(r) : req[o].newTenant = "none"

\* set_module needs the catalogue.
CreateTenant(r, e) ==
    /\ catalog
    /\ Start(r, [Idle EXCEPT !.kind = "tenant", !.pc = "tenant", !.email = e,
                             !.found = (tenant # "none")])

\* get_by_slug has found nothing; the tenant, its modules and its administrator
\* follow.  There are no roles in it yet, and none is given.
InsertTenant(r) ==
    LET q == req[r] IN
    /\ q.pc = "tenant" /\ q.kind = "tenant"
    /\ ~q.found
    /\ FreeTenant(r) /\ tenant = "none"
    /\ Step(r, [q EXCEPT !.pc = "commit", !.newTenant = "random",
                         !.newUsers = {q.email}, !.on = {q.email}, !.wrote = {q.email}])
    /\ UNCHANGED <<rows, started, history>>

=============================================================================

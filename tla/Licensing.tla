------------------------------ MODULE Licensing ------------------------------
(***************************************************************************)
(* Module licensing of one tenant: the flags in tenant_modules, the Redis  *)
(* cache in front of them, the guard that reads through it and the toggle  *)
(* that writes and invalidates (app/core/licensing/service.py).            *)
(*                                                                         *)
(* A guard that finds the cache filled changes nothing and is no step.     *)
(***************************************************************************)
EXTENDS Naturals

CONSTANTS
    Code,       \* module codes of the catalogue
    Core,       \* CORE_MODULE_CODES
    Licensed,   \* codes the tenant starts with
    Req,        \* requests in flight at once
    MaxToggle   \* bound: toggles that are started

ASSUME LicensingAssumption ==
    /\ Core \subseteq Licensed /\ Licensed \subseteq Code /\ Code # {}
    /\ MaxToggle \in Nat

VARIABLES
    redis,     \* settings.redis_url is set
    flag,      \* committed rows of tenant_modules: none, or column enabled
    expired,   \* codes whose expires_at has passed
    cache,     \* key lic:enabled:<tenant>
    toggles,   \* toggles started
    req

vars == <<redis, flag, expired, cache, toggles, req>>

\* raced is history: the filling request overlapped a toggle.
Cache == [filled : BOOLEAN, codes : SUBSET Code, raced : BOOLEAN]
NoCache == [filled |-> FALSE, codes |-> {}, raced |-> FALSE]

Flag == {"absent", "off", "on"}

Request == [pc : {"idle", "compute", "fill", "flush", "invalidate", "commit"},
            codes : SUBSET Code,   \* what a guard computed
            raced : BOOLEAN,       \* history: a toggle overlapped it since
            code : Code,           \* what a toggle is about,
            loaded : Flag,         \* the flag it read
            wanted : {"off", "on"}]

Idle == [pc |-> "idle", codes |-> {}, raced |-> FALSE,
         code |-> CHOOSE c \in Code : TRUE, loaded |-> "absent", wanted |-> "off"]

Init ==
    /\ redis \in BOOLEAN
    /\ flag = [c \in Code |-> IF c \in Licensed THEN "on" ELSE "absent"]
    /\ expired = {}
    /\ cache = NoCache
    /\ toggles = 0
    /\ req = [r \in Req |-> Idle]

-----------------------------------------------------------------------------
(* Guard                                                                    *)

\* What _compute_enabled returns now.
Enabled == ({c \in Code : flag[c] = "on"} \ expired) \cup Core

\* A toggle has begun and not committed.
Toggling == \E r \in Req : req[r].pc \in {"flush", "invalidate", "commit"}

\* enabled_codes: no Redis, or nothing in it.
Miss(r) ==
    /\ req[r].pc = "idle"
    /\ ~cache.filled
    /\ req' = [req EXCEPT ![r].pc = "compute"]
    /\ UNCHANGED <<redis, flag, expired, cache, toggles>>

\* _compute_enabled; expires_at, which nothing changes, is compared with one time.
Compute(r) ==
    /\ req[r].pc = "compute"
    /\ req' = [req EXCEPT ![r] = IF redis
                 THEN [@ EXCEPT !.pc = "fill", !.codes = Enabled, !.raced = Toggling]
                 ELSE Idle]
    /\ UNCHANGED <<redis, flag, expired, cache, toggles>>

\* SET with a time to live, whatever has happened since the SELECT.
Fill(r) ==
    /\ req[r].pc = "fill"
    /\ cache' = [filled |-> TRUE, codes |-> req[r].codes, raced |-> req[r].raced]
    /\ req' = [req EXCEPT ![r] = Idle]
    /\ UNCHANGED <<redis, flag, expired, toggles>>

\* A SET without a time to live.
CacheExpires_Never == FALSE /\ UNCHANGED vars

\* _CACHE_TTL has passed.
CacheExpires ==
    /\ cache.filled
    /\ cache' = NoCache
    /\ UNCHANGED <<redis, flag, expired, toggles, req>>

\* A licence passes its expires_at.
LicenceExpires(c) ==
    /\ c \notin expired
    /\ expired' = expired \cup {c}
    /\ UNCHANGED <<redis, flag, cache, toggles, req>>

-----------------------------------------------------------------------------
(* Toggle                                                                   *)

\* TenantAdminService.set_module refuses to disable AUTH; then the row is read.
SetRead(r, c, wanted) ==
    /\ req[r].pc = "idle" /\ toggles < MaxToggle
    /\ ~(c = "AUTH" /\ wanted = "off")
    /\ toggles' = toggles + 1
    /\ req' = [o \in Req |->
          IF o = r THEN [pc |-> "flush", codes |-> {}, raced |-> FALSE, code |-> c,
                         loaded |-> flag[c], wanted |-> wanted]
          ELSE [req[o] EXCEPT !.raced = @ \/ req[o].pc = "fill"]]
    /\ UNCHANGED <<redis, flag, expired, cache>>

\* Nothing to write: off already.  Switching on always writes enabled_at.
NoChange(q) == q.loaded = "off" /\ q.wanted = "off"

\* The row is another transaction's until it commits.
Locked(r) ==
    \E o \in Req \ {r} : /\ req[o].pc \in {"invalidate", "commit"}
                         /\ req[o].code = req[r].code /\ ~NoChange(req[o])

\* INSERT (fails if the row has come into being) or UPDATE.
SetFlush(r) ==
    /\ req[r].pc = "flush"
    /\ NoChange(req[r]) \/ ~Locked(r)
    /\ req' = [req EXCEPT ![r] =
          IF req[r].loaded = "absent" /\ flag[req[r].code] # "absent"
          THEN Idle ELSE [@ EXCEPT !.pc = "invalidate"]]
    /\ UNCHANGED <<redis, flag, expired, cache, toggles>>

\* The key of another tenant is deleted.
Invalidate_Other(r) ==
    /\ req[r].pc = "invalidate"
    /\ req' = [req EXCEPT ![r].pc = "commit"]
    /\ UNCHANGED <<redis, flag, expired, cache, toggles>>

\* invalidate, before the commit.
Invalidate(r) ==
    /\ req[r].pc = "invalidate"
    /\ cache' = NoCache
    /\ req' = [req EXCEPT ![r].pc = "commit"]
    /\ UNCHANGED <<redis, flag, expired, toggles>>

\* tenant_session commits; column enabled is written if it differs from the
\* value loaded.
Commit(r) ==
    /\ req[r].pc = "commit"
    /\ flag' = [flag EXCEPT ![req[r].code] =
                   IF req[r].loaded = req[r].wanted THEN @ ELSE req[r].wanted]
    /\ req' = [req EXCEPT ![r] = Idle]
    /\ UNCHANGED <<redis, expired, cache, toggles>>

\* An error or a worker's death.
Abort(r) ==
    /\ req[r].pc # "idle"
    /\ req' = [req EXCEPT ![r] = Idle]
    /\ UNCHANGED <<redis, flag, expired, cache, toggles>>

Next ==
    \/ \E r \in Req : Miss(r)
    \/ \E r \in Req : Compute(r)
    \/ \E r \in Req : Fill(r)
    \/ CacheExpires
    \/ \E c \in Code : LicenceExpires(c)
    \/ \E r \in Req, c \in Code, wanted \in {"off", "on"} : SetRead(r, c, wanted)
    \/ \E r \in Req : SetFlush(r)
    \/ \E r \in Req : Invalidate(r)
    \/ \E r \in Req : Commit(r)
    \/ \E r \in Req : Abort(r)

Spec == Init /\ [][Next]_vars

(***************************************************************************)
(* Time passes, so the cached value expires; a request goes on when it     *)
(* can, and its wait for a row ends.                                       *)
(***************************************************************************)
Step(r) == Compute(r) \/ Fill(r) \/ SetFlush(r) \/ Invalidate(r) \/ Commit(r)

Fairness == WF_vars(CacheExpires) /\ \A r \in Req : SF_vars(Step(r))

-----------------------------------------------------------------------------
(* Properties                                                               *)

TypeOK ==
    /\ redis \in BOOLEAN
    /\ flag \in [Code -> Flag]
    /\ expired \subseteq Code
    /\ cache \in Cache
    /\ toggles \in 0 .. MaxToggle
    /\ req \in [Req -> Request]

\* The cache agrees with the flags, up to licences that expired since it was
\* filled: the one exception is a value whose filling overlapped a toggle, since
\* set_module invalidates before its transaction commits and the guard fills
\* without a second look (service.py:41-43, 117-118).
FreshUnlessRaced ==
    cache.filled /\ ~cache.raced => (cache.codes \ expired) \cup Core = Enabled

\* A stale value does not last: once the toggles are over the cache comes to
\* agree with the flags for good (service.py:21, 43).
EventuallyFresh == <>[](cache.filled => cache.codes = Enabled)
=============================================================================

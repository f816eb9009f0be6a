----------------------------- MODULE RedisProofs -----------------------------
(***************************************************************************)
(* What Redis keeps.  The rate limiter's counter implements a fixed window,*)
(* for any limit and any number of concurrent requests; the cache of       *)
(* module licensing is stale only where filling it overlapped a toggle.    *)
(***************************************************************************)
EXTENDS RateLimiter, Licensing, TLAPS

\* The inductive invariant of the rate limiter.
IInv == LimiterTypeOK /\ OrphanByFailure

\* No key, no request.
LEMMA InitInv == LimiterInit => IInv
<1> SUFFICES ASSUME LimiterInit PROVE IInv
    OBVIOUS
<1>1. LimiterTypeOK
    BY DEF LimiterInit, LimiterTypeOK, CallState, NoCall
<1>2. ~(count > 0)
    BY DEF LimiterInit
<1>3. QED
    BY <1>1, <1>2 DEF IInv, OrphanByFailure

\* Every command keeps the invariant.
LEMMA NextInv == IInv /\ [LimiterNext]_limiterVars => IInv'
<1> SUFFICES ASSUME IInv, [LimiterNext]_limiterVars PROVE IInv'
    OBVIOUS
<1> USE DEF IInv, LimiterTypeOK, OrphanByFailure, CallState, NoCall
<1>1. ASSUME NEW r \in Call, Incr(r) PROVE IInv'
  <2>1. /\ count' = count + 1 /\ ttl' = ttl /\ lost' = lost
        /\ call' \in [Call -> CallState]
    BY <1>1 DEF Incr
  <2>2. count = 0 => call'[r].pc = "expire"
    BY <1>1 DEF Incr
  <2>3. \A o \in Call : call[o].pc = "expire" => call'[o].pc = "expire"
    BY <1>1 DEF Incr
  <2>4. QED
    BY <2>1, <2>2, <2>3
<1>2. ASSUME NEW r \in Call, Expire(r) PROVE IInv'
  <2>1. count' = count /\ lost' = lost /\ ttl' = IF count = 0 THEN ttl ELSE TRUE
    BY <1>2 DEF Expire
  <2>2. call' \in [Call -> CallState]
    BY <1>2 DEF Expire
  <2>3. ttl' \in BOOLEAN /\ (count > 0 => ttl')
    <3>1. CASE count = 0
      <4>1. ttl' = ttl
        BY <2>1, <3>1
      <4>2. QED
        BY <3>1, <4>1
    <3>2. CASE count # 0
      <4>1. ttl' = TRUE
        BY <2>1, <3>2
      <4>2. QED
        BY <4>1
    <3>3. QED
      BY <3>1, <3>2
  <2>4. QED
    BY <2>1, <2>2, <2>3
<1>3. ASSUME NEW r \in Call, Decide(r) PROVE IInv'
  <2>1. /\ count' = count /\ ttl' = ttl /\ lost' = lost
        /\ call' \in [Call -> CallState]
    BY <1>3 DEF Decide
  <2>2. \A o \in Call : call[o].pc = "expire" => call'[o].pc = "expire"
    BY <1>3 DEF Decide
  <2>3. QED
    BY <2>1, <2>2
<1>4. CASE KeyExpires
  <2>1. count' = 0 /\ ttl' = FALSE /\ call' = call /\ lost' = lost
    BY <1>4 DEF KeyExpires
  <2>2. LimiterTypeOK'
    BY <2>1
  <2>3. ~(count' > 0)
    BY <2>1
  <2>4. QED
    BY <2>2, <2>3
<1>5. ASSUME NEW r \in Call, Fail(r) PROVE IInv'
  <2>1. /\ count' = count /\ ttl' = ttl /\ lost' \in BOOLEAN
        /\ call' \in [Call -> CallState]
    BY <1>5 DEF Fail
  <2>2. lost' \/ \A o \in Call : call[o].pc = "expire" => call'[o].pc = "expire"
    BY <1>5 DEF Fail
  <2>3. lost => lost'
    BY <1>5 DEF Fail
  <2>4. QED
    BY <2>1, <2>2, <2>3
<1>6. CASE UNCHANGED limiterVars
    BY <1>6 DEF limiterVars
<1>7. QED
    BY <1>1, <1>2, <1>3, <1>4, <1>5, <1>6 DEF LimiterNext

\* The counter, its time to live and the requests keep their types.
THEOREM TypeCorrect == LimiterSpec => []LimiterTypeOK
<1>1. IInv => LimiterTypeOK
    BY DEF IInv
<1>2. QED
    BY <1>1, InitInv, NextInv, PTL DEF LimiterSpec

\* Only a failure between INCR and EXPIRE leaves a counter that never expires.
THEOREM OrphansExplained == LimiterSpec => []OrphanByFailure
<1>1. IInv => OrphanByFailure
    BY DEF IInv
<1>2. QED
    BY <1>1, InitInv, NextInv, PTL DEF LimiterSpec

-----------------------------------------------------------------------------

\* The mapped admissions of the window.
Used == IF count < Times THEN count ELSE Times

\* The requests that a step leaves alone keep their verdict.
LEMMA VerdictOf ==
    ASSUME NEW r \in Call, \A o \in Call \ {r} : call'[o] = call[o], NEW v,
           v = IF call'[r].pc = "idle" THEN "none"
               ELSE IF Admitted(call'[r]) THEN "admit" ELSE "reject"
    PROVE  Verdict' = [Verdict EXCEPT ![r] = v]
BY DEF Verdict, Admitted

\* A window of the counter starts empty.
LEMMA WindowInit == LimiterInit => Window!Init
BY RateAssumption DEF LimiterInit, Window!Init, Verdict, NoCall

\* Each command is a step of the window, or none.
LEMMA WindowNext == IInv /\ [LimiterNext]_limiterVars => [Window!Next]_(Window!vars)
<1> SUFFICES ASSUME IInv, [LimiterNext]_limiterVars
    PROVE  Window!Next \/ UNCHANGED <<Used, Verdict>>
    BY DEF Window!vars, Used
<1>0. count \in Nat /\ Times \in Nat \ {0} /\ call \in [Call -> CallState]
    BY RateAssumption DEF IInv, LimiterTypeOK
<1>1. ASSUME NEW r \in Call, Incr(r) PROVE Window!Next
  <2>1. /\ count' = count + 1 /\ call[r].pc = "idle"
        /\ call'[r].pc # "idle" /\ call'[r].got = count + 1
        /\ \A o \in Call \ {r} : call'[o] = call[o]
    BY <1>0, <1>1 DEF Incr
  <2>2. Verdict[r] = "none"
    BY <2>1 DEF Verdict
  <2>3. CASE count < Times
    <3>1. Admitted(call'[r])
      BY <1>0, <2>1, <2>3 DEF Admitted
    <3>2. Verdict' = [Verdict EXCEPT ![r] = "admit"]
      BY <2>1, <3>1, VerdictOf
    <3>3. Used < Times /\ Used' = Used + 1
      BY <1>0, <2>1, <2>3 DEF Used
    <3>4. Window!Admit(r)
      BY <2>2, <3>2, <3>3 DEF Window!Admit, Used
    <3>5. QED
      BY <3>4 DEF Window!Next
  <2>4. CASE count >= Times
    <3>1. ~Admitted(call'[r])
      BY <1>0, <2>1, <2>4 DEF Admitted
    <3>2. Verdict' = [Verdict EXCEPT ![r] = "reject"]
      BY <2>1, <3>1, VerdictOf
    <3>3. Used >= Times /\ Used' = Used
      BY <1>0, <2>1, <2>4 DEF Used
    <3>4. Window!Reject(r)
      BY <2>2, <3>2, <3>3 DEF Window!Reject, Used
    <3>5. QED
      BY <3>4 DEF Window!Next
  <2>5. QED
    BY <1>0, <2>3, <2>4
<1>2. ASSUME NEW r \in Call, Expire(r) PROVE UNCHANGED <<Used, Verdict>>
  <2>1. /\ count' = count /\ \A o \in Call \ {r} : call'[o] = call[o]
        /\ call[r].pc # "idle" /\ call'[r].pc # "idle" /\ call'[r].got = call[r].got
    BY <1>0, <1>2 DEF Expire, CallState
  <2>2. Verdict' = Verdict
    BY <2>1 DEF Verdict, Admitted
  <2>3. QED
    BY <2>1, <2>2 DEF Used
<1>3. ASSUME NEW r \in Call, Decide(r) \/ Fail(r) PROVE Window!Next
  <2>1. /\ count' = count /\ call'[r].pc = "idle"
        /\ \A o \in Call \ {r} : call'[o] = call[o]
    BY <1>0, <1>3 DEF Decide, Fail, NoCall
  <2>2. Verdict' = [Verdict EXCEPT ![r] = "none"]
    BY <2>1, VerdictOf
  <2>3. Window!Answer(r)
    BY <2>1, <2>2 DEF Window!Answer
  <2>4. QED
    BY <2>3 DEF Window!Next
<1>4. CASE KeyExpires
  <2>1. count' = 0 /\ Verdict' = Verdict
    BY <1>4 DEF KeyExpires, Verdict, Admitted
  <2>2. Window!NewWindow
    BY <1>0, <2>1 DEF Window!NewWindow
  <2>3. QED
    BY <2>2 DEF Window!Next
<1>5. CASE UNCHANGED limiterVars
    BY <1>5 DEF limiterVars, Used, Verdict, Admitted
<1>6. QED
    BY <1>1, <1>2, <1>3, <1>4, <1>5 DEF LimiterNext

\* For every limit and every interleaving, the Redis counter admits exactly the
\* first Times requests of a window.
THEOREM Refinement == LimiterSpec => ImplementsWindow
<1>1. LimiterSpec => []IInv
    BY InitInv, NextInv, PTL DEF LimiterSpec
<1>2. QED
    BY <1>1, WindowInit, WindowNext, PTL DEF LimiterSpec, ImplementsWindow, Window!Spec

-----------------------------------------------------------------------------
(* Module licensing                                                         *)

\* codes is what a guard would compute now, up to licences expired since.
Fresh(codes) == (codes \ expired) \cup Core = Enabled

\* A value about to be cached is fresh if no toggle has overlapped it: then none is
\* under way.
FillOK ==
    \A r \in Req : req[r].pc = "fill" /\ req[r].raced = FALSE =>
        ~Toggling /\ Fresh(req[r].codes)

\* A cached value is fresh until a toggle commits; one about to commit has emptied
\* the cache, and what was cached since then overlapped it.
CacheOK ==
    cache.filled = TRUE /\ cache.raced = FALSE =>
        Fresh(cache.codes) /\ \A r \in Req : req[r].pc # "commit"

CacheInv == TypeOK /\ FillOK /\ CacheOK

LEMMA GuardIdleOK == Idle \in Request /\ Idle.pc = "idle"
<1>1. (CHOOSE c \in Code : TRUE) \in Code
    BY LicensingAssumption
<1>2. QED
    BY <1>1 DEF Idle, Request, Flag

LEMMA CacheInitInv == Init => CacheInv
<1> SUFFICES ASSUME Init PROVE CacheInv
    OBVIOUS
<1>1. TypeOK
    BY LicensingAssumption, GuardIdleOK DEF Init, TypeOK, Flag, Cache, NoCache
<1>2. FillOK /\ CacheOK
    BY GuardIdleOK DEF Init, FillOK, CacheOK, NoCache
<1>3. QED
    BY <1>1, <1>2 DEF CacheInv

\* A request moves to q, which starts no toggle, and the rest stays.
LEMMA LocalStep ==
    ASSUME CacheInv, NEW r \in Req, NEW q \in Request,
           req' = [req EXCEPT ![r] = q],
           UNCHANGED <<redis, flag, expired, toggles>>,
           q.pc = "fill" => req[r].pc = "compute" /\ q.codes = Enabled /\ q.raced = Toggling,
           q.pc \in {"flush", "invalidate", "commit"} =>
               req[r].pc \in {"flush", "invalidate", "commit"},
           \/ q.pc # "commit" /\ UNCHANGED cache
           \/ cache' = NoCache
           \/ /\ req[r].pc = "fill" /\ q = Idle
              /\ cache' = [filled |-> TRUE, codes |-> req[r].codes, raced |-> req[r].raced]
    PROVE  CacheInv'
<1>1. /\ req \in [Req -> Request] /\ cache \in Cache
      /\ req' \in [Req -> Request]
      /\ req'[r] = q /\ \A o \in Req \ {r} : req'[o] = req[o]
    BY DEF CacheInv, TypeOK
<1>2. NoCache \in Cache /\ NoCache.filled = FALSE
    BY DEF NoCache, Cache
<1>3. req[r].codes \in SUBSET Code /\ req[r].raced \in BOOLEAN
    BY <1>1 DEF Request
<1>4. ASSUME NEW c, c = [filled |-> TRUE, codes |-> req[r].codes, raced |-> req[r].raced]
      PROVE  c \in Cache /\ c.codes = req[r].codes /\ c.raced = req[r].raced
    BY <1>3, <1>4 DEF Cache
<1>5. TypeOK'
  <2>1. cache' \in Cache
      BY <1>1, <1>2, <1>4
  <2>2. QED
      BY <1>1, <2>1 DEF CacheInv, TypeOK
<1>6. \A codes : Fresh(codes) => (codes \ expired') \cup Core = Enabled'
    BY DEF Enabled, Fresh
<1>7. ~Toggling => ~Toggling'
    BY <1>1 DEF Toggling
<1>8. FillOK'
  <2> SUFFICES ASSUME NEW o \in Req, req'[o].pc = "fill", req'[o].raced = FALSE
               PROVE  ~Toggling' /\ (req'[o].codes \ expired') \cup Core = Enabled'
      BY DEF FillOK, Fresh
  <2>1. CASE o = r
    <3>1. q.codes = Enabled /\ ~Toggling
        BY <1>1, <2>1
    <3>2. Fresh(Enabled)
        BY DEF Fresh, Enabled
    <3>3. QED
        BY <1>1, <1>6, <1>7, <2>1, <3>1, <3>2
  <2>2. CASE o # r
    <3>1. ~Toggling /\ Fresh(req[o].codes)
        BY <1>1, <2>2 DEF CacheInv, FillOK
    <3>2. QED
        BY <1>1, <1>6, <1>7, <2>2, <3>1
  <2>3. QED
      BY <2>1, <2>2
<1>9. CacheOK'
  <2> SUFFICES ASSUME cache'.filled = TRUE, cache'.raced = FALSE
               PROVE  /\ (cache'.codes \ expired') \cup Core = Enabled'
                      /\ \A o \in Req : req'[o].pc # "commit"
      BY DEF CacheOK, Fresh
  <2>1. CASE q.pc # "commit" /\ UNCHANGED cache
      BY <1>1, <1>6, <2>1 DEF CacheInv, CacheOK
  <2>2. CASE cache' = NoCache
      BY <1>2, <2>2
  <2>3. CASE /\ req[r].pc = "fill" /\ q = Idle
             /\ cache' = [filled |-> TRUE, codes |-> req[r].codes, raced |-> req[r].raced]
    <3>1. cache'.codes = req[r].codes /\ cache'.raced = req[r].raced
        BY <1>4, <2>3
    <3>2. ~Toggling /\ Fresh(req[r].codes)
        BY <2>3, <3>1 DEF CacheInv, FillOK
    <3>3. \A o \in Req : req'[o].pc # "commit"
        BY <1>1, <1>7, <3>2 DEF Toggling
    <3>4. QED
        BY <1>6, <3>1, <3>2, <3>3
  <2>4. QED
      BY <2>1, <2>2, <2>3
<1>10. QED
    BY <1>5, <1>8, <1>9 DEF CacheInv

LEMMA GuardSteps ==
    ASSUME CacheInv, NEW r \in Req, Miss(r) \/ Compute(r) \/ Fill(r) \/ Abort(r)
    PROVE  CacheInv'
<1>0. Idle \in Request /\ Idle.pc = "idle"
    BY GuardIdleOK
<1>1. req \in [Req -> Request] /\ req[r] \in Request
    BY DEF CacheInv, TypeOK
<1>2. CASE Miss(r)
  <2>1. PICK q : q = [req[r] EXCEPT !.pc = "compute"]
      OBVIOUS
  <2>2. q \in Request /\ q.pc = "compute"
      BY <1>1, <2>1 DEF Request
  <2>3. req' = [req EXCEPT ![r] = q]
      BY <1>1, <1>2, <2>1 DEF Miss
  <2>4. QED
      BY <1>2, <2>2, <2>3, LocalStep DEF Miss
<1>3. CASE Compute(r)
  <2>1. CASE redis = TRUE
    <3>1. PICK q : q = [req[r] EXCEPT !.pc = "fill", !.codes = Enabled, !.raced = Toggling]
        OBVIOUS
    <3>2. Enabled \in SUBSET Code /\ Toggling \in BOOLEAN
        BY LicensingAssumption DEF CacheInv, Enabled, Toggling
    <3>3. q \in Request /\ q.pc = "fill" /\ q.codes = Enabled /\ q.raced = Toggling
        BY <1>1, <3>1, <3>2 DEF Request
    <3>4. req' = [req EXCEPT ![r] = q]
        BY <1>1, <1>3, <2>1, <3>1 DEF Compute
    <3>5. QED
        BY <1>3, <3>3, <3>4, LocalStep DEF Compute
  <2>2. CASE redis = FALSE
    <3>1. req' = [req EXCEPT ![r] = Idle]
        BY <1>1, <1>3, <2>2 DEF Compute
    <3>2. QED
        BY <1>3, <3>1, <1>0, LocalStep DEF Compute
  <2>3. QED
      BY <2>1, <2>2 DEF CacheInv, TypeOK
<1>4. CASE Fill(r)
    BY <1>4, <1>0, LocalStep DEF Fill
<1>5. CASE Abort(r)
    BY <1>5, <1>0, LocalStep DEF Abort
<1>6. QED
    BY <1>2, <1>3, <1>4, <1>5

\* The cached value is gone.
LEMMA CacheExpiresStep ==
    ASSUME CacheInv, CacheExpires
    PROVE  CacheInv'
<1>1. NoCache \in Cache /\ NoCache.filled = FALSE
    BY DEF NoCache, Cache
<1>2. cache' = NoCache /\ UNCHANGED <<redis, flag, expired, toggles, req>>
    BY DEF CacheExpires
<1>3. QED
    BY <1>1, <1>2 DEF CacheInv, TypeOK, FillOK, CacheOK, Fresh, Enabled, Toggling

\* A licence that expires leaves both sides of the comparison.
LEMMA LicenceExpiresStep ==
    ASSUME CacheInv, NEW c \in Code, LicenceExpires(c)
    PROVE  CacheInv'
<1>1. expired' = expired \cup {c} /\ UNCHANGED <<redis, flag, cache, toggles, req>>
    BY DEF LicenceExpires
<1>2. \A codes : Fresh(codes) => Fresh(codes)'
    BY <1>1 DEF Fresh, Enabled
<1>3. TypeOK'
    BY <1>1 DEF CacheInv, TypeOK
<1>4. FillOK' /\ CacheOK'
    BY <1>1, <1>2 DEF CacheInv, FillOK, CacheOK, Toggling
<1>5. QED
    BY <1>3, <1>4 DEF CacheInv

\* A toggle that begins marks the values that are about to be cached.
LEMMA SetReadStep ==
    ASSUME CacheInv, NEW r \in Req, NEW c \in Code, NEW wanted \in {"off", "on"},
           SetRead(r, c, wanted)
    PROVE  CacheInv'
<1>1. /\ req \in [Req -> Request] /\ flag \in [Code -> Flag]
      /\ toggles \in 0 .. MaxToggle /\ toggles < MaxToggle /\ toggles' = toggles + 1
      /\ UNCHANGED <<redis, flag, expired, cache>>
    BY DEF CacheInv, TypeOK, SetRead
<1>2. PICK new : new = [pc |-> "flush", codes |-> {}, raced |-> FALSE, code |-> c,
                        loaded |-> flag[c], wanted |-> wanted]
    OBVIOUS
<1>3. new \in Request /\ new.pc = "flush"
    BY <1>1, <1>2 DEF Request
<1>4. /\ req' \in [Req -> Request] /\ req'[r] = new
      /\ \A o \in Req \ {r} : /\ req'[o].pc = req[o].pc
                              /\ req'[o].pc = "fill" => req'[o].raced = TRUE
  <2>1. \A o \in Req \ {r} : req'[o] = [req[o] EXCEPT !.raced = @ \/ req[o].pc = "fill"]
      BY DEF SetRead
  <2>2. req'[r] = new /\ DOMAIN req' = Req /\ req' = [o \in Req |-> req'[o]]
      BY <1>2 DEF SetRead
  <2>3. ASSUME NEW o \in Req \ {r}
        PROVE  /\ req'[o] \in Request /\ req'[o].pc = req[o].pc
               /\ req'[o].pc = "fill" => req'[o].raced = TRUE
    <3>1. PICK b \in BOOLEAN : b = (req[o].raced \/ req[o].pc = "fill")
        OBVIOUS
    <3>2. req[o] \in Request /\ req'[o] = [req[o] EXCEPT !.raced = b]
        BY <1>1, <2>1, <3>1
    <3>3. req'[o] \in Request /\ req'[o].pc = req[o].pc /\ req'[o].raced = b
        BY <3>2 DEF Request
    <3>4. QED
        BY <3>1, <3>3
  <2>4. \A o \in Req : req'[o] \in Request
      BY <1>3, <2>2, <2>3
  <2>5. req' \in [Req -> Request]
      BY <2>2, <2>4
  <2>6. QED
      BY <2>2, <2>3, <2>5
<1>5. \A codes : Fresh(codes) <=> Fresh(codes)'
    BY <1>1 DEF Fresh, Enabled
<1>6. TypeOK'
    BY LicensingAssumption, <1>1, <1>4 DEF CacheInv, TypeOK
<1>7. FillOK'
    BY <1>3, <1>4 DEF FillOK
<1>8. CacheOK'
    BY <1>1, <1>3, <1>4, <1>5 DEF CacheInv, CacheOK
<1>9. QED
    BY <1>6, <1>7, <1>8 DEF CacheInv

LEMMA SetFlushSteps ==
    ASSUME CacheInv, NEW r \in Req, SetFlush(r) \/ Invalidate(r)
    PROVE  CacheInv'
<1>0. Idle \in Request /\ Idle.pc = "idle"
    BY GuardIdleOK
<1>1. req \in [Req -> Request] /\ req[r] \in Request
    BY DEF CacheInv, TypeOK
<1>2. CASE SetFlush(r)
  <2>1. PICK q : q = [req[r] EXCEPT !.pc = "invalidate"]
      OBVIOUS
  <2>2. q \in Request /\ q.pc = "invalidate"
      BY <1>1, <2>1 DEF Request
  <2>3. CASE req' = [req EXCEPT ![r] = q]
      BY <1>2, <2>2, <2>3, LocalStep DEF SetFlush
  <2>4. CASE req' = [req EXCEPT ![r] = Idle]
      BY <1>2, <2>4, <1>0, LocalStep DEF SetFlush
  <2>5. QED
      BY <1>1, <1>2, <2>1, <2>3, <2>4 DEF SetFlush
<1>3. CASE Invalidate(r)
  <2>1. PICK q : q = [req[r] EXCEPT !.pc = "commit"]
      OBVIOUS
  <2>2. q \in Request /\ q.pc = "commit"
      BY <1>1, <2>1 DEF Request
  <2>3. req' = [req EXCEPT ![r] = q]
      BY <1>1, <1>3, <2>1 DEF Invalidate
  <2>4. QED
      BY <1>3, <2>2, <2>3, LocalStep DEF Invalidate
<1>4. QED
    BY <1>2, <1>3

\* A toggle commits: nothing fresh is cached or about to be.
LEMMA CommitStep ==
    ASSUME CacheInv, NEW r \in Req, Commit(r)
    PROVE  CacheInv'
<1>0. Idle \in Request /\ Idle.pc = "idle"
    BY GuardIdleOK
<1>1. /\ req \in [Req -> Request] /\ req[r] \in Request /\ flag \in [Code -> Flag]
      /\ req[r].pc = "commit" /\ req' = [req EXCEPT ![r] = Idle]
      /\ UNCHANGED <<redis, expired, cache, toggles>>
    BY DEF CacheInv, TypeOK, Commit
<1>2. req' \in [Req -> Request] /\ req'[r] = Idle /\ \A o \in Req \ {r} : req'[o] = req[o]
    BY <1>1, <1>0
<1>3. flag' \in [Code -> Flag]
    BY <1>1 DEF Commit, Request, Flag
<1>4. Toggling
    BY <1>1 DEF Toggling
<1>5. FillOK'
    BY <1>2, <1>4, <1>0 DEF CacheInv, FillOK
<1>6. CacheOK'
    BY <1>1 DEF CacheInv, CacheOK
<1>7. QED
    BY <1>1, <1>2, <1>3, <1>5, <1>6 DEF CacheInv, TypeOK

LEMMA CacheNextInv == CacheInv /\ [Next]_vars => CacheInv'
<1> SUFFICES ASSUME CacheInv, [Next]_vars PROVE CacheInv'
    OBVIOUS
<1>1. ASSUME NEW r \in Req, Miss(r) \/ Compute(r) \/ Fill(r) \/ Abort(r) PROVE CacheInv'
    BY <1>1, GuardSteps
<1>2. CASE CacheExpires
    BY <1>2, CacheExpiresStep
<1>3. ASSUME NEW c \in Code, LicenceExpires(c) PROVE CacheInv'
    BY <1>3, LicenceExpiresStep
<1>4. ASSUME NEW r \in Req, NEW c \in Code, NEW wanted \in {"off", "on"},
             SetRead(r, c, wanted)
      PROVE  CacheInv'
    BY <1>4, SetReadStep
<1>5. ASSUME NEW r \in Req, SetFlush(r) \/ Invalidate(r) PROVE CacheInv'
    BY <1>5, SetFlushSteps
<1>6. ASSUME NEW r \in Req, Commit(r) PROVE CacheInv'
    BY <1>6, CommitStep
<1>7. CASE UNCHANGED vars
    BY <1>7 DEF vars, CacheInv, TypeOK, FillOK, CacheOK, Fresh, Enabled, Toggling
<1>8. QED
    BY <1>1, <1>2, <1>3, <1>4, <1>5, <1>6, <1>7 DEF Next

\* The inductive invariant holds throughout.
THEOREM CacheInvariance == Spec => []CacheInv
    BY CacheInitInv, CacheNextInv, PTL DEF Spec

\* Flags, cache and requests keep their types through every interleaving of guards,
\* toggles and expiries.
THEOREM LicensingTypeCorrect == Spec => []TypeOK
<1>1. CacheInv => TypeOK
    BY DEF CacheInv
<1>2. QED
    BY <1>1, CacheInvariance, PTL

\* Whatever a guard caches without overlapping a toggle is what _compute_enabled
\* would return, for any number of modules, requests and toggles
\* (licensing/service.py:41-43, 117-118).
THEOREM CacheFresh == Spec => []FreshUnlessRaced
<1>1. CacheInv => FreshUnlessRaced
    BY DEF CacheInv, TypeOK, Cache, CacheOK, Fresh, FreshUnlessRaced
<1>2. QED
    BY <1>1, CacheInvariance, PTL
=============================================================================

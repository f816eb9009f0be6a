----------------------------- MODULE RateLimiter -----------------------------
(***************************************************************************)
(* RateLimiter (app/core/middleware/rate_limit.py): one route and identity,*)
(* that is, one Redis key, used by concurrent requests.  With the limiter  *)
(* disabled or without Redis a request passes and there is nothing to say. *)
(***************************************************************************)
EXTENDS Naturals

CONSTANTS
    Times,     \* requests a window admits (parse_rate)
    Call,      \* calls of __call__ in flight at once, one per request
    MaxCount   \* bound: highest value of the counter

ASSUME RateAssumption == Times \in Nat \ {0} /\ MaxCount \in Nat

VARIABLES
    count,   \* the key's value; 0: no such key
    ttl,     \* the key has a time to live
    call,    \* the calls
    lost     \* history: a request failed between INCR and EXPIRE

limiterVars == <<count, ttl, call, lost>>

CallState == [pc : {"idle", "expire", "decide"}, got : Nat]
NoCall == [pc |-> "idle", got |-> 0]

LimiterInit ==
    /\ count = 0
    /\ ttl = FALSE
    /\ call = [r \in Call |-> NoCall]
    /\ lost = FALSE

\* GET in place of INCR: only the first request of a window is stored.
Incr_Read(r) ==
    /\ call[r].pc = "idle" /\ count < MaxCount
    /\ count' = IF count = 0 THEN 1 ELSE count
    /\ call' = [call EXCEPT ![r] = [pc |-> IF count = 0 THEN "expire" ELSE "decide",
                                    got |-> count + 1]]
    /\ UNCHANGED <<ttl, lost>>

\* EXPIRE on the first request over the limit instead of the first hit.
Incr_LastExpires(r) ==
    /\ call[r].pc = "idle" /\ count < MaxCount
    /\ count' = count + 1
    /\ call' = [call EXCEPT ![r] = [pc |-> IF count = Times THEN "expire" ELSE "decide",
                                    got |-> count + 1]]
    /\ UNCHANGED <<ttl, lost>>

\* INCR returns the new value; the first of a window goes on to EXPIRE.
Incr(r) ==
    /\ call[r].pc = "idle" /\ count < MaxCount
    /\ count' = count + 1
    /\ call' = [call EXCEPT ![r] = [pc |-> IF count = 0 THEN "expire" ELSE "decide",
                                    got |-> count + 1]]
    /\ UNCHANGED <<ttl, lost>>

\* EXPIRE, which does nothing for a key that is gone.
Expire(r) ==
    /\ call[r].pc = "expire"
    /\ ttl' = IF count = 0 THEN ttl ELSE TRUE
    /\ call' = [call EXCEPT ![r].pc = "decide"]
    /\ UNCHANGED <<count, lost>>

\* The request is admitted if what INCR returned is within the limit, else 429.
Admitted(q) == q.got <= Times

Decide(r) ==
    /\ call[r].pc = "decide"
    /\ call' = [call EXCEPT ![r] = NoCall]
    /\ UNCHANGED <<count, ttl, lost>>

\* Redis drops the key.
KeyExpires ==
    /\ ttl
    /\ count' = 0
    /\ ttl' = FALSE
    /\ UNCHANGED <<call, lost>>

\* Redis fails, the client hangs up or the worker dies.
Fail(r) ==
    /\ call[r].pc # "idle"
    /\ lost' = (lost \/ call[r].pc = "expire")
    /\ call' = [call EXCEPT ![r] = NoCall]
    /\ UNCHANGED <<count, ttl>>

LimiterNext ==
    \/ \E r \in Call : Incr(r)
    \/ \E r \in Call : Expire(r)
    \/ \E r \in Call : Decide(r)
    \/ KeyExpires
    \/ \E r \in Call : Fail(r)

LimiterSpec == LimiterInit /\ [][LimiterNext]_limiterVars

\* A request goes on, and time passes.
LimiterFairness ==
    /\ \A r \in Call : WF_limiterVars(Expire(r) \/ Decide(r))
    /\ WF_limiterVars(KeyExpires)

-----------------------------------------------------------------------------
(* Properties                                                               *)

LimiterTypeOK ==
    /\ count \in Nat
    /\ ttl \in BOOLEAN
    /\ call \in [Call -> CallState]
    /\ lost \in BOOLEAN

\* A key that will not expire is one whose first request is about to set its time
\* to live, or failed before it could (rate_limit.py:49-51).
OrphanByFailure ==
    count > 0 /\ ~ttl => lost \/ \E r \in Call : call[r].pc = "expire"

\* The verdict on a request falls with its INCR.
Verdict == [r \in Call |-> IF call[r].pc = "idle" THEN "none"
                           ELSE IF Admitted(call[r]) THEN "admit" ELSE "reject"]

Window == INSTANCE FixedWindow WITH Req <- Call,
              used <- IF count < Times THEN count ELSE Times, verdict <- Verdict

\* The counter implements a fixed window: however the INCRs, EXPIREs and answers
\* of concurrent requests interleave, no window admits more than Times requests
\* and none is rejected while the window has room.
ImplementsWindow == Window!Spec

\* Every window ends, as rate_limit.py:48 has it ("fixed window via INCR + first-hit
\* EXPIRE"), unless a request fails between the two commands: then the key has no
\* time to live, and whoever it counts is refused for good.
WindowEndsUnlessLost == (count > 0 ~> count = 0) \/ <>lost
=============================================================================
